------------------------------ MODULE LocalLink -----------------------------
(* The serial link to the MCU (local.c) and the routing of what comes over   *)
(* it (dealPacket and the channel attributes of utilcoding.c).               *)
(*                                                                           *)
(* GAgent_LocalDataWriteP0 sends a request and then polls the line until the *)
(* request is acknowledged or given up.  What it polls is the same           *)
(* GAgent_Local_Handle the main loop calls, so a packet handled there may    *)
(* start a WriteP0 inside a WriteP0: the C stack is the variable stack, one  *)
(* frame per WriteP0 that has not returned, innermost first.                 *)
EXTENDS Naturals, Sequences

CONSTANTS
  LanApps,   \* descriptors of logged-in LAN apps
  CloudApps, \* client ids of cloud apps
  NoApp,     \* no descriptor, empty client id
  MaxSends,  \* sends of a request before it is given up (3)
  MaxPings,  \* pings without an answer before the restart (timeoutCnt > 3)
  SnMod,     \* sequence numbers: 256 in the code
  Kinds,     \* packets the MCU sends of its own accord
  MaxLine,   \* bound of the model: packets of the MCU not handled yet
  MaxDepth   \* bound of the model: nested calls of WriteP0

ASSUME AppAssumption == /\ LanApps \cap CloudApps = {} /\ NoApp \notin LanApps \cup CloudApps
                        /\ "all" \notin LanApps \cup CloudApps  \* everyone, no app
ASSUME BoundAssumption == /\ MaxSends \in Nat \ {0} /\ MaxPings \in Nat
                          /\ SnMod \in Nat \ {0}
                          /\ MaxLine \in Nat /\ MaxDepth \in Nat
ASSUME KindAssumption ==
  Kinds \subseteq {"report", "need_upgrade", "bigdata", "stop_send", "query_info"}

\* Commands sent with WriteP0: ctrl MCU_CTRL_CMD, ping WIFI_PING2MCU and
\* WIFI_STATUS2MCU, ready MCU_READY_RECV_FIRMWARE, stop MCU_STOP_RECV_BIGDATA.
Commands == {"ctrl", "ping", "ready", "stop"}
Apps == LanApps \cup CloudApps
Sns == 0 .. SnMod - 1

\* A request frame.  app is the app whose control it carries; the frame itself
\* does not hold it, it is there to state who an acknowledgement is for.
Frames == [cmd : Commands, sn : Sns, app : Apps \cup {NoApp}]
NoFrame == [cmd |-> "none", sn |-> 0, app |-> NoApp]

VARIABLES
  stack,      \* the WriteP0 calls that have not returned
  isBusy,     \* mcu.isBusy
  TxbufInfo,  \* mcu.TxbufInfo: the last request sent, never cleared
  txbuf,      \* the frame in rtinfo.Txbuf, NoFrame when it holds anything else
  sn,         \* the sequence number GAgent_NewSN gives next
  line,       \* what the MCU has sent or will send next, in its order
  rxType,     \* CLOUD_DATA_OUT and LAN_TCP_DATA_OUT of Rxbuf->type
  srcLan,     \* ls.srcAttrs: the LAN app whose control is being served
  srcCloud,   \* waninfo.srcAttrs, likewise, with the command (0x93 or 0x90)
  chLan,      \* stChannelAttrs.lanClient: who a packet goes to
  chCloud,    \* stChannelAttrs.cloudClient
  using,      \* file.using: a transfer from the MCU is open
  readyFlag,  \* local_send_ready_signal_flag
  timeoutCnt, \* local.timeoutCnt
  out         \* history: what the last step gave to the LAN and cloud senders

linkVars == <<stack, isBusy, TxbufInfo, txbuf, sn, line>>
routeVars == <<rxType, srcLan, srcCloud, chLan, chCloud>>
fileVars == <<using, readyFlag>>
vars == <<linkVars, routeVars, fileVars, timeoutCnt, out>>

NoSource == [app |-> NoApp, cmd |-> 0]
CloudSources == [app : CloudApps, cmd : {144, 147}]  \* 0x90 and 0x93

Init == /\ stack = <<>> /\ isBusy = FALSE
        /\ TxbufInfo = NoFrame /\ txbuf = NoFrame /\ sn = 0 /\ line = <<>>
        /\ rxType = {}
        /\ srcLan = NoApp /\ srcCloud = NoSource
        /\ chLan = NoApp /\ chCloud = NoApp
        /\ using = FALSE /\ readyFlag = FALSE
        /\ timeoutCnt = 0 /\ out = {}

-----------------------------------------------------------------------------
(* Sending *)

\* Fault: the number is not kept to one byte.
NewSNWide(n) == n + 1

NewSN(n) == (n + 1) % SnMod

\* The MCU acknowledges a request it gets, or the request or its
\* acknowledgement is lost.  Nothing it has a case for answers a stop, and a
\* buffer that holds no request is answered by nothing.
Acknowledged(f) == f.cmd \in {"ctrl", "ping", "ready"}
Ack(f) == [kind |-> "ack", frame |-> f]
Transmit(f, l) == {l} \cup IF Acknowledged(f) /\ Len(l) < MaxLine THEN {Append(l, Ack(f))} ELSE {}

\* A number comes round again after 256 requests.  By then no call that used it
\* waits, and an answer to its last use is no longer on its way.
Fresh(n, st) == \A i \in 1 .. Len(st) : st[i].frame.sn # n
Recent(n, l) ==
  LET kept[i \in 0 .. Len(l)] ==
        IF i = 0 THEN <<>>
        ELSE IF l[i].kind = "ack" /\ l[i].frame.sn = n THEN kept[i - 1]
        ELSE Append(kept[i - 1], l[i])
  IN kept[Len(l)]

\* GAgent_LocalDataWriteP0 up to its polling loop; l is the line left over and
\* st the callers that wait, cont what the caller does afterwards.
Write(cmd, app, cont, l, st) ==
  LET f == [cmd |-> cmd, sn |-> sn, app |-> app]
  IN /\ Len(st) < MaxDepth /\ Fresh(sn, st)
     /\ sn' = NewSN(sn)
     /\ TxbufInfo' = f /\ txbuf' = f
     /\ line' \in Transmit(f, Recent(sn, l))
     /\ isBusy' = TRUE
     /\ stack' = <<[frame |-> f, sends |-> 1, acked |-> FALSE, cont |-> cont]>> \o st

\* Fault: a resend does not count.
ResendUncounted ==
  /\ stack # <<>> /\ isBusy /\ Head(stack).sends < MaxSends
  /\ line' \in Transmit(txbuf, line)
  /\ out' = {}
  /\ UNCHANGED <<stack, isBusy, TxbufInfo, txbuf, sn, routeVars, fileVars, timeoutCnt>>

\* Fault: one send too many.
ResendOnceMore ==
  /\ stack # <<>> /\ isBusy /\ Head(stack).sends <= MaxSends
  /\ stack' = [stack EXCEPT ![1].sends = @ + 1]
  /\ line' \in Transmit(txbuf, line)
  /\ out' = {}
  /\ UNCHANGED <<isBusy, TxbufInfo, txbuf, sn, routeVars, fileVars, timeoutCnt>>

\* No acknowledgement in MCU_ACK_TIME_MS: whatever Txbuf holds is sent again.
Resend ==
  /\ stack # <<>> /\ isBusy /\ Head(stack).sends < MaxSends
  /\ stack' = [stack EXCEPT ![1].sends = @ + 1]
  /\ line' \in Transmit(txbuf, line)
  /\ out' = {}
  /\ UNCHANGED <<isBusy, TxbufInfo, txbuf, sn, routeVars, fileVars, timeoutCnt>>

-----------------------------------------------------------------------------
(* Routing *)

ToLan(app, what) == [via |-> "lan", app |-> app, what |-> what]
ToCloud(app, what) == [via |-> "cloud", app |-> app, what |-> what]

\* The LAN sender ignores cleared attributes; the cloud sender publishes (the
\* session with the broker is taken to be up: dealPacket asks CLOUD_CONNECTED).
LanOut(ch, what) == IF ch = NoApp THEN {} ELSE {ToLan(ch, what)}
CloudOut(ch, what) == {ToCloud(ch, what)}

\* setChannelAttrs for a broadcast, ParsePacket, and dealPacket.
Report ==
  /\ chLan' = "all" /\ chCloud' = "all"
  /\ rxType' = {}
  /\ out' = {ToLan("all", NoFrame), ToCloud("all", NoFrame)}
  /\ UNCHANGED <<srcLan, srcCloud>>

\* The acknowledgement of a control goes back to the app that sent it; without
\* a source it goes both ways, wherever the attributes still point.  A cloud
\* app that used 0x90 is answered with 0x91 on the topic all apps share.
Answer(f) ==
  /\ rxType' = {}
  /\ \/ /\ srcLan # NoApp
        /\ chLan' = srcLan /\ srcLan' = NoApp
        /\ out' = LanOut(srcLan, f)
        /\ UNCHANGED <<srcCloud, chCloud>>
     \/ /\ srcLan = NoApp /\ srcCloud # NoSource
        /\ chCloud' = IF srcCloud.cmd = 147 THEN srcCloud.app ELSE "all"
        /\ srcCloud' = NoSource
        /\ out' = CloudOut(chCloud', f)
        /\ UNCHANGED <<srcLan, chLan>>
     \/ /\ srcLan = NoApp /\ srcCloud = NoSource
        /\ out' = LanOut(chLan, f) \cup CloudOut(chCloud, f)
        /\ UNCHANGED <<srcLan, srcCloud, chLan, chCloud>>

\* dealPacket after a control: the flags of Rxbuf as they are by now.
Leftover == (IF "lan" \in rxType THEN LanOut(chLan, NoFrame) ELSE {})
            \cup (IF "cloud" \in rxType THEN CloudOut(chCloud, NoFrame) ELSE {})

-----------------------------------------------------------------------------
(* Packets from the MCU: GAgent_LocalDataHandle, from the main loop or from  *)
(* the polling loop of a WriteP0.  Any valid packet clears timeoutCnt.       *)

Arrived(kind) == line # <<>> /\ Head(line).kind = kind /\ timeoutCnt' = 0

\* Fault: any acknowledgement of the command will do.
CheckAckByCommand(f) == TxbufInfo.cmd = f.cmd

\* Local_CheckAck
CheckAck(f) == TxbufInfo.cmd = f.cmd /\ TxbufInfo.sn = f.sn

\* The frame on the stack remembers whether its own acknowledgement came; the
\* code has no such record.
Checked(f) ==
  /\ isBusy' = (isBusy /\ ~CheckAck(f))
  /\ stack' = IF CheckAck(f) /\ stack # <<>> /\ Head(stack).frame = f
              THEN [stack EXCEPT ![1].acked = TRUE] ELSE stack

\* What is left alone by a handler that sends nothing.
Consumed == UNCHANGED <<TxbufInfo, sn>> /\ line' = Tail(line)
Silent == Consumed /\ UNCHANGED stack

HandleReport ==
  /\ Arrived("report")
  /\ IF using THEN out' = {} /\ UNCHANGED routeVars ELSE Report
  /\ Silent /\ UNCHANGED <<isBusy, txbuf, fileVars>>

HandleCtrlAck ==
  /\ Arrived("ack") /\ Head(line).frame.cmd = "ctrl"
  /\ LET f == Head(line).frame
     IN /\ Checked(f)
        /\ IF CheckAck(f) /\ ~using THEN Answer(f) ELSE out' = {} /\ UNCHANGED routeVars
  /\ Consumed /\ UNCHANGED <<txbuf, fileVars>>

HandlePlainAck ==
  /\ Arrived("ack") /\ Head(line).frame.cmd = "ping"
  /\ Checked(Head(line).frame)
  /\ out' = {}
  /\ Consumed /\ UNCHANGED <<txbuf, routeVars, fileVars>>

\* The transfer opens whether or not the acknowledgement is the awaited one.
HandleReadyAck ==
  /\ Arrived("ack") /\ Head(line).frame.cmd = "ready"
  /\ Checked(Head(line).frame)
  /\ using' = TRUE
  /\ out' = {}
  /\ Consumed /\ UNCHANGED <<txbuf, routeVars, readyFlag>>

\* ParsePacket sets the flags and nothing consumes them.
HandleNeedUpgrade ==
  /\ Arrived("need_upgrade")
  /\ rxType' = {"cloud", "lan"}
  /\ readyFlag' = TRUE
  /\ out' = {}
  /\ Silent /\ UNCHANGED <<isBusy, txbuf, srcLan, srcCloud, chLan, chCloud, using>>

HandleStopSend ==
  /\ Arrived("stop_send")
  /\ using' = FALSE
  /\ out' = {}
  /\ Silent /\ UNCHANGED <<isBusy, txbuf, routeVars, readyFlag>>

\* The answer is built in Txbuf, under a request that may still be waiting.
HandleQueryInfo ==
  /\ Arrived("query_info")
  /\ txbuf' = NoFrame
  /\ out' = {}
  /\ Silent /\ UNCHANGED <<isBusy, routeVars, fileVars>>

\* A piece was pushed to the cloud: the flags stay set, except that the first
\* piece's send takes CLOUD_DATA_OUT with it; the last piece closes the file.
PieceSynced ==
  /\ rxType' \in {{"lan"}, {"cloud", "lan"}}
  /\ using' \in {using, FALSE}

\* syncfile failed: the transfer is closed and the MCU told to stop, which
\* WriteP0 refuses while a request is waiting.
PieceFailed(l, st, busy) ==
  /\ rxType' \in {{"lan"}, {"cloud", "lan"}}
  /\ using' = FALSE
  /\ IF busy
     THEN txbuf' = NoFrame /\ line' = l /\ UNCHANGED <<stack, isBusy, TxbufInfo, sn>>
     ELSE Write("stop", NoApp, "piece", l, st)

\* A piece outside a transfer: the request being waited for is dropped, and a
\* stop is sent and waited for in its place.
HandleStrayPiece ==
  /\ Arrived("bigdata") /\ ~using
  /\ Write("stop", NoApp, "stray", Tail(line), stack)
  /\ out' = {}
  /\ UNCHANGED <<routeVars, fileVars>>

HandlePiece ==
  /\ Arrived("bigdata") /\ using
  /\ chLan' = "all" /\ chCloud' = "all"
  /\ \/ PieceSynced /\ Silent /\ UNCHANGED <<isBusy, txbuf>>
     \/ PieceFailed(Tail(line), stack, isBusy)
  /\ out' = {}
  /\ UNCHANGED <<srcLan, srcCloud, readyFlag>>

HandlePacket == \/ HandleReport \/ HandleCtrlAck \/ HandlePlainAck \/ HandleReadyAck
                \/ HandleNeedUpgrade \/ HandleStopSend \/ HandleQueryInfo
                \/ HandleStrayPiece \/ HandlePiece

-----------------------------------------------------------------------------
(* WriteP0 returns, and its caller goes on.  ok: isBusy was found clear.     *)

\* GAgent_Lan_Handle and GAgent_Cloud_Handle after dealPacket.
LanDone == srcLan' = NoApp /\ chLan' = NoApp /\ chCloud' = NoApp /\ UNCHANGED srcCloud
CloudDone == srcCloud' = NoSource /\ chLan' = NoApp /\ chCloud' = NoApp /\ UNCHANGED srcLan

Popped == /\ stack' = Tail(stack) /\ isBusy' = FALSE /\ txbuf' = NoFrame
          /\ UNCHANGED <<TxbufInfo, sn, line>>

Continue(ok) ==
  LET cont == Head(stack).cont
  IN \/ /\ cont = "tick"
        /\ Popped /\ out' = {} /\ UNCHANGED <<routeVars, fileVars>>
     \/ /\ cont = "ready"
        /\ Popped /\ out' = {}
        /\ using' = (using /\ ok)
        /\ UNCHANGED <<routeVars, readyFlag>>
     \/ /\ cont \in {"lan", "cloud"}
        /\ Popped /\ out' = Leftover /\ rxType' = {}
        /\ IF cont = "lan" THEN LanDone ELSE CloudDone
        /\ UNCHANGED fileVars
     \/ /\ cont = "piece"
        /\ Popped /\ out' = {}
        /\ using' \in {using, FALSE}
        /\ UNCHANGED <<routeVars, readyFlag>>
     \/ /\ cont = "stray"
        /\ chLan' = "all" /\ chCloud' = "all" /\ out' = {}
        /\ \/ PieceSynced /\ Popped
           \/ PieceFailed(line, Tail(stack), FALSE)
        /\ UNCHANGED <<srcLan, srcCloud, readyFlag>>

ReturnOk == stack # <<>> /\ ~isBusy /\ Continue(TRUE) /\ UNCHANGED timeoutCnt

GiveUp == /\ stack # <<>> /\ isBusy /\ Head(stack).sends = MaxSends
          /\ Continue(FALSE) /\ UNCHANGED timeoutCnt

-----------------------------------------------------------------------------
(* The main loop, between two calls of GAgent_Local_Handle *)

Idle == stack = <<>>

\* Lan_dispatchTCPData: a control of a LAN app; ParsePacket and dealPacket.
LanControl(a) ==
  /\ Idle
  /\ srcLan' = a
  /\ Write("ctrl", a, "lan", line, stack)
  /\ out' = {}
  /\ UNCHANGED <<rxType, srcCloud, chLan, chCloud, fileVars, timeoutCnt>>

\* Mqtt_DispatchPublishPacket: a control of a cloud app.
CloudControl(s) ==
  /\ Idle
  /\ srcCloud' = s
  /\ Write("ctrl", s.app, "cloud", line, stack)
  /\ out' = {}
  /\ UNCHANGED <<rxType, srcLan, chLan, chCloud, fileVars, timeoutCnt>>

\* GAgent_LocalSendGAgentstatus
SendStatus ==
  /\ Idle
  /\ Write("ping", NoApp, "tick", line, stack)
  /\ out' = {}
  /\ UNCHANGED <<routeVars, fileVars, timeoutCnt>>

\* Fault: the pings are not counted.
PingUncounted ==
  /\ Idle /\ timeoutCnt <= MaxPings
  /\ Write("ping", NoApp, "tick", line, stack)
  /\ out' = {}
  /\ UNCHANGED <<routeVars, fileVars, timeoutCnt>>

\* GAgent_LocalTick, every MCU_HEARTBEAT seconds.
Ping ==
  /\ Idle /\ timeoutCnt <= MaxPings
  /\ timeoutCnt' = timeoutCnt + 1
  /\ Write("ping", NoApp, "tick", line, stack)
  /\ out' = {}
  /\ UNCHANGED <<routeVars, fileVars>>

\* GAgent_DevReset: the module starts again, the MCU does not.
DevReset ==
  /\ Idle /\ timeoutCnt > MaxPings
  /\ stack' = <<>> /\ isBusy' = FALSE /\ TxbufInfo' = NoFrame /\ txbuf' = NoFrame
  /\ sn' = 0 /\ line' = <<>>
  /\ rxType' = {} /\ srcLan' = NoApp /\ srcCloud' = NoSource
  /\ chLan' = NoApp /\ chCloud' = NoApp
  /\ using' = FALSE /\ readyFlag' = FALSE /\ timeoutCnt' = 0 /\ out' = {}

\* GAgent_BigDataTick: the two halves never act in the same call, because the
\* first one leaves either no transfer or a fresh lastrecv.
SendReady ==
  /\ Idle /\ readyFlag /\ readyFlag' = FALSE
  /\ Write("ready", NoApp, "ready", line, stack)
  /\ out' = {}
  /\ UNCHANGED <<routeVars, using, timeoutCnt>>

TransferTimeout ==
  /\ Idle /\ using /\ ~readyFlag /\ using' = FALSE
  /\ Write("stop", NoApp, "tick", line, stack)
  /\ out' = {}
  /\ UNCHANGED <<routeVars, readyFlag, timeoutCnt>>

\* The MCU sends a packet of its own accord.
McuSend(k) ==
  /\ Len(line) < MaxLine
  /\ line' = Append(line, [kind |-> k, frame |-> NoFrame])
  /\ out' = {}
  /\ UNCHANGED <<stack, isBusy, TxbufInfo, txbuf, sn, routeVars, fileVars, timeoutCnt>>

-----------------------------------------------------------------------------
Controls == \/ \E a \in LanApps : LanControl(a)
            \/ \E s \in CloudSources : CloudControl(s)

Ticks == SendStatus \/ Ping \/ DevReset \/ SendReady \/ TransferTimeout

Next == \/ HandlePacket \/ Resend \/ ReturnOk \/ GiveUp
        \/ Controls \/ Ticks
        \/ \E k \in Kinds : McuSend(k)

Spec == Init /\ [][Next]_vars

\* The polling loop polls the line and the clock; the main loop comes to
\* GAgent_LocalTick at every turn, whatever the apps send.
Fairness == /\ WF_vars(HandlePacket)
            /\ WF_vars(Resend \/ GiveUp)
            /\ WF_vars(ReturnOk)
            /\ SF_vars(Ping \/ DevReset)

FairSpec == Spec /\ Fairness

-----------------------------------------------------------------------------
(* Properties *)

Calls == [frame : Frames, sends : 1 .. MaxSends, acked : BOOLEAN,
          cont : {"tick", "ready", "lan", "cloud", "piece", "stray"}]
Packets == [kind : Kinds, frame : {NoFrame}] \cup [kind : {"ack"}, frame : Frames]
Messages == [via : {"lan", "cloud"}, app : Apps \cup {NoApp, "all"},
             what : Frames \cup {NoFrame}]

TypeOK ==
  /\ stack \in Seq(Calls) /\ isBusy \in BOOLEAN
  /\ TxbufInfo \in Frames \cup {NoFrame} /\ txbuf \in Frames \cup {NoFrame}
  /\ sn \in Sns /\ line \in Seq(Packets)
  /\ rxType \in SUBSET {"cloud", "lan"}
  /\ srcLan \in LanApps \cup {NoApp} /\ srcCloud \in CloudSources \cup {NoSource}
  /\ chLan \in LanApps \cup {NoApp, "all"} /\ chCloud \in CloudApps \cup {NoApp, "all"}
  /\ using \in BOOLEAN /\ readyFlag \in BOOLEAN
  /\ timeoutCnt \in 0 .. MaxPings + 1
  /\ out \in SUBSET Messages

\* isBusy is never left behind: it is set only while a WriteP0 waits, and the
\* one that waits innermost is the one TxbufInfo describes.  It is clear under a
\* call that waits for one of two reasons only: the call's own request was
\* acknowledged, or a stop was sent from inside its polling loop, by a piece
\* handled there, took the link from it, and is over.  The call then reports
\* success, acknowledged or not; nothing else makes it do so, no acknowledgement
\* of another request and no other call nested in it.
BusyMatchesCall ==
  /\ isBusy => stack # <<>> /\ TxbufInfo = Head(stack).frame
  /\ stack # <<>> /\ ~isBusy => \/ Head(stack).acked
                                \/ TxbufInfo.cmd = "stop" /\ TxbufInfo # Head(stack).frame

\* A packet addressed to one app answers a control of that app: no late or
\* repeated acknowledgement, on either transport, reaches another app.
ReplyToRequester ==
  \A m \in out : m.app \in Apps /\ m.what # NoFrame => m.what.app = m.app

\* The link to the MCU is a stop-and-wait link: TxbufInfo and isBusy, with the
\* resends of the innermost call, behave as StopAndWait says.
Link == INSTANCE StopAndWait WITH
          Stop <- "stop",
          request <- IF isBusy THEN {[cmd |-> TxbufInfo.cmd, sn |-> TxbufInfo.sn]} ELSE {},
          sends <- IF isBusy THEN Head(stack).sends ELSE 0

ImplementsStopAndWait == Link!Spec

\* The main loop always gets the processor back, unless the MCU goes on pushing
\* pieces of a file.
MainLoopComesBack == []<>Idle \/ []<><<McuSend("bigdata")>>_vars

\* A module whose MCU has gone mute restarts instead of waiting for ever.
MuteMcuRestarts == []<><<HandlePacket>>_vars \/ []<><<DevReset>>_vars

=============================================================================
