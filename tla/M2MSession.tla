------------------------------ MODULE M2MSession -----------------------------
(* The module's session with the M2M server: the MQTT login of cloud.c, the  *)
(* heartbeat, and the three places that know about the session and must      *)
(* agree: mqttstatus, the HAL's status word and GAgentStatus, which          *)
(* GAgent_WiFiEventTick copies from the HAL and reports to the MCU.          *)
(* Time is left out: a time-out may come whenever its timer runs.            *)
EXTENDS Naturals, Sequences

CONSTANTS
  Modes,      \* combinations of the AP, STATION and ONBOARDING bits that occur
  MaxBackoff, \* waits of ReConnectMqttTime before the restart
  MaxPing,    \* cloudPingTime at which the next heartbeat gives up (3)
  IdMod,      \* MQTT message ids, 256 in what mqtt_parse_msg_id returns
  MaxSent,    \* bound of the model: a broker with that many requests unread
              \* reads no more of this connection
  MaxInbox    \* bound of the model: packets of the broker not read

ASSUME ModeAssumption == Modes \subseteq SUBSET {"ap", "sta", "onboarding"}
ASSUME BoundAssumption == /\ MaxBackoff \in Nat \ {0, 1} /\ MaxPing \in Nat
                          /\ MaxSent \in Nat \ {0} /\ MaxInbox \in Nat
                          /\ IdMod \in Nat /\ IdMod > MaxSent + MaxInbox

Topics == {"topic1", "topic2", "topic3"}
Ids == 0 .. IdMod - 1

VARIABLES
  sta, cloud, mode,          \* bits of GAgentStatus
  halSta, halCloud, halMode, \* the same bits of the HAL
  mqttstatus,  \* "idle" is the 0 it starts with; a topic: its SUBACK is awaited
  backoff,     \* ReConnectMqttTime: 0 s, 5 s, 15 s, ... by index
  ping,        \* cloudPingTime
  ip,          \* m2m_ip is known
  configOk,    \* CloudStatus = CLOUD_CONFIG_OK
  conn,        \* the TCP connection m2m_socketid stands for
  sent,        \* requests the broker has not read
  inbox,       \* packets the module has not read
  seq, subId,  \* the broker handle's next message id, mqttMsgsubid
  granted      \* history: topics the broker granted on this connection

halVars == <<halSta, halCloud, halMode>>
statusVars == <<sta, cloud, mode>>
sockVars == <<conn, sent, inbox, granted>>
idVars == <<seq, subId>>
vars == <<statusVars, halVars, mqttstatus, backoff, ping, ip, configOk, sockVars, idVars>>

Connect == [type |-> "CONNECT", topic |-> "none", id |-> 0]
Ping == [type |-> "PINGREQ", topic |-> "none", id |-> 0]
Sub(t, id) == [type |-> "SUBSCRIBE", topic |-> t, id |-> id]
Reply(type, id) == [type |-> type, id |-> id]

\* After power-on or GAgent_DevReset; m2m_ip is kept in flash.
Fresh == /\ sta' = FALSE /\ cloud' = FALSE /\ mode' = {}
         /\ halSta' = FALSE /\ halCloud' = FALSE /\ halMode' \in Modes
         /\ mqttstatus' = "idle" /\ backoff' = 1 /\ ping' = 0 /\ configOk' = FALSE
         /\ conn' = "none" /\ sent' = <<>> /\ inbox' = <<>> /\ granted' = {}
         /\ seq' = 0 /\ subId' = 0
         /\ UNCHANGED ip

Init == /\ sta = FALSE /\ cloud = FALSE /\ mode = {}
        /\ halSta = FALSE /\ halCloud = FALSE /\ halMode \in Modes
        /\ mqttstatus = "idle" /\ backoff = 1 /\ ping = 0 /\ configOk = FALSE
        /\ conn = "none" /\ sent = <<>> /\ inbox = <<>> /\ granted = {}
        /\ seq = 0 /\ subId = 0
        /\ ip \in BOOLEAN

-----------------------------------------------------------------------------
(* Requests *)

\* A request is lost on a connection the peer closed or reads no more.
Send(r) ==
  IF conn # "open" THEN UNCHANGED <<conn, sent>>
  ELSE IF Len(sent) < MaxSent THEN sent' = Append(sent, r) /\ UNCHANGED conn
  ELSE conn' = "mute" /\ sent' = <<>>

\* Cloud_ReqConnect: the old socket is closed, and a new one may not come about
\* (connect() fails, or there is no device id to log in with yet).
ReqConnect ==
  /\ inbox' = <<>> /\ granted' = {}
  /\ \/ conn' = "open" /\ sent' = <<Connect>> /\ seq' = 1
     \/ conn' = "none" /\ sent' = <<>> /\ UNCHANGED seq
  /\ UNCHANGED subId

\* Cloud_ReqSubTopic; rest is what the module has not read yet.
ReqSubTopic(t, rest) ==
  /\ subId' = seq /\ seq' = (seq + 1) % IdMod
  /\ Send(Sub(t, seq)) /\ inbox' = rest
  /\ UNCHANGED granted

Quiet(rest) == inbox' = rest /\ UNCHANGED <<conn, sent, granted, idVars>>

-----------------------------------------------------------------------------
(* Cloud_M2MDataHandle, once per turn of the main loop *)

Polled == sta /\ ip

\* MQTT_STATUS_START, after ReConnectMqttTime; too many in a row and the module
\* restarts.
Waited(n) == IF n = 0 THEN 1 ELSE n + 1

Login ==
  /\ Polled /\ mqttstatus = "start" /\ Waited(backoff) <= MaxBackoff
  /\ ReqConnect
  /\ mqttstatus' = "login" /\ backoff' = Waited(backoff)
  /\ UNCHANGED <<statusVars, halVars, ping, ip, configOk>>

Pending == mqttstatus \in {"login"} \cup Topics

\* Where the awaited answer leads.
After == [login |-> "topic1", topic1 |-> "topic2", topic2 |-> "topic3", topic3 |-> "running"]

\* What is asked again when the answer does not come.
Again(rest) == IF mqttstatus = "login" THEN ReqConnect ELSE ReqSubTopic(mqttstatus, rest)

Silence == inbox = <<>> /\ conn # "closed"

\* Fault: the wait grows without end.
TimeoutForever ==
  /\ Polled /\ Pending /\ Silence
  /\ Again(<<>>)
  /\ backoff' = backoff + 1
  /\ UNCHANGED <<statusVars, halVars, mqttstatus, ping, ip, configOk>>

\* Fault: the wait stays what it was.
TimeoutUncounted ==
  /\ Polled /\ Pending /\ Silence /\ backoff < MaxBackoff
  /\ Again(<<>>)
  /\ UNCHANGED <<statusVars, halVars, mqttstatus, backoff, ping, ip, configOk>>

Timeout ==
  /\ Polled /\ Pending /\ Silence /\ backoff < MaxBackoff
  /\ Again(<<>>)
  /\ backoff' = backoff + 1
  /\ UNCHANGED <<statusVars, halVars, mqttstatus, ping, ip, configOk>>

Restart ==
  /\ Polled
  /\ \/ mqttstatus = "start" /\ Waited(backoff) > MaxBackoff
     \/ Pending /\ Silence /\ backoff = MaxBackoff
  /\ Fresh

\* Fault: a session that GAgentStatus does not know of is left to the tick too.
ReadClosedForgets ==
  /\ Polled /\ mqttstatus # "start" /\ conn = "closed" /\ inbox = <<>>
  /\ conn' = "none" /\ sent' = <<>> /\ granted' = {}
  /\ halCloud' = FALSE
  /\ UNCHANGED <<statusVars, halSta, halMode, mqttstatus, backoff, ping, ip, configOk,
                 inbox, idVars>>

\* recv() finds the connection closed.  A session that GAgentStatus knows of is
\* left for GAgent_WiFiEventTick to end.
ReadClosed ==
  /\ Polled /\ mqttstatus # "start" /\ conn = "closed" /\ inbox = <<>>
  /\ conn' = "none" /\ sent' = <<>> /\ granted' = {}
  /\ IF cloud THEN UNCHANGED <<mqttstatus, backoff>>
     ELSE mqttstatus' = "start" /\ backoff' = 0
  /\ halCloud' = FALSE
  /\ UNCHANGED <<statusVars, halSta, halMode, ping, ip, configOk, inbox, idVars>>

\* MQTT_readPacket takes all recv() has and only the first packet is looked at.
Readable == Polled /\ mqttstatus # "start" /\ inbox # <<>>
Rests == {SubSeq(inbox, n + 1, Len(inbox)) : n \in 1 .. Len(inbox)}
First == Head(inbox)

\* Fault: any SUBACK will do.
AnsweredByAny(p) == \/ mqttstatus = "login" /\ p.type = "CONNACK"
                    \/ mqttstatus \in Topics /\ p.type = "SUBACK"

\* Cloud_ResConnect and Cloud_ResSubTopic
Answered(p) == \/ mqttstatus = "login" /\ p.type = "CONNACK"
               \/ mqttstatus \in Topics /\ p.type = "SUBACK" /\ p.id = subId

\* The answer that was awaited: on to the next topic, or into the session.
ReadAnswer ==
  /\ Readable /\ Answered(First)
  /\ backoff' = 1
  /\ mqttstatus' = After[mqttstatus]
  /\ \E rest \in Rests :
       IF mqttstatus = "topic3" THEN Quiet(rest) ELSE ReqSubTopic(After[mqttstatus], rest)
  /\ halCloud' = (halCloud \/ mqttstatus = "topic3")
  /\ UNCHANGED <<statusVars, halSta, halMode, ping, ip, configOk>>

\* Any other packet during the login: ignored, or, when the time is up by now,
\* the request is made again.
ReadOther ==
  /\ Readable /\ mqttstatus # "running" /\ ~Answered(First)
  /\ \/ /\ backoff' = 1
        /\ \E rest \in Rests : Quiet(rest)
     \/ /\ Pending /\ backoff' = 2
        /\ \E rest \in Rests : Again(rest)
  /\ UNCHANGED <<statusVars, halVars, mqttstatus, ping, ip, configOk>>

\* In the session: a PINGRESP, or a PUBLISH that may set CloudStatus to
\* CLOUD_RES_GET_SOFTVER (0x0211).
ReadSession ==
  /\ Readable /\ mqttstatus = "running"
  /\ backoff' = 1
  /\ ping' = IF First.type = "PINGRESP" THEN 0 ELSE ping
  /\ configOk' \in IF First.type = "PUBLISH" THEN {configOk, FALSE} ELSE {configOk}
  /\ \E rest \in Rests : Quiet(rest)
  /\ UNCHANGED <<statusVars, halVars, mqttstatus, ip>>

\* Part of a packet was received: it is dropped, and so is the rest of it when
\* it comes.
ReadPart ==
  /\ Readable
  /\ Quiet(Tail(inbox))
  /\ UNCHANGED <<statusVars, halVars, mqttstatus, backoff, ping, ip, configOk>>

-----------------------------------------------------------------------------
(* GAgent_Tick: GAgent_CloudTick and, after it, GAgent_WiFiEventTick *)

\* GAgent_WiFiEventTick compares GAgentStatus with one snapshot of the HAL, taken
\* before any of its own resets of the CLOUD bit.
Changed(bit) == (bit \in mode) # (bit \in halMode)
ModeEdge == Changed("ap") \/ Changed("onboarding") \/ ("sta" \in mode /\ "sta" \notin halMode)
StationDown == sta /\ ~halSta
CloudDown(hal) == cloud /\ ~StationDown /\ ~hal

\* Fault: a lost router is left to the CLOUD bit.
MqttEndedByBit(hal) == (ModeEdge /\ configOk) \/ CloudDown(hal)

MqttEnded(hal) == (ModeEdge /\ configOk) \/ StationDown \/ CloudDown(hal)

WiFiEventTick(hal) ==
  /\ mode' = halMode /\ sta' = halSta /\ cloud' = hal
  /\ halCloud' = (hal /\ ~ModeEdge /\ ~StationDown)
  /\ UNCHANGED <<halSta, halMode, ip, configOk, inbox, granted, idVars>>

\* ReConnectMqttTime starts over when the station gets a router.
BackoffFrom(k) == IF ~sta /\ halSta THEN 1 ELSE k
StatusFrom(hal) == IF MqttEnded(hal) THEN "start" ELSE mqttstatus

Tick ==
  /\ WiFiEventTick(halCloud)
  /\ mqttstatus' = StatusFrom(halCloud) /\ backoff' = BackoffFrom(backoff)
  /\ UNCHANGED <<ping, conn, sent>>

\* Fault: the pings are not counted.
HeartbeatUncounted ==
  /\ cloud /\ ping < MaxPing
  /\ Send(Ping)
  /\ WiFiEventTick(halCloud)
  /\ mqttstatus' = StatusFrom(halCloud) /\ backoff' = BackoffFrom(backoff)
  /\ UNCHANGED ping

\* Every CLOUD_HEARTBEAT seconds.
Heartbeat ==
  /\ cloud /\ ping < MaxPing
  /\ ping' = ping + 1 /\ Send(Ping)
  /\ WiFiEventTick(halCloud)
  /\ mqttstatus' = StatusFrom(halCloud) /\ backoff' = BackoffFrom(backoff)

\* Fault: the HAL is not told.
HeartbeatFailsSilently ==
  /\ cloud /\ ping >= MaxPing
  /\ ping' = 0 /\ backoff' = BackoffFrom(0) /\ mqttstatus' = "start"
  /\ WiFiEventTick(halCloud)
  /\ UNCHANGED <<conn, sent>>

HeartbeatFails ==
  /\ cloud /\ ping >= MaxPing
  /\ ping' = 0 /\ backoff' = BackoffFrom(0) /\ mqttstatus' = "start"
  /\ WiFiEventTick(FALSE)
  /\ UNCHANGED <<conn, sent>>

\* GAgent_RefreshIPTick
RefreshIP ==
  /\ sta /\ ~ip /\ ip' = TRUE
  /\ UNCHANGED <<statusVars, halVars, mqttstatus, backoff, ping, configOk, sockVars, idVars>>

-----------------------------------------------------------------------------
(* The configuration server, as far as the session sees it *)

\* CLOUD_RES_PROVISION: log in at once.
Provisioned ==
  /\ sta /\ ~configOk
  /\ mqttstatus' = "start" /\ backoff' = 0
  /\ UNCHANGED <<statusVars, halVars, ping, ip, configOk, sockVars, idVars>>

ConfigStatus ==
  /\ sta /\ configOk' = ~configOk
  /\ UNCHANGED <<statusVars, halVars, mqttstatus, backoff, ping, ip, sockVars, idVars>>

(* The environment *)

\* The driver's event callback and its mode changes.
WifiChange ==
  /\ \/ halSta' = ~halSta /\ UNCHANGED halMode
     \/ halMode' \in Modes /\ UNCHANGED halSta
  /\ UNCHANGED <<statusVars, halCloud, mqttstatus, backoff, ping, ip, configOk,
                 sockVars, idVars>>

Replies(r) == CASE r.type = "CONNECT" -> {Reply("CONNACK", 0), Reply("REFUSED", 0)}
                [] r.type = "SUBSCRIBE" -> {Reply("SUBACK", r.id)}
                [] r.type = "PINGREQ" -> {Reply("PINGRESP", 0)}

Broker == UNCHANGED <<statusVars, halVars, mqttstatus, backoff, ping, ip, configOk, idVars>>

BrokerServes ==
  /\ conn = "open" /\ sent # <<>> /\ Len(inbox) < MaxInbox
  /\ sent' = Tail(sent)
  /\ \E p \in Replies(Head(sent)) : inbox' = Append(inbox, p)
  /\ granted' = granted \cup ({Head(sent).topic} \cap Topics)
  /\ Broker /\ UNCHANGED conn

BrokerPublishes ==
  /\ conn = "open" /\ granted # {} /\ Len(inbox) < MaxInbox
  /\ inbox' = Append(inbox, Reply("PUBLISH", 0))
  /\ Broker /\ UNCHANGED <<conn, sent, granted>>

BrokerCloses ==
  /\ conn \in {"open", "mute"} /\ conn' = "closed" /\ sent' = <<>>
  /\ Broker /\ UNCHANGED <<inbox, granted>>

-----------------------------------------------------------------------------
Read == ReadAnswer \/ ReadOther \/ ReadSession \/ ReadPart

Handle == Login \/ Timeout \/ Restart \/ ReadClosed \/ Read

Ticks == Tick \/ HeartbeatFails \/ Heartbeat \/ RefreshIP

Next == \/ Handle \/ Ticks
        \/ Provisioned \/ ConfigStatus \/ WifiChange
        \/ BrokerServes \/ BrokerPublishes \/ BrokerCloses

Spec == Init /\ [][Next]_vars

\* Every turn of the main loop looks at the session's socket and timer, and the
\* ticks come every second; nothing is assumed of the router or the broker.
Fairness == /\ WF_vars(Login) /\ WF_vars(Timeout) /\ WF_vars(Restart)
            /\ WF_vars(ReadClosed) /\ WF_vars(Read)
            /\ WF_vars(Tick)
            /\ WF_vars(Heartbeat) /\ WF_vars(HeartbeatFails)

FairSpec == Spec /\ Fairness

-----------------------------------------------------------------------------
(* Properties *)

Requests == {Connect, Ping} \cup {Sub(t, id) : t \in Topics, id \in Ids}
Packets == [type : {"CONNACK", "REFUSED", "SUBACK", "PINGRESP", "PUBLISH"}, id : Ids]

TypeOK ==
  /\ {sta, cloud, halSta, halCloud, ip, configOk} \subseteq BOOLEAN
  /\ mode \in SUBSET {"ap", "sta", "onboarding"} /\ halMode \in Modes
  /\ mqttstatus \in {"idle", "start", "login", "running"} \cup Topics
  /\ backoff \in 0 .. MaxBackoff /\ ping \in 0 .. MaxPing
  /\ conn \in {"none", "open", "mute", "closed"}
  /\ sent \in Seq(Requests) /\ inbox \in Seq(Packets)
  /\ seq \in Ids /\ subId \in Ids
  /\ granted \in SUBSET Topics

\* A session is taken for running only when the broker granted all three topics
\* on the very connection it runs over: no late SUBACK, of an earlier request or
\* of an earlier connection, stands in for a missing one.
RunningIsSubscribed == mqttstatus = "running" /\ conn # "none" => granted = Topics

\* A running session is never orphaned: the HAL knows it, or GAgentStatus still
\* does, so that the next tick sees the difference and ends it.  An orphan would
\* get no heartbeat, report nothing and never be replaced.
NoOrphanSession == mqttstatus = "running" => halCloud \/ cloud

\* What the cloud bit claims is true, or is soon withdrawn.
StaleReportWithdrawn ==
  (cloud /\ mqttstatus # "running") ~> (~cloud \/ mqttstatus = "running")

\* A session whose broker has gone mute is given up, whatever became of the
\* connection: no session runs for ever on unanswered heartbeats.
DeadSessionNoticed ==
  []<><<Read>>_vars \/ []<>(mqttstatus # "running")

\* What a well-behaved network does not do.
Disturbed == \/ WifiChange \/ Provisioned \/ BrokerCloses \/ ReadPart
             \/ conn' = "none" \/ conn' = "mute"
             \/ Len(inbox') > Len(inbox) /\ inbox'[Len(inbox')].type = "REFUSED"
             \/ Len(inbox) > 1 /\ Len(inbox') < Len(inbox) - 1
             \/ ReadOther /\ seq' # seq
             \/ (Timeout \/ Heartbeat \/ HeartbeatFails) /\ sent \o inbox # <<>>

\* Once the station stays connected, the address is known and a broker answers
\* in time, the login completes and is reported, whatever went before.
LoginCompletes ==
  \/ []<><<Disturbed>>_vars \/ []<>~halSta \/ []<>~ip \/ []<>(mqttstatus = "idle")
  \/ <>[](sent # <<>>)
  \/ <>[](mqttstatus = "running" /\ cloud)

\* A module whose broker stays mute restarts.
MuteBrokerRestarts ==
  \/ []<><<Read \/ Restart \/ WifiChange \/ Provisioned>>_vars
  \/ []<><<BrokerCloses>>_vars
  \/ []<>~(sta /\ ip) \/ []<>(mqttstatus = "idle")

=============================================================================
