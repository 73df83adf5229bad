------------------------------- MODULE BigData ------------------------------
(* The transfer of a file from the MCU to the cloud (local_common.c, the big *)
(* data packets of GAgent_LocalDataHandle, GAgent_BigDataTick).              *)
(*                                                                           *)
(* The MCU asks (NEED_UPGRADE, with the size), the module answers with READY *)
(* and, once that is acknowledged, passes the pieces on as they come.  The   *)
(* first piece is published in an MQTT packet whose length is that of the    *)
(* whole file; the others are written to the connection as they are, and a   *)
(* transfer that fails is made up with garbage.  Whatever else is written in *)
(* between, or a byte too many or too few, and the broker reads everything   *)
(* that follows from the wrong place.                                        *)
(*                                                                           *)
(* Sizes are counted in pieces.  Time is left out: a time-out may come at    *)
(* any turn of the main loop.                                                *)
EXTENDS Naturals, Sequences

CONSTANTS
  MaxPieces, \* bound of the model: pieces of a file
  MaxDepth   \* bound of the model: calls of WriteP0 inside each other

ASSUME BoundAssumption == MaxPieces \in Nat \ {0} /\ MaxDepth \in Nat \ {0}

VARIABLES
  file,      \* rtinfo.file
  readyFlag, \* local_send_ready_signal_flag
  stack,     \* the WriteP0 calls that wait, innermost first: what comes after
  isBusy,    \* mcu.isBusy
  awaited,   \* the command in mcu.TxbufInfo
  readySent, \* a READY was sent: its acknowledgement may come, also later
  rx,        \* the piece in Rxbuf, 0 when it holds another packet
  rxCloud,   \* CLOUD_DATA_OUT of Rxbuf->type
  asked,     \* size of the file the MCU has
  cloud,     \* "up", "dead" (lost and not noticed yet), "down" (not RUNNING)
  stream     \* what the broker has got on this connection

linkVars == <<stack, isBusy, awaited, readySent>>
rxVars == <<rx, rxCloud>>
vars == <<file, readyFlag, linkVars, rxVars, asked, cloud, stream>>

\* resetfile
NoFile == [using |-> FALSE, totalsize |-> 0, recvsize |-> 0, lastpiece |-> 0, data |-> FALSE]

\* owed: pieces still to come of the packet that is open; got: the pieces of
\* the last file, 0 for garbage; torn: the broker has lost its place; blame:
\* the first thing that happened which the transfer is not made for.
Fresh == [owed |-> 0, got |-> <<>>, torn |-> FALSE, blame |-> "none"]

Pieces == 1 .. MaxPieces

Init == /\ file = NoFile /\ readyFlag = FALSE
        /\ stack = <<>> /\ isBusy = FALSE /\ awaited = "none" /\ readySent = FALSE
        /\ rx = 0 /\ rxCloud = FALSE /\ asked = 0
        /\ cloud = "down" /\ stream = Fresh

-----------------------------------------------------------------------------
(* Writing to the broker *)

Torn(s) == [s EXCEPT !.torn = TRUE, !.owed = 0, !.got = <<>>]
Blamed(s, why) == IF s.blame = "none" THEN [Torn(s) EXCEPT !.torn = s.torn, !.blame = why] ELSE s

\* A packet of its own: the heartbeat, a report, an acknowledgement.
Packet(s) == IF s.blame = "none" /\ cloud = "up" /\ s.owed > 0 THEN Torn(s) ELSE s

\* MQTT_SendData of n pieces of payload, the length that of total pieces.  The
\* result of PubMsg is not looked at.
Publish(s, total, what) ==
  CASE s.blame # "none" \/ cloud # "up" -> s
    [] s.blame = "none" /\ cloud = "up" /\ (s.owed > 0 \/ total = 0) -> Torn(s)
    [] OTHER -> [s EXCEPT !.owed = total - 1, !.got = what]

\* Mqtt_SendPiece, n times
Raw(s, what) ==
  CASE s.blame # "none" \/ cloud # "up" -> s
    [] s.blame = "none" /\ cloud = "up" /\ s.owed < Len(what) -> Torn(s)
    [] OTHER -> [s EXCEPT !.owed = @ - Len(what), !.got = @ \o what]

\* throwgabage: nothing before the first piece, nor without a connection.
Remain(f) == IF f.totalsize > f.recvsize THEN f.totalsize - f.recvsize ELSE 0
Garbage(f, s) == IF f.data THEN Raw(s, [i \in 1 .. Remain(f) |-> 0]) ELSE s

-----------------------------------------------------------------------------
(* A piece: pushfiledata and syncfile *)

\* Fault: any later piece is taken.
InSequenceLoose(k, f) == k > f.lastpiece

InSequence(k, f) == k = f.lastpiece + 1
Failed(k, f) == IF k = 1 THEN cloud = "down"
                ELSE k # f.lastpiece /\ ~(InSequence(k, f) /\ cloud = "up")

\* Bound of the model: recvsize stops at MaxPieces, the largest totalsize.
Passed(k, f) ==
  [f EXCEPT !.recvsize = IF @ < MaxPieces THEN @ + 1 ELSE @, !.lastpiece = k]

\* Fault: a repeated piece is sent again.
SyncedRepeats(k, f, s) ==
  [file |-> Passed(k, f),
   stream |-> IF k = 1 THEN Publish(s, IF f.using THEN f.totalsize ELSE 1, <<1>>)
              ELSE Raw(s, <<k>>)]

Synced(k, f, s) ==
  CASE k = 1 -> [file |-> Passed(k, f),
                 stream |-> Publish(s, IF f.using THEN f.totalsize ELSE 1, <<1>>)]
    [] k # 1 /\ k = f.lastpiece -> [file |-> f, stream |-> s]
    [] OTHER -> [file |-> Passed(k, f), stream |-> Raw(s, <<k>>)]

\* GAgent_LocalDataWriteP0 up to its polling loop; cont is what comes after.
Write(cmd, cont, st) ==
  /\ Len(st) < MaxDepth
  /\ stack' = <<cont>> \o st
  /\ isBusy' = TRUE /\ awaited' = cmd
  /\ readySent' = (readySent \/ cmd = "ready")

\* Piece k, the last one or not, with the calls in st waiting.  The MCU is told
\* that the transfer has failed, unless a request of the module is waiting.
DealPiece(k, last, s, st, busy) ==
  LET f == [file EXCEPT !.data = TRUE]
  IN /\ rxCloud' \in IF k = 1 /\ cloud # "down" THEN {FALSE} ELSE {TRUE}
     /\ IF Failed(k, f)
        THEN /\ stream' = Garbage(f, s)
             /\ file' = NoFile
             /\ IF busy THEN stack' = st /\ isBusy' = TRUE /\ UNCHANGED <<awaited, readySent>>
                ELSE Write("stop", IF last THEN "last" ELSE "tail", st)
        ELSE /\ stream' = Synced(k, f, s).stream
             /\ file' = IF last THEN NoFile ELSE Synced(k, f, s).file
             /\ stack' = st /\ isBusy' = busy /\ UNCHANGED <<awaited, readySent>>

\* The first piece a second time is published a second time, and any other
\* before the first is made up for as if a packet were open.
Expected(k, s) ==
  CASE k = 1 /\ file.lastpiece # 0 -> Blamed(s, "again")
    [] k # 1 /\ file.lastpiece = 0 -> Blamed(s, "headless")
    [] OTHER -> s

HandlePiece(k) ==
  /\ file.using /\ k <= asked
  /\ rx' = k
  /\ DealPiece(k, k = asked, Expected(k, stream), stack, isBusy)
  /\ UNCHANGED <<readyFlag, asked, cloud>>

\* Outside a transfer: a stop is sent and waited for, and after that, for want
\* of a return, the piece is dealt with all the same.
HandleStrayPiece(k) ==
  /\ ~file.using /\ k <= asked
  /\ rx' = k
  /\ Write("stop", "stray", stack)
  /\ stream' = Blamed(stream, "stray")
  /\ UNCHANGED <<file, readyFlag, rxCloud, asked, cloud>>

-----------------------------------------------------------------------------
(* Other packets of the MCU *)

\* parsefileinfo does nothing during a transfer, the READY goes out regardless.
Underway == file.using \/ \E i \in 1 .. Len(stack) : stack[i] = "ready"
HandleNeedUpgrade(n) ==
  /\ asked' = n
  /\ file' = IF file.using THEN file ELSE [file EXCEPT !.totalsize = n]
  /\ readyFlag' = TRUE
  /\ rx' = 0 /\ rxCloud' = TRUE
  /\ stream' = IF Underway THEN Blamed(stream, "renewed") ELSE stream
  /\ UNCHANGED <<linkVars, cloud>>

\* The transfer is opened whether the acknowledgement is the awaited one or not,
\* and whether or not there is a size: a STOP_SEND in between has erased it.
HandleReadyAck ==
  /\ readySent
  /\ \/ /\ isBusy /\ awaited = "ready"
        /\ isBusy' = FALSE
        /\ stream' = IF file.totalsize = 0 THEN Blamed(stream, "withdrawn") ELSE stream
     \/ /\ stream' = IF file.using THEN stream ELSE Blamed(stream, "late")
        /\ UNCHANGED isBusy
  /\ file' = [file EXCEPT !.using = TRUE]
  /\ rx' = 0
  /\ UNCHANGED <<readyFlag, stack, awaited, readySent, rxCloud, asked, cloud>>

\* GAGENT_STOP_SEND
HandleStopSend ==
  /\ stream' = Garbage(file, stream)
  /\ file' = NoFile
  /\ rx' = 0
  /\ UNCHANGED <<readyFlag, linkVars, rxCloud, asked, cloud>>

\* A report, or the acknowledgement of a control, is passed on when there is no
\* transfer.
HandleReport ==
  /\ rx' = 0
  /\ IF file.using THEN UNCHANGED <<stream, rxCloud>>
     ELSE stream' = Packet(stream) /\ rxCloud' = FALSE
  /\ UNCHANGED <<file, readyFlag, linkVars, asked, cloud>>

HandleCtrlAck ==
  /\ isBusy /\ awaited = "ctrl"
  /\ isBusy' = FALSE
  /\ rx' = 0
  /\ IF file.using THEN UNCHANGED <<stream, rxCloud>>
     ELSE stream' = Packet(stream) /\ rxCloud' = FALSE
  /\ UNCHANGED <<file, readyFlag, stack, awaited, readySent, asked, cloud>>

HandlePacket == \/ \E k \in Pieces : HandlePiece(k) \/ HandleStrayPiece(k)
                \/ \E n \in Pieces : HandleNeedUpgrade(n)
                \/ HandleReadyAck \/ HandleStopSend \/ HandleReport \/ HandleCtrlAck

-----------------------------------------------------------------------------
(* WriteP0 returns, acknowledged or given up, and its caller goes on *)

\* Fault: the link stays busy when a request is given up.
PoppedStaysBusy == stack' = Tail(stack) /\ UNCHANGED <<isBusy, awaited, readySent>>

Popped == stack' = Tail(stack) /\ isBusy' = FALSE /\ UNCHANGED <<awaited, readySent>>

\* GAgent_BigDataTick after READY: without an acknowledgement the transfer is
\* given up, and nothing is made up.
ReturnFromReady ==
  /\ stack # <<>> /\ Head(stack) = "ready"
  /\ file' = IF isBusy THEN NoFile ELSE file
  /\ Popped
  /\ UNCHANGED <<readyFlag, rxVars, asked, cloud, stream>>

\* dealPacket after a control: the flags Rxbuf has by now.
ReturnFromControl ==
  /\ stack # <<>> /\ Head(stack) = "control"
  /\ stream' = IF rxCloud /\ cloud # "down"
               THEN IF file.using THEN Blamed(stream, "leftover") ELSE Packet(stream)
               ELSE stream
  /\ rxCloud' = FALSE
  /\ Popped
  /\ UNCHANGED <<file, readyFlag, rx, asked, cloud>>

\* The end of the handler of a piece, or of a tick.
ReturnFromStop ==
  /\ stack # <<>> /\ Head(stack) \in {"tail", "last"}
  /\ file' = IF Head(stack) = "last" THEN NoFile ELSE file
  /\ Popped
  /\ UNCHANGED <<readyFlag, rxVars, asked, cloud, stream>>

\* Rxbuf may hold another packet by now, whose bytes are read as a piece.
ReturnFromStray ==
  /\ stack # <<>> /\ Head(stack) = "stray"
  /\ \E k \in IF rx = 0 THEN 0 .. MaxPieces + 1 ELSE {rx}, last \in BOOLEAN :
       /\ rx # 0 => last = (rx >= asked)
       /\ DealPiece(k, last, stream, Tail(stack), FALSE)
  /\ UNCHANGED <<readyFlag, rx, asked, cloud>>

Return == ReturnFromReady \/ ReturnFromControl \/ ReturnFromStop \/ ReturnFromStray

-----------------------------------------------------------------------------
(* The main loop, and the connection to the broker *)

Idle == stack = <<>>

\* A control of an app: dealPacket sends it and waits.
Control ==
  /\ Idle
  /\ Write("ctrl", "control", stack)
  /\ rx' = 0
  /\ UNCHANGED <<file, readyFlag, rxCloud, asked, cloud, stream>>

\* GAgent_BigDataTick
SendReady ==
  /\ Idle /\ readyFlag
  /\ readyFlag' = FALSE
  /\ Write("ready", "ready", stack)
  /\ UNCHANGED <<file, rxVars, asked, cloud, stream>>

\* Fault: a transfer that is timed out is closed without making it up.
TransferTimeoutShort ==
  /\ Idle /\ ~readyFlag /\ file.using
  /\ file' = NoFile
  /\ Write("stop", "tail", stack)
  /\ UNCHANGED <<readyFlag, rxVars, asked, cloud, stream>>

\* Fault: the transfer is made up and not closed.
TransferTimeoutStays ==
  /\ Idle /\ ~readyFlag /\ file.using
  /\ stream' = Garbage(file, stream)
  /\ file' = [file EXCEPT !.recvsize = file.totalsize]
  /\ Write("stop", "tail", stack)
  /\ UNCHANGED <<readyFlag, rxVars, asked, cloud>>

\* FILE_TRANSFER_TIMEOUT seconds without a piece
TransferTimeout ==
  /\ Idle /\ ~readyFlag /\ file.using
  /\ stream' = Garbage(file, stream)
  /\ file' = NoFile
  /\ Write("stop", "tail", stack)
  /\ UNCHANGED <<readyFlag, rxVars, asked, cloud>>

\* CloudTick: no heartbeat during a transfer.
Heartbeat ==
  /\ Idle /\ cloud # "down" /\ ~file.using
  /\ stream' = Packet(stream)
  /\ UNCHANGED <<file, readyFlag, linkVars, rxVars, asked, cloud>>

ConnectionLost ==
  /\ cloud = "up" /\ cloud' = "dead" /\ stream' = Fresh
  /\ UNCHANGED <<file, readyFlag, linkVars, rxVars, asked>>

\* Cloud_M2MDataHandle or CloudTick: CLOUD_CONNECTED is taken back.
LossNoticed ==
  /\ Idle /\ cloud = "dead" /\ cloud' = "down"
  /\ UNCHANGED <<file, readyFlag, linkVars, rxVars, asked, stream>>

\* A new session knows nothing of a transfer that is open.
LoggedIn ==
  /\ Idle /\ cloud = "down" /\ cloud' = "up"
  /\ stream' = IF file.using \/ file.data THEN Blamed(Fresh, "reconnected") ELSE Fresh
  /\ UNCHANGED <<file, readyFlag, linkVars, rxVars, asked>>

Next == \/ HandlePacket \/ Return
        \/ Control \/ SendReady \/ TransferTimeout \/ Heartbeat
        \/ ConnectionLost \/ LossNoticed \/ LoggedIn

Spec == Init /\ [][Next]_vars
\* The polling loop of WriteP0 ends, and the main loop comes to
\* GAgent_BigDataTick at every turn, whatever the apps send.
FairSpec == Spec /\ WF_vars(Return) /\ SF_vars(SendReady \/ TransferTimeout)

-----------------------------------------------------------------------------
(* Properties *)

Files == [using : BOOLEAN, totalsize : 0 .. MaxPieces, recvsize : 0 .. MaxPieces,
          lastpiece : 0 .. MaxPieces + 1, data : BOOLEAN]
Blames == {"none", "again", "headless", "stray", "renewed", "late",
           "withdrawn", "leftover", "reconnected"}

TypeOK ==
  /\ file \in Files /\ readyFlag \in BOOLEAN
  /\ stack \in Seq({"ready", "control", "tail", "last", "stray"}) /\ Len(stack) <= MaxDepth
  /\ isBusy \in BOOLEAN /\ (isBusy => stack # <<>>)
  /\ awaited \in {"none", "ctrl", "ready", "stop"} /\ readySent \in BOOLEAN
  /\ rx \in 0 .. MaxPieces /\ rxCloud \in BOOLEAN
  /\ asked \in 0 .. MaxPieces /\ cloud \in {"up", "dead", "down"}
  /\ stream \in [owed : 0 .. MaxPieces, got : Seq(0 .. MaxPieces), torn : BOOLEAN,
                 blame : Blames]

\* The broker never loses its place in what the module writes, through pieces
\* lost and repeated, transfers stopped by either side, timed out or cut off
\* with the connection, reports and heartbeats; unless one of the things that
\* stream.blame names happens first, and each of those can break it.
StreamKept == ~stream.torn

\* As long as the connection lives, what the open packet lacks is what the open
\* transfer has still to pass on: a transfer never ends, however it ends, with
\* its packet left open.
PublishMatchesFile ==
  cloud = "up" /\ stream.blame = "none" =>
    stream.owed = IF file.using /\ file.lastpiece > 0
                  THEN file.totalsize - file.recvsize ELSE 0

\* The file arrives in order, no piece missing and none twice; only its end can
\* be garbage.
PiecesInOrder ==
  \E n \in 0 .. Len(stream.got) :
    stream.got = [i \in 1 .. Len(stream.got) |-> IF i <= n THEN i ELSE 0]

\* A transfer whose MCU has fallen silent ends, and with it the silence of the
\* heartbeats and the reports.
TransferEnds == []<>(~file.using) \/ []<><<HandlePacket>>_vars

=============================================================================
