-------------------------- MODULE M2MSessionProofs --------------------------
(* Proofs about M2MSession, for any back-off, ping limit and message ids.      *)
EXTENDS M2MSession, SequenceTheorems, TLAPS

\* GAgent_WiFiEventTick keeps an eye on a running session: with the HAL's bit as
\* hal, the session is ended, or the bit is copied into GAgentStatus.
LEMMA TickSeesSession ==
  ASSUME NoOrphanSession, NEW hal, hal \in {halCloud},
         WiFiEventTick(hal), mqttstatus' = StatusFrom(hal)
  PROVE  NoOrphanSession'
<1>1. SUFFICES ASSUME mqttstatus' = "running" PROVE cloud' BY DEF NoOrphanSession
<1>2. ~MqttEnded(hal) /\ mqttstatus = "running" BY <1>1 DEF StatusFrom
<1>3. halCloud \/ cloud BY <1>2 DEF NoOrphanSession
<1>4. CASE hal BY <1>4 DEF WiFiEventTick
<1>5. CASE ~hal BY <1>2, <1>3, <1>5 DEF MqttEnded, CloudDown
<1>q. QED BY <1>4, <1>5

\* A running session is always known to the HAL or to GAgentStatus.
THEOREM SessionIsKnown == Spec => []NoOrphanSession
<1>1. Init => NoOrphanSession BY DEF Init, NoOrphanSession
<1>2. NoOrphanSession /\ [Next]_vars => NoOrphanSession'
  <2> SUFFICES ASSUME NoOrphanSession, [Next]_vars PROVE NoOrphanSession' OBVIOUS
  <2> USE DEF statusVars, halVars
  <2>1. CASE Login \/ Provisioned BY <2>1 DEF Login, Provisioned, NoOrphanSession
  <2>2. CASE Restart BY <2>2 DEF Restart, Fresh, NoOrphanSession
  <2>3. CASE ReadClosed BY <2>3 DEF ReadClosed, NoOrphanSession
  <2>4. CASE ReadAnswer
    <3>1. CASE mqttstatus = "topic3" BY <2>4, <3>1 DEF ReadAnswer, NoOrphanSession
    <3>2. CASE mqttstatus # "topic3"
      <4>1. mqttstatus \in {"login", "topic1", "topic2"}
        BY <2>4, <3>2 DEF ReadAnswer, Answered, Topics
      <4>2. mqttstatus' # "running" BY <2>4, <4>1 DEF ReadAnswer, After
      <4>q. QED BY <4>2 DEF NoOrphanSession
    <3>q. QED BY <3>1, <3>2
  <2>5. CASE Tick BY <2>5, TickSeesSession DEF Tick
  <2>6. CASE Heartbeat BY <2>6, TickSeesSession DEF Heartbeat
  <2>7. CASE HeartbeatFails BY <2>7 DEF HeartbeatFails, NoOrphanSession
  <2>8. CASE UNCHANGED <<mqttstatus, halCloud, cloud>> BY <2>8 DEF NoOrphanSession
  <2>q. QED
    BY <2>1, <2>2, <2>3, <2>4, <2>5, <2>6, <2>7, <2>8
    DEF Next, Handle, Read, Ticks, Timeout, ReadOther, ReadSession, ReadPart, RefreshIP,
        ConfigStatus, WifiChange, BrokerServes, BrokerPublishes, BrokerCloses, Broker, vars
<1>q. QED BY <1>1, <1>2, PTL DEF Spec

-----------------------------------------------------------------------------
(* Types *)

USE ModeAssumption, BoundAssumption

Socket == /\ conn \in {"none", "open", "mute", "closed"} /\ sent \in Seq(Requests)
          /\ inbox \in Seq(Packets) /\ seq \in Ids /\ subId \in Ids /\ granted \in SUBSET Topics

Rest == /\ sta \in BOOLEAN /\ cloud \in BOOLEAN /\ halSta \in BOOLEAN /\ halCloud \in BOOLEAN
        /\ ip \in BOOLEAN /\ configOk \in BOOLEAN
        /\ mode \in SUBSET {"ap", "sta", "onboarding"} /\ halMode \in Modes
        /\ mqttstatus \in {"idle", "start", "login", "running"} \cup Topics
        /\ backoff \in 0 .. MaxBackoff /\ ping \in 0 .. MaxPing

LEMMA TypeParts == TypeOK <=> Socket /\ Rest
BY DEF TypeOK, Socket, Rest

LEMMA RequestTypes ==
  /\ Connect \in Requests /\ Ping \in Requests
  /\ \A t \in Topics, id \in Ids : Sub(t, id) \in Requests
BY DEF Requests

LEMMA IdTypes == /\ 0 \in Ids /\ 1 \in Ids /\ \A id \in Ids : (id + 1) % IdMod \in Ids
BY DEF Ids

LEMMA RequestIds == \A r \in Requests : r.id \in Ids
BY IdTypes DEF Requests, Connect, Ping, Sub

LEMMA RestTypes ==
  ASSUME Socket, NEW rest \in Rests, inbox # <<>>
  PROVE  rest \in Seq(Packets)
<1>1. PICK n \in 1 .. Len(inbox) : rest = SubSeq(inbox, n + 1, Len(inbox))
  BY DEF Rests
<1>2. \A i \in n + 1 .. Len(inbox) : inbox[i] \in Packets
  BY DEF Socket
<1> QED
  BY <1>1, <1>2, SubSeqProperties DEF Socket

LEMMA SendTypes ==
  ASSUME Socket, NEW r \in Requests, Send(r)
  PROVE  conn' \in {"none", "open", "mute", "closed"} /\ sent' \in Seq(Requests)
<1>1. CASE conn # "open"
  BY <1>1 DEF Send, Socket
<1>2. CASE conn = "open" /\ Len(sent) < MaxSent
  <2>1. sent' = Append(sent, r) /\ conn' = conn
    BY <1>2 DEF Send
  <2> QED
    BY <2>1 DEF Socket
<1>3. CASE conn = "open" /\ ~(Len(sent) < MaxSent)
  <2>1. sent' = <<>> /\ conn' = "mute"
    BY <1>3 DEF Send
  <2> QED
    BY <2>1
<1> QED
  BY <1>1, <1>2, <1>3

LEMMA ConnectTypes ==
  ASSUME Socket, ReqConnect
  PROVE  Socket'
<1>1. <<Connect>> \in Seq(Requests) /\ <<>> \in Seq(Requests) /\ <<>> \in Seq(Packets)
  BY RequestTypes
<1>2. sent' \in Seq(Requests) /\ inbox' \in Seq(Packets)
  BY <1>1 DEF ReqConnect
<1>3. conn' \in {"none", "open", "mute", "closed"} /\ granted' \in SUBSET Topics
  BY DEF ReqConnect
<1>4. seq' \in Ids /\ subId' \in Ids
  BY IdTypes DEF ReqConnect, Socket
<1> QED
  BY <1>2, <1>3, <1>4 DEF Socket

LEMMA SubTypes ==
  ASSUME Socket, NEW t \in Topics, NEW rest \in Seq(Packets), ReqSubTopic(t, rest)
  PROVE  Socket'
<1>1. Send(Sub(t, seq)) /\ Sub(t, seq) \in Requests
  BY RequestTypes DEF ReqSubTopic, Socket
<1>2. conn' \in {"none", "open", "mute", "closed"} /\ sent' \in Seq(Requests)
  BY <1>1, SendTypes
<1>3. seq' \in Ids /\ subId' \in Ids
  BY IdTypes DEF ReqSubTopic, Socket
<1> QED
  BY <1>2, <1>3 DEF ReqSubTopic, Socket

LEMMA QuietTypes ==
  ASSUME Socket, NEW rest \in Seq(Packets), Quiet(rest)
  PROVE  Socket'
BY DEF Quiet, Socket, idVars

LEMMA AgainTypes ==
  ASSUME Socket, Pending, NEW rest \in Seq(Packets), Again(rest)
  PROVE  Socket'
BY ConnectTypes, SubTypes DEF Again, Pending

LEMMA FreshTypes ==
  ASSUME TypeOK, Fresh
  PROVE  TypeOK'
<1>1. Socket'
  BY IdTypes DEF Fresh, Socket
<1>2. ip \in BOOLEAN
  BY TypeParts DEF Rest
<1>3. backoff' \in 0 .. MaxBackoff /\ ping' \in 0 .. MaxPing
  BY DEF Fresh
<1>4. Rest'
  BY <1>2, <1>3 DEF Fresh, Rest
<1> QED
  BY <1>1, <1>4 DEF TypeOK, Socket, Rest

-----------------------------------------------------------------------------
(* Each action keeps the types *)

LEMMA HandleTypes ==
  ASSUME TypeOK, Handle
  PROVE  TypeOK'
<1>0. Socket /\ Rest
  BY TypeParts
<1>e. <<>> \in Seq(Packets)
  OBVIOUS
<1>1. CASE Login
  <2>1. Socket'
    BY <1>0, <1>1, ConnectTypes DEF Login
  <2>2. Rest'
    BY <1>0, <1>1 DEF Login, Rest, statusVars, halVars, Waited
  <2> QED
    BY <2>1, <2>2, TypeParts DEF TypeOK, Socket, Rest
<1>2. CASE Timeout
  <2>1. Socket'
    BY <1>0, <1>e, <1>2, AgainTypes DEF Timeout
  <2>2. Rest'
    BY <1>0, <1>2 DEF Timeout, Rest, statusVars, halVars
  <2> QED
    BY <2>1, <2>2 DEF TypeOK, Socket, Rest
<1>3. CASE Restart
  BY <1>3, FreshTypes DEF Restart
<1>4. CASE ReadClosed
  <2>1. Socket'
    BY <1>0, <1>4 DEF ReadClosed, Socket, idVars
  <2>2. backoff' \in 0 .. MaxBackoff
    BY <1>0, <1>4 DEF ReadClosed, Rest
  <2>3. Rest'
    BY <1>0, <1>4, <2>2 DEF ReadClosed, Rest, statusVars
  <2> QED
    BY <2>1, <2>3 DEF TypeOK, Socket, Rest
<1>5. CASE ReadAnswer
  <2>1. PICK rest \in Rests :
          IF mqttstatus = "topic3" THEN Quiet(rest) ELSE ReqSubTopic(After[mqttstatus], rest)
    BY <1>5 DEF ReadAnswer
  <2>2. rest \in Seq(Packets)
    BY <1>0, <1>5, RestTypes DEF ReadAnswer, Readable
  <2>3. mqttstatus \in {"login", "topic1", "topic2", "topic3"}
    BY <1>5 DEF ReadAnswer, Answered, Topics
  <2>4. mqttstatus # "topic3" => After[mqttstatus] \in Topics
    BY <2>3 DEF After, Topics
  <2>5. Socket'
    BY <1>0, <2>1, <2>2, <2>4, QuietTypes, SubTypes
  <2>6. After[mqttstatus] \in Topics \cup {"running"}
    BY <2>3 DEF After, Topics
  <2>7. Rest'
    BY <1>0, <1>5, <2>6 DEF ReadAnswer, Rest, statusVars
  <2> QED
    BY <2>5, <2>7 DEF TypeOK, Socket, Rest
<1>6. CASE ReadOther
  <2>1. \A rest \in Rests : rest \in Seq(Packets)
    BY <1>0, <1>6, RestTypes DEF ReadOther, Readable
  <2>2. Socket'
    BY <1>0, <1>6, <2>1, QuietTypes, AgainTypes DEF ReadOther
  <2>3. Rest'
    BY <1>0, <1>6 DEF ReadOther, Rest, statusVars, halVars
  <2> QED
    BY <2>2, <2>3 DEF TypeOK, Socket, Rest
<1>7. CASE ReadSession
  <2>1. \A rest \in Rests : rest \in Seq(Packets)
    BY <1>0, <1>7, RestTypes DEF ReadSession, Readable
  <2>2. Socket'
    BY <1>0, <1>7, <2>1, QuietTypes DEF ReadSession
  <2>3. Rest'
    <3>1. configOk' \in BOOLEAN
      BY <1>0, <1>7 DEF ReadSession, Rest
    <3>2. backoff' \in 0 .. MaxBackoff /\ ping' \in 0 .. MaxPing
      BY <1>0, <1>7 DEF ReadSession, Rest
    <3> QED
      BY <1>0, <1>7, <3>1, <3>2 DEF ReadSession, Rest, statusVars, halVars
  <2> QED
    BY <2>2, <2>3 DEF TypeOK, Socket, Rest
<1>8. CASE ReadPart
  <2>1. Tail(inbox) \in Seq(Packets)
    BY <1>0, <1>8 DEF ReadPart, Readable, Socket
  <2>2. Socket'
    BY <1>0, <1>8, <2>1, QuietTypes DEF ReadPart
  <2>3. Rest'
    BY <1>0, <1>8 DEF ReadPart, Rest, statusVars, halVars
  <2> QED
    BY <2>2, <2>3 DEF TypeOK, Socket, Rest
<1> QED
  BY <1>1, <1>2, <1>3, <1>4, <1>5, <1>6, <1>7, <1>8 DEF Handle, Read

LEMMA TickTypes ==
  ASSUME TypeOK, Ticks
  PROVE  TypeOK'
<1>0. Socket /\ Rest
  BY TypeParts
<1>1. ASSUME NEW hal \in {halCloud, FALSE}, WiFiEventTick(hal), ping' \in 0 .. MaxPing,
             backoff' \in 0 .. MaxBackoff,
             mqttstatus' \in {"idle", "start", "login", "running"} \cup Topics,
             conn' \in {"none", "open", "mute", "closed"}, sent' \in Seq(Requests)
      PROVE  TypeOK'
  <2>1. /\ mode' = halMode /\ sta' = halSta /\ cloud' = hal
        /\ halCloud' = (hal /\ ~ModeEdge /\ ~StationDown)
        /\ UNCHANGED <<halSta, halMode, ip, configOk, inbox, granted, seq, subId>>
    BY <1>1 DEF WiFiEventTick, idVars
  <2>2. Socket'
    BY <1>0, <1>1, <2>1 DEF Socket
  <2>3. halCloud' \in BOOLEAN
    BY <2>1
  <2>4. Rest'
    BY <1>0, <1>1, <2>1, <2>3 DEF Rest
  <2> QED
    BY <2>2, <2>4 DEF TypeOK, Socket, Rest
<1>2. BackoffFrom(backoff) \in 0 .. MaxBackoff /\ BackoffFrom(0) \in 0 .. MaxBackoff
  BY <1>0 DEF BackoffFrom, Rest
<1>3. StatusFrom(halCloud) \in {"idle", "start", "login", "running"} \cup Topics
  BY <1>0 DEF StatusFrom, Rest
<1>4. CASE Tick
  BY <1>0, <1>1, <1>2, <1>3, <1>4 DEF Tick, Socket, Rest
<1>5. CASE Heartbeat
  <2>1. ping' \in 0 .. MaxPing
    BY <1>0, <1>5 DEF Heartbeat, Rest
  <2>2. conn' \in {"none", "open", "mute", "closed"} /\ sent' \in Seq(Requests)
    BY <1>0, <1>5, RequestTypes, SendTypes DEF Heartbeat
  <2> QED
    BY <1>1, <1>2, <1>3, <1>5, <2>1, <2>2 DEF Heartbeat
<1>6. CASE HeartbeatFails
  <2>0. 0 \in 0 .. MaxPing
    OBVIOUS
  <2>1. /\ ping' = 0 /\ backoff' = BackoffFrom(0) /\ mqttstatus' = "start"
        /\ WiFiEventTick(FALSE) /\ conn' = conn /\ sent' = sent
    BY <1>6 DEF HeartbeatFails
  <2>2. conn' \in {"none", "open", "mute", "closed"} /\ sent' \in Seq(Requests)
    BY <1>0, <2>1 DEF Socket
  <2> QED
    BY <1>1, <1>2, <2>0, <2>1, <2>2
<1>7. CASE RefreshIP
  BY <1>7 DEF RefreshIP, TypeOK, statusVars, halVars, sockVars, idVars
<1> QED
  BY <1>4, <1>5, <1>6, <1>7 DEF Ticks

LEMMA WorldTypes ==
  ASSUME TypeOK, \/ Provisioned \/ ConfigStatus \/ WifiChange
                 \/ BrokerServes \/ BrokerPublishes \/ BrokerCloses
  PROVE  TypeOK'
<1> USE DEF statusVars, halVars, sockVars, idVars
<1>1. CASE Provisioned
  BY <1>1 DEF Provisioned, TypeOK
<1>2. CASE ConfigStatus
  BY <1>2 DEF ConfigStatus, TypeOK
<1>3. CASE WifiChange
  BY <1>3 DEF WifiChange, TypeOK
<1>4. CASE BrokerServes
  <2>1. Head(sent) \in Requests /\ Tail(sent) \in Seq(Requests)
    BY <1>4 DEF BrokerServes, TypeOK
  <2>2. Replies(Head(sent)) \subseteq Packets
    BY <2>1, IdTypes DEF Requests, Replies, Reply, Packets, Connect, Ping, Sub
  <2>3. inbox' \in Seq(Packets)
    BY <1>4, <2>2 DEF BrokerServes, TypeOK
  <2> QED
    BY <1>4, <2>1, <2>3 DEF BrokerServes, Broker, TypeOK
<1>5. CASE BrokerPublishes
  <2>1. Reply("PUBLISH", 0) \in Packets
    BY IdTypes DEF Reply, Packets
  <2> QED
    BY <1>5, <2>1 DEF BrokerPublishes, Broker, TypeOK
<1>6. CASE BrokerCloses
  BY <1>6 DEF BrokerCloses, Broker, TypeOK
<1> QED
  BY <1>1, <1>2, <1>3, <1>4, <1>5, <1>6

(* The session's state is type correct whatever the back-off, the ping limit   *)
(* and the message ids: neither counter passes its limit, and an id stays an   *)
(* id when the broker handle's counter wraps.                                  *)
THEOREM SessionTypes == Spec => []TypeOK
<1>1. Init => TypeOK
  <2>1. Init => Socket
    BY IdTypes DEF Init, Socket
  <2>2. Init => Rest
    <3>1. 1 \in 0 .. MaxBackoff /\ 0 \in 0 .. MaxPing
      OBVIOUS
    <3> QED
      BY <3>1 DEF Init, Rest
  <2> QED
    BY <2>1, <2>2, TypeParts
<1>2. TypeOK /\ [Next]_vars => TypeOK'
  <2>1. ASSUME TypeOK, UNCHANGED vars PROVE TypeOK'
    BY <2>1 DEF vars, statusVars, halVars, sockVars, idVars, TypeOK
  <2> QED
    BY <2>1, HandleTypes, TickTypes, WorldTypes DEF Next
<1> QED
  BY <1>1, <1>2, PTL DEF Spec

-----------------------------------------------------------------------------
(* No late SUBACK stands in for a missing one                                *)
(*                                                                           *)
(* Message ids wrap, so an old SUBACK could carry the id that is awaited.    *)
(* It does not, for the distance between the two is bounded: a SUBSCRIBE     *)
(* made while an answer is unread either follows it in sent, where there is  *)
(* room for MaxSent, or takes at least one packet out of inbox.              *)

\* d SUBSCRIBEs were made after the one with this id, and seq is next.
Since(n, id, d) == n = id + 1 + d \/ n = id + 1 + d - IdMod

\* At most room SUBSCRIBEs were made after the one with this id; what right
\* says holds if there was none.
Placed(n, id, room, right) ==
  \E d \in Nat : d <= room /\ Since(n, id, d) /\ (d = 0 => right)

\* A SUBACK not read: the topic that is awaited was granted, if it is the
\* answer to the last SUBSCRIBE.
AckRoom(i) == IF conn = "open" THEN Len(inbox) - i + Len(sent) ELSE MaxInbox + MaxSent - i
AcksPlaced ==
  \A i \in 1 .. Len(inbox) : inbox[i].type = "SUBACK" =>
    Placed(seq, inbox[i].id, AckRoom(i), mqttstatus \in Topics => mqttstatus \in granted)

\* A SUBSCRIBE the broker has not read: the last one is for the topic awaited.
SubsPlaced ==
  \A j \in 1 .. Len(sent) : sent[j].type = "SUBSCRIBE" =>
    Placed(seq, sent[j].id, Len(sent) - j, mqttstatus \in Topics => sent[j].topic = mqttstatus)

Bounded == /\ Len(sent) <= MaxSent /\ Len(inbox) <= MaxInbox
           /\ conn # "open" => sent = <<>>

\* The id awaited is the one before the next.
AwaitsLast == mqttstatus \in Topics => seq = (subId + 1) % IdMod

\* The topics granted before the login gets where it is.
Before == [topic1 |-> {}, topic2 |-> {"topic1"}, topic3 |-> {"topic1", "topic2"},
           running |-> Topics]
GrantedSoFar ==
  mqttstatus \in Topics \cup {"running"} /\ conn # "none" => Before[mqttstatus] \subseteq granted

SubInv == AcksPlaced /\ SubsPlaced /\ Bounded /\ AwaitsLast /\ GrantedSoFar

-----------------------------------------------------------------------------
(* Message ids *)

LEMMA NextId ==
  ASSUME NEW a \in Ids
  PROVE  (a + 1) % IdMod = IF a + 1 = IdMod THEN 0 ELSE a + 1
<1>1. a \in Nat /\ a + 1 <= IdMod /\ IdMod \in Nat /\ IdMod > 0
  BY DEF Ids
<1>2. CASE a + 1 = IdMod
  BY <1>1, <1>2
<1>3. CASE a + 1 < IdMod
  BY <1>1, <1>3
<1> QED
  BY <1>1, <1>2, <1>3

\* More room and a weaker claim.
LEMMA PlacedWeaker ==
  ASSUME NEW n \in Ids, NEW id \in Ids, NEW room \in Int, NEW more \in Int, room <= more,
         NEW p \in BOOLEAN, NEW q \in BOOLEAN, p => q, Placed(n, id, room, p)
  PROVE  Placed(n, id, more, q)
<1>1. PICK d \in Nat : d <= room /\ Since(n, id, d) /\ (d = 0 => p)
  BY DEF Placed
<1>2. d <= more
  BY <1>1
<1> QED
  BY <1>1, <1>2 DEF Placed

\* The next SUBSCRIBE leaves every other one further behind.
LEMMA PlacedNext ==
  ASSUME NEW n \in Ids, NEW id \in Ids, NEW room \in Int, NEW more \in Int, room < more,
         room < MaxSent + MaxInbox, NEW p \in BOOLEAN, NEW q \in BOOLEAN, Placed(n, id, room, p)
  PROVE  Placed((n + 1) % IdMod, id, more, q)
<1>1. PICK d \in Nat : d <= room /\ Since(n, id, d)
  BY DEF Placed
<1>2. n \in Nat /\ id \in Nat /\ n < IdMod /\ id < IdMod /\ IdMod \in Nat
  BY DEF Ids
<1>3. d + 1 < IdMod
  BY <1>1
<1>4. Since((n + 1) % IdMod, id, d + 1)
  <2> DEFINE m == (n + 1) % IdMod
  <2>1. m = IF n + 1 = IdMod THEN 0 ELSE n + 1
    BY NextId
  <2> HIDE DEF m
  <2>2. m = id + 1 + (d + 1) \/ m = id + 1 + (d + 1) - IdMod
    BY <1>1, <1>2, <1>3, <2>1 DEF Since
  <2> QED
    BY <2>2 DEF m, Since
<1>5. d + 1 \in Nat /\ d + 1 <= more /\ d + 1 # 0
  BY <1>1
<1> QED
  BY <1>4, <1>5 DEF Placed

LEMMA PlacedNow ==
  ASSUME NEW id \in Ids, NEW room \in Nat, NEW p \in BOOLEAN, p
  PROVE  Placed((id + 1) % IdMod, id, room, p)
<1>1. Since((id + 1) % IdMod, id, 0)
  <2> DEFINE m == (id + 1) % IdMod
  <2>1. m = IF id + 1 = IdMod THEN 0 ELSE id + 1
    BY NextId
  <2> HIDE DEF m
  <2>2. m = id + 1 + 0 \/ m = id + 1 + 0 - IdMod
    BY <2>1 DEF Ids
  <2> QED
    BY <2>2 DEF m, Since
<1> QED
  BY <1>1 DEF Placed

\* The id before the next one is that of the last SUBSCRIBE, and of no other.
LEMMA PlacedLast ==
  ASSUME NEW id \in Ids, NEW room \in Int, room < MaxSent + MaxInbox, NEW p \in BOOLEAN,
         Placed((id + 1) % IdMod, id, room, p)
  PROVE  p
<1> DEFINE m == (id + 1) % IdMod
<1>1. m = IF id + 1 = IdMod THEN 0 ELSE id + 1
  BY NextId
<1>2. PICK d \in Nat : d <= room /\ Since(m, id, d) /\ (d = 0 => p)
  BY DEF Placed
<1> HIDE DEF m
<1>3. d < IdMod
  BY <1>2
<1>4. d = 0
  BY <1>1, <1>2, <1>3 DEF Since, Ids
<1> QED
  BY <1>2, <1>4

-----------------------------------------------------------------------------
(* What is left of inbox and sent keeps its place *)

\* What the login waits for is what it waited for.
AwaitsSame == mqttstatus' \in Topics => mqttstatus' = mqttstatus

\* The SUBACKs that are left moved n places up.
Moved(i, n) == i + n \in 1 .. Len(inbox) /\ inbox'[i] = inbox[i + n]

LEMMA RoomTypes ==
  ASSUME Socket, Bounded, NEW i \in 1 .. Len(inbox)
  PROVE  AckRoom(i) \in Int /\ AckRoom(i) < MaxSent + MaxInbox /\ inbox[i].id \in Ids
<1>1. Len(inbox) \in Nat /\ Len(sent) \in Nat /\ inbox[i] \in Packets
  BY DEF Socket
<1>2. inbox[i].id \in Ids
  BY <1>1 DEF Packets
<1> QED
  BY <1>1, <1>2 DEF AckRoom, Bounded

LEMMA AcksKept ==
  ASSUME Socket, Bounded, AcksPlaced, AwaitsSame, seq' = seq, granted \subseteq granted',
         Len(inbox') \in Nat, Len(sent') \in Nat, NEW n \in Nat,
         \A i \in 1 .. Len(inbox') : inbox'[i].type = "SUBACK" =>
           Moved(i, n) /\ AckRoom(i + n) <= AckRoom(i)'
  PROVE  AcksPlaced'
<1>1. SUFFICES ASSUME NEW i \in 1 .. Len(inbox'), inbox'[i].type = "SUBACK"
               PROVE  Placed(seq, inbox'[i].id, AckRoom(i)',
                             mqttstatus' \in Topics => mqttstatus' \in granted')
  BY DEF AcksPlaced
<1>2. Moved(i, n) /\ AckRoom(i + n) <= AckRoom(i)'
  BY <1>1
<1> DEFINE p == mqttstatus \in Topics => mqttstatus \in granted
           q == mqttstatus' \in Topics => mqttstatus' \in granted'
<1>3. i + n \in 1 .. Len(inbox) /\ inbox'[i] = inbox[i + n]
  BY <1>2 DEF Moved
<1>4. Placed(seq, inbox[i + n].id, AckRoom(i + n), p)
  BY <1>1, <1>3 DEF AcksPlaced
<1>5. p \in BOOLEAN /\ q \in BOOLEAN /\ (p => q)
  BY DEF AwaitsSame
<1>6. AckRoom(i)' \in Int
  BY DEF AckRoom
<1>7. AckRoom(i + n) \in Int /\ inbox[i + n].id \in Ids /\ seq \in Ids
  BY <1>3, RoomTypes DEF Socket
<1> HIDE DEF p, q
<1>8. Placed(seq, inbox[i + n].id, AckRoom(i)', q)
  BY <1>2, <1>4, <1>5, <1>6, <1>7, PlacedWeaker
<1> QED
  BY <1>3, <1>8 DEF q

LEMMA AcksLeftBehind ==
  ASSUME Socket, Bounded, AcksPlaced, seq' = (seq + 1) % IdMod,
         Len(inbox') \in Nat, Len(sent') \in Nat, NEW n \in Nat,
         \A i \in 1 .. Len(inbox') : inbox'[i].type = "SUBACK" =>
           Moved(i, n) /\ AckRoom(i + n) < AckRoom(i)'
  PROVE  AcksPlaced'
<1>1. SUFFICES ASSUME NEW i \in 1 .. Len(inbox'), inbox'[i].type = "SUBACK"
               PROVE  Placed((seq + 1) % IdMod, inbox'[i].id, AckRoom(i)',
                             mqttstatus' \in Topics => mqttstatus' \in granted')
  BY DEF AcksPlaced
<1>2. Moved(i, n) /\ AckRoom(i + n) < AckRoom(i)'
  BY <1>1
<1> DEFINE p == mqttstatus \in Topics => mqttstatus \in granted
           q == mqttstatus' \in Topics => mqttstatus' \in granted'
<1>3. i + n \in 1 .. Len(inbox) /\ inbox'[i] = inbox[i + n]
  BY <1>2 DEF Moved
<1>4. Placed(seq, inbox[i + n].id, AckRoom(i + n), p)
  BY <1>1, <1>3 DEF AcksPlaced
<1>5. p \in BOOLEAN /\ q \in BOOLEAN
  OBVIOUS
<1>6. AckRoom(i)' \in Int
  BY DEF AckRoom
<1>7. /\ AckRoom(i + n) \in Int /\ AckRoom(i + n) < MaxSent + MaxInbox
      /\ inbox[i + n].id \in Ids /\ seq \in Ids
  BY <1>3, RoomTypes DEF Socket
<1> HIDE DEF p, q
<1>8. Placed((seq + 1) % IdMod, inbox[i + n].id, AckRoom(i)', q)
  BY <1>2, <1>4, <1>5, <1>6, <1>7, PlacedNext
<1> QED
  BY <1>3, <1>8 DEF q

\* The SUBSCRIBEs that are left moved n places up.
LEMMA SubsKept ==
  ASSUME Socket, SubsPlaced, AwaitsSame, seq' = seq, Len(sent') \in Nat, NEW n \in Nat,
         \A j \in 1 .. Len(sent') : sent'[j].type = "SUBSCRIBE" =>
           j + n \in 1 .. Len(sent) /\ sent'[j] = sent[j + n] /\ Len(sent) <= Len(sent') + n
  PROVE  SubsPlaced'
<1>1. SUFFICES ASSUME NEW j \in 1 .. Len(sent'), sent'[j].type = "SUBSCRIBE"
               PROVE  Placed(seq, sent'[j].id, Len(sent') - j,
                             mqttstatus' \in Topics => sent'[j].topic = mqttstatus')
  BY DEF SubsPlaced
<1> DEFINE p == mqttstatus \in Topics => sent[j + n].topic = mqttstatus
           q == mqttstatus' \in Topics => sent'[j].topic = mqttstatus'
<1>2. j + n \in 1 .. Len(sent) /\ sent'[j] = sent[j + n] /\ Len(sent) <= Len(sent') + n
  BY <1>1
<1>3. Placed(seq, sent[j + n].id, Len(sent) - (j + n), p)
  BY <1>1, <1>2 DEF SubsPlaced
<1>4. p \in BOOLEAN /\ q \in BOOLEAN /\ (p => q)
  BY <1>2 DEF AwaitsSame
<1>5. sent[j + n] \in Requests /\ seq \in Ids /\ Len(sent) \in Nat
  BY <1>2 DEF Socket
<1>6. sent[j + n].id \in Ids
  BY <1>5, RequestIds
<1>7. /\ Len(sent) - (j + n) \in Int /\ Len(sent') - j \in Int
      /\ Len(sent) - (j + n) <= Len(sent') - j
  BY <1>2, <1>5
<1> HIDE DEF p, q
<1>8. Placed(seq, sent[j + n].id, Len(sent') - j, q)
  BY <1>3, <1>4, <1>5, <1>6, <1>7, PlacedWeaker
<1> QED
  BY <1>2, <1>8 DEF q

\* One SUBSCRIBE more, for the topic that is awaited now.
LEMMA SubsFollowed ==
  ASSUME Socket, Bounded, SubsPlaced, seq' = (seq + 1) % IdMod, NEW t \in Topics,
         mqttstatus' \in Topics => mqttstatus' = t,
         sent' = Append(sent, Sub(t, seq)), Len(sent) < MaxSent
  PROVE  SubsPlaced'
<1>0. Len(sent) \in Nat /\ Len(sent') = Len(sent) + 1 /\ seq \in Ids
  BY DEF Socket
<1>1. SUFFICES ASSUME NEW j \in 1 .. Len(sent) + 1, sent'[j].type = "SUBSCRIBE"
               PROVE  Placed((seq + 1) % IdMod, sent'[j].id, Len(sent) + 1 - j,
                             mqttstatus' \in Topics => sent'[j].topic = mqttstatus')
  BY <1>0 DEF SubsPlaced
<1> DEFINE q == mqttstatus' \in Topics => sent'[j].topic = mqttstatus'
<1>2. CASE j = Len(sent) + 1
  <2>1. sent'[j] = Sub(t, seq)
    BY <1>0, <1>2 DEF Socket
  <2>2. sent'[j].id = seq /\ q /\ q \in BOOLEAN
    BY <2>1 DEF Sub
  <2>3. Len(sent) + 1 - j \in Nat
    BY <1>0, <1>2
  <2> HIDE DEF q
  <2>4. Placed((seq + 1) % IdMod, seq, Len(sent) + 1 - j, q)
    BY <1>0, <2>2, <2>3, PlacedNow
  <2> QED
    BY <2>2, <2>4 DEF q
<1>3. CASE j # Len(sent) + 1
  <2> DEFINE p == mqttstatus \in Topics => sent[j].topic = mqttstatus
  <2>1. j \in 1 .. Len(sent)
    BY <1>0, <1>3
  <2>2. sent'[j] = sent[j]
    BY <1>0, <2>1 DEF Socket
  <2>3. Placed(seq, sent[j].id, Len(sent) - j, p)
    BY <1>1, <2>1, <2>2 DEF SubsPlaced
  <2>4. sent[j] \in Requests
    BY <2>1 DEF Socket
  <2>5. sent[j].id \in Ids
    BY <2>4, RequestIds
  <2>6. /\ Len(sent) - j \in Int /\ Len(sent) + 1 - j \in Int
        /\ Len(sent) - j < Len(sent) + 1 - j /\ Len(sent) - j < MaxSent + MaxInbox
    BY <1>0, <2>1
  <2>7. p \in BOOLEAN /\ q \in BOOLEAN
    OBVIOUS
  <2> HIDE DEF p, q
  <2>8. Placed((seq + 1) % IdMod, sent[j].id, Len(sent) + 1 - j, q)
    BY <1>0, <2>3, <2>5, <2>6, <2>7, PlacedNext
  <2> QED
    BY <2>2, <2>8 DEF q
<1> QED
  BY <1>2, <1>3

-----------------------------------------------------------------------------
(* What the requests and the reads do to it *)

Line == AcksPlaced /\ SubsPlaced /\ Bounded

\* rest is inbox without its first n packets.
LeftBy(rest, n) == /\ n \in Nat /\ Len(rest) \in Nat /\ Len(rest) <= Len(inbox)
                   /\ \A i \in 1 .. Len(rest) : i + n <= Len(inbox) /\ rest[i] = inbox[i + n]
                   /\ rest = <<>> \/ Len(inbox) = Len(rest) + n

LEMMA RestLeft ==
  ASSUME Socket, NEW rest \in Rests, inbox # <<>>
  PROVE  \E n \in Nat \ {0} : LeftBy(rest, n)
<1>1. PICK n \in 1 .. Len(inbox) : rest = SubSeq(inbox, n + 1, Len(inbox))
  BY DEF Rests
<1>2. inbox \in Seq(Packets) /\ Len(inbox) \in Nat
  BY DEF Socket
<1>3. n + 1 \in Nat /\ Len(inbox) \in Nat /\ n + 1 <= Len(inbox) + 1
  BY <1>2
<1>4. \A i \in n + 1 .. Len(inbox) : inbox[i] \in Packets
  BY <1>2
<1>5. Len(rest) = Len(inbox) - n /\ \A i \in 1 .. Len(rest) : rest[i] = inbox[i + n]
  BY <1>1, <1>2, <1>3
<1> QED
  BY <1>2, <1>5 DEF LeftBy

LEMMA NoneLeft == LeftBy(<<>>, 0) <=> Len(inbox) \in Nat
BY DEF LeftBy

LEMMA TailLeft ==
  ASSUME Socket, inbox # <<>>
  PROVE  LeftBy(Tail(inbox), 1)
BY DEF LeftBy, Socket

LEMMA QuietPlaced ==
  ASSUME Socket, Line, AwaitsSame, NEW rest, NEW n, LeftBy(rest, n), Quiet(rest)
  PROVE  Line'
<1>1. /\ inbox' = rest /\ conn' = conn /\ sent' = sent /\ granted' = granted /\ seq' = seq
  BY DEF Quiet, idVars
<1>2. n \in Nat /\ Len(inbox') \in Nat /\ Len(sent') \in Nat /\ Len(inbox) \in Nat
  BY <1>1 DEF LeftBy, Socket
<1>3. ASSUME NEW i \in 1 .. Len(inbox')
      PROVE  Moved(i, n) /\ AckRoom(i + n) <= AckRoom(i)'
  <2>1. i + n <= Len(inbox) /\ rest[i] = inbox[i + n]
    BY <1>1 DEF LeftBy
  <2>2. Len(inbox) = Len(rest) + n
    <3>1. rest # <<>>
      BY <1>1
    <3> QED
      BY <3>1 DEF LeftBy
  <2>3. i + n \in 1 .. Len(inbox)
    BY <1>2, <2>1
  <2>4. AckRoom(i + n) <= AckRoom(i)'
    BY <1>1, <1>2, <2>2 DEF AckRoom
  <2> QED
    BY <1>1, <2>1, <2>3, <2>4 DEF Moved
<1>4. AcksPlaced'
  BY <1>1, <1>2, <1>3, AcksKept DEF Line
<1>5. SubsPlaced'
  <2>1. \A j \in 1 .. Len(sent') :
          j + 0 \in 1 .. Len(sent) /\ sent'[j] = sent[j + 0] /\ Len(sent) <= Len(sent') + 0
    BY <1>1, <1>2
  <2> QED
    BY <1>1, <1>2, <2>1, SubsKept DEF Line
<1>6. Bounded'
  <2>1. Len(inbox') <= Len(inbox)
    BY <1>1 DEF LeftBy
  <2> QED
    BY <1>1, <1>2, <2>1 DEF Line, Bounded
<1> QED
  BY <1>4, <1>5, <1>6 DEF Line

\* A request for a topic: every other SUBSCRIBE falls further behind.
LEMMA SubPlaced ==
  ASSUME Socket, Line, NEW t \in Topics, mqttstatus' \in Topics => mqttstatus' = t,
         NEW rest, NEW n, LeftBy(rest, n), n # 0 \/ rest = <<>>, ReqSubTopic(t, rest)
  PROVE  Line' /\ AwaitsLast' /\ (conn' # "none" => conn # "none") /\ granted' = granted
<1>1. /\ inbox' = rest /\ granted' = granted /\ subId' = seq /\ seq' = (seq + 1) % IdMod
      /\ Send(Sub(t, seq))
  BY DEF ReqSubTopic
<1>2. \/ conn' = conn /\ sent' = sent /\ conn # "open"
      \/ conn' = conn /\ sent' = Append(sent, Sub(t, seq)) /\ Len(sent) < MaxSent /\ conn = "open"
      \/ conn' = "mute" /\ sent' = <<>> /\ conn = "open"
  BY <1>1 DEF Send
<1>3. Len(inbox) \in Nat /\ Len(sent) \in Nat /\ n \in Nat /\ Len(inbox') \in Nat
      /\ Sub(t, seq) \in Requests /\ seq \in Ids
  BY <1>1, RequestTypes DEF LeftBy, Socket
<1>4. Len(sent') \in Nat /\ (conn = "open" /\ conn' = conn => Len(sent') = Len(sent) + 1)
  BY <1>2, <1>3 DEF Socket
<1>5. ASSUME NEW i \in 1 .. Len(inbox')
      PROVE  Moved(i, n) /\ AckRoom(i + n) < AckRoom(i)'
  <2>1. i + n <= Len(inbox) /\ rest[i] = inbox[i + n]
    BY <1>1 DEF LeftBy
  <2>2. Len(inbox) = Len(rest) + n /\ n > 0
    <3>1. rest # <<>>
      BY <1>1
    <3> QED
      BY <1>3, <3>1 DEF LeftBy
  <2>3. i + n \in 1 .. Len(inbox)
    BY <1>3, <2>1
  <2>4. AckRoom(i + n) < AckRoom(i)'
    <3>1. Len(sent) <= MaxSent /\ Len(inbox) <= MaxInbox
      BY DEF Line, Bounded
    <3>2. CASE conn = "open" /\ conn' = "open"
      BY <1>1, <1>3, <1>4, <2>2, <3>2 DEF AckRoom
    <3>3. CASE conn' # "open"
      BY <1>1, <1>3, <2>2, <3>1, <3>3 DEF AckRoom
    <3> QED
      BY <1>2, <3>2, <3>3
  <2> QED
    BY <1>1, <2>1, <2>3, <2>4 DEF Moved
<1>6. AcksPlaced'
  BY <1>1, <1>3, <1>4, <1>5, AcksLeftBehind DEF Line
<1>7. SubsPlaced'
  <2>1. CASE sent' = <<>>
    BY <2>1 DEF SubsPlaced
  <2>2. CASE sent' # <<>>
    <3>1. sent' = Append(sent, Sub(t, seq)) /\ Len(sent) < MaxSent
      BY <1>2, <2>2 DEF Line, Bounded
    <3> QED
      BY <1>1, <3>1, SubsFollowed DEF Line
  <2> QED
    BY <2>1, <2>2
<1>8. Bounded'
  <2>1. Len(inbox') <= MaxInbox
    BY <1>1, <1>3 DEF LeftBy, Line, Bounded
  <2>2. Len(sent') <= MaxSent /\ (conn' # "open" => sent' = <<>>)
    BY <1>2, <1>3, <1>4 DEF Line, Bounded
  <2> QED
    BY <2>1, <2>2 DEF Bounded
<1>9. AwaitsLast'
  BY <1>1 DEF AwaitsLast
<1> QED
  BY <1>1, <1>2, <1>6, <1>7, <1>8, <1>9 DEF Line

LEMMA ConnectPlaced ==
  ASSUME ReqConnect
  PROVE  Line'
<1>1. inbox' = <<>> /\ ((sent' = <<Connect>> /\ conn' = "open") \/ sent' = <<>>)
  BY DEF ReqConnect
<1>2. AcksPlaced'
  BY <1>1 DEF AcksPlaced
<1>3. SubsPlaced'
  <2>1. CASE sent' = <<>>
    BY <2>1 DEF SubsPlaced
  <2>2. CASE sent' = <<Connect>>
    <3>1. \A j \in 1 .. Len(sent') : sent'[j].type = "CONNECT"
      BY <2>2 DEF Connect
    <3> QED
      BY <3>1 DEF SubsPlaced
  <2> QED
    BY <1>1, <2>1, <2>2
<1>4. Bounded'
  <2>1. Len(<<>>) = 0 /\ Len(<<Connect>>) = 1 /\ MaxInbox >= 0 /\ MaxSent >= 1
    OBVIOUS
  <2>2. CASE sent' = <<>>
    BY <1>1, <2>1, <2>2 DEF Bounded
  <2>3. CASE sent' = <<Connect>> /\ conn' = "open"
    BY <1>1, <2>1, <2>3 DEF Bounded
  <2> QED
    BY <1>1, <2>2, <2>3
<1> QED
  BY <1>2, <1>3, <1>4 DEF Line

\* A PINGREQ is no SUBSCRIBE, and takes no SUBACK's room.
LEMMA PingPlaced ==
  ASSUME Socket, Line, AwaitsSame, UNCHANGED <<inbox, granted, seq>>, Send(Ping)
  PROVE  Line' /\ (conn' # "none" => conn # "none")
<1>1. \/ conn' = conn /\ sent' = sent
      \/ conn' = conn /\ sent' = Append(sent, Ping) /\ Len(sent) < MaxSent /\ conn = "open"
      \/ conn' = "mute" /\ sent' = <<>> /\ conn = "open"
  BY DEF Send
<1>2. Len(inbox) \in Nat /\ Len(sent) \in Nat /\ Ping \in Requests
  BY RequestTypes DEF Socket
<1>3. Len(sent') \in Nat /\ (conn' = conn => Len(sent) <= Len(sent'))
  BY <1>1, <1>2 DEF Socket
<1>4. AcksPlaced'
  <2>1. ASSUME NEW i \in 1 .. Len(inbox')
        PROVE  Moved(i, 0) /\ AckRoom(i + 0) <= AckRoom(i)'
    <3>1. Len(sent) <= MaxSent /\ Len(inbox) <= MaxInbox
      BY DEF Line, Bounded
    <3>2. AckRoom(i + 0) <= AckRoom(i)'
      <4>1. CASE conn' = conn
        BY <1>2, <1>3, <4>1 DEF AckRoom
      <4>2. CASE conn' # conn
        BY <1>1, <1>2, <3>1, <4>2 DEF AckRoom
      <4> QED
        BY <4>1, <4>2
    <3> QED
      BY <1>2, <3>2 DEF Moved
  <2> QED
    BY <1>2, <1>3, <2>1, AcksKept DEF Line
<1>5. SubsPlaced'
  <2>1. ASSUME NEW j \in 1 .. Len(sent'), sent'[j].type = "SUBSCRIBE"
        PROVE  j + 0 \in 1 .. Len(sent) /\ sent'[j] = sent[j + 0] /\ Len(sent) <= Len(sent') + 0
    <3>1. CASE sent' = sent
      BY <1>2, <3>1
    <3>2. CASE sent' = Append(sent, Ping)
      <4>1. Len(sent') = Len(sent) + 1 /\ sent'[Len(sent) + 1] = Ping
        BY <1>2, <3>2 DEF Socket
      <4>2. j # Len(sent) + 1
        BY <2>1, <4>1 DEF Ping
      <4>3. j \in 1 .. Len(sent)
        BY <1>2, <4>1, <4>2
      <4>4. sent'[j] = sent[j]
        BY <1>2, <3>2, <4>3 DEF Socket
      <4> QED
        BY <1>2, <4>1, <4>3, <4>4
    <3>3. CASE sent' = <<>>
      BY <3>3
    <3> QED
      BY <1>1, <3>1, <3>2, <3>3
  <2> QED
    BY <1>3, <2>1, SubsKept DEF Line
<1>6. Bounded'
  BY <1>1, <1>2, <1>3 DEF Line, Bounded, Socket
<1> QED
  BY <1>1, <1>4, <1>5, <1>6 DEF Line

-----------------------------------------------------------------------------
(* Each action keeps it *)

LEMMA HandleKeepsPlace ==
  ASSUME TypeOK, SubInv, Handle
  PROVE  SubInv'
<1>0. Socket /\ Rest /\ Line
  BY TypeParts DEF SubInv, Line
<1>a. ASSUME Line', AwaitsLast', GrantedSoFar' PROVE SubInv'
  BY <1>a DEF Line, SubInv
<1>b. ASSUME Pending, mqttstatus' = mqttstatus,
             NEW rest, NEW n, LeftBy(rest, n), n # 0 \/ rest = <<>>, Again(rest)
      PROVE  SubInv'
  <2>1. CASE mqttstatus = "login"
    <3>1. Line'
      BY <1>b, <2>1, ConnectPlaced DEF Again
    <3>2. AwaitsLast' /\ GrantedSoFar'
      BY <1>b, <2>1 DEF AwaitsLast, GrantedSoFar, Topics
    <3> QED
      BY <1>a, <3>1, <3>2
  <2>2. CASE mqttstatus # "login"
    <3>1. mqttstatus \in Topics /\ ReqSubTopic(mqttstatus, rest)
      BY <1>b, <2>2 DEF Pending, Again
    <3>2. Line' /\ AwaitsLast' /\ (conn' # "none" => conn # "none") /\ granted' = granted
      BY <1>0, <1>b, <3>1, SubPlaced
    <3>3. GrantedSoFar'
      BY <1>b, <3>2 DEF SubInv, GrantedSoFar
    <3> QED
      BY <1>a, <3>2, <3>3
  <2> QED
    BY <2>1, <2>2
<1>c. ASSUME mqttstatus' = mqttstatus, NEW rest, NEW n, LeftBy(rest, n), Quiet(rest)
      PROVE  SubInv'
  <2>1. Line'
    BY <1>0, <1>c, QuietPlaced DEF AwaitsSame
  <2>2. AwaitsLast' /\ GrantedSoFar'
    BY <1>c DEF Quiet, idVars, SubInv, AwaitsLast, GrantedSoFar
  <2> QED
    BY <1>a, <2>1, <2>2
<1>1. CASE Login
  <2>1. Line'
    BY <1>1, ConnectPlaced DEF Login
  <2>2. AwaitsLast' /\ GrantedSoFar'
    BY <1>1 DEF Login, AwaitsLast, GrantedSoFar, Topics
  <2> QED
    BY <1>a, <2>1, <2>2
<1>2. CASE Timeout
  <2>1. Pending /\ Again(<<>>) /\ mqttstatus' = mqttstatus
    BY <1>2 DEF Timeout
  <2>2. LeftBy(<<>>, 0)
    BY <1>0, NoneLeft DEF Socket
  <2> QED
    BY <1>b, <2>1, <2>2
<1>3. CASE Restart
  <2>1. /\ mqttstatus' = "idle" /\ conn' = "none" /\ sent' = <<>> /\ inbox' = <<>>
    BY <1>3 DEF Restart, Fresh
  <2>2. Len(<<>>) = 0 /\ 0 <= MaxInbox /\ 0 <= MaxSent
    OBVIOUS
  <2>3. Line'
    BY <2>1, <2>2 DEF Line, AcksPlaced, SubsPlaced, Bounded
  <2>4. AwaitsLast' /\ GrantedSoFar'
    BY <2>1 DEF AwaitsLast, GrantedSoFar, Topics
  <2> QED
    BY <1>a, <2>3, <2>4
<1>4. CASE ReadClosed
  <2>1. /\ inbox = <<>> /\ inbox' = <<>> /\ conn' = "none" /\ sent' = <<>>
        /\ seq' = seq /\ subId' = subId
        /\ mqttstatus' = mqttstatus \/ mqttstatus' = "start"
    BY <1>4 DEF ReadClosed, idVars
  <2>2. Len(<<>>) = 0 /\ 0 <= MaxInbox /\ 0 <= MaxSent
    OBVIOUS
  <2>3. Line'
    BY <2>1, <2>2 DEF Line, AcksPlaced, SubsPlaced, Bounded
  <2>4. AwaitsLast' /\ GrantedSoFar'
    BY <2>1 DEF SubInv, AwaitsLast, GrantedSoFar, Topics
  <2> QED
    BY <1>a, <2>3, <2>4
<1>5. CASE ReadAnswer
  <2>0. inbox # <<>> /\ Answered(First)
    BY <1>5 DEF ReadAnswer, Readable
  <2>1. PICK rest \in Rests :
          IF mqttstatus = "topic3" THEN Quiet(rest) ELSE ReqSubTopic(After[mqttstatus], rest)
    BY <1>5 DEF ReadAnswer
  <2>2. PICK n \in Nat \ {0} : LeftBy(rest, n)
    BY <1>0, <2>0, RestLeft
  <2>3. mqttstatus \in {"login", "topic1", "topic2", "topic3"}
        /\ mqttstatus' = After[mqttstatus]
    BY <1>5 DEF ReadAnswer, Answered, Topics
  <2>4. mqttstatus \in Topics => mqttstatus \in granted
    <3>1. SUFFICES ASSUME mqttstatus \in Topics PROVE mqttstatus \in granted
      OBVIOUS
    <3>2. 1 \in 1 .. Len(inbox) /\ First = inbox[1]
      BY <1>0, <2>0 DEF First, Socket
    <3>3. inbox[1].type = "SUBACK" /\ inbox[1].id = subId
      BY <2>0, <3>1, <3>2 DEF Answered, Topics
    <3> DEFINE p == mqttstatus \in Topics => mqttstatus \in granted
    <3>4. p \in BOOLEAN
      OBVIOUS
    <3>5. Placed(seq, subId, AckRoom(1), p)
      BY <3>2, <3>3 DEF SubInv, AcksPlaced
    <3>6. seq = (subId + 1) % IdMod
      BY <3>1 DEF SubInv, AwaitsLast
    <3>7. AckRoom(1) \in Int /\ AckRoom(1) < MaxSent + MaxInbox /\ subId \in Ids
      BY <1>0, <3>2, RoomTypes DEF Line, Socket
    <3> HIDE DEF p
    <3>8. p
      BY <3>4, <3>5, <3>6, <3>7, PlacedLast
    <3> QED
      BY <3>1, <3>8 DEF p
  <2>5. conn # "none" => Before[mqttstatus'] \subseteq granted
    <3>1. CASE mqttstatus = "login"
      BY <2>3, <3>1 DEF After, Before
    <3>2. CASE mqttstatus = "topic1"
      BY <2>3, <2>4, <3>2 DEF After, Before, Topics
    <3>3. CASE mqttstatus = "topic2"
      BY <2>3, <2>4, <3>3 DEF SubInv, GrantedSoFar, After, Before, Topics
    <3>4. CASE mqttstatus = "topic3"
      BY <2>3, <2>4, <3>4 DEF SubInv, GrantedSoFar, After, Before, Topics
    <3> QED
      BY <2>3, <3>1, <3>2, <3>3, <3>4
  <2>6. CASE mqttstatus = "topic3"
    <3>1. Quiet(rest) /\ mqttstatus' = "running"
      BY <2>1, <2>3, <2>6 DEF After
    <3>2. Line'
      BY <1>0, <2>2, <3>1, QuietPlaced DEF AwaitsSame, Topics
    <3>3. conn' = conn /\ granted' = granted
      BY <3>1 DEF Quiet
    <3>4. AwaitsLast' /\ GrantedSoFar'
      BY <2>5, <3>1, <3>3 DEF AwaitsLast, GrantedSoFar, Topics
    <3> QED
      BY <1>a, <3>2, <3>4
  <2>7. CASE mqttstatus # "topic3"
    <3>1. ReqSubTopic(After[mqttstatus], rest)
      BY <2>1, <2>7
    <3>2. After[mqttstatus] \in Topics
      BY <2>3, <2>7 DEF After, Topics
    <3>3. Line' /\ AwaitsLast' /\ (conn' # "none" => conn # "none") /\ granted' = granted
      BY <1>0, <2>2, <2>3, <3>1, <3>2, SubPlaced
    <3>4. GrantedSoFar'
      BY <2>5, <3>3 DEF GrantedSoFar
    <3> QED
      BY <1>a, <3>3, <3>4
  <2> QED
    BY <2>6, <2>7
<1>6. CASE ReadOther
  <2>0. inbox # <<>> /\ mqttstatus' = mqttstatus
    BY <1>6 DEF ReadOther, Readable
  <2>1. CASE \E rest \in Rests : Quiet(rest)
    BY <1>0, <1>c, <2>0, <2>1, RestLeft
  <2>2. CASE Pending /\ \E rest \in Rests : Again(rest)
    <3>1. PICK rest \in Rests : Again(rest)
      BY <2>2
    <3>2. PICK n \in Nat \ {0} : LeftBy(rest, n)
      BY <1>0, <2>0, RestLeft
    <3> QED
      BY <1>b, <2>0, <2>2, <3>1, <3>2
  <2> QED
    BY <1>6, <2>1, <2>2 DEF ReadOther
<1>7. CASE ReadSession
  <2>0. inbox # <<>> /\ mqttstatus' = mqttstatus
    BY <1>7 DEF ReadSession, Readable
  <2>1. PICK rest \in Rests : Quiet(rest)
    BY <1>7 DEF ReadSession
  <2> QED
    BY <1>0, <1>c, <2>0, <2>1, RestLeft
<1>8. CASE ReadPart
  <2>1. inbox # <<>> /\ mqttstatus' = mqttstatus /\ Quiet(Tail(inbox))
    BY <1>8 DEF ReadPart, Readable
  <2> QED
    BY <1>0, <1>c, <2>1, TailLeft
<1> QED
  BY <1>1, <1>2, <1>3, <1>4, <1>5, <1>6, <1>7, <1>8 DEF Handle, Read

\* Nothing of the connection changes, and the login waits for what it waited
\* for or starts over.
LEMMA StillPlaced ==
  ASSUME TypeOK, SubInv, mqttstatus' = mqttstatus \/ mqttstatus' = "start",
         UNCHANGED <<conn, sent, inbox, seq, subId, granted>>
  PROVE  SubInv'
<1>0. Socket /\ Len(inbox) \in Nat /\ Len(sent) \in Nat
  BY TypeParts DEF Socket
<1>1. AwaitsSame
  BY DEF AwaitsSame, Topics
<1>2. \A i \in 1 .. Len(inbox) : Moved(i, 0) /\ AckRoom(i + 0) <= AckRoom(i)'
  BY <1>0 DEF Moved, AckRoom
<1>3. AcksPlaced'
  BY <1>0, <1>1, <1>2, AcksKept DEF SubInv
<1>4. SubsPlaced'
  BY <1>0, <1>1, SubsKept DEF SubInv
<1>5. Bounded' /\ AwaitsLast' /\ GrantedSoFar'
  BY DEF SubInv, Bounded, AwaitsLast, GrantedSoFar, Topics
<1> QED
  BY <1>3, <1>4, <1>5 DEF SubInv

LEMMA TickKeepsPlace ==
  ASSUME TypeOK, SubInv, Ticks
  PROVE  SubInv'
<1>0. Socket /\ Rest /\ Line
  BY TypeParts DEF SubInv, Line
<1>1. CASE Tick
  BY <1>1, StillPlaced DEF Tick, WiFiEventTick, StatusFrom, idVars
<1>2. CASE Heartbeat
  <2>1. /\ UNCHANGED <<inbox, granted, seq, subId>> /\ Send(Ping)
        /\ mqttstatus' = mqttstatus \/ mqttstatus' = "start"
    BY <1>2 DEF Heartbeat, WiFiEventTick, StatusFrom, idVars
  <2>2. Line' /\ (conn' # "none" => conn # "none")
    BY <1>0, <2>1, PingPlaced DEF AwaitsSame, Topics
  <2>3. AwaitsLast' /\ GrantedSoFar'
    BY <2>1, <2>2 DEF SubInv, AwaitsLast, GrantedSoFar, Topics
  <2> QED
    BY <2>2, <2>3 DEF Line, SubInv
<1>3. CASE HeartbeatFails
  BY <1>3, StillPlaced DEF HeartbeatFails, WiFiEventTick, idVars
<1>4. CASE RefreshIP
  BY <1>4, StillPlaced DEF RefreshIP, sockVars, idVars
<1> QED
  BY <1>1, <1>2, <1>3, <1>4 DEF Ticks

LEMMA WorldKeepsPlace ==
  ASSUME TypeOK, SubInv, \/ Provisioned \/ ConfigStatus \/ WifiChange
                         \/ BrokerServes \/ BrokerPublishes \/ BrokerCloses
  PROVE  SubInv'
<1>0. Socket /\ Rest /\ Line /\ Len(inbox) \in Nat /\ Len(sent) \in Nat
  BY TypeParts DEF SubInv, Line, Socket
<1>1. CASE Provisioned
  BY <1>1, StillPlaced DEF Provisioned, sockVars, idVars
<1>2. CASE ConfigStatus
  BY <1>2, StillPlaced DEF ConfigStatus, sockVars, idVars
<1>3. CASE WifiChange
  BY <1>3, StillPlaced DEF WifiChange, sockVars, idVars
<1>4. CASE BrokerServes
  <2>1. /\ conn = "open" /\ conn' = "open" /\ sent # <<>> /\ Len(inbox) < MaxInbox
        /\ sent' = Tail(sent) /\ granted' = granted \cup ({Head(sent).topic} \cap Topics)
        /\ UNCHANGED <<mqttstatus, seq, subId>>
    BY <1>4 DEF BrokerServes, Broker, idVars
  <2>2. PICK p \in Replies(Head(sent)) : inbox' = Append(inbox, p)
    BY <1>4 DEF BrokerServes
  <2>3. /\ Len(sent) # 0 /\ Head(sent) = sent[1] /\ Len(sent') = Len(sent) - 1
        /\ \A j \in 1 .. Len(sent') : sent'[j] = sent[j + 1]
    BY <1>0, <2>1 DEF Socket
  <2>4. /\ Len(inbox') = Len(inbox) + 1 /\ inbox'[Len(inbox) + 1] = p
        /\ \A i \in 1 .. Len(inbox) : inbox'[i] = inbox[i]
    BY <1>0, <2>2 DEF Socket
  <2>5. p.type = "SUBACK" => sent[1].type = "SUBSCRIBE" /\ p.id = sent[1].id
    <3>1. sent[1] \in Requests
      BY <1>0, <2>3 DEF Socket
    <3> QED
      BY <2>2, <2>3, <3>1 DEF Requests, Replies, Reply, Connect, Ping, Sub
  <2>6. AcksPlaced'
    <3>1. SUFFICES ASSUME NEW i \in 1 .. Len(inbox) + 1, inbox'[i].type = "SUBACK"
                   PROVE  Placed(seq, inbox'[i].id, Len(inbox) + Len(sent) - i,
                                 mqttstatus \in Topics => mqttstatus \in granted')
      BY <1>0, <2>1, <2>3, <2>4 DEF AcksPlaced, AckRoom
    <3> DEFINE q == mqttstatus \in Topics => mqttstatus \in granted'
    <3>2. CASE i = Len(inbox) + 1
      <4> DEFINE p1 == mqttstatus \in Topics => sent[1].topic = mqttstatus
      <4>1. sent[1].type = "SUBSCRIBE" /\ inbox'[i].id = sent[1].id
        BY <2>4, <2>5, <3>1, <3>2
      <4>2. 1 \in 1 .. Len(sent)
        BY <1>0, <2>3
      <4>3. Placed(seq, sent[1].id, Len(sent) - 1, p1)
        BY <1>0, <4>1, <4>2 DEF Line, SubsPlaced
      <4>4. Len(inbox) + Len(sent) - i = Len(sent) - 1 /\ Len(sent) - 1 \in Int
        BY <1>0, <3>2
      <4>5. p1 \in BOOLEAN /\ q \in BOOLEAN /\ (p1 => q)
        BY <2>1, <2>3
      <4>6. sent[1].id \in Ids /\ seq \in Ids
        BY <1>0, <4>2, RequestIds DEF Socket
      <4> HIDE DEF p1, q
      <4>7. Placed(seq, sent[1].id, Len(sent) - 1, q)
        BY <4>3, <4>4, <4>5, <4>6, PlacedWeaker
      <4> QED
        BY <4>1, <4>4, <4>7 DEF q
    <3>3. CASE i # Len(inbox) + 1
      <4> DEFINE p1 == mqttstatus \in Topics => mqttstatus \in granted
      <4>1. i \in 1 .. Len(inbox)
        BY <1>0, <3>3
      <4>2. inbox'[i] = inbox[i]
        BY <2>4, <4>1
      <4>3. AckRoom(i) = Len(inbox) + Len(sent) - i
        BY <1>0, <2>1, <4>1 DEF AckRoom
      <4>4. Placed(seq, inbox[i].id, AckRoom(i), p1)
        BY <1>0, <3>1, <4>1, <4>2 DEF Line, AcksPlaced
      <4>5. p1 \in BOOLEAN /\ q \in BOOLEAN /\ (p1 => q)
        BY <2>1
      <4>6. AckRoom(i) \in Int /\ inbox[i].id \in Ids /\ seq \in Ids
        BY <1>0, <4>1, RoomTypes DEF Line, Socket
      <4> HIDE DEF p1, q
      <4>7. Placed(seq, inbox[i].id, AckRoom(i), q)
        BY <4>4, <4>5, <4>6, PlacedWeaker
      <4> QED
        BY <4>2, <4>3, <4>7 DEF q
    <3> QED
      BY <3>2, <3>3
  <2>7. SubsPlaced'
    <3>1. \A j \in 1 .. Len(sent') :
            j + 1 \in 1 .. Len(sent) /\ sent'[j] = sent[j + 1] /\ Len(sent) <= Len(sent') + 1
      BY <1>0, <2>3
    <3>2. Len(sent') \in Nat
      BY <1>0, <2>3
    <3> QED
      BY <1>0, <2>1, <3>1, <3>2, SubsKept DEF Line, AwaitsSame
  <2>8. Bounded'
    BY <1>0, <2>1, <2>3, <2>4 DEF Line, Bounded
  <2>9. AwaitsLast' /\ GrantedSoFar'
    BY <2>1 DEF SubInv, AwaitsLast, GrantedSoFar
  <2> QED
    BY <2>6, <2>7, <2>8, <2>9 DEF SubInv
<1>5. CASE BrokerPublishes
  <2>1. /\ conn = "open" /\ Len(inbox) < MaxInbox /\ inbox' = Append(inbox, Reply("PUBLISH", 0))
        /\ UNCHANGED <<mqttstatus, seq, subId, conn, sent, granted>>
    BY <1>5 DEF BrokerPublishes, Broker, idVars
  <2>2. /\ Len(inbox') = Len(inbox) + 1 /\ inbox'[Len(inbox) + 1] = Reply("PUBLISH", 0)
        /\ \A i \in 1 .. Len(inbox) : inbox'[i] = inbox[i]
    BY <1>0, <2>1 DEF Socket
  <2>3. ASSUME NEW i \in 1 .. Len(inbox'), inbox'[i].type = "SUBACK"
        PROVE  Moved(i, 0) /\ AckRoom(i + 0) <= AckRoom(i)'
    <3>1. i # Len(inbox) + 1
      BY <2>2, <2>3 DEF Reply
    <3>2. i \in 1 .. Len(inbox)
      BY <1>0, <2>2, <3>1
    <3>3. AckRoom(i + 0) <= AckRoom(i)'
      BY <1>0, <2>1, <2>2, <3>2 DEF AckRoom
    <3> QED
      BY <2>2, <3>2, <3>3 DEF Moved
  <2>4. AcksPlaced'
    <3>1. Len(inbox') \in Nat /\ Len(sent') \in Nat /\ granted \subseteq granted'
      BY <1>0, <2>1, <2>2
    <3> QED
      BY <1>0, <2>1, <2>3, <3>1, AcksKept DEF Line, AwaitsSame
  <2>5. SubsPlaced' /\ AwaitsLast' /\ GrantedSoFar'
    BY <2>1 DEF SubInv, SubsPlaced, AwaitsLast, GrantedSoFar
  <2>6. Bounded'
    BY <1>0, <2>1, <2>2 DEF Line, Bounded
  <2> QED
    BY <2>4, <2>5, <2>6 DEF SubInv
<1>6. CASE BrokerCloses
  <2>1. /\ conn # "none" /\ conn' = "closed" /\ sent' = <<>>
        /\ UNCHANGED <<mqttstatus, seq, subId, inbox, granted>>
    BY <1>6 DEF BrokerCloses, Broker, idVars
  <2>2. Len(<<>>) = 0 /\ 0 <= MaxSent
    OBVIOUS
  <2>3. ASSUME NEW i \in 1 .. Len(inbox')
        PROVE  Moved(i, 0) /\ AckRoom(i + 0) <= AckRoom(i)'
    <3>1. Moved(i, 0)
      BY <1>0, <2>1 DEF Moved
    <3>2. AckRoom(i + 0) <= AckRoom(i)'
      BY <1>0, <2>1 DEF AckRoom, Line, Bounded
    <3> QED
      BY <3>1, <3>2
  <2>4. AcksPlaced'
    <3>1. Len(inbox') \in Nat /\ Len(sent') \in Nat /\ granted \subseteq granted'
      BY <1>0, <2>1, <2>2
    <3> QED
      BY <1>0, <2>1, <2>3, <3>1, AcksKept DEF Line, AwaitsSame
  <2>5. SubsPlaced'
    BY <2>1 DEF SubsPlaced
  <2>6. Bounded'
    BY <1>0, <2>1, <2>2 DEF Line, Bounded
  <2>7. AwaitsLast' /\ GrantedSoFar'
    BY <2>1 DEF SubInv, AwaitsLast, GrantedSoFar
  <2> QED
    BY <2>4, <2>5, <2>6, <2>7 DEF SubInv
<1> QED
  BY <1>1, <1>2, <1>3, <1>4, <1>5, <1>6

(* A session is taken for running only when the broker granted all three       *)
(* topics on its connection, although message ids wrap: with more ids than     *)
(* the connection holds requests and packets, no SUBACK that is still unread   *)
(* carries the awaited id unless it answers the last request.                  *)
THEOREM RunningHasTopics == Spec => []RunningIsSubscribed
<1>1. Init => SubInv
  <2> SUFFICES ASSUME Init PROVE SubInv
    OBVIOUS
  <2>1. /\ mqttstatus = "idle" /\ conn = "none" /\ sent = <<>> /\ inbox = <<>>
    BY DEF Init
  <2>2. Len(<<>>) = 0 /\ 0 <= MaxInbox /\ 0 <= MaxSent
    OBVIOUS
  <2> QED
    BY <2>1, <2>2 DEF SubInv, AcksPlaced, SubsPlaced, Bounded, AwaitsLast, GrantedSoFar, Topics
<1>2. TypeOK /\ SubInv /\ [Next]_vars => SubInv'
  <2>1. ASSUME TypeOK, SubInv, UNCHANGED vars PROVE SubInv'
    BY <2>1, StillPlaced DEF vars, sockVars, idVars
  <2> QED
    BY <2>1, HandleKeepsPlace, TickKeepsPlace, WorldKeepsPlace DEF Next
<1>3. TypeOK /\ SubInv => RunningIsSubscribed
  <2>1. ASSUME granted \in SUBSET Topics, GrantedSoFar PROVE RunningIsSubscribed
    BY <2>1 DEF GrantedSoFar, Before, RunningIsSubscribed
  <2> QED
    BY <2>1, TypeParts DEF Socket, SubInv
<1> QED
  BY <1>1, <1>2, <1>3, SessionTypes, PTL DEF Spec
=============================================================================
