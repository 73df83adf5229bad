-------------------------- MODULE LanClientsProofs --------------------------
(* Proofs about LanClients, for any number of slots, descriptors, timeouts    *)
(* and window lengths.                                                        *)
EXTENDS LanClients, FiniteSetTheorems, TLAPS

\* How many logged-in clients a tick drops is a number: the pool is finite.
LEMMA LostIsNat ==
  ASSUME NEW d \in Steps
  PROVE  Cardinality(ExpiredLogins(d)) \in Nat
<1>1. IsFiniteSet(Slots) BY SlotAssumption, FS_Interval DEF Slots
<1>2. ExpiredLogins(d) \subseteq Slots BY DEF ExpiredLogins, Expired, Used
<1>3. IsFiniteSet(ExpiredLogins(d)) BY <1>1, <1>2, FS_Subset
<1>q. QED BY <1>3, FS_CardinalityType

\* The value a slot's timeout is renewed to is a number of seconds.
LEMMA LiveTimeIsNat ==
  ASSUME NEW old \in Nat
  PROVE  LiveTime(old) \in Nat
BY TimeAssumption DEF LiveTime

\* The types hold in every state.
THEOREM TypeCorrect == Spec => []TypeOK
<1>1. Init => TypeOK
  <2> SUFFICES ASSUME Init PROVE TypeOK OBVIOUS
  <2>1. mode \in SUBSET {"ap", "sta"} BY ModeAssumption DEF Init
  <2>2. fd \in [Slots -> Fds \cup {NoFd}] /\ isLogin \in [Slots -> BOOLEAN]
        /\ timeout \in [Slots -> Nat] /\ sock \in [Fds -> {"free", "open", "eof"}]
    BY DEF Init
  <2>q. QED BY <2>1, <2>2, TimeAssumption DEF Init, TypeOK
<1>2. TypeOK /\ [Next]_vars => TypeOK'
  <2> SUFFICES ASSUME TypeOK, [Next]_vars PROVE TypeOK' OBVIOUS
  <2> USE DEF TypeOK, slotVars, countVars, bindVars, netVars
  <2>1. ASSUME NEW f \in Fds, NEW i \in Slots, Accept(f, i) PROVE TypeOK'
    BY <2>1, LiveTimeIsNat DEF Accept
  <2>2. ASSUME NEW f \in Fds, AcceptDenied(f) PROVE TypeOK'
    BY <2>2 DEF AcceptDenied
  <2>3. ASSUME NEW f \in Fds, PeerClose(f) PROVE TypeOK'
    BY <2>3 DEF PeerClose
  <2>4. CASE AcceptFails BY <2>4 DEF AcceptFails
  <2>5. ASSUME NEW i \in Slots, ClientRead(i) PROVE TypeOK'
    <3> USE DEF Received, Renewed, CloseSlot
    <3>1. CASE ReadClosed(i)
      <4>1. clientOn' \in BOOLEAN BY <3>1, Zenon DEF ReadClosed, ClientOnAfter
      <4>2. tcpClientNums' \in Nat BY <3>1 DEF ReadClosed, Decremented
      <4>q. QED BY <3>1, <4>1, <4>2 DEF ReadClosed
    <3>2. CASE Unauthorized(i) BY <3>2, LiveTimeIsNat DEF Unauthorized
    <3>3. CASE Served(i) BY <3>3, LiveTimeIsNat DEF Served
    <3>4. CASE Informed(i) BY <3>4, LiveTimeIsNat DEF Informed
    <3>5. CASE LoginOk(i) BY <3>5, LiveTimeIsNat DEF LoginOk, Used
    <3>6. CASE LoginBad(i) BY <3>6, LiveTimeIsNat DEF LoginBad
    <3>7. CASE PasscodeSent(i) BY <3>7, LiveTimeIsNat DEF PasscodeSent
    <3>8. CASE PasscodeRefused(i) BY <3>8, LiveTimeIsNat DEF PasscodeRefused
    <3>9. CASE GetWifiHotspots(i)
      <4>1. tcpClientNums' \in Nat BY <3>9 DEF GetWifiHotspots, Decremented
      <4>q. QED BY <3>9, <4>1 DEF GetWifiHotspots
    <3>q. QED BY <2>5, <3>1, <3>2, <3>3, <3>4, <3>5, <3>6, <3>7, <3>8, <3>9
              DEF ClientRead
  <2>6. ASSUME NEW d \in Steps, LanTick(d) PROVE TypeOK'
    <3>1. timeout' \in [Slots -> Nat]
      BY <2>6, TimeAssumption DEF LanTick, DropExpired, Expired, Used
    <3>2. tcpClientNums' \in Nat
      BY <2>6, LostIsNat DEF LanTick, DropExpired
    <3>3. clientOn' \in BOOLEAN
      BY <2>6 DEF LanTick, DropExpired, ClientOnAfter
    <3>4. passcodeTimeout' \in Nat /\ binding' \in BOOLEAN
      <4>1. CASE passcodeTimeout > 0 /\ binding
        <5>1. passcodeTimeout' = passcodeTimeout - 1 /\ binding' = (passcodeTimeout' # 0)
          BY <2>6, <4>1 DEF LanTick, BindingTick
        <5>2. binding' \in BOOLEAN BY <5>1, Zenon
        <5>q. QED BY <4>1, <5>1, <5>2
      <4>q. QED BY <2>6, <4>1 DEF LanTick, BindingTick
    <3>5. fd' \in [Slots -> Fds \cup {NoFd}] /\ sock' \in [Fds -> {"free", "open", "eof"}]
          /\ authed' \subseteq Fds
      BY <2>6 DEF LanTick, DropExpired
    <3>q. QED BY <2>6, <3>1, <3>2, <3>3, <3>4, <3>5 DEF LanTick
  <2>7. CASE EnableBind BY <2>7, TimeAssumption DEF EnableBind
  <2>8. CASE ModeEdge BY <2>8, ModeAssumption DEF ModeEdge
  <2>9. CASE StationUp BY <2>9 DEF StationUp
  <2>10. CASE StationDown BY <2>10 DEF StationDown
  <2>11. CASE MqttUp BY <2>11 DEF MqttUp
  <2>12. CASE MqttLost BY <2>12 DEF MqttLost
  <2>13. CASE CloudDown BY <2>13 DEF CloudDown
  <2>14. ASSUME NEW n \in WanCounts, ResOnlineClient(n) PROVE TypeOK'
    BY <2>14, CountAssumption DEF ResOnlineClient
  <2>15. CASE UNCHANGED vars BY <2>15 DEF vars
  <2>q. QED BY <2>1, <2>2, <2>3, <2>4, <2>5, <2>6, <2>7, <2>8, <2>9, <2>10, <2>11,
               <2>12, <2>13, <2>14, <2>15 DEF Next
<1>q. QED BY <1>1, <1>2, PTL DEF Spec

-----------------------------------------------------------------------------
\* Closing one slot leaves every other open socket with its one owner.
LEMMA CloseKeepsOwnership ==
  ASSUME TypeOK, FdOwnership, NEW i \in Used, CloseSlot(i)
  PROVE  FdOwnership'
<1> USE DEF TypeOK, FdOwnership, CloseSlot, Used
<1>1. \A j \in Slots : fd'[j] = IF j = i THEN NoFd ELSE fd[j] OBVIOUS
<1>2. \A f \in Fds : sock'[f] = IF f = fd[i] THEN "free" ELSE sock[f] OBVIOUS
<1>3. \A j \in Used' : j \in Used /\ j # i /\ fd'[j] = fd[j] BY <1>1
<1>4. ASSUME NEW f \in Fds, sock'[f] # "free" PROVE \E j \in Slots : fd'[j] = f
  BY <1>1, <1>2, <1>4
<1>5. \A j \in Used' : fd'[j] \in Fds /\ fd'[j] # fd[i] BY <1>3
<1>q. QED BY <1>2, <1>3, <1>4, <1>5

\* So does a tick, which closes any number of slots.
LEMMA TickKeepsOwnership ==
  ASSUME TypeOK, FdOwnership, NEW d \in Steps, LanTick(d)
  PROVE  FdOwnership'
<1> USE DEF TypeOK, FdOwnership, Used
<1> DEFINE closed == {fd[i] : i \in Expired(d)}
<1>1. \A j \in Slots : fd'[j] = IF j \in Expired(d) THEN NoFd ELSE fd[j]
  BY DEF LanTick, DropExpired
<1>2. \A f \in Fds : sock'[f] = IF f \in closed THEN "free" ELSE sock[f]
  BY DEF LanTick, DropExpired
<1>3. \A j \in Used' : j \in Used /\ j \notin Expired(d) /\ fd'[j] = fd[j] BY <1>1
<1>4. \A j \in Used' : fd'[j] \in Fds /\ fd'[j] \notin closed
  BY <1>3 DEF Expired
<1>5. ASSUME NEW f \in Fds, sock'[f] # "free" PROVE \E j \in Slots : fd'[j] = f
  BY <1>1, <1>2, <1>5
<1>q. QED BY <1>2, <1>3, <1>4, <1>5

\* No sequence of handlers leaks a client socket or closes one twice.
THEOREM SocketsOwned == Spec => []FdOwnership
<1>1. Init => FdOwnership BY DEF Init, FdOwnership, Used
<1>2. TypeOK /\ FdOwnership /\ [Next]_vars => FdOwnership'
  <2> SUFFICES ASSUME TypeOK, FdOwnership, [Next]_vars PROVE FdOwnership' OBVIOUS
  <2>0. ASSUME UNCHANGED <<fd, sock>> PROVE FdOwnership'
    BY <2>0 DEF FdOwnership, Used
  <2> USE DEF slotVars
  <2>1. ASSUME NEW f \in Fds, NEW i \in Slots, Accept(f, i) PROVE FdOwnership'
    <3>1. \A j \in Slots : fd'[j] = IF j = i THEN f ELSE fd[j]
      BY <2>1 DEF Accept, TypeOK
    <3>2. \A g \in Fds : sock'[g] = IF g = f THEN "open" ELSE sock[g]
      BY <2>1 DEF Accept, TypeOK
    <3>3. fd[i] = NoFd /\ sock[f] = "free" BY <2>1 DEF Accept, Used
    <3>4. \A j \in Used : fd[j] \in Fds /\ fd[j] # f
      BY <3>3 DEF FdOwnership, TypeOK, Used
    <3>5. \A j \in Used' : j = i \/ (j \in Used /\ fd'[j] = fd[j]) BY <3>1 DEF Used
    <3>6. \A j \in Used' : sock'[fd'[j]] # "free" BY <3>1, <3>2, <3>4, <3>5 DEF FdOwnership
    <3>7. \A g \in Fds : sock'[g] # "free" => \E j \in Slots : fd'[j] = g
      BY <3>1, <3>2, <3>3, FdAssumption DEF FdOwnership
    <3>8. \A j, k \in Used' : fd'[j] = fd'[k] => j = k
      BY <3>1, <3>4, <3>5 DEF FdOwnership
    <3>q. QED BY <3>6, <3>7, <3>8 DEF FdOwnership
  <2>2. ASSUME NEW f \in Fds, AcceptDenied(f) PROVE FdOwnership'
    BY <2>0, <2>2 DEF AcceptDenied, TypeOK
  <2>3. ASSUME NEW f \in Fds, PeerClose(f) PROVE FdOwnership'
    BY <2>3 DEF PeerClose, TypeOK, FdOwnership, Used
  <2>4. CASE AcceptFails BY <2>0, <2>4 DEF AcceptFails
  <2>5. ASSUME NEW i \in Slots, ClientRead(i) PROVE FdOwnership'
    <3>1. CASE UNCHANGED <<fd, sock>> BY <2>0, <3>1
    <3>2. CASE i \in Used /\ CloseSlot(i) BY <3>2, CloseKeepsOwnership
    <3>q. QED
      BY <2>5, <3>1, <3>2 DEF ClientRead, Received, ReadClosed, Unauthorized, Served,
           Informed, LoginOk, LoginBad, PasscodeSent, PasscodeRefused, GetWifiHotspots
  <2>6. ASSUME NEW d \in Steps, LanTick(d) PROVE FdOwnership'
    BY <2>6, TickKeepsOwnership
  <2>7. CASE EnableBind BY <2>0, <2>7 DEF EnableBind
  <2>8. CASE ModeEdge BY <2>0, <2>8 DEF ModeEdge
  <2>9. CASE StationUp BY <2>0, <2>9 DEF StationUp
  <2>10. CASE StationDown BY <2>0, <2>10 DEF StationDown
  <2>11. CASE MqttUp BY <2>0, <2>11 DEF MqttUp
  <2>12. CASE MqttLost BY <2>0, <2>12 DEF MqttLost
  <2>13. CASE CloudDown BY <2>0, <2>13 DEF CloudDown
  <2>14. ASSUME NEW n \in WanCounts, ResOnlineClient(n) PROVE FdOwnership'
    BY <2>0, <2>14 DEF ResOnlineClient
  <2>15. CASE UNCHANGED vars BY <2>0, <2>15 DEF vars
  <2>q. QED BY <2>1, <2>2, <2>3, <2>4, <2>5, <2>6, <2>7, <2>8, <2>9, <2>10, <2>11,
               <2>12, <2>13, <2>14, <2>15 DEF Next
<1>q. QED BY <1>1, <1>2, TypeCorrect, PTL DEF Spec

-----------------------------------------------------------------------------
LEMMA SmallerSum ==
  ASSUME NEW a \in Nat, NEW b \in Nat, NEW w \in Nat, b <= a, b + w > 0
  PROVE  a + w > 0 /\ b + w # 0
OBVIOUS

\* A handler that only shrinks the count and then makes the "nobody is online"
\* test, or none, keeps the report.
LEMMA ShrinkKeepsReport ==
  ASSUME TypeOK, TypeOK', CountedReported,
         tcpClientNums' <= tcpClientNums, wanclient_num' = wanclient_num,
         clientOn' = clientOn \/ clientOn' = ClientOnAfter(tcpClientNums')
  PROVE  CountedReported'
<1>a. SUFFICES ASSUME tcpClientNums' + wanclient_num' > 0 PROVE clientOn'
  BY DEF CountedReported
<1>0. /\ tcpClientNums \in Nat /\ tcpClientNums' \in Nat /\ wanclient_num \in Nat
      /\ tcpClientNums' <= tcpClientNums /\ tcpClientNums' + wanclient_num > 0
  BY <1>a DEF TypeOK
<1>1. tcpClientNums + wanclient_num > 0 /\ tcpClientNums' + wanclient_num # 0
  BY <1>0, SmallerSum, Zenon
<1>2. clientOn BY <1>1 DEF CountedReported
<1>q. QED BY <1>1, <1>2, Zenon DEF ClientOnAfter

\* WIFI_CLIENT_ON is never cleared while an app is still counted.
THEOREM CountedIsReported == Spec => []CountedReported
<1>1. Init => CountedReported BY DEF Init, CountedReported
<1>2. TypeOK /\ TypeOK' /\ CountedReported /\ [Next]_vars => CountedReported'
  <2> SUFFICES ASSUME TypeOK, TypeOK', CountedReported, [Next]_vars
               PROVE  CountedReported'
    OBVIOUS
  <2>0. ASSUME UNCHANGED countVars PROVE CountedReported'
    BY <2>0 DEF countVars, CountedReported
  <2>1. ASSUME NEW f \in Fds, NEW i \in Slots, Accept(f, i) PROVE CountedReported'
    BY <2>0, <2>1 DEF Accept
  <2>2. ASSUME NEW f \in Fds, AcceptDenied(f) PROVE CountedReported'
    BY <2>0, <2>2 DEF AcceptDenied
  <2>3. ASSUME NEW f \in Fds, PeerClose(f) PROVE CountedReported'
    BY <2>0, <2>3 DEF PeerClose
  <2>4. CASE AcceptFails BY <2>0, <2>4 DEF AcceptFails
  <2>5. ASSUME NEW i \in Slots, ClientRead(i) PROVE CountedReported'
    <3>1. CASE ReadClosed(i)
      <4>1. tcpClientNums' \in Nat /\ tcpClientNums' <= tcpClientNums
        BY <3>1 DEF ReadClosed, Decremented, TypeOK
      <4>2. wanclient_num' = wanclient_num /\ clientOn' = ClientOnAfter(tcpClientNums')
        BY <3>1 DEF ReadClosed
      <4>q. QED BY <4>1, <4>2, ShrinkKeepsReport
    <3>2. CASE LoginOk(i) BY <3>2 DEF LoginOk, CountedReported
    <3>3. CASE GetWifiHotspots(i)
      <4>1. tcpClientNums' \in Nat /\ tcpClientNums' <= tcpClientNums
        BY <3>3 DEF GetWifiHotspots, Decremented, TypeOK
      <4>2. UNCHANGED <<wanclient_num, clientOn>> BY <3>3 DEF GetWifiHotspots
      <4>q. QED BY <4>1, <4>2, ShrinkKeepsReport
    <3>4. CASE UNCHANGED countVars BY <2>0, <3>4
    <3>q. QED BY <2>5, <3>1, <3>2, <3>3, <3>4 DEF ClientRead, Unauthorized, Served,
                 Informed, LoginBad, PasscodeSent, PasscodeRefused
  <2>6. ASSUME NEW d \in Steps, LanTick(d) PROVE CountedReported'
    <3>1. tcpClientNums' <= tcpClientNums
      BY <2>6, LostIsNat DEF LanTick, DropExpired, TypeOK
    <3>2. wanclient_num' = wanclient_num BY <2>6 DEF LanTick
    <3>3. clientOn' = clientOn \/ clientOn' = ClientOnAfter(tcpClientNums')
      BY <2>6 DEF LanTick, DropExpired
    <3>q. QED BY <3>1, <3>2, <3>3, ShrinkKeepsReport
  <2>7. CASE EnableBind BY <2>0, <2>7 DEF EnableBind
  <2>8. CASE ModeEdge BY <2>8 DEF ModeEdge, CountedReported
  <2>9. CASE StationUp BY <2>9 DEF StationUp, CountedReported
  <2>10. CASE StationDown BY <2>10 DEF StationDown, CountedReported
  <2>11. CASE MqttUp BY <2>0, <2>11 DEF MqttUp
  <2>12. CASE MqttLost BY <2>0, <2>12 DEF MqttLost
  <2>13. CASE CloudDown BY <2>13 DEF CloudDown, CountedReported, TypeOK
  <2>14. ASSUME NEW n \in WanCounts, ResOnlineClient(n) PROVE CountedReported'
    <3>1. wanclient_num' = n /\ tcpClientNums' = tcpClientNums
      BY <2>14 DEF ResOnlineClient
    <3>2. SUFFICES ASSUME tcpClientNums' + wanclient_num' > 0 PROVE clientOn'
      BY DEF CountedReported
    <3>3. n # 0 \/ (tcpClientNums # 0 /\ tcpClientNums + wanclient_num > 0)
      BY <3>1, <3>2, CountAssumption DEF TypeOK
    <3>4. n # 0 \/ (tcpClientNums # 0 /\ clientOn) BY <3>3 DEF CountedReported
    <3>q. QED BY <2>14, <3>4, Zenon DEF ResOnlineClient
  <2>15. CASE UNCHANGED vars BY <2>0, <2>15 DEF vars
  <2>q. QED BY <2>1, <2>2, <2>3, <2>4, <2>5, <2>6, <2>7, <2>8, <2>9, <2>10, <2>11,
               <2>12, <2>13, <2>14, <2>15 DEF Next
<1>q. QED BY <1>1, <1>2, TypeCorrect, PTL DEF Spec

-----------------------------------------------------------------------------
\* The BINDING bit and its countdown agree in every state.
THEOREM BindingWindowExact == Spec => []BindingMatchesCountdown
<1>1. Init => BindingMatchesCountdown BY DEF Init, BindingMatchesCountdown
<1>2. TypeOK /\ BindingMatchesCountdown /\ [Next]_vars => BindingMatchesCountdown'
  <2> SUFFICES ASSUME TypeOK, BindingMatchesCountdown, [Next]_vars
               PROVE  BindingMatchesCountdown'
    OBVIOUS
  <2>1. CASE UNCHANGED bindVars BY <2>1 DEF bindVars, BindingMatchesCountdown
  <2>2. CASE EnableBind BY <2>2 DEF EnableBind, BindingMatchesCountdown
  <2>3. ASSUME NEW d \in Steps, LanTick(d) PROVE BindingMatchesCountdown'
    <3>1. CASE passcodeTimeout > 0 /\ binding
      <4>1. passcodeTimeout' = passcodeTimeout - 1 /\ binding' = (passcodeTimeout' # 0)
        BY <2>3, <3>1 DEF LanTick, BindingTick
      <4>2. passcodeTimeout' # 0 <=> passcodeTimeout' > 0 BY <3>1, <4>1 DEF TypeOK
      <4>q. QED BY <4>1, <4>2, Zenon DEF BindingMatchesCountdown
    <3>2. CASE ~(passcodeTimeout > 0 /\ binding)
      <4>1. UNCHANGED bindVars BY <2>3, <3>2 DEF LanTick, BindingTick
      <4>q. QED BY <2>1, <4>1
    <3>q. QED BY <3>1, <3>2
  <2>q. QED
    BY <2>1, <2>2, <2>3
    DEF Next, Accept, AcceptDenied, PeerClose, AcceptFails, ClientRead, ReadClosed,
        Unauthorized, Served, Informed, LoginOk, LoginBad, PasscodeSent, PasscodeRefused,
        GetWifiHotspots, ModeEdge, StationUp, StationDown, MqttUp, MqttLost, CloudDown,
        ResOnlineClient, vars
<1>q. QED BY <1>1, <1>2, TypeCorrect, PTL DEF Spec

-----------------------------------------------------------------------------
\* Only the end of its connection takes a session away from an app.
THEOREM SessionsAreKept == Spec => SessionKept
<1> DEFINE Kept == \A i \in Slots : /\ fd[i] # NoFd /\ isLogin[i]
                                    /\ fd'[i] = fd[i] /\ sock'[fd[i]] # "free"
                                    => isLogin'[i]
<1>1. TypeOK /\ [Next]_vars => Kept
  <2> SUFFICES ASSUME TypeOK, [Next]_vars PROVE Kept OBVIOUS
  <2>1. CASE UNCHANGED isLogin BY <2>1
  <2>2. ASSUME NEW i \in Slots, LoginOk(i) PROVE Kept
    BY <2>2 DEF LoginOk, TypeOK
  <2>3. ASSUME NEW i \in Slots, CloseSlot(i), isLogin' = [isLogin EXCEPT ![i] = FALSE]
        PROVE  Kept
    BY <2>3 DEF CloseSlot, TypeOK
  <2>q. QED
    BY <2>1, <2>2, <2>3
    DEF Next, Accept, AcceptDenied, PeerClose, AcceptFails, ClientRead, ReadClosed,
        Unauthorized, Served, Informed, LoginBad, PasscodeSent, PasscodeRefused,
        GetWifiHotspots, LanTick, EnableBind, ModeEdge, StationUp, StationDown, MqttUp,
        MqttLost, CloudDown, ResOnlineClient, vars, slotVars
<1>q. QED BY <1>1, TypeCorrect, PTL DEF Spec, SessionKept

=============================================================================
