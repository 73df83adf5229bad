----------------------------- MODULE LanClients -----------------------------
(* The module's LAN side: the table of TCP app connections of lantcp.c, its  *)
(* timeouts and binding window in lan.c, and the counters behind the "app    *)
(* online" bit that is reported to the MCU.  The main loop is cooperative,   *)
(* so every handler it calls is one action; the kernel, the apps, the router *)
(* and the broker are the environment.                                       *)
EXTENDS Integers, FiniteSets

CONSTANTS
  LAN_TCPCLIENT_MAX,  \* slots of pgc->ls.tcpClient[]
  Fds,                \* descriptors accept() may return
  NoFd,               \* INVALID_SOCKET
  MaxLive,            \* LAN_CLIENT_MAXLIVETIME, seconds
  ApFactor,           \* the factor of Lan_setClientTimeOut in AP mode (5)
  BindTime,           \* mcu.passcodeEnableTime as the MCU reports it
  Steps,              \* values dTime_s may take: seconds since the last tick
  Modes,              \* combinations of the AP and STATION bits that occur
  WanCounts,          \* client counts the broker may announce
  MaxNums             \* bound of the model on tcpClientNums

ASSUME SlotAssumption == LAN_TCPCLIENT_MAX \in Nat
ASSUME FdAssumption == NoFd \notin Fds
ASSUME TimeAssumption == /\ MaxLive \in Nat \ {0}
                         /\ ApFactor \in Nat \ {0}
                         /\ BindTime \in Nat
                         /\ Steps \subseteq Nat \ {0}
ASSUME ModeAssumption == Modes \subseteq SUBSET {"ap", "sta"}
ASSUME CountAssumption == WanCounts \subseteq Nat /\ MaxNums \in Nat

Slots == 1 .. LAN_TCPCLIENT_MAX

VARIABLES
  fd,              \* tcpClient[i].fd
  isLogin,         \* tcpClient[i].isLogin = LAN_CLIENT_LOGIN_SUCCESS
  timeout,         \* tcpClient[i].timeout
  tcpClientNums,   \* ls.tcpClientNums
  wanclient_num,   \* waninfo.wanclient_num
  clientOn,        \* WIFI_CLIENT_ON of GAgentStatus
  binding,         \* WIFI_MODE_BINDING of GAgentStatus
  passcodeTimeout, \* mcu.passcodeTimeout
  mode,            \* WIFI_MODE_AP and WIFI_MODE_STATION of GAgentStatus
  staConn,         \* WIFI_STATION_CONNECTED of GAgentStatus
  running,         \* mqttstatus = MQTT_STATUS_RUNNING
  listening,       \* ls.tcpServerFd is a listening socket
  sock,            \* the kernel's view of a descriptor
  authed           \* history: open descriptors whose peer gave the passcode

slotVars == <<fd, isLogin, timeout, sock, authed>>
countVars == <<tcpClientNums, wanclient_num, clientOn>>
bindVars == <<binding, passcodeTimeout>>
netVars == <<mode, staConn, running>>
vars == <<slotVars, countVars, bindVars, netVars, listening>>

-----------------------------------------------------------------------------
Used == {i \in Slots : fd[i] # NoFd}

\* Lan_setClientTimeOut: the STATION assignment comes last and wins; with
\* neither mode the slot keeps the value it had.
LiveTime(old) == IF "sta" \in mode THEN MaxLive
                 ELSE IF "ap" \in mode THEN ApFactor * MaxLive ELSE old

\* Fault: the slot is freed, the socket is not closed.
CloseSlotLeaks(i) == fd' = [fd EXCEPT ![i] = NoFd] /\ UNCHANGED <<sock, authed>>

\* close(tcpClient[i].fd); tcpClient[i].fd = INVALID_SOCKET
CloseSlot(i) == /\ fd' = [fd EXCEPT ![i] = NoFd]
                /\ sock' = [sock EXCEPT ![fd[i]] = "free"]
                /\ authed' = authed \ {fd[i]}

\* Fault: the remote apps are left out of the test.
ClientOnIgnoresWan(lan) == clientOn /\ lan # 0

\* The "nobody is online" test made after a logged-in client is dropped.
ClientOnAfter(lan) == clientOn /\ lan + wanclient_num # 0

\* Fault: the "> 0" test is left out.
DecrementedBlindly(n) == n - 1

Decremented(n) == IF n > 0 THEN n - 1 ELSE 0

\* GAgent_LANInit, after Local_GetInfo has set the binding timeout.
Init == /\ fd = [i \in Slots |-> NoFd]
        /\ isLogin = [i \in Slots |-> FALSE]
        /\ timeout = [i \in Slots |-> 0]
        /\ sock = [f \in Fds |-> "free"]
        /\ authed = {}
        /\ tcpClientNums = 0 /\ wanclient_num = 0 /\ clientOn = FALSE
        /\ binding = TRUE /\ passcodeTimeout = BindTime
        /\ mode \in Modes
        /\ staConn = FALSE /\ running = FALSE
        /\ listening = TRUE

-----------------------------------------------------------------------------
(* Lan_TcpServerHandler and Lan_AddTcpNewClient. *)

\* The new descriptor goes to the first free slot; login state is not touched.
Accept(f, i) ==
  /\ listening /\ sock[f] = "free"
  /\ i \in Slots \ Used /\ \A j \in Slots \ Used : i <= j
  /\ fd' = [fd EXCEPT ![i] = f]
  /\ sock' = [sock EXCEPT ![f] = "open"]
  /\ timeout' = [timeout EXCEPT ![i] = LiveTime(timeout[i])]
  /\ UNCHANGED <<isLogin, authed, countVars, bindVars, netVars, listening>>

\* All slots taken: accepted and closed at once.
AcceptDenied(f) ==
  /\ listening /\ sock[f] = "free" /\ Used = Slots
  /\ sock' = [sock EXCEPT ![f] = "free"]
  /\ UNCHANGED <<fd, isLogin, timeout, authed, countVars, bindVars, netVars, listening>>

\* accept() fails: a second server socket is made while the first still owns
\* the port; whether that works is up to the TCP stack.
AcceptFails ==
  /\ listening
  /\ listening' \in BOOLEAN
  /\ UNCHANGED <<slotVars, countVars, bindVars, netVars>>

\* The peer closes or resets its connection.
PeerClose(f) ==
  /\ sock[f] = "open"
  /\ sock' = [sock EXCEPT ![f] = "eof"]
  /\ UNCHANGED <<fd, isLogin, timeout, authed, countVars, bindVars, netVars, listening>>

-----------------------------------------------------------------------------
(* Lan_tcpClientDataHandle and Lan_dispatchTCPData, one action per outcome.  *)

\* recv() <= 0
ReadClosed(i) ==
  /\ i \in Used /\ sock[fd[i]] = "eof"
  /\ tcpClientNums' = IF isLogin[i] THEN Decremented(tcpClientNums) ELSE tcpClientNums
  /\ clientOn' = ClientOnAfter(tcpClientNums')
  /\ CloseSlot(i)
  /\ isLogin' = [isLogin EXCEPT ![i] = FALSE]
  /\ timeout' = [timeout EXCEPT ![i] = 0]
  /\ UNCHANGED <<wanclient_num, bindVars, netVars, listening>>

\* Data: the timeout is renewed before the command is looked at.
Received(i) == i \in Used /\ sock[fd[i]] = "open"
Renewed(i) == timeout' = [timeout EXCEPT ![i] = LiveTime(timeout[i])]

\* Lan_checkAuthorization refuses every other command of a client that is
\* not logged in.
Unauthorized(i) ==
  /\ Received(i) /\ Renewed(i) /\ ~isLogin[i]
  /\ CloseSlot(i)
  /\ UNCHANGED <<isLogin, countVars, bindVars, netVars, listening>>

\* Control (0x93), transmit (0x90), heartbeat, log, unknown commands of a
\* logged-in client: its slot is only renewed, the payload goes to the MCU.
Served(i) ==
  /\ Received(i) /\ Renewed(i) /\ isLogin[i]
  /\ UNCHANGED <<fd, isLogin, sock, authed, countVars, bindVars, netVars, listening>>

\* Device information, exit-test and malformed lengths need no login.
Informed(i) ==
  /\ Received(i) /\ Renewed(i)
  /\ UNCHANGED <<fd, isLogin, sock, authed, countVars, bindVars, netVars, listening>>

\* Lan_handleLogin, passcode matches: counted again at every repetition.
LoginOk(i) ==
  /\ Received(i) /\ Renewed(i) /\ tcpClientNums < MaxNums
  /\ isLogin' = [isLogin EXCEPT ![i] = TRUE]
  /\ authed' = authed \cup {fd[i]}
  /\ tcpClientNums' = tcpClientNums + 1
  /\ clientOn' = TRUE
  /\ UNCHANGED <<fd, sock, wanclient_num, bindVars, netVars, listening>>

\* Fault: a wrong passcode logs the client out and leaves it connected.
LoginBadStays(i) ==
  /\ Received(i) /\ Renewed(i)
  /\ isLogin' = [isLogin EXCEPT ![i] = FALSE]
  /\ UNCHANGED <<fd, sock, authed, countVars, bindVars, netVars, listening>>

\* Lan_handleLogin, wrong passcode: closed, and not taken off the count.
LoginBad(i) ==
  /\ Received(i) /\ Renewed(i)
  /\ isLogin' = [isLogin EXCEPT ![i] = FALSE]
  /\ CloseSlot(i)
  /\ UNCHANGED <<countVars, bindVars, netVars, listening>>

\* Lan_handlePasscode inside the binding window: the passcode is sent.
PasscodeSent(i) ==
  /\ Received(i) /\ Renewed(i) /\ binding
  /\ UNCHANGED <<fd, isLogin, sock, authed, countVars, bindVars, netVars, listening>>

\* Lan_handlePasscode outside the window: closed, login state and count kept.
PasscodeRefused(i) ==
  /\ Received(i) /\ Renewed(i) /\ ~binding
  /\ CloseSlot(i)
  /\ UNCHANGED <<isLogin, countVars, bindVars, netVars, listening>>

\* Lan_GetWifiHotspots: answered and closed; the count drops for any client.
GetWifiHotspots(i) ==
  /\ Received(i)
  /\ CloseSlot(i)
  /\ isLogin' = [isLogin EXCEPT ![i] = FALSE]
  /\ timeout' = [timeout EXCEPT ![i] = 0]
  /\ tcpClientNums' = Decremented(tcpClientNums)
  /\ UNCHANGED <<wanclient_num, clientOn, bindVars, netVars, listening>>

ClientRead(i) == \/ ReadClosed(i) \/ Unauthorized(i) \/ Served(i) \/ Informed(i)
                 \/ LoginOk(i) \/ LoginBad(i)
                 \/ PasscodeSent(i) \/ PasscodeRefused(i) \/ GetWifiHotspots(i)

-----------------------------------------------------------------------------
(* GAgent_LanTick and MCU_ENABLE_BIND. *)

Expired(d) == {i \in Used : timeout[i] <= d}
ExpiredLogins(d) == {i \in Expired(d) : isLogin[i]}

\* Fault: the tick leaves the slots alone.
DropNone(d) == UNCHANGED <<fd, timeout, sock, authed, tcpClientNums, clientOn>>

\* Clients silent for too long are closed; isLogin stays in the slot.
DropExpired(d) ==
  LET lost == Cardinality(ExpiredLogins(d))
      closed == {fd[i] : i \in Expired(d)}
  IN /\ fd' = [i \in Slots |-> IF i \in Expired(d) THEN NoFd ELSE fd[i]]
     /\ timeout' = [i \in Slots |-> IF i \in Used \ Expired(d)
                                    THEN timeout[i] - d ELSE timeout[i]]
     /\ sock' = [f \in Fds |-> IF f \in closed THEN "free" ELSE sock[f]]
     /\ authed' = authed \ closed
     /\ tcpClientNums' = IF lost < tcpClientNums THEN tcpClientNums - lost ELSE 0
     /\ clientOn' = IF ExpiredLogins(d) = {} THEN clientOn
                    ELSE ClientOnAfter(tcpClientNums')

\* Fault: the countdown ends without closing the window.
BindingTickForgets ==
  IF passcodeTimeout > 0 /\ binding
  THEN passcodeTimeout' = passcodeTimeout - 1 /\ UNCHANGED binding
  ELSE UNCHANGED bindVars

\* The window shrinks by one a tick, whatever dTime_s is.
BindingTick ==
  IF passcodeTimeout > 0 /\ binding
  THEN passcodeTimeout' = passcodeTimeout - 1 /\ binding' = (passcodeTimeout' # 0)
  ELSE UNCHANGED bindVars

LanTick(d) ==
  /\ BindingTick
  /\ DropExpired(d)
  /\ UNCHANGED <<isLogin, wanclient_num, netVars, listening>>

\* Fault: the window is reopened without its countdown.
EnableBindForgets ==
  /\ binding' = TRUE
  /\ UNCHANGED <<slotVars, countVars, passcodeTimeout, netVars, listening>>

EnableBind ==
  /\ passcodeTimeout' = BindTime
  /\ binding' = TRUE
  /\ UNCHANGED <<slotVars, countVars, netVars, listening>>

-----------------------------------------------------------------------------
(* What GAgent_WiFiEventTick and the broker do to the counters. *)

\* AP, STATION or ONBOARDING changed: counters are zeroed, sockets stay.  The
\* MQTT state falls back to START only when the HTTP side is in CONFIG_OK.
ModeEdge ==
  /\ mode' \in Modes
  /\ tcpClientNums' = 0 /\ wanclient_num' = 0
  /\ running' \in {running, FALSE}
  /\ UNCHANGED <<slotVars, clientOn, bindVars, staConn, listening>>

StationUp ==
  /\ ~staConn /\ staConn' = TRUE
  /\ tcpClientNums' = 0 /\ wanclient_num' = 0
  /\ UNCHANGED <<slotVars, clientOn, bindVars, mode, running, listening>>

StationDown ==
  /\ staConn /\ staConn' = FALSE
  /\ tcpClientNums' = 0 /\ wanclient_num' = 0 /\ clientOn' = FALSE
  /\ running' = FALSE
  /\ UNCHANGED <<slotVars, bindVars, mode, listening>>

MqttUp ==
  /\ staConn /\ ~running /\ running' = TRUE
  /\ UNCHANGED <<slotVars, countVars, bindVars, mode, staConn, listening>>

\* The broker connection is lost; the count survives until the CLOUD edge.
MqttLost ==
  /\ running /\ running' = FALSE
  /\ UNCHANGED <<slotVars, countVars, bindVars, mode, staConn, listening>>

\* CLOUD_CONNECTED down edge, or the cloud heartbeat given up.
CloudDown ==
  /\ wanclient_num' = 0 /\ running' = FALSE
  /\ UNCHANGED <<slotVars, tcpClientNums, clientOn, bindVars, mode, staConn, listening>>

\* Mqtt_ResOnlineClient
ResOnlineClient(n) ==
  /\ running
  /\ wanclient_num' = n
  /\ clientOn' = (n # 0 \/ (clientOn /\ tcpClientNums # 0))
  /\ UNCHANGED <<slotVars, tcpClientNums, bindVars, netVars, listening>>

-----------------------------------------------------------------------------
Next == \/ \E f \in Fds : \/ \E i \in Slots : Accept(f, i)
                          \/ AcceptDenied(f)
                          \/ PeerClose(f)
        \/ AcceptFails
        \/ \E i \in Slots : ClientRead(i)
        \/ \E d \in Steps : LanTick(d)
        \/ EnableBind
        \/ ModeEdge \/ StationUp \/ StationDown
        \/ MqttUp \/ MqttLost \/ CloudDown
        \/ \E n \in WanCounts : ResOnlineClient(n)

Spec == Init /\ [][Next]_vars

\* The loop comes round and the clock moves on.
Fairness == WF_vars(\E d \in Steps : LanTick(d))

FairSpec == Spec /\ Fairness

-----------------------------------------------------------------------------
(* Properties *)

TypeOK ==
  /\ fd \in [Slots -> Fds \cup {NoFd}]
  /\ isLogin \in [Slots -> BOOLEAN]
  /\ timeout \in [Slots -> Nat]
  /\ sock \in [Fds -> {"free", "open", "eof"}]
  /\ authed \subseteq Fds
  /\ tcpClientNums \in Nat /\ wanclient_num \in Nat
  /\ clientOn \in BOOLEAN /\ binding \in BOOLEAN
  /\ passcodeTimeout \in Nat
  /\ mode \in SUBSET {"ap", "sta"}
  /\ staConn \in BOOLEAN /\ running \in BOOLEAN /\ listening \in BOOLEAN

\* Every accepted socket that is still open belongs to exactly one slot, and
\* no slot keeps a descriptor that was closed: whichever of the seven places
\* that close a client does it, nothing leaks and nothing is closed twice.
FdOwnership ==
  /\ \A i \in Used : sock[fd[i]] # "free"
  /\ \A f \in Fds : sock[f] # "free" => \E i \in Slots : fd[i] = f
  /\ \A i, j \in Used : fd[i] = fd[j] => i = j

\* While an app is counted, on the LAN or by the broker, the MCU is told that
\* an app is online: no edge, timeout or refusal clears WIFI_CLIENT_ON early.
CountedReported == tcpClientNums + wanclient_num > 0 => clientOn

\* With a configured window the BINDING bit and its countdown never disagree:
\* the passcode is handed out exactly while the countdown runs.
BindingMatchesCountdown == BindTime > 0 => (binding <=> passcodeTimeout > 0)

\* An app that gave the passcode keeps its session until its connection is
\* closed: no other client, edge or tick logs it out on an open socket.
SessionKept ==
  [][\A i \in Slots : /\ fd[i] # NoFd /\ isLogin[i]
                      /\ fd'[i] = fd[i] /\ sock'[fd[i]] # "free"
                      => isLogin'[i]]_vars

\* A slot whose client has gone silent is freed: an open slot is either read
\* again and again or emptied again and again.
SilentClientDropped ==
  \A i \in Slots : []<>(fd[i] = NoFd) \/ []<><<ClientRead(i)>>_vars

\* The binding window closes by itself unless the MCU keeps reopening it.
BindingWindowCloses ==
  BindTime > 0 => []<>(~binding) \/ []<><<EnableBind>>_vars

\* What lantcp.c promises with Lan_checkAuthorization: a slot that counts as
\* logged in serves a connection that presented the passcode.
LoginBelongsToConnection == \A i \in Used : isLogin[i] => fd[i] \in authed

=============================================================================
