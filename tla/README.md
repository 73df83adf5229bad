# GAgent, modelled and checked

GAgent is the firmware of a Wi-Fi module (LPB100) that connects a device's MCU to
apps on the LAN and, over an M2M (MQTT) broker, to apps elsewhere. This directory
holds TLA+ modules of its own logic (`src/gagent`), TLC configurations for them,
and TLAPS proofs. `PROJECT.json` maps every definition to the lines it models.

GAgent is one cooperative loop (`gagent_hf_drv.c:1939-1973`): `GAgent_Tick`, then a
`select()`, then the LAN, cloud and local handlers. Handlers do not preempt each
other, so each is one action. Two things break this simple picture, and both are
modelled: `GAgent_LocalDataWriteP0` polls the serial line *inside* a handler, so
that handlers nest (LocalLink), and the driver's event callback changes the Wi-Fi
bits at any time (`WifiChange` in M2MSession, `WifiEvent` in WifiMode).

## Components

| Part | State | Operations | Hard because |
|---|---|---|---|
| LAN app server, `lan/src/lantcp.c`, `lan.c` | `tcpClient[]`, `tcpClientNums`, binding window | accept, read, login, passcode, scan, tick | seven places close a client, each in its own way; edges zero counters |
| Serial link, `local/src/local.c` | `isBusy`, `TxbufInfo`, `Txbuf`, sequence number | WriteP0, acknowledgements, heartbeat | nested calls, one buffer, late acknowledgements |
| Routing, `core/src/utilcoding.c` | `srcAttrs`, `stChannelAttrs`, `Rxbuf->type` | ParsePacket, dealPacket | answers must reach the app that asked |
| M2M session, `cloud/src/cloud.c`, `mqttxpg.c` | `mqttstatus`, back-off, ping count, message ids | login, three subscriptions, heartbeat | three records of one fact; late answers; reconnects |
| Configuration server, `cloud.c`, `http.c` | `CloudStatus`, the HTTP socket, flags in flash | register, provision, firmware, disable, JD key | one status and one socket shared by five users |
| Network events, `core/src/gagent_netevent.c` | `GAgentStatus`, HAL status | edges of mode, station, cloud | compares with a snapshot it then invalidates |
| Big data MCU → cloud, `local_common.c`, `mqttxpg.c` | `file`, ready flag | pieces, ready, stop, time-out | raw bytes on the broker's connection, out-of-order pieces, late ready |
| MCU upgrade, `local.c:647-843`, download in the driver | image in flash, `stopSendFlag`, piece number | download, pieces with acknowledgements | stop during a wait, boundary sizes, an image replaced |
| Serial framing, `hal_receive.c` | ring buffer, parser state | RecAll, ExtractOnePacket | escapes, wrap, resynchronisation |
| Wi-Fi mode and onboarding, driver, `lanudp.c`, `webconfig.c` | AT settings, `gc` in flash and memory, onboarding window | AirLink, soft AP, web page, test mode, reset | every change is a sequence of commands that ends in a restart |
| Start-up, DID, IP, `gagent.c` | configuration | VarInit, RefreshIP, ticks | — |
| Text, bytes, helpers: `http.c`, `mqttlib.c`, `bufman.c`, `user_misc.c`, `gagent_md5.c` | none of their own | | — |
| Variants not built with these: `local_v3.c`, `local_simu.c`, `lan_cut.c` | | | — |
| Product start-up and SDK headers | | | vendor code |

The hazards of each are listed in `PROJECT.json`, at the line where they bite, with
the properties that watch them, what these leave out, or the reason none does. Some are
defects the models show and the properties except by name (see *What the properties
except*).

## How the modules fit together

| Module | Models | Uses |
|---|---|---|
| LanClients | connections of apps on the LAN | |
| LocalLink | requests to the MCU, nested, and routing of answers | implements StopAndWait |
| HalReceive | ring buffer and packet parser | implements Framing |
| BigData | a file from the MCU to the broker | |
| McuOta | firmware from the cloud to the MCU | |
| M2MSession | the session with the broker | |
| GServer | the configuration server | |
| WifiMode | hotspot, station, onboarding, test mode | |

The parts share a main loop and a few bits, and each module takes what its
neighbours do to these as actions of its own: the edges of `GAgent_WiFiEventTick`
appear in LanClients, M2MSession and GServer with what they do to the state there,
and in WifiMode with what causes them. LocalLink, BigData and McuOta all have the
stack of `WriteP0` calls: LocalLink with sequence numbers, sends and routing, the
other two with what each call's return does to the transfer. LocalLink has the
packets HalReceive gives out.

Every invariant and every safety refinement the runs check is also proved, in the
module named after its component with `Proofs` (see *What is proved*).

## The modules

### LanClients

`fd`, `isLogin`, `timeout` are `tcpClient[]`; `sock` is what the TCP stack knows of
a descriptor, `authed` remembers whose peer gave the passcode. `Accept`,
`AcceptDenied`, `AcceptFails` are `Lan_TcpServerHandler`; each outcome of
`Lan_tcpClientDataHandle` and `Lan_dispatchTCPData` is an action (`ReadClosed`,
`Unauthorized`, `Served`, `Informed`, `LoginOk`, `LoginBad`, `PasscodeSent`,
`PasscodeRefused`, `GetWifiHotspots`), the closing and the count being part of it.
`LanTick(d)` is `GAgent_LanTick` with `dTime_s = d`. The edges of
`GAgent_WiFiEventTick` and the broker's client count (`ResOnlineClient`) come from
other parts; here they do what they do to this state, at any time. Apps may be
accepted whatever the mode bits say, because a connection can be waiting in the
backlog when the mode edge is processed. The binding window counts ticks, not
seconds, as the code does.

*lan_clients*: two slots, three descriptors (so that one is refused or waits),
steps of one and two seconds, AP and STATION (time-out factor 2 for 5), window 1,
count up to 2. Every interleaving of two clients with each other and the edges
happens; a third client would be one of the two. `MaxNums` bounds repeated logins;
two are enough to leave a count behind. Fairness: the tick comes again and again.

### LocalLink and StopAndWait

`stack` is the C stack of `GAgent_LocalDataWriteP0` calls that have not returned,
with the number of sends (`resendTime`) and what the caller does next (`cont`).
`Write` is a call up to its polling loop, `Handle…` one packet handled by
`GAgent_LocalDataHandle` (from the main loop or from a polling loop), `Resend`,
`ReturnOk`, `GiveUp` the ends of a poll, `Continue` what the caller then does.
`line` is what the MCU sends, in order; `Transmit` loses a request or its
acknowledgement, or keeps both. Sequence numbers are reused modulo `SnMod`; in the
code (256) a number is not reused while a call that used it waits or its
acknowledgement is under way, which `Fresh` and `Recent` keep true of the small
instance. `app` in a frame, `acked` and `out` are history: the app a request was
for, whether the call's own acknowledgement came, what the last step gave to the
senders. Whether a piece of a file is in sequence and whether it is the last is
left open. The session with the broker is taken to be up.

StopAndWait is what the link promises: one request at a time, at most three sends,
never left unsettled. LocalLink implements it under
`request <- IF isBusy THEN {TxbufInfo} ELSE {}`.

Not in LocalLink: the MCU's transaction request and the pieces of an upgrade sent
with `WriteP0withFlag` (McuOta), what a piece of a file does (BigData), and the
commands that configure, reset, bind or test (WifiMode, LanClients, GServer).

A stray piece handled inside a wait makes the outer call return success without an
acknowledgement (`local.c:1181`): the handler clears `isBusy`, sends a stop, waits for it
in a call of its own, and leaves the link idle for the call below. `BusyMatchesCall` and
StopAndWait (`Displace`) name this one case and allow nothing else like it: a waiting call
whose link is idle was acknowledged itself, or a stop is what was sent last. So they do
not say that success means an acknowledgement; in this code it does not. A query of the
MCU overwrites the buffer the request is sent again from (`local.c:1237`), which LocalLink
shows (`txbuf`) and no property of it is about. The effect of both on an upgrade is in
McuOta, that of a stray piece on a file in BigData (`blame`).

*local_link* (safety): two LAN apps, one cloud app, three numbers, two packets on
the line, calls nested twice: an acknowledgement can be late, repeated, or meet a
nested request, and two apps can be confused. *local_link_live*: one app, one
packet on the line, which is enough for every action and keeps the liveness graph
small. Fairness: the polling loop reads the line, looks at the clock and returns
(weak); the main loop comes to `GAgent_LocalTick` at every turn, so that the
heartbeat cannot be put off for ever by controls (strong). The MCU is not fair: it
may be mute, or send pieces for ever, which `MainLoopComesBack` excepts by name.

### M2MSession

`mqttstatus`, `backoff` (the index of `ReConnectMqttTime`), `ping`, message ids; the
bits in `GAgentStatus` (`sta`, `cloud`, `mode`) and in the HAL (`halSta`, …); the TCP
connection with requests under way (`sent`) and packets not read (`inbox`).
`Login`, `Timeout`, `Restart`, `ReadClosed`, `ReadAnswer`, `ReadOther`,
`ReadSession`, `ReadPart` are the branches of `Cloud_M2MDataHandle`. `Tick`,
`Heartbeat`, `HeartbeatFails` are `GAgent_CloudTick` *and* `GAgent_WiFiEventTick`,
which run one after the other in `GAgent_Tick`. One `recv()` may return several
packets of which only the first is parsed (`Rests`), or part of one (`ReadPart`).
Time is abstracted: a time-out may come whenever its timer runs, so an answer may
be late by any amount. A broker with `MaxSent` requests unread stops reading
("mute"), which bounds the queue. `IdMod` must exceed what can be under way, as 256
does. The configuration server is two actions, `Provisioned` (it starts the
session anew, even a running one) and `ConfigStatus`.

*m2m_session*: two requests and two packets under way, which is what it takes for
an answer of an earlier request to meet a later one. *m2m_live*: one of each.
Fairness: handlers and ticks are weakly fair; nothing is assumed of the router,
the broker or the configuration server, so `LoginCompletes` names what must stop
disturbing (`Disturbed`), and its conclusion is that the session then stays.
`MuteBrokerRestarts` speaks of a *mute* broker: one that answers with refusals, or
closes the connection, starts the wait over each time and never brings the restart.

### GServer

`CloudStatus` and the request on the HTTP socket with what became of it (`http`).
Each state of `Cloud_ConfigDataHandle` is an action or two (answer of use / of no
use), `Retry` and `DevReset` the time-outs, and the other users of the status are
`TimeSync`, `OnlinePush`, `McuQuery`, `JdWrite`, `ModeEdge`, `StationEdge`,
`McuReset`. `done` and `jdAt` are history: steps taken since power-on (or "cut"
when another user decided what comes next) and how far the newest JD key got.
`Told` is the nested query of an MCU that is being told something: it is sent and
its status overwritten. Left out: what a firmware download does, and malloc
failures; the branch of the DISABLE time-out with no old id is unreachable.

*gserver*: three failures stand for ten, so that a state can be retried, retried
again and given up; the rest is complete. Safety and `ConfigCompletes` are checked
in one run. Fairness: the loop serves the configuration, the server answers or
closes, two hours pass, and the tick sees a router that is there. `ConfigCompletes`
speaks of behaviours that are undisturbed from some point on, from whatever state
had been reached by then.

### HalReceive and Framing

Bytes. `hal_RxBuffer`, `pos_start`, `pos_current` are the ring, with positions that
wrap at 2^32 (`PosMod`); `status`, `dataLen`, `packetStart`, `keyWord` the parser.
`RecAll(n)` is a read of any n bytes that are there and fit in one stretch.
`ExtractOnePacket` is one call, `Scanned` its loop with one `OneByte` per turn, in which
`Unescaped` moves the rest of the ring over the 0x55. `due` remembers the packets
sent whole. The checksum, and the adaptation of what the module itself sends, are
left out (`Local_Ack2MCU` sends the number of an acknowledgement without escaping it,
so that one numbered 255 is not readable).

Framing is the same receiver without a buffer: it takes bytes from the wire, in any
portions. HalReceive implements it with `wire` the unread part of the ring and the
bytes not read yet, and `parser.pkt` the part of the ring behind `packetStart`.

*hal_receive*: a ring of 16 and positions modulo 32, so both wrap; packets of
two bytes over 0xff, 0x55 and 1, which have every combination of neighbouring
escapes; noise that stops the parser in each of its states; three pieces of
either. The one assumption about the MCU is `Room`: what the ring keeps of an
unfinished packet (`Kept`), what is unread in it and what is on the line are together
less than `Size`, so that the run fills the ring to the brim and not over it. Nothing in
the code enforces this. `get_available_buf_space` protects neither the kept part of a
packet, nor the last byte of the ring, whose filling makes full look like empty; 4096
bytes are far from it unless the main loop stalls.

### BigData

`file`, `readyFlag` as in `rtinfo`; `stack` the calls that wait, by what follows them;
`rx`, `rxCloud` the piece and the flag left in `Rxbuf`. `HandlePiece`,
`HandleStrayPiece`, `HandleNeedUpgrade`, `HandleReadyAck`, `HandleStopSend`,
`HandleReport`, `HandleCtrlAck` are the MCU's packets, `Return…` the ends of a wait,
`SendReady` and `TransferTimeout` the tick. `stream` is what the broker gets:
`Publish` opens an MQTT packet of the whole file's length, `Raw` adds to it, `Packet` is
any other message, and `torn` says that the broker has lost its place.

The transfer does not survive everything. `stream.blame` names the first thing that
happened which it is not made for, and each of the eight really breaks
`StreamKept`: the first piece again, a later one first (`throwgabage` makes up a file
that was never opened), a piece outside a transfer, `MCU_NEED_UPGRADE` during one, an
acknowledgement of READY after it was given up, a STOP_SEND before it, a control
that returns and publishes what a piece left in `Rxbuf`, and a connection remade during
a transfer. Everything else is covered: pieces lost or repeated, stops, time-outs and
lost connections in any order.

*big_data*: files of up to three pieces (first, middle, last), calls nested twice,
which is a request waiting with a stop sent below it. Fairness: waits return
(weak), and the main loop comes to `GAgent_BigDataTick` at every turn, whatever
the apps send (strong).

### McuOta

`flash` and `MD5` are the image stored and the one whose header was read last;
`Download`, `DownloadFails`, `PushedDownload` fetch one and tell the MCU. `HandleReady`
starts the transfer from inside a handler, so `stack` holds the pieces' calls
under whatever the MCU sends meanwhile; `NextPiece`, `GiveUpPiece`, `HandleAck`,
`HandleStop` are the loop of `GAgent_LocalSendUpgrade` and `GAgent_LocalSendbyHex`.
`taken`, `outcome`, `told`, `extra` and `blame` are history. An image of one piece is
excepted by name from `WholeImageSent`: sent as bin it succeeds with nothing sent,
because the loop runs while `piecenum < piececount` and the last piece is sent only after
a turn of it. `blame` names what spoils a transfer from outside: an image that is
replaced, damaged in flash (the MD5 read back is only logged), a second READY, a busy
link, a query that overwrites the buffer, a stray piece.

*mcu_ota*: an image of one piece and a hex image of four, so that there are pieces
neither first nor last; three calls inside each other, which is a piece, a second
transfer and a stray piece's stop.

### WifiMode

`WMODE` and `at` are what AT commands store, `saved` and `gc` the configuration in flash
and memory, `hal` and `status` the two sets of bits. `todo` is what a mode start has
still to do; `ModeStep` does one command, and power may be cut (`PowerCut`) or a
command fail before each. `WiFiEventTick` is the tick from its mode edges to its
countdown; a mode start in the middle of it does not come back unless it fails
(`SoftApFails`). `Onboarding`, `WebConfig`, `SmartLinkDone`, `ConfigAp`, `ConfigAirlink`,
`ResetWifi`, `EnterTest`, `ExitTest`, `Restart` are the ways the mode is changed.
`wanted`, `hurt`, `opened` are history. A network's ssid and key are one value each, so
that half a change shows. Some things the model makes plain: `GAgent_WiFiInit` never
finds the modes different, since `GAgent_DRVGetWiFiMode` returns what it is compared
with (`BootSteps`); `OpenAirlink` sets the flag that `GAgent_Config` then takes for
SmartLink's answer (`AirlinkStep`); a factory reset leaves the firmware's ssid, so the
module starts as a station again; `GAGENT_LAN_CMD_TEST` turns the radio off outside
test mode too.

*wifi_mode*: one network besides the test network, so that a module is moved from
one to another; window and announcement of two ticks, so that each can be
interrupted half way. Fairness: `GAgent_Tick` comes every second, and a mode start
runs to its end. `OnboardingEnds` excepts test mode, which suspends the countdown.

## What the runs show

Passing runs check one type invariant per module and:

- **LanClients**: `FdOwnership` no socket leaks or is closed twice;
  `CountedReported` no app is counted without the MCU knowing;
  `BindingMatchesCountdown`, `BindingWindowCloses` the passcode is handed out only
  while the window runs, and it closes; `SessionKept`; `SilentClientDropped`.
- **LocalLink**: `BusyMatchesCall` a waiting call is released by its own
  acknowledgement, or by a stop nested in it, and by nothing else;
  `ReplyToRequester` an answer goes to the app that asked;
  `ImplementsStopAndWait`; `MainLoopComesBack`; `MuteMcuRestarts`.
- **M2MSession**: `RunningIsSubscribed`, `NoOrphanSession`, `StaleReportWithdrawn`,
  `DeadSessionNoticed`, `LoginCompletes`, `MuteBrokerRestarts`.
- **GServer**: `FlowComplete` no step of a configuration is skipped, unless another user
  cut into it; `JdNewestAccepted`; `ConfigCompletes`, left undisturbed.
- **HalReceive**: `FramesArrive` no whole packet is lost to what came before it;
  `ImplementsFraming` portions, wrap and moves make no difference.
- **BigData**: `StreamKept`, `PublishMatchesFile` the broker does not lose its place, and
  no packet is left open, but for what `blame` names; `PiecesInOrder`; `TransferEnds`.
- **McuOta**: `WholeImageSent` a success is a whole, sound image, but for what `blame`
  names; `StopObeyed` at most one piece is begun after a stop; `FailureTold` the MCU
  learns of a failure.
- **WifiMode**: `NetworkTakesEffect` the network last given is the one joined, but for a
  mode start cut short; `OnboardingEnds`; `AnnouncementEnds`.

Each has a fault in `PROJECT.json` ("mutants"), an operator commented `Fault:` in the
module, that breaks it.

### What the properties except

Where the code goes wrong and the repository promises nothing that a violation run
could quote, the property that would say so excepts the case by name. The run shows
everything around the case; it does not show that the case is harmless.

| Excepted | Where | Left open in the code |
|---|---|---|
| a stop nested in a wait | `BusyMatchesCall`, StopAndWait's `Displace` | success without an acknowledgement (`local.c:1181`) |
| `done = {"cut"}`, behaviours not `Undisturbed` | `FlowComplete`, `ConfigCompletes` | another user of `CloudStatus` cuts into a configuration, which may end `CLOUD_CONFIG_OK` with steps missing (`cloud.c:544`) |
| `hurt` | `NetworkTakesEffect` | power lost, or a command failed, inside a mode start (`gagent_hf_drv.c:954`) |
| `stream.blame` | `StreamKept`, `PublishMatchesFile` | the eight cases under *BigData* |
| `blame`, an image of one piece | `WholeImageSent` | an image replaced or damaged, two transfers at once, a busy link, an overwritten buffer, a stray piece (*McuOta*) |
| `blame = "twice"`, `"busy"` | `StopObeyed` (the first), `FailureTold` (both) | two transfers share one stop flag; a stop a busy link refuses is not sent |
| `Room`, a guard of the MCU's | all of HalReceive | a ring filled to its last byte loses what is in it (`hal_receive.c:66`) |

Violation runs show where the code differs from what the repository says:

- *lan_login*: a slot freed by a time-out keeps its login for the next app.
- *wifi_window*: a station told to open its onboarding window becomes a hotspot by a
  restart, which forgets the window; the hotspot is not closed by the time-out the
  changelog describes.

## What is proved

`LanClientsProofs`, for every number of slots and descriptors, every set of modes,
steps and counts allowed by the ASSUMEs of LanClients (TLC evaluates them in
*lan_clients*): `TypeCorrect`, `SocketsOwned`, `CountedIsReported`,
`BindingWindowExact`, `SessionsAreKept`. Each invariant is inductive given the
types, so each proof has one step per action; what several actions share (closing
one slot, closing all expired slots, shrinking the count before the "nobody is
online" test) is a lemma. `SessionKept` is an action property: a handler clears
`isLogin` only where it also closes the socket.

`GServerProofs`, for every `MaxPings` of at least one: `ServerTypes`,
`ConfigurationIsWhole` (`FlowComplete`: a flow that nobody else cut into) and
`NewestKeyUploaded` (`JdNewestAccepted`). None is inductive as it stands.

- The types need `PushCuts`: an invalid type in `OTATypeflag` comes from a push,
  which cut the configuration, so that it never counts as a step taken.
- `FlowComplete` needs `FlowInv`, which says for each state what was taken by then,
  and that `OTATypeflag = "mcu"` means the module's own firmware was asked for.
- `JdNewestAccepted` needs `UploadInv`: in `CLOUD_RES_POST_JD_INFO` a key waits, and
  an answer that may still count answers an upload of the newest key. This is where
  it matters that a new key drops the connection of the last upload.

`M2MSessionProofs`, for every back-off, ping limit and set of message ids:
`SessionIsKnown` (`NoOrphanSession`), which is inductive by itself and whose one hard
case, the tick that ends a session or copies the HAL's bit, is lemma
`TickSeesSession`; and `SessionTypes` (`TypeOK`), with the types of the connection and
of the rest apart (`Socket`, `Rest`), so that what each way of sending or reading does
to the connection is a lemma. `RunningHasTopics` (`RunningIsSubscribed`) compares the id
of a SUBACK with the id of the last SUBSCRIBE, and ids wrap. `SubInv` says how old each
id under way is: `AcksPlaced` and `SubsPlaced` count the requests made since, and bound the
count by the room left in the two queues (`Bounded`), so that with more ids than room
(`IdMod > MaxSent + MaxInbox`; 256 in the code against the few packets a connection
holds) only the answer to the last SUBSCRIBE carries the id awaited (`AwaitsLast`).
`GrantedSoFar` adds up the topics.

`LocalLinkProofs`, for any apps, numbers, queues, and nesting of calls: `LinkTypeSafe`,
`BusyMeansWaiting` (`BusyMatchesCall`), `RepliesGoHome` (`ReplyToRequester`), and
`LinkIsStopAndWait`, that LocalLink implements `StopAndWait!SafeSpec`, the abstract link
without its fairness.

- `LinkOK` adds to the types and to `BusyMatchesCall` that only the innermost call can be
  the one `TxbufInfo` describes (`OneInv`), and that an acknowledgement on the line with
  the number of that request answers it (`Answers`). Both are what `Fresh` and `Recent`
  keep: a number is not used again while an earlier use of it can still be answered.
  For the call a stop is nested in, it adds that only stops are ever nested (`Nested`)
  and that `TxbufInfo` describes the innermost call or a stop (`LastWritten`): so when a
  nested call returns, what is left in `TxbufInfo` is a stop.
- `RouteOK`, for the answers: the control of an app is the outermost call, and the only
  one as long as it is out (`BottomOnly`, `ControlAlone`), and attributes that name an app
  name the one that control serves (`Served`).
- In the refinement each action is a step of the abstract link or leaves it alone; the
  hard one is a call nested in another (`stop` inside a wait), which displaces its
  request.

`BigDataProofs`, for files of any length and any nesting: `TransferTypes`,
`BrokerKeepsPlace` (`StreamKept`), `PacketMatchesTransfer` (`PublishMatchesFile`) and
`FileArrivesInOrder` (`PiecesInOrder`). The three are one invariant, `OpenOK`: as long as
nothing in `blame` has happened, the packet at the broker lacks exactly what the file has
still to pass on (`Matches`), the file's counters agree with each other (`GoodFile`), and
no READY is due or awaited while a transfer is open (`GoodCalls`). This last part is what
lets a piece arrive at a broker that expects it.

`HalReceiveProofs`, for a ring and positions of any size, any packets and any noise (the
ASSUMEs of HalReceive, evaluated in *hal_receive*; that the MCU does not overrun the ring
is the guard `Room`): `RingTypes`; `RingIsTheLine` (`ImplementsFraming`), a refinement in
which one step of the ring is as many turns of the parser's loop as there are bytes; and
`FramesAreReceived` (`FramesArrive`).

- `Inv` says that the ring is a tape: from some position on, the kept part of the packet
  and behind it what is unread lie in its slots, however they wrap; the parser of Framing
  reads the same (`Sim`); and all of it with the line is shorter than the ring. Without
  the last part a byte read could land on the packet being received.
- Each thing done to the ring has a lemma about the tape: going on by a byte
  (`RingPass`), giving up what was kept (`RingDrop`), moving the rest over a 0x55
  (`RingPull`), reading from the line (`RingFill`), copying the packet out (`RingCopied`).
- `OneStep` shows that a turn of the loop is one `Step` of Framing; `AbreastAll` extends it
  to the whole loop.
- For `FramesArrive` the refinement is not enough: it says that the ring parses as Framing
  does, and not that Framing finds every packet. `Yields(p, s, q, d)` says that parsing the
  bytes s takes the parser from p to q and gives out the packets d on the way, in order and
  perhaps with others between them; the invariant `Placed`, that the line (the unread part
  of the ring and the bytes not read) yields `due` from where the parser is. `YieldsJoined`
  appends what is sent, `YieldsRest` takes off what one call of `ExtractOnePacket` parses.
  The heart is `FrameYields`: from any state of the parser, a packet as it is sent yields
  itself. Two 0xff are a header to the parser wherever it is, but in `YieldsHeader` it may
  still be holding the second one back; so the next byte, the high byte of the length,
  must not be 0x55. `SizeAssumption`, the ring being at most 85 * 256 bytes, keeps
  packets that short: `HAL_BUF_SIZE` is 4096. With a longer ring the theorem would be
  false, and a packet of 0x5500 bytes behind a stray 0xff would be lost.

`AbreastAll`, the bytes of a packet (`YieldsBody`) and `Recent` in LocalLink need induction
over a number. The induction schemes of the library take an operator and cannot be used; the proofs take a
set instead: the least number at which the two sides differ, which exists because < on
Nat is well founded (`WFMin`), is not 0 and follows a number at which they agree. For the
same reason these functions are recursive functions over `0 .. n`, not RECURSIVE operators.

`McuOtaProofs`, for any images, number of pieces, kinds of download and nesting (the
ASSUMEs of McuOta, evaluated in *mcu_ota*): `UpgradeTypes`, `FailuresAreTold`,
`StopIsObeyed`, `SuccessIsWhole`. The calls of `WriteP0` that wait inside each other
are a sequence of any length, and each invariant needs to know what is on it.

- `TInv` types the stack by the image: a piece that waits belongs to a transfer as
  long as the image in flash, and the two places that name that image agree.
- `TellInv`, for `FailureTold`: when the stop flag is set the MCU has been told.
- `StopInv`, for `StopObeyed`: there is one transfer on the stack, and a piece begun
  after the stop is its last.
- `SentInv`, for `WholeImageSent`: the pieces before each one that waits were taken,
  in order, of that image and sound.

`WifiModeProofs`, for any networks and any lengths of the window, the announcement and
the test (the ASSUMEs of WifiMode, evaluated in *wifi_mode*): `ModeTypes` and
`NetworkHolds` (`NetworkTakesEffect`). The types need that what is left of a mode start
is the rest of one of the driver's own sequences (`Todos`). `NetworkTakesEffect` speaks
of a module at rest and says nothing of one that is changing its mode; `NetInv` says
for every step that is left what has been written by then: the mode first, then the
name, then the key, and all of it before the restart. It also needs that a sequence
that makes a hotspot is only ever left when no network is wanted: this is why a command
of the hotspot that fails, after which the tick goes on, does no harm. The functions of
the tick (`ModeEdges`, `OnboardingDown`, `TestScan`, ...) each have a lemma saying that
they keep the network and the mode.

Model-checked only: liveness under fairness, out of the prover's reach (`BindingWindowCloses`,
`SilentClientDropped`, `MainLoopComesBack`, `MuteMcuRestarts`, the fairness of
`ImplementsStopAndWait`, `StaleReportWithdrawn`, `DeadSessionNoticed`, `LoginCompletes`,
`MuteBrokerRestarts`, `ConfigCompletes`, `TransferEnds`, `OnboardingEnds`,
`AnnouncementEnds`).

## Not modelled

Texts and bytes of HTTP, MQTT and JSON (a message is its kind); DNS look-ups and the
making of a device id; sockets, the scan's list and the module's own firmware update
in the driver; LED, printing, MD5, string helpers; the variants `local_v3.c`, `local_simu.c`,
`lan_cut.c`; the vendor's SDK, scheduler and flash driver. Preemption of
`GAgent_DevCheckWifiStatus` by the driver's callback is a hazard noted and not
modelled: the scheduler is not in the repository.
