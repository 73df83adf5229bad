------------------------------ MODULE WifiMode ------------------------------
(* How the module gets its network and changes between hotspot and station   *)
(* (gagent_hf_drv.c, gagent_netevent.c, GAgent_Config in gagent.c, lanudp.c, *)
(* webconfig.c and the announcement in lan.c).                               *)
(*                                                                           *)
(* The driver cannot change the mode of a running module: it writes the mode *)
(* and the credentials with AT commands, one after the other, and restarts.  *)
(* todo holds what such a sequence has still to do; power may be lost before *)
(* each step, and each command may fail.                                     *)
EXTENDS Integers, Sequences

CONSTANTS
  Nets,        \* networks an app or SmartLink may choose
  TestAp, NoNet,
  OnboardTime, \* GAGENT_ONBOARDING_TIME
  SendTimes,   \* SEND_UDP_DATA_TIMES
  TestScans    \* scans before test mode is left

ASSUME NetAssumption == TestAp \notin Nets /\ NoNet \notin Nets \cup {TestAp}
ASSUME TimeAssumption == {OnboardTime, SendTimes, TestScans} \subseteq Nat \ {0}

VARIABLES
  WMODE, at,      \* AT+WMODE, AT+WSSSID and AT+WSKEY: kept by the firmware
  saved,          \* gc in flash
  gc,             \* gc in memory
  hal, status,    \* halWiFiStatus and GAgentStatus, the bits of this module
  onboardingTime, \* gagentOnboardingTime
  broadcastTime,  \* ls.onboardingBroadCastTime
  scanWifiFlag, testCount,
  radioUp,        \* AT+WIFI
  todo,           \* steps of a mode start still to be done
  newStatus,      \* the tick's snapshot of hal, while todo interrupts it
  smartLink,      \* external: SmartLink listens
  wanted,         \* history: the network the module was last told to join
  hurt,           \* history: power or a command failed during a mode start
  opened          \* history: the hotspot was started for onboarding

persistent == <<WMODE, at, saved>>
history == <<wanted, hurt, opened>>
vars == <<persistent, gc, hal, status, onboardingTime, broadcastTime, scanWifiFlag,
          testCount, radioUp, todo, newStatus, smartLink, history>>

Ssids == Nets \cup {TestAp, NoNet}
Config == [CONNECTED : BOOLEAN, CONFIG : BOOLEAN, CONFIG_AP : BOOLEAN, ssid : Ssids, key : Ssids]
Hal == [AP : BOOLEAN, STATION : BOOLEAN, ONBOARDING : BOOLEAN, CONNECTED : BOOLEAN]
Status == [AP : BOOLEAN, STATION : BOOLEAN, ONBOARDING : BOOLEAN, CONNECTED : BOOLEAN, TEST : BOOLEAN]

StationSteps == <<"stamode", "down", "ssid", "key", "up", "reset">>
SoftApSteps == <<"down", "wap", "apmode", "up", "reset">>

-----------------------------------------------------------------------------
(* Starting: GAgent_VarInit and GAgent_WiFiInit *)

\* Fault: the mode is the one the configuration asks for.
GetWiFiModeByFlag(w, sv) == IF sv.CONNECTED THEN "STA" ELSE "AP"

\* GAgent_DRVGetWiFiMode gives back what GAgent_DRVBootConfigWiFiMode gives it.
GetWiFiMode(w, sv) == w

\* The steps GAgent_WiFiInit takes: none when the modes agree.
BootSteps(w, sv) ==
  CASE w = GetWiFiMode(w, sv) -> <<>>
    [] w # GetWiFiMode(w, sv) /\ sv.CONNECTED -> StationSteps
    [] OTHER -> SoftApSteps

IsTestAp(c) == c.ssid = TestAp /\ c.key = TestAp

\* In station mode the credentials are those of the firmware, in memory only.
WithStaConfig(c, w, a) == IF w = "STA" THEN [c EXCEPT !.ssid = a.ssid, !.key = a.key] ELSE c

Boot(w, a, sv) ==
  /\ WMODE' = w /\ at' = a /\ saved' = sv
  /\ gc' = WithStaConfig(sv, w, a)
  /\ hal' = [AP |-> w = "AP", STATION |-> w = "STA", ONBOARDING |-> FALSE, CONNECTED |-> FALSE]
  /\ status' = [AP |-> w = "AP", STATION |-> w = "STA", ONBOARDING |-> FALSE,
                CONNECTED |-> FALSE, TEST |-> IsTestAp(sv)]
  /\ scanWifiFlag' = IsTestAp(sv) /\ testCount' = 0
  /\ onboardingTime' = 0 /\ broadcastTime' = SendTimes
  /\ radioUp' = TRUE /\ todo' = BootSteps(w, sv)
  /\ newStatus' = hal' /\ smartLink' = FALSE

NoConfig == [CONNECTED |-> FALSE, CONFIG |-> FALSE, CONFIG_AP |-> FALSE, ssid |-> NoNet, key |-> NoNet]

\* A module as it leaves the factory, a hotspot without a network.
Init ==
  /\ WMODE = "AP" /\ at = [ssid |-> NoNet, key |-> NoNet] /\ saved = NoConfig /\ gc = saved
  /\ hal = [AP |-> TRUE, STATION |-> FALSE, ONBOARDING |-> FALSE, CONNECTED |-> FALSE]
  /\ status = [AP |-> TRUE, STATION |-> FALSE, ONBOARDING |-> FALSE, CONNECTED |-> FALSE, TEST |-> FALSE]
  /\ scanWifiFlag = FALSE /\ testCount = 0 /\ onboardingTime = 0 /\ broadcastTime = SendTimes
  /\ radioUp = TRUE /\ todo = <<>> /\ newStatus = hal /\ smartLink = FALSE
  /\ wanted = NoNet /\ hurt = FALSE /\ opened = FALSE

-----------------------------------------------------------------------------
(* GAgent_WiFiEventTick, as functions of the state t it has reached *)

T == [saved |-> saved, gc |-> gc, hal |-> hal, status |-> status, time |-> onboardingTime,
      scanned |-> scanWifiFlag, count |-> testCount, up |-> radioUp, todo |-> todo,
      sends |-> broadcastTime]

Becomes(t) ==
  /\ saved' = t.saved /\ gc' = t.gc /\ hal' = t.hal /\ status' = t.status
  /\ onboardingTime' = t.time /\ scanWifiFlag' = t.scanned /\ testCount' = t.count
  /\ radioUp' = t.up /\ todo' = t.todo /\ broadcastTime' = t.sends

Save(t, c) == [t EXCEPT !.gc = c, !.saved = c]

ModeEdges(t, new) == [t EXCEPT !.status.AP = new.AP, !.status.STATION = new.STATION]

\* The window opens.  A module that is no hotspot starts one, and comes back
\* here (OnboardingUp) only when that fails.
OpensHotspot(t, new) ==
  LET c == Save(t, [t.gc EXCEPT !.CONFIG_AP = TRUE])
  IN IF new.AP THEN c ELSE [c EXCEPT !.todo = SoftApSteps]

OnboardingUp(t) == [t EXCEPT !.status.ONBOARDING = TRUE, !.time = OnboardTime]

\* GAgent_EnterNullMode
NullMode(t) == [t EXCEPT !.up = FALSE]

\* The window closes: timed out, or a configuration came and GAgent_WiFiInit
\* finds the mode it has.  (Whoever brings a configuration restarts the module
\* before the tick, so that it only ever times out.)
OnboardingDown(t) ==
  LET c == Save(t, [t.gc EXCEPT !.CONFIG_AP = FALSE])
      d == IF t.time = 0 THEN NullMode(c)
           ELSE LET e == Save(c, [c.gc EXCEPT !.CONFIG = TRUE])
                IN [e EXCEPT !.gc = WithStaConfig(e.gc, WMODE, at), !.sends = SendTimes,
                             !.status.TEST = @ \/ IsTestAp(c.gc), !.scanned = @ \/ IsTestAp(c.gc)]
  IN [d EXCEPT !.status.ONBOARDING = FALSE, !.time = 0]

ConnectedEdge(t, new) ==
  LET stopAp == new.CONNECTED /\ ~t.status.CONNECTED /\ ~new.ONBOARDING /\ new.AP
  IN [t EXCEPT !.status.CONNECTED = new.CONNECTED, !.up = t.up /\ ~stopAp]

\* Test mode: a scan, which may find the test network.
TestScan(t, found) ==
  LET c == IF t.count < TestScans THEN [t EXCEPT !.count = @ + 1]
           ELSE NullMode([t EXCEPT !.count = 0, !.status.TEST = FALSE])
      d == Save(c, [c.gc EXCEPT !.ssid = TestAp, !.key = TestAp])
  IN IF found THEN [d EXCEPT !.scanned = TRUE, !.count = 0, !.todo = StationSteps] ELSE c

\* Fault: the time is counted only while the module is no hotspot.
CountDownAsStation(t) ==
  IF t.status.ONBOARDING /\ ~t.status.TEST /\ ~t.status.AP
  THEN IF t.time > 0 THEN [t EXCEPT !.time = @ - 1] ELSE [t EXCEPT !.hal.ONBOARDING = FALSE]
  ELSE t

\* Fault: the time is counted down before it is tested.
CountDownPast(t) ==
  IF t.status.ONBOARDING /\ ~t.status.TEST
  THEN [t EXCEPT !.time = @ - 1, !.hal.ONBOARDING = @ /\ t.time > 0]
  ELSE t

CountDown(t) ==
  IF t.status.ONBOARDING /\ ~t.status.TEST
  THEN IF t.time > 0 THEN [t EXCEPT !.time = @ - 1] ELSE [t EXCEPT !.hal.ONBOARDING = FALSE]
  ELSE t

\* What follows the edge of ONBOARDING.  A mode start does not come back.
FinishTick(t, new, found) ==
  LET c == ConnectedEdge(t, new)
      scans == c.status.TEST /\ ~c.scanned
      d == IF scans THEN TestScan(c, found) ELSE c
  IN /\ found => scans
     /\ Becomes(IF d.todo # <<>> THEN d ELSE CountDown(d))
     /\ wanted' = IF found THEN TestAp ELSE wanted
     /\ hurt' = (hurt /\ ~found)
     /\ opened' = (opened /\ todo = <<>>)
     /\ UNCHANGED <<WMODE, at, newStatus, smartLink>>

TickQuiet(found) ==
  /\ hal.ONBOARDING = status.ONBOARDING
  /\ FinishTick(ModeEdges(T, hal), hal, found)

TickCloses(found) ==
  /\ ~hal.ONBOARDING /\ status.ONBOARDING
  /\ FinishTick(OnboardingDown(ModeEdges(T, hal)), hal, found)

TickOpens(found) ==
  /\ hal.ONBOARDING /\ ~status.ONBOARDING /\ hal.AP
  /\ FinishTick(OnboardingUp(OpensHotspot(ModeEdges(T, hal), hal)), hal, found)

TickStartsAp ==
  /\ hal.ONBOARDING /\ ~status.ONBOARDING /\ ~hal.AP
  /\ Becomes(OpensHotspot(ModeEdges(T, hal), hal))
  /\ newStatus' = hal /\ wanted' = NoNet /\ opened' = TRUE
  /\ UNCHANGED <<WMODE, at, smartLink, hurt>>

WiFiEventTick ==
  /\ todo = <<>>
  /\ TickStartsAp \/ \E found \in BOOLEAN : TickQuiet(found) \/ TickCloses(found) \/ TickOpens(found)

-----------------------------------------------------------------------------
(* The announcement: GAgent_LanTick *)

\* Fault: the mark is taken off in memory and not saved.
LanTickForgets ==
  /\ todo = <<>> /\ status.CONNECTED /\ broadcastTime > 0
  /\ broadcastTime' = broadcastTime - 1
  /\ gc' = IF broadcastTime = 1 THEN [gc EXCEPT !.CONFIG = FALSE] ELSE gc
  /\ UNCHANGED <<persistent, hal, status, onboardingTime, scanWifiFlag, testCount, radioUp,
                 todo, newStatus, smartLink, history>>

\* When the last broadcast is out, so is the mark.
LanTick ==
  /\ todo = <<>> /\ status.CONNECTED /\ broadcastTime > 0
  /\ broadcastTime' = broadcastTime - 1
  /\ IF broadcastTime = 1
     THEN gc' = [gc EXCEPT !.CONFIG = FALSE] /\ saved' = gc'
     ELSE UNCHANGED <<gc, saved>>
  /\ UNCHANGED <<WMODE, at, hal, status, onboardingTime, scanWifiFlag, testCount, radioUp,
                 todo, newStatus, smartLink, history>>

-----------------------------------------------------------------------------
(* The steps of a mode start *)

\* A network is joined: StationCustomModeStart with what gc holds.
Joins(n) == todo' = StationSteps /\ wanted' = n /\ hurt' = FALSE /\ opened' = FALSE

Advance == todo' = Tail(todo)
Ran(ok) == hurt' = (hurt \/ ~ok)

\* A command that fails is passed over.
StationStep ==
  \E ok \in BOOLEAN :
    /\ todo # <<>> /\ Head(todo) \in {"stamode", "ssid", "key"}
    /\ WMODE' = IF ok /\ Head(todo) = "stamode" THEN "STA" ELSE WMODE
    /\ at' = [ssid |-> IF ok /\ Head(todo) = "ssid" THEN gc.ssid ELSE at.ssid,
              key |-> IF ok /\ Head(todo) = "key" THEN gc.key ELSE at.key]
    /\ Advance /\ Ran(ok)
    /\ UNCHANGED <<saved, gc, hal, status, onboardingTime, broadcastTime, scanWifiFlag, testCount,
                   radioUp, newStatus, smartLink, wanted, opened>>

RadioStep ==
  /\ todo # <<>> /\ Head(todo) \in {"down", "up"}
  /\ radioUp' = (Head(todo) = "up") /\ Advance
  /\ UNCHANGED <<persistent, gc, hal, status, onboardingTime, broadcastTime, scanWifiFlag,
                 testCount, newStatus, smartLink, history>>

SoftApStep ==
  /\ todo # <<>> /\ Head(todo) \in {"wap", "apmode"}
  /\ WMODE' = IF Head(todo) = "apmode" THEN "AP" ELSE WMODE
  /\ Advance
  /\ UNCHANGED <<at, saved, gc, hal, status, onboardingTime, broadcastTime, scanWifiFlag,
                 testCount, radioUp, newStatus, smartLink, history>>

\* A command of the hotspot's fails: the tick goes on, with the radio down.
SoftApFails ==
  /\ todo # <<>> /\ Head(todo) \in {"wap", "apmode"}
  /\ \E found \in BOOLEAN :
       FinishTick(OnboardingUp([T EXCEPT !.todo = <<>>]), newStatus, found)

\* The second half of GAgent_Config(2): the mark OpenAirlink has just set is
\* taken for SmartLink's answer, and the network of before is joined.
AirlinkStep ==
  /\ todo # <<>> /\ Head(todo) = "airlink"
  /\ gc' = [gc EXCEPT !.CONNECTED = TRUE, !.CONFIG_AP = FALSE] /\ saved' = gc'
  /\ broadcastTime' = SendTimes /\ Advance
  /\ UNCHANGED <<WMODE, at, hal, status, onboardingTime, scanWifiFlag, testCount, radioUp,
                 newStatus, smartLink, history>>

ResetStep ==
  /\ todo # <<>> /\ Head(todo) = "reset"
  /\ Boot(WMODE, at, saved) /\ UNCHANGED history

ModeStep == StationStep \/ RadioStep \/ SoftApStep \/ SoftApFails \/ AirlinkStep \/ ResetStep

-----------------------------------------------------------------------------
(* Commands of the MCU *)

\* MCU_CONFIG_WIFI 1
ConfigAp ==
  /\ todo = <<>> /\ hal' = [hal EXCEPT !.ONBOARDING = TRUE]
  /\ UNCHANGED <<persistent, gc, status, onboardingTime, broadcastTime, scanWifiFlag, testCount,
                 radioUp, todo, newStatus, smartLink, history>>

\* MCU_CONFIG_WIFI 2
ConfigAirlink ==
  /\ todo = <<>> /\ todo' = <<"airlink">> \o StationSteps
  /\ gc' = [gc EXCEPT !.CONFIG = TRUE] /\ saved' = gc'
  /\ smartLink' = TRUE
  /\ UNCHANGED <<WMODE, at, hal, status, onboardingTime, broadcastTime, scanWifiFlag, testCount,
                 radioUp, newStatus, history>>

\* MCU_RESET_WIFI: GAgent_Clean_Config, then a restart.
ResetWifi ==
  /\ todo = <<>> /\ todo' = <<"reset">>
  /\ gc' = [NoConfig EXCEPT !.CONFIG = gc.CONFIG, !.CONFIG_AP = TRUE] /\ saved' = gc'
  /\ wanted' = NoNet /\ opened' = FALSE
  /\ UNCHANGED <<WMODE, at, hal, status, onboardingTime, broadcastTime, scanWifiFlag, testCount,
                 radioUp, newStatus, smartLink, hurt>>

\* WIFI_TEST
EnterTest ==
  /\ todo = <<>> /\ scanWifiFlag' = FALSE /\ status' = [status EXCEPT !.TEST = TRUE]
  /\ UNCHANGED <<persistent, gc, hal, onboardingTime, broadcastTime, testCount, radioUp, todo,
                 newStatus, smartLink, history>>

\* The reboot command, and every other restart of the module.
Restart == todo = <<>> /\ Boot(WMODE, at, saved) /\ opened' = FALSE /\ UNCHANGED <<wanted, hurt>>

-----------------------------------------------------------------------------
(* Apps *)

Given(n) == [gc EXCEPT !.ssid = n, !.key = n, !.CONNECTED = TRUE, !.CONFIG = TRUE]

\* GAGENT_LAN_CMD_ONBOARDING
Onboarding(n) ==
  /\ todo = <<>> /\ status.AP /\ radioUp
  /\ gc' = Given(n) /\ saved' = gc' /\ hal' = [hal EXCEPT !.ONBOARDING = FALSE]
  /\ Joins(n)
  /\ UNCHANGED <<WMODE, at, status, onboardingTime, broadcastTime, scanWifiFlag, testCount,
                 radioUp, newStatus, smartLink>>

\* The web page's form.
WebConfig(n) ==
  /\ todo = <<>> /\ status.AP /\ radioUp
  /\ gc' = Given(n) /\ saved' = gc' /\ hal' = [hal EXCEPT !.ONBOARDING = FALSE]
  /\ broadcastTime' = SendTimes /\ radioUp' = FALSE
  /\ Joins(n)
  /\ UNCHANGED <<WMODE, at, status, onboardingTime, scanWifiFlag, testCount, newStatus, smartLink>>

\* GAGENT_LAN_CMD_TEST, whether in test mode or not
ExitTest ==
  /\ todo = <<>> /\ radioUp
  /\ Becomes(NullMode([T EXCEPT !.scanned = FALSE, !.status.TEST = FALSE]))
  /\ UNCHANGED <<WMODE, at, newStatus, smartLink, history>>

App == ExitTest \/ \E n \in Nets : Onboarding(n) \/ WebConfig(n)

-----------------------------------------------------------------------------
(* The firmware and the world *)

\* hfsys_event_callback
WifiEvent ==
  /\ \/ ~hal.CONNECTED /\ WMODE = "STA" /\ radioUp /\ at.ssid # NoNet /\ at.ssid = at.key
     \/ hal.CONNECTED
  /\ hal' = [hal EXCEPT !.STATION = TRUE, !.CONNECTED = ~@]
  /\ UNCHANGED <<persistent, gc, status, onboardingTime, broadcastTime, scanWifiFlag, testCount,
                 radioUp, todo, newStatus, smartLink, history>>

\* SmartLink got a network: the firmware keeps it and restarts.
SmartLinkDone(n) ==
  /\ smartLink /\ Boot("STA", [ssid |-> n, key |-> n], saved)
  /\ wanted' = n /\ hurt' = FALSE /\ opened' = FALSE

PowerCut ==
  /\ Boot(WMODE, at, saved)
  /\ hurt' = (hurt \/ todo # <<>>) /\ opened' = FALSE /\ UNCHANGED wanted

World == WifiEvent \/ PowerCut \/ \E n \in Nets : SmartLinkDone(n)

-----------------------------------------------------------------------------
Mcu == ConfigAp \/ ConfigAirlink \/ ResetWifi \/ EnterTest \/ Restart
Next == WiFiEventTick \/ LanTick \/ ModeStep \/ Mcu \/ App \/ World
Spec == Init /\ [][Next]_vars

\* GAgent_Tick comes round every second; a mode start runs to its end.
FairSpec == Spec /\ WF_vars(WiFiEventTick) /\ WF_vars(LanTick) /\ WF_vars(ModeStep)

-----------------------------------------------------------------------------
(* Properties *)

TypeOK ==
  /\ WMODE \in {"STA", "AP"} /\ at \in [ssid : Ssids, key : Ssids]
  /\ saved \in Config /\ gc \in Config
  /\ hal \in Hal /\ newStatus \in Hal /\ status \in Status
  /\ onboardingTime \in 0 .. OnboardTime /\ broadcastTime \in 0 .. SendTimes
  /\ scanWifiFlag \in BOOLEAN /\ testCount \in 0 .. TestScans
  /\ radioUp \in BOOLEAN /\ smartLink \in BOOLEAN
  /\ todo \in Seq({"airlink", "stamode", "ssid", "key", "down", "up", "wap", "apmode", "reset"})
  /\ wanted \in Ssids /\ hurt \in BOOLEAN /\ opened \in BOOLEAN

\* The network the module was told to join is the one it is a station of, from
\* the restart on and across later ones, whoever told it and whatever else was
\* asked meanwhile; until it is made a hotspot or reset.  Excepted is a mode
\* start in which power was lost or a command failed: it leaves a part written.
NetworkTakesEffect ==
  todo = <<>> /\ wanted # NoNet /\ ~hurt =>
    WMODE = "STA" /\ at = [ssid |-> wanted, key |-> wanted] /\ hal.STATION /\ ~hal.AP

\* The onboarding window closes, also when it is asked for again and again;
\* test mode alone suspends it.
OnboardingEnds == hal.ONBOARDING ~> ~hal.ONBOARDING \/ status.TEST

\* Once the module stays on its network the announcement of the configuration
\* comes to an end, in flash too: after power cycles it is not made for ever.
AnnouncementEnds == <>[](status.CONNECTED /\ todo = <<>>) => <>[](~saved.CONFIG)

\* A hotspot the module started for onboarding is closed when its time is over,
\* if nobody gives a network, tells the module something else or cuts its power.
HotspotCloses == opened /\ todo = <<>> /\ radioUp ~> ~radioUp \/ ~opened
=============================================================================
