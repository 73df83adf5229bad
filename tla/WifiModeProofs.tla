--------------------------- MODULE WifiModeProofs ---------------------------
(* Proofs about WifiMode, for any networks and any lengths of the onboarding *)
(* window, the announcement and the test.                                    *)
EXTENDS WifiMode, SequenceTheorems, TLAPS

USE NetAssumption, TimeAssumption

-----------------------------------------------------------------------------
(* What is left of a mode start *)

Todo1 == <<"reset">>
Todo2 == <<"up", "reset">>
Todo3 == <<"key", "up", "reset">>
Todo4 == <<"ssid", "key", "up", "reset">>
Todo5 == <<"down", "ssid", "key", "up", "reset">>
Todo6 == StationSteps
Todo7 == <<"airlink">> \o StationSteps
ApTodo3 == <<"apmode", "up", "reset">>
ApTodo4 == <<"wap", "apmode", "up", "reset">>
ApTodo5 == SoftApSteps

StationTodos == {Todo1, Todo2, Todo3, Todo4, Todo5, Todo6, Todo7}
ApTodos == {ApTodo3, ApTodo4, ApTodo5}
Todos == {<<>>} \cup StationTodos \cup ApTodos

LEMMA Heads ==
  /\ Head(Todo1) = "reset" /\ Head(Todo2) = "up" /\ Head(Todo3) = "key"
  /\ Head(Todo4) = "ssid" /\ Head(Todo5) = "down" /\ Head(Todo6) = "stamode"
  /\ Head(Todo7) = "airlink"
  /\ Head(ApTodo3) = "apmode" /\ Head(ApTodo4) = "wap" /\ Head(ApTodo5) = "down"
BY DEF Todo1, Todo2, Todo3, Todo4, Todo5, Todo6, Todo7, ApTodo3, ApTodo4, ApTodo5,
       StationSteps, SoftApSteps

LEMMA Tails ==
  /\ Tail(Todo1) = <<>> /\ Tail(Todo2) = Todo1 /\ Tail(Todo3) = Todo2
  /\ Tail(Todo4) = Todo3 /\ Tail(Todo5) = Todo4 /\ Tail(Todo6) = Todo5
  /\ Tail(Todo7) = Todo6
  /\ Tail(ApTodo3) = Todo2 /\ Tail(ApTodo4) = ApTodo3 /\ Tail(ApTodo5) = ApTodo4
<1>1. Tail(Todo1) = <<>> /\ Tail(Todo2) = Todo1
  BY DEF Todo1, Todo2
<1>2. Tail(Todo3) = Todo2 /\ Tail(Todo4) = Todo3
  BY DEF Todo2, Todo3, Todo4
<1>3. Tail(Todo5) = Todo4
  BY DEF Todo4, Todo5
<1>4. Tail(Todo6) = Todo5
  BY DEF Todo5, Todo6, StationSteps
<1>5. Tail(Todo7) = Todo6
  <2>1. Todo7 = <<"airlink", "stamode", "down", "ssid", "key", "up", "reset">>
    <3> DEFINE Steps == {"airlink", "stamode", "down", "ssid", "key", "up", "reset"}
               Whole == <<"airlink", "stamode", "down", "ssid", "key", "up", "reset">>
    <3>1. <<"airlink">> \in Seq(Steps) /\ StationSteps \in Seq(Steps) /\ Whole \in Seq(Steps)
      BY DEF StationSteps
    <3>2. Len(<<"airlink">>) = 1 /\ Len(StationSteps) = 6 /\ Len(Whole) = 7
      BY DEF StationSteps
    <3> HIDE DEF Steps, Whole
    <3>3. /\ Todo7 \in Seq(Steps)
          /\ Len(Todo7) = Len(<<"airlink">>) + Len(StationSteps)
          /\ \A i \in 1 .. Len(<<"airlink">>) + Len(StationSteps) :
               Todo7[i] = IF i <= Len(<<"airlink">>) THEN <<"airlink">>[i]
                          ELSE StationSteps[i - Len(<<"airlink">>)]
      <4> DEFINE first == <<"airlink">>
      <4>1. first \in Seq(Steps)
        BY <3>1
      <4> HIDE DEF first
      <4>2. /\ first \o StationSteps \in Seq(Steps)
            /\ Len(first \o StationSteps) = Len(first) + Len(StationSteps)
            /\ \A i \in 1 .. Len(first) + Len(StationSteps) :
                 (first \o StationSteps)[i] = IF i <= Len(first) THEN first[i]
                                              ELSE StationSteps[i - Len(first)]
        BY <3>1, <4>1, ConcatProperties
      <4> QED
        BY <4>2 DEF Todo7, first
    <3>4. /\ Len(Todo7) = 7
          /\ \A i \in 1 .. 7 : Todo7[i] = IF i <= 1 THEN <<"airlink">>[i] ELSE StationSteps[i - 1]
      BY <3>2, <3>3
    <3>5. \A i \in 1 .. 7 : Todo7[i] = Whole[i]
      BY <3>4 DEF StationSteps, Whole
    <3> QED
      BY <3>1, <3>2, <3>3, <3>4, <3>5, SeqEqual DEF Whole
  <2> QED
    BY <2>1 DEF Todo6, StationSteps
<1>6. Tail(ApTodo3) = Todo2 /\ Tail(ApTodo4) = ApTodo3
  BY DEF Todo2, ApTodo3, ApTodo4
<1>7. Tail(ApTodo5) = ApTodo4
  BY DEF ApTodo4, ApTodo5, SoftApSteps
<1> QED
  BY <1>1, <1>2, <1>3, <1>4, <1>5, <1>6, <1>7

LEMMA TodosAreSteps ==
  Todos \subseteq Seq({"airlink", "stamode", "ssid", "key", "down", "up", "wap", "apmode", "reset"})
BY DEF Todos, StationTodos, ApTodos, Todo1, Todo2, Todo3, Todo4, Todo5, Todo6, Todo7, ApTodo3,
       ApTodo4, ApTodo5, StationSteps, SoftApSteps

LEMMA TodosDiffer ==
  /\ <<>> \notin StationTodos \cup ApTodos
  /\ StationTodos \cap ApTodos = {}
BY DEF StationTodos, ApTodos, Todo1, Todo2, Todo3, Todo4, Todo5, Todo6, Todo7, ApTodo3,
       ApTodo4, ApTodo5, StationSteps, SoftApSteps

-----------------------------------------------------------------------------
(* The parts of a tick keep the types, the network and the mode *)

TickStates ==
  [saved : Config, gc : Config, hal : Hal, status : Status, time : 0 .. OnboardTime,
   scanned : BOOLEAN, count : 0 .. TestScans, up : BOOLEAN, todo : Todos, sends : 0 .. SendTimes]

\* u is t further on in the tick, with the same network, mode and steps to do.
Keeps(t, u) ==
  /\ u \in TickStates /\ u.todo = t.todo
  /\ u.gc.ssid = t.gc.ssid /\ u.gc.key = t.gc.key
  /\ u.hal.AP = t.hal.AP /\ u.hal.STATION = t.hal.STATION

LEMMA Lengths == OnboardTime \in Nat \ {0} /\ SendTimes \in Nat \ {0} /\ TestScans \in Nat \ {0}
OBVIOUS

LEMMA EmptyIsTodo == <<>> \in Todos /\ StationSteps \in Todos /\ SoftApSteps \in Todos
BY DEF Todos, StationTodos, ApTodos, Todo6, ApTodo5

LEMMA EdgesKeep ==
  ASSUME NEW t \in TickStates, NEW new \in Hal
  PROVE  Keeps(t, ModeEdges(t, new))
BY DEF Keeps, TickStates, ModeEdges, Hal, Status

LEMMA UpKeeps ==
  ASSUME NEW t \in TickStates
  PROVE  Keeps(t, OnboardingUp(t))
<1>1. [t EXCEPT !.status.ONBOARDING = TRUE] \in TickStates
  BY DEF TickStates, Status
<1>2. OnboardTime \in 0 .. OnboardTime
  BY Lengths
<1> QED
  BY <1>1, <1>2 DEF Keeps, TickStates, OnboardingUp

LEMMA SaveKeeps ==
  ASSUME NEW t \in TickStates, NEW c \in Config
  PROVE  /\ Save(t, c) \in TickStates /\ Save(t, c).todo = t.todo
         /\ Save(t, c).gc = c /\ Save(t, c).saved = c
         /\ Save(t, c).hal = t.hal /\ Save(t, c).status = t.status
         /\ Save(t, c).time = t.time /\ Save(t, c).scanned = t.scanned
BY DEF TickStates, Save

LEMMA MarksKeep ==
  ASSUME NEW c \in Config, NEW b \in BOOLEAN
  PROVE  /\ [c EXCEPT !.CONFIG = b] \in Config
         /\ [c EXCEPT !.CONFIG = b].ssid = c.ssid /\ [c EXCEPT !.CONFIG = b].key = c.key
         /\ [c EXCEPT !.CONFIG_AP = b] \in Config
         /\ [c EXCEPT !.CONFIG_AP = b].ssid = c.ssid /\ [c EXCEPT !.CONFIG_AP = b].key = c.key
BY DEF Config

LEMMA OpensKeeps ==
  ASSUME NEW t \in TickStates, NEW new \in Hal, new.AP
  PROVE  Keeps(t, OpensHotspot(t, new))
<1> DEFINE c == [t.gc EXCEPT !.CONFIG_AP = TRUE]
<1>1. t.gc \in Config
  BY DEF TickStates
<1>2. c \in Config /\ c.ssid = t.gc.ssid /\ c.key = t.gc.key
  BY <1>1, MarksKeep
<1>3. OpensHotspot(t, new) = Save(t, c)
  BY DEF OpensHotspot
<1> HIDE DEF c
<1>4. /\ Save(t, c) \in TickStates /\ Save(t, c).todo = t.todo
      /\ Save(t, c).gc = c /\ Save(t, c).hal = t.hal
  BY <1>2, SaveKeeps
<1> QED
  BY <1>2, <1>3, <1>4 DEF Keeps

LEMMA OpensStarts ==
  ASSUME NEW t \in TickStates, NEW new \in Hal, ~new.AP
  PROVE  /\ OpensHotspot(t, new) \in TickStates
         /\ OpensHotspot(t, new).todo = SoftApSteps
<1> DEFINE c == Save(t, [t.gc EXCEPT !.CONFIG_AP = TRUE])
<1>1. c \in TickStates
  BY SaveKeeps, MarksKeep DEF TickStates
<1>2. [c EXCEPT !.todo = SoftApSteps] \in TickStates /\ [c EXCEPT !.todo = SoftApSteps].todo = SoftApSteps
  BY <1>1, EmptyIsTodo DEF TickStates
<1> QED
  BY <1>2 DEF OpensHotspot

LEMMA NullKeeps ==
  ASSUME NEW t \in TickStates
  PROVE  Keeps(t, NullMode(t)) /\ NullMode(t).gc = t.gc
BY DEF Keeps, TickStates, NullMode

LEMMA ConnectedKeeps ==
  ASSUME NEW t \in TickStates, NEW new \in Hal
  PROVE  Keeps(t, ConnectedEdge(t, new))
<1> DEFINE up == t.up /\ ~(new.CONNECTED /\ ~t.status.CONNECTED /\ ~new.ONBOARDING /\ new.AP)
           u == [t EXCEPT !.status.CONNECTED = new.CONNECTED]
<1>1. u \in TickStates
  BY DEF TickStates, Hal, Status
<1>2. up \in BOOLEAN
  BY DEF TickStates
<1> HIDE DEF up
<1>3. [t EXCEPT !.status.CONNECTED = new.CONNECTED, !.up = up] \in TickStates
  BY <1>1, <1>2 DEF TickStates
<1>4. ConnectedEdge(t, new) = [t EXCEPT !.status.CONNECTED = new.CONNECTED, !.up = up]
  BY DEF ConnectedEdge, up
<1> QED
  BY <1>3, <1>4 DEF Keeps, TickStates

LEMMA CountDownKeeps ==
  ASSUME NEW t \in TickStates
  PROVE  Keeps(t, CountDown(t))
<1>1. ASSUME t.time > 0 PROVE Keeps(t, [t EXCEPT !.time = @ - 1])
  <2>1. t.time - 1 \in 0 .. OnboardTime
    BY <1>1, Lengths DEF TickStates
  <2> QED
    BY <2>1 DEF Keeps, TickStates
<1>2. Keeps(t, [t EXCEPT !.hal.ONBOARDING = FALSE])
  BY DEF Keeps, TickStates, Hal
<1>3. Keeps(t, t)
  BY DEF Keeps
<1> QED
  BY <1>1, <1>2, <1>3 DEF CountDown

LEMMA KeepsTwice ==
  ASSUME NEW t, NEW u, NEW v, Keeps(t, u), Keeps(u, v)
  PROVE  Keeps(t, v)
BY DEF Keeps

\* When the window closes the network is kept or read back from the firmware.
LEMMA DownKeeps ==
  ASSUME NEW t \in TickStates, at \in [ssid : Ssids, key : Ssids]
  PROVE  LET u == OnboardingDown(t)
         IN /\ u \in TickStates /\ u.todo = t.todo
            /\ u.hal.AP = t.hal.AP /\ u.hal.STATION = t.hal.STATION
            /\ \/ u.gc.ssid = t.gc.ssid /\ u.gc.key = t.gc.key
               \/ WMODE = "STA" /\ u.gc.ssid = at.ssid /\ u.gc.key = at.key
<1> DEFINE c == Save(t, [t.gc EXCEPT !.CONFIG_AP = FALSE])
           e == Save(c, [c.gc EXCEPT !.CONFIG = TRUE])
           f == [e EXCEPT !.gc = WithStaConfig(e.gc, WMODE, at), !.sends = SendTimes,
                          !.status.TEST = @ \/ IsTestAp(c.gc), !.scanned = @ \/ IsTestAp(c.gc)]
           d == IF t.time = 0 THEN NullMode(c) ELSE f
           Good(u) == /\ u \in TickStates /\ u.todo = t.todo
                      /\ u.hal.AP = t.hal.AP /\ u.hal.STATION = t.hal.STATION
                      /\ \/ u.gc.ssid = t.gc.ssid /\ u.gc.key = t.gc.key
                         \/ WMODE = "STA" /\ u.gc.ssid = at.ssid /\ u.gc.key = at.key
<1>1. Keeps(t, c)
  <2> DEFINE m == [t.gc EXCEPT !.CONFIG_AP = FALSE]
  <2>1. t.gc \in Config
    BY DEF TickStates
  <2>2. m \in Config /\ m.ssid = t.gc.ssid /\ m.key = t.gc.key
    BY <2>1, MarksKeep
  <2> HIDE DEF m
  <2>3. /\ Save(t, m) \in TickStates /\ Save(t, m).todo = t.todo
        /\ Save(t, m).gc = m /\ Save(t, m).hal = t.hal
    BY <2>2, SaveKeeps
  <2>4. Keeps(t, Save(t, m))
    BY <2>2, <2>3 DEF Keeps
  <2> QED
    BY <2>4 DEF m
<1> HIDE DEF c
<1>2. Keeps(c, e)
  <2> DEFINE m == [c.gc EXCEPT !.CONFIG = TRUE]
  <2>1. c \in TickStates /\ c.gc \in Config
    BY <1>1 DEF TickStates, Keeps
  <2>2. m \in Config /\ m.ssid = c.gc.ssid /\ m.key = c.gc.key
    BY <2>1, MarksKeep
  <2> HIDE DEF m
  <2>3. /\ Save(c, m) \in TickStates /\ Save(c, m).todo = c.todo
        /\ Save(c, m).gc = m /\ Save(c, m).hal = c.hal
    BY <2>1, <2>2, SaveKeeps
  <2>4. Keeps(c, Save(c, m))
    BY <2>2, <2>3 DEF Keeps
  <2> QED
    BY <2>4 DEF m
<1> HIDE DEF e
<1>3. Keeps(t, e) /\ e \in TickStates
  BY <1>1, <1>2, KeepsTwice DEF Keeps
<1>4. Good(f)
  <2> DEFINE w == WithStaConfig(e.gc, WMODE, at)
             b == IsTestAp(c.gc)
  <2>1. /\ w \in Config
        /\ \/ w.ssid = e.gc.ssid /\ w.key = e.gc.key
           \/ WMODE = "STA" /\ w.ssid = at.ssid /\ w.key = at.key
    BY <1>3 DEF WithStaConfig, TickStates, Config
  <2>2. b \in BOOLEAN
    BY DEF IsTestAp
  <2>3. SendTimes \in 0 .. SendTimes
    BY Lengths
  <2> HIDE DEF w, b
  <2>4. [e EXCEPT !.gc = w, !.sends = SendTimes, !.status.TEST = @ \/ b, !.scanned = @ \/ b]
          \in TickStates
    BY <1>3, <2>1, <2>2, <2>3 DEF TickStates, Status
  <2>5. f \in TickStates
    BY <2>4 DEF w, b
  <2>6. f.gc = w /\ f.todo = e.todo /\ f.hal = e.hal
    BY <1>3 DEF TickStates, w
  <2> QED
    BY <1>3, <2>1, <2>5, <2>6 DEF Keeps
<1>5. Good(NullMode(c))
  BY <1>1, NullKeeps DEF Keeps
<1>6. Good(d)
  BY <1>4, <1>5
<1>7. OnboardingDown(t) = [d EXCEPT !.status.ONBOARDING = FALSE, !.time = 0]
  BY DEF OnboardingDown, c, e
<1> HIDE DEF d
<1>8. Good([d EXCEPT !.status.ONBOARDING = FALSE, !.time = 0])
  <2>1. [d EXCEPT !.status.ONBOARDING = FALSE] \in TickStates
    BY <1>6 DEF TickStates, Status
  <2>2. 0 \in 0 .. OnboardTime
    BY Lengths
  <2>3. [d EXCEPT !.status.ONBOARDING = FALSE, !.time = 0] \in TickStates
    BY <2>1, <2>2, <1>6 DEF TickStates
  <2> QED
    BY <1>6, <2>3 DEF TickStates
<1> QED
  BY <1>7, <1>8

LEMMA ScanKeeps ==
  ASSUME NEW t \in TickStates
  PROVE  Keeps(t, TestScan(t, FALSE))
<1>1. ASSUME t.count < TestScans PROVE Keeps(t, [t EXCEPT !.count = @ + 1])
  <2>1. t.count + 1 \in 0 .. TestScans
    BY <1>1, Lengths DEF TickStates
  <2> QED
    BY <2>1 DEF Keeps, TickStates
<1>2. Keeps(t, [t EXCEPT !.count = 0, !.status.TEST = FALSE])
  <2>1. 0 \in 0 .. TestScans
    BY Lengths
  <2> QED
    BY <2>1 DEF Keeps, TickStates, Status
<1>3. Keeps(t, NullMode([t EXCEPT !.count = 0, !.status.TEST = FALSE]))
  BY <1>2, NullKeeps, KeepsTwice DEF Keeps
<1> QED
  BY <1>1, <1>3 DEF TestScan

LEMMA ScanFinds ==
  ASSUME NEW t \in TickStates
  PROVE  LET u == TestScan(t, TRUE)
         IN u \in TickStates /\ u.todo = StationSteps /\ u.gc.ssid = TestAp /\ u.gc.key = TestAp
<1> DEFINE c == TestScan(t, FALSE)
           m == [c.gc EXCEPT !.ssid = TestAp, !.key = TestAp]
           d == Save(c, m)
<1>1. c \in TickStates
  BY ScanKeeps DEF Keeps
<1>2. TestScan(t, TRUE) = [d EXCEPT !.scanned = TRUE, !.count = 0, !.todo = StationSteps]
  BY DEF TestScan
<1> HIDE DEF c
<1>3. m \in Config /\ m.ssid = TestAp /\ m.key = TestAp
  BY <1>1 DEF TickStates, Config, Ssids
<1> HIDE DEF m
<1>4. d \in TickStates /\ d.gc = m
  BY <1>1, <1>3, SaveKeeps
<1> HIDE DEF d
<1>5. 0 \in 0 .. TestScans
  BY Lengths
<1> QED
  BY <1>2, <1>3, <1>4, <1>5, EmptyIsTodo DEF TickStates

-----------------------------------------------------------------------------
(* The invariant *)

Typed == TypeOK /\ todo \in Todos

AfterKey == {<<>>, Todo1, Todo2}
AfterSsid == AfterKey \cup {Todo3}
AfterMode == AfterSsid \cup {Todo4, Todo5}

\* What a mode start has written so far is the network that is wanted.
NetInv ==
  /\ todo \in ApTodos => wanted = NoNet
  /\ wanted # NoNet /\ ~hurt =>
       /\ gc.ssid = wanted /\ gc.key = wanted
       /\ todo \in AfterMode => WMODE = "STA"
       /\ todo \in AfterSsid => at.ssid = wanted
       /\ todo \in AfterKey => at.key = wanted
       /\ todo = <<>> => hal.STATION /\ ~hal.AP

LEMMA Lens ==
  /\ Len(Todo1) = 1 /\ Len(Todo2) = 2 /\ Len(Todo3) = 3 /\ Len(Todo4) = 4
  /\ Len(Todo5) = 5 /\ Len(Todo6) = 6 /\ Len(Tail(Todo7)) = 6 /\ Len(<<>>) = 0
  /\ Len(ApTodo3) = 3 /\ Len(ApTodo4) = 4 /\ Len(ApTodo5) = 5
<1>1. Len(Todo6) = 6
  BY DEF Todo6, StationSteps
<1> QED
  BY <1>1, Tails DEF Todo1, Todo2, Todo3, Todo4, Todo5, ApTodo3, ApTodo4, ApTodo5, SoftApSteps

\* Which sequences the steps that are left come from.
LEMMA Places ==
  /\ Todo1 \notin ApTodos /\ Todo2 \notin ApTodos
  /\ Todo3 \notin AfterKey \cup ApTodos
  /\ Todo4 \notin AfterSsid \cup ApTodos
  /\ Todo5 \notin AfterSsid \cup ApTodos
  /\ Todo6 \notin AfterMode \cup ApTodos
  /\ Todo7 \notin AfterMode \cup ApTodos
  /\ <<>> \notin {Todo1, Todo2, Todo3, Todo4, Todo5, Todo6, Todo7} \cup ApTodos
<1>1. Todo7 \notin AfterMode
  BY Heads, Lens DEF AfterMode, AfterSsid, AfterKey
<1>2. /\ \A s \in AfterKey : Len(s) \in 0 .. 2
      /\ \A s \in AfterSsid : Len(s) \in 0 .. 3
      /\ \A s \in AfterMode : Len(s) \in 0 .. 5
  <2>1. \A s \in AfterKey : Len(s) \in 0 .. 2
    BY Lens DEF AfterKey
  <2>2. \A s \in AfterSsid : Len(s) \in 0 .. 3
    BY <2>1, Lens DEF AfterSsid
  <2>3. \A s \in AfterMode : Len(s) \in 0 .. 5
    BY <2>2, Lens DEF AfterMode
  <2> QED
    BY <2>1, <2>2, <2>3
<1>3. /\ Todo3 \notin AfterKey /\ Todo4 \notin AfterSsid /\ Todo5 \notin AfterSsid
      /\ Todo6 \notin AfterMode
  <2>1. 3 \notin 0 .. 2 /\ 4 \notin 0 .. 3 /\ 5 \notin 0 .. 3 /\ 6 \notin 0 .. 5
    OBVIOUS
  <2>2. Len(Todo3) = 3 /\ Len(Todo4) = 4 /\ Len(Todo5) = 5 /\ Len(Todo6) = 6
    BY Lens
  <2> QED
    BY <1>2, <2>1, <2>2, Zenon
<1> QED
  BY <1>1, <1>3, TodosDiffer DEF StationTodos

LEMMA Steps ==
  ASSUME todo \in Todos, todo # <<>>
  PROVE  /\ Head(todo) = "reset" => todo = Todo1
         /\ Head(todo) = "up" => todo = Todo2
         /\ Head(todo) = "key" => todo = Todo3
         /\ Head(todo) = "ssid" => todo = Todo4
         /\ Head(todo) = "down" => todo = Todo5 \/ todo = ApTodo5
         /\ Head(todo) = "stamode" => todo = Todo6
         /\ Head(todo) = "airlink" => todo = Todo7
         /\ Head(todo) = "apmode" => todo = ApTodo3
         /\ Head(todo) = "wap" => todo = ApTodo4
BY Heads DEF Todos, StationTodos, ApTodos

LEMMA TickTyped ==
  ASSUME Typed
  PROVE  T \in TickStates
BY DEF Typed, TypeOK, T, TickStates

LEMMA BecomesTyped ==
  ASSUME Typed, NEW u \in TickStates, Becomes(u), UNCHANGED <<WMODE, at, smartLink>>,
         newStatus' \in Hal, wanted' \in Ssids, hurt' \in BOOLEAN, opened' \in BOOLEAN
  PROVE  Typed'
<1>1. todo' \in Todos
  BY DEF TickStates, Becomes
<1>2. todo' \in Seq({"airlink", "stamode", "ssid", "key", "down", "up", "wap", "apmode", "reset"})
  BY <1>1, TodosAreSteps
<1> QED
  BY <1>1, <1>2 DEF Typed, TypeOK, TickStates, Becomes

LEMMA FinishTyped ==
  ASSUME Typed, NEW t \in TickStates, t.todo = <<>>, NEW new \in Hal, NEW found \in BOOLEAN,
         FinishTick(t, new, found)
  PROVE  /\ Typed' /\ UNCHANGED <<WMODE, at>>
         /\ found => /\ todo' = Todo6 /\ wanted' = TestAp
                     /\ gc'.ssid = TestAp /\ gc'.key = TestAp
         /\ ~found => /\ todo' = <<>> /\ UNCHANGED <<wanted, hurt>>
                      /\ gc'.ssid = t.gc.ssid /\ gc'.key = t.gc.key
                      /\ hal'.AP = t.hal.AP /\ hal'.STATION = t.hal.STATION
<1> DEFINE c == ConnectedEdge(t, new)
           scans == c.status.TEST /\ ~c.scanned
           d == IF scans THEN TestScan(c, found) ELSE c
           u == IF d.todo # <<>> THEN d ELSE CountDown(d)
<1>1. /\ found => scans
      /\ Becomes(u)
      /\ wanted' = IF found THEN TestAp ELSE wanted
      /\ hurt' = (hurt /\ ~found)
      /\ opened' = (opened /\ todo = <<>>)
      /\ UNCHANGED <<WMODE, at, newStatus, smartLink>>
  BY DEF FinishTick
<1>2. Keeps(t, c) /\ c \in TickStates
  BY ConnectedKeeps DEF Keeps
<1> HIDE DEF c
<1>3. d \in TickStates
  BY <1>2, ScanKeeps, ScanFinds DEF Keeps
<1>4. ASSUME found PROVE d.todo = StationSteps /\ d.gc.ssid = TestAp /\ d.gc.key = TestAp
  BY <1>1, <1>2, <1>4, ScanFinds
<1>5. ASSUME ~found PROVE Keeps(t, d)
  BY <1>2, <1>5, ScanKeeps, KeepsTwice
<1> HIDE DEF d
<1>6. Keeps(d, CountDown(d))
  BY <1>3, CountDownKeeps
<1>7. u \in TickStates
  BY <1>3, <1>6 DEF Keeps
<1>8. Typed'
  <2>1. wanted' \in Ssids /\ hurt' \in BOOLEAN /\ opened' \in BOOLEAN /\ newStatus' \in Hal
    BY <1>1 DEF Typed, TypeOK, Ssids
  <2> HIDE DEF u
  <2> QED
    BY <1>1, <1>7, <2>1, BecomesTyped
<1>9. StationSteps # <<>>
  BY Places DEF Todo6
<1>10. ASSUME found PROVE todo' = Todo6 /\ gc'.ssid = TestAp /\ gc'.key = TestAp
  BY <1>1, <1>4, <1>9, <1>10 DEF Becomes, Todo6
<1>11. ASSUME ~found PROVE Keeps(t, u) /\ u.todo = <<>>
  BY <1>5, <1>6, <1>11, KeepsTwice DEF Keeps
<1> HIDE DEF u
<1>12. ASSUME ~found
       PROVE  /\ todo' = <<>> /\ UNCHANGED <<wanted, hurt>>
              /\ gc'.ssid = t.gc.ssid /\ gc'.key = t.gc.key
              /\ hal'.AP = t.hal.AP /\ hal'.STATION = t.hal.STATION
  <2>1. UNCHANGED <<wanted, hurt>>
    BY <1>1, <1>12 DEF Typed, TypeOK
  <2> QED
    BY <1>1, <1>11, <1>12, <2>1 DEF Becomes, Keeps
<1> QED
  BY <1>1, <1>8, <1>10, <1>12

LEMMA BootTyped ==
  ASSUME NEW w \in {"STA", "AP"}, NEW a \in [ssid : Ssids, key : Ssids], NEW sv \in Config,
         Boot(w, a, sv), wanted' \in Ssids, hurt' \in BOOLEAN, opened' \in BOOLEAN
  PROVE  Typed'
<1>1. todo' = <<>> /\ todo' \in Todos
  BY EmptyIsTodo DEF Boot, BootSteps, GetWiFiMode
<1>2. gc' \in Config
  BY DEF Boot, WithStaConfig, Config
<1>3. hal' \in Hal /\ newStatus' \in Hal /\ status' \in Status
  BY DEF Boot, Hal, Status, IsTestAp
<1>4. onboardingTime' \in 0 .. OnboardTime /\ broadcastTime' \in 0 .. SendTimes
      /\ testCount' \in 0 .. TestScans
  BY Lengths DEF Boot
<1>5. scanWifiFlag' \in BOOLEAN
  BY DEF Boot, IsTestAp
<1>6. todo' \in Seq({"airlink", "stamode", "ssid", "key", "down", "up", "wap", "apmode", "reset"})
  BY <1>1, TodosAreSteps
<1>7. WMODE' \in {"STA", "AP"} /\ at' \in [ssid : Ssids, key : Ssids] /\ saved' \in Config
      /\ radioUp' \in BOOLEAN /\ smartLink' \in BOOLEAN
  BY DEF Boot
<1> QED
  BY <1>1, <1>2, <1>3, <1>4, <1>5, <1>6, <1>7 DEF Typed, TypeOK

\* A restart makes a station of what the firmware keeps.
LEMMA BootNet ==
  ASSUME NEW w, NEW a, NEW sv, Boot(w, a, sv),
         wanted' # NoNet /\ ~hurt' => w = "STA" /\ a.ssid = wanted' /\ a.key = wanted',
         sv \in Config
  PROVE  NetInv'
<1>1. todo' = <<>> /\ <<>> \notin ApTodos
  BY Places DEF Boot, BootSteps, GetWiFiMode
<1>2. w = "STA" => gc'.ssid = a.ssid /\ gc'.key = a.key
  BY DEF Boot, WithStaConfig, Config
<1>3. w = "STA" => hal'.STATION /\ ~hal'.AP
  BY DEF Boot
<1> QED
  BY <1>1, <1>2, <1>3 DEF Boot, NetInv

LEMMA FinishNet ==
  ASSUME Typed, NEW t \in TickStates, t.todo = <<>>, NEW new \in Hal, NEW found \in BOOLEAN,
         FinishTick(t, new, found),
         wanted # NoNet /\ ~hurt =>
           /\ t.gc.ssid = wanted /\ t.gc.key = wanted
           /\ WMODE = "STA" /\ at.ssid = wanted /\ at.key = wanted
           /\ t.hal.STATION /\ ~t.hal.AP
  PROVE  Typed' /\ NetInv'
<1>1. Typed'
  BY FinishTyped
<1>2. CASE found
  <2>1. todo' = Todo6 /\ wanted' = TestAp /\ gc'.ssid = TestAp /\ gc'.key = TestAp
    BY <1>2, FinishTyped
  <2>2. /\ Todo6 \notin ApTodos /\ Todo6 \notin AfterMode /\ Todo6 \notin AfterSsid
        /\ Todo6 \notin AfterKey /\ Todo6 # <<>>
    BY Places DEF AfterMode, AfterSsid
  <2> QED
    BY <1>1, <2>1, <2>2 DEF NetInv
<1>3. CASE ~found
  <2>1. /\ todo' = <<>> /\ UNCHANGED <<wanted, hurt, WMODE, at>>
        /\ gc'.ssid = t.gc.ssid /\ gc'.key = t.gc.key
        /\ hal'.AP = t.hal.AP /\ hal'.STATION = t.hal.STATION
    BY <1>3, FinishTyped
  <2>2. <<>> \notin ApTodos
    BY Places
  <2> QED
    BY <1>1, <2>1, <2>2 DEF NetInv
<1> QED
  BY <1>2, <1>3

\* With nothing left to do, NetInv says what NetworkTakesEffect says.
LEMMA AtRest ==
  ASSUME Typed, NetInv, todo = <<>>, wanted # NoNet, ~hurt
  PROVE  /\ gc.ssid = wanted /\ gc.key = wanted /\ WMODE = "STA"
         /\ at.ssid = wanted /\ at.key = wanted /\ hal.STATION /\ ~hal.AP
BY DEF NetInv, AfterMode, AfterSsid, AfterKey

LEMMA NetInit == Init => Typed /\ NetInv
<1> SUFFICES ASSUME Init PROVE Typed /\ NetInv
  OBVIOUS
<1>1. <<>> \in Seq({"airlink", "stamode", "ssid", "key", "down", "up", "wap", "apmode", "reset"})
  OBVIOUS
<1>2. gc \in Config /\ saved \in Config /\ hal \in Hal /\ newStatus \in Hal /\ status \in Status
      /\ at \in [ssid : Ssids, key : Ssids]
  BY DEF Init, NoConfig, Config, Hal, Status, Ssids
<1>3. onboardingTime \in 0 .. OnboardTime /\ broadcastTime \in 0 .. SendTimes
      /\ testCount \in 0 .. TestScans
  BY Lengths DEF Init
<1>4. Typed
  BY <1>1, <1>2, <1>3, EmptyIsTodo DEF Init, Typed, TypeOK, Ssids
<1>5. NetInv
  BY Places DEF Init, NetInv
<1> QED
  BY <1>4, <1>5

-----------------------------------------------------------------------------
(* The tick *)

LEMMA TickStep ==
  ASSUME Typed, NetInv, WiFiEventTick
  PROVE  Typed' /\ NetInv'
<1> DEFINE e == ModeEdges(T, hal)
<1>1. T \in TickStates /\ hal \in Hal /\ todo = <<>> /\ T.todo = <<>>
  BY TickTyped DEF Typed, TypeOK, WiFiEventTick, T
<1>2. Keeps(T, e) /\ e \in TickStates
  BY <1>1, EdgesKeep DEF Keeps
<1>3. /\ e.todo = <<>> /\ e.gc.ssid = gc.ssid /\ e.gc.key = gc.key
      /\ e.hal.AP = hal.AP /\ e.hal.STATION = hal.STATION
  BY <1>1, <1>2 DEF Keeps, T
<1> HIDE DEF e
<1>4. CASE TickStartsAp
  <2>1. OpensHotspot(e, hal) \in TickStates /\ OpensHotspot(e, hal).todo = SoftApSteps
    BY <1>1, <1>2, <1>4, OpensStarts DEF TickStartsAp
  <2>2. /\ Becomes(OpensHotspot(e, hal)) /\ newStatus' = hal /\ wanted' = NoNet
        /\ opened' = TRUE /\ UNCHANGED <<WMODE, at, smartLink, hurt>>
    BY <1>4 DEF TickStartsAp, e
  <2>3. wanted' \in Ssids /\ hurt' \in BOOLEAN /\ opened' \in BOOLEAN /\ newStatus' \in Hal
    BY <1>1, <2>2 DEF Typed, TypeOK, Ssids
  <2>4. Typed'
    BY <2>1, <2>2, <2>3, BecomesTyped
  <2> QED
    BY <2>2, <2>4 DEF NetInv
<1>5. ASSUME NEW found \in BOOLEAN, TickQuiet(found) PROVE Typed' /\ NetInv'
  <2>1. FinishTick(e, hal, found)
    BY <1>5 DEF TickQuiet, e
  <2> QED
    BY <1>1, <1>2, <1>3, <2>1, AtRest, FinishNet
<1>6. ASSUME NEW found \in BOOLEAN, TickCloses(found) PROVE Typed' /\ NetInv'
  <2> DEFINE u == OnboardingDown(e)
  <2>1. FinishTick(u, hal, found)
    BY <1>6 DEF TickCloses, e
  <2>2. at \in [ssid : Ssids, key : Ssids]
    BY DEF Typed, TypeOK
  <2>3. /\ u \in TickStates /\ u.todo = <<>>
        /\ u.hal.AP = hal.AP /\ u.hal.STATION = hal.STATION
        /\ \/ u.gc.ssid = gc.ssid /\ u.gc.key = gc.key
           \/ WMODE = "STA" /\ u.gc.ssid = at.ssid /\ u.gc.key = at.key
    BY <1>2, <1>3, <2>2, DownKeeps
  <2> HIDE DEF u
  <2> QED
    BY <1>1, <2>1, <2>3, AtRest, FinishNet
<1>7. ASSUME NEW found \in BOOLEAN, TickOpens(found) PROVE Typed' /\ NetInv'
  <2> DEFINE o == OpensHotspot(e, hal)
             u == OnboardingUp(o)
  <2>1. FinishTick(u, hal, found)
    BY <1>7 DEF TickOpens, e
  <2>2. Keeps(e, o) /\ o \in TickStates
    BY <1>1, <1>2, <1>7, OpensKeeps DEF Keeps, TickOpens
  <2>3. Keeps(o, u)
    BY <2>2, UpKeeps
  <2>4. Keeps(e, u)
    BY <2>2, <2>3, KeepsTwice
  <2> HIDE DEF u
  <2>5. /\ u \in TickStates /\ u.todo = <<>> /\ u.gc.ssid = gc.ssid /\ u.gc.key = gc.key
        /\ u.hal.AP = hal.AP /\ u.hal.STATION = hal.STATION
    BY <1>3, <2>4 DEF Keeps
  <2> QED
    BY <1>1, <2>1, <2>5, AtRest, FinishNet
<1> QED
  BY <1>4, <1>5, <1>6, <1>7 DEF WiFiEventTick

-----------------------------------------------------------------------------
(* The steps of a mode start *)

TodoSeqs == Seq({"airlink", "stamode", "ssid", "key", "down", "up", "wap", "apmode", "reset"})

LEMMA StationTyped ==
  ASSUME Typed, NetInv, StationStep
  PROVE  Typed' /\ NetInv'
<1>1. PICK ok \in BOOLEAN :
        /\ todo # <<>> /\ Head(todo) \in {"stamode", "ssid", "key"}
        /\ WMODE' = IF ok /\ Head(todo) = "stamode" THEN "STA" ELSE WMODE
        /\ at' = [ssid |-> IF ok /\ Head(todo) = "ssid" THEN gc.ssid ELSE at.ssid,
                  key |-> IF ok /\ Head(todo) = "key" THEN gc.key ELSE at.key]
        /\ todo' = Tail(todo) /\ hurt' = (hurt \/ ~ok)
        /\ UNCHANGED <<saved, gc, hal, status, onboardingTime, broadcastTime, scanWifiFlag,
                       testCount, radioUp, newStatus, smartLink, wanted, opened>>
  BY DEF StationStep, Advance, Ran
<1>2. \/ Head(todo) = "stamode" /\ todo = Todo6 /\ todo' = Todo5
      \/ Head(todo) = "ssid" /\ todo = Todo4 /\ todo' = Todo3
      \/ Head(todo) = "key" /\ todo = Todo3 /\ todo' = Todo2
  BY <1>1, Steps, Tails DEF Typed
<1>3. todo' \in Todos /\ todo' \in TodoSeqs /\ todo' \notin ApTodos /\ todo' # <<>>
  BY <1>2, Places, TodosAreSteps DEF Todos, StationTodos, TodoSeqs
<1>4. at' \in [ssid : Ssids, key : Ssids]
  BY <1>1 DEF Typed, TypeOK, Config
<1>5. WMODE' \in {"STA", "AP"} /\ hurt' \in BOOLEAN
  BY <1>1 DEF Typed, TypeOK
<1>6. Typed'
  BY <1>1, <1>3, <1>4, <1>5 DEF Typed, TypeOK, TodoSeqs
<1>7. ASSUME wanted # NoNet, ~hurt'
      PROVE  /\ gc.ssid = wanted /\ gc.key = wanted /\ ok
             /\ todo \in AfterMode => WMODE = "STA"
             /\ todo \in AfterSsid => at.ssid = wanted
             /\ todo \in AfterKey => at.key = wanted
  BY <1>1, <1>7 DEF NetInv
<1>8. CASE Head(todo) = "stamode" /\ todo = Todo6 /\ todo' = Todo5
  <2>1. todo' \notin AfterSsid /\ todo' \notin AfterKey
    BY <1>8, Places DEF AfterSsid
  <2> QED
    BY <1>1, <1>3, <1>6, <1>7, <1>8, <2>1 DEF NetInv
<1>9. CASE Head(todo) = "ssid" /\ todo = Todo4 /\ todo' = Todo3
  <2>1. todo' \notin AfterKey /\ todo \in AfterMode
    BY <1>9, Places DEF AfterMode
  <2>2. ASSUME wanted # NoNet, ~hurt' PROVE WMODE' = "STA" /\ at'.ssid = wanted
    BY <1>1, <1>7, <1>9, <2>1, <2>2
  <2> QED
    BY <1>1, <1>3, <1>6, <1>7, <2>1, <2>2 DEF NetInv
<1>10. CASE Head(todo) = "key" /\ todo = Todo3 /\ todo' = Todo2
  <2>1. todo \in AfterMode /\ todo \in AfterSsid
    BY <1>10 DEF AfterMode, AfterSsid
  <2>2. ASSUME wanted # NoNet, ~hurt'
        PROVE  WMODE' = "STA" /\ at'.ssid = wanted /\ at'.key = wanted
    BY <1>1, <1>7, <1>10, <2>1, <2>2
  <2> QED
    BY <1>1, <1>3, <1>6, <1>7, <2>2 DEF NetInv
<1> QED
  BY <1>2, <1>8, <1>9, <1>10

LEMMA RadioTyped ==
  ASSUME Typed, NetInv, RadioStep
  PROVE  Typed' /\ NetInv'
<1>1. /\ todo # <<>> /\ Head(todo) \in {"down", "up"} /\ todo' = Tail(todo)
      /\ radioUp' \in BOOLEAN
      /\ UNCHANGED <<WMODE, at, saved, gc, hal, status, onboardingTime, broadcastTime, scanWifiFlag,
                     testCount, newStatus, smartLink, wanted, hurt, opened>>
  BY DEF RadioStep, Advance, persistent, history
<1>2. \/ todo = Todo5 /\ todo' = Todo4
      \/ todo = Todo2 /\ todo' = Todo1
      \/ todo = ApTodo5 /\ todo' = ApTodo4
  BY <1>1, Steps, Tails DEF Typed
<1>3. todo' \in Todos /\ todo' \in TodoSeqs
  BY <1>2, TodosAreSteps DEF Todos, StationTodos, ApTodos, TodoSeqs
<1>4. Typed'
  BY <1>1, <1>3 DEF Typed, TypeOK, TodoSeqs
<1>5. CASE todo = Todo5 /\ todo' = Todo4
  <2>1. /\ todo' \notin AfterSsid /\ todo' \notin AfterKey /\ todo' # <<>> /\ todo \in AfterMode
        /\ todo' \notin ApTodos
    BY <1>5, Places DEF AfterSsid, AfterMode
  <2> QED
    BY <1>1, <1>4, <2>1 DEF NetInv
<1>6. CASE todo = Todo2 /\ todo' = Todo1
  <2>1. /\ todo \in AfterSsid /\ todo \in AfterKey /\ todo' # <<>> /\ todo \in AfterMode
        /\ todo' \notin ApTodos
    BY <1>6, Places DEF AfterSsid, AfterKey, AfterMode
  <2> QED
    BY <1>1, <1>4, <2>1 DEF NetInv
<1>7. CASE todo = ApTodo5 /\ todo' = ApTodo4
  BY <1>1, <1>4, <1>7 DEF NetInv, ApTodos
<1> QED
  BY <1>2, <1>5, <1>6, <1>7

LEMMA SoftApTyped ==
  ASSUME Typed, NetInv, SoftApStep
  PROVE  Typed' /\ NetInv'
<1>1. /\ todo # <<>> /\ Head(todo) \in {"wap", "apmode"} /\ todo' = Tail(todo)
      /\ WMODE' = IF Head(todo) = "apmode" THEN "AP" ELSE WMODE
      /\ UNCHANGED <<at, saved, gc, hal, status, onboardingTime, broadcastTime, scanWifiFlag,
                     testCount, radioUp, newStatus, smartLink, wanted, hurt, opened>>
  BY DEF SoftApStep, Advance, history
<1>2. todo \in ApTodos /\ (todo' = Todo2 \/ todo' = ApTodo3)
  BY <1>1, Steps, Tails DEF Typed, ApTodos
<1>3. todo' \in Todos /\ todo' \in TodoSeqs
  BY <1>2, TodosAreSteps DEF Todos, StationTodos, ApTodos, TodoSeqs
<1>4. Typed'
  BY <1>1, <1>3 DEF Typed, TypeOK, TodoSeqs
<1> QED
  BY <1>1, <1>2, <1>4 DEF NetInv

LEMMA SoftApFailsTyped ==
  ASSUME Typed, NetInv, SoftApFails
  PROVE  Typed' /\ NetInv'
<1> DEFINE t == [T EXCEPT !.todo = <<>>]
           u == OnboardingUp(t)
<1>1. PICK found \in BOOLEAN : FinishTick(u, newStatus, found)
  BY DEF SoftApFails
<1>2. todo \in ApTodos
  BY Steps DEF SoftApFails, Typed, ApTodos
<1>3. t \in TickStates /\ t.todo = <<>>
  BY TickTyped, EmptyIsTodo DEF TickStates
<1> HIDE DEF t
<1>4. u \in TickStates /\ u.todo = <<>>
  BY <1>3, UpKeeps DEF Keeps
<1> HIDE DEF u
<1>5. wanted = NoNet /\ newStatus \in Hal
  BY <1>2 DEF NetInv, Typed, TypeOK
<1> QED
  BY <1>1, <1>4, <1>5, FinishNet

LEMMA AirlinkTyped ==
  ASSUME Typed, NetInv, AirlinkStep
  PROVE  Typed' /\ NetInv'
<1>1. /\ todo # <<>> /\ Head(todo) = "airlink" /\ todo' = Tail(todo)
      /\ gc' = [gc EXCEPT !.CONNECTED = TRUE, !.CONFIG_AP = FALSE] /\ saved' = gc'
      /\ broadcastTime' = SendTimes
      /\ UNCHANGED <<WMODE, at, hal, status, onboardingTime, scanWifiFlag, testCount, radioUp,
                     newStatus, smartLink, wanted, hurt, opened>>
  BY DEF AirlinkStep, Advance, history
<1>2. todo = Todo7 /\ todo' = Todo6
  BY <1>1, Steps, Tails DEF Typed
<1>3. todo' \in Todos /\ todo' \in TodoSeqs
  BY <1>2, TodosAreSteps DEF Todos, StationTodos, TodoSeqs
<1>4. gc' \in Config /\ saved' \in Config /\ gc'.ssid = gc.ssid /\ gc'.key = gc.key
  BY <1>1 DEF Typed, TypeOK, Config
<1>5. broadcastTime' \in 0 .. SendTimes
  BY <1>1, Lengths
<1>6. Typed'
  BY <1>1, <1>3, <1>4, <1>5 DEF Typed, TypeOK, TodoSeqs
<1>7. /\ todo' \notin ApTodos /\ todo' \notin AfterMode /\ todo' \notin AfterSsid
      /\ todo' \notin AfterKey /\ todo' # <<>>
  BY <1>2, Places DEF AfterMode, AfterSsid
<1> QED
  BY <1>1, <1>4, <1>6, <1>7 DEF NetInv

LEMMA ResetTyped ==
  ASSUME Typed, NetInv, ResetStep
  PROVE  Typed' /\ NetInv'
<1>1. Boot(WMODE, at, saved) /\ UNCHANGED <<wanted, hurt, opened>> /\ todo = Todo1
  BY Steps DEF ResetStep, history, Typed
<1>2. todo \in AfterMode /\ todo \in AfterSsid /\ todo \in AfterKey
  BY <1>1 DEF AfterMode, AfterSsid, AfterKey
<1>3. WMODE \in {"STA", "AP"} /\ at \in [ssid : Ssids, key : Ssids] /\ saved \in Config
      /\ wanted' \in Ssids /\ hurt' \in BOOLEAN /\ opened' \in BOOLEAN
  BY <1>1 DEF Typed, TypeOK
<1>4. wanted' # NoNet /\ ~hurt' => WMODE = "STA" /\ at.ssid = wanted' /\ at.key = wanted'
  BY <1>1, <1>2 DEF NetInv
<1> QED
  BY <1>1, <1>3, <1>4, BootTyped, BootNet

LEMMA ModeStepKeeps ==
  ASSUME Typed, NetInv, ModeStep
  PROVE  Typed' /\ NetInv'
BY StationTyped, RadioTyped, SoftApTyped, SoftApFailsTyped, AirlinkTyped, ResetTyped DEF ModeStep

-----------------------------------------------------------------------------
(* The announcement, the MCU, the apps and the world *)

LEMMA LanTickKeeps ==
  ASSUME Typed, NetInv, LanTick
  PROVE  Typed' /\ NetInv'
<1>1. broadcastTime' \in 0 .. SendTimes
  BY Lengths DEF LanTick, Typed, TypeOK
<1>2. gc' \in Config /\ saved' \in Config /\ gc'.ssid = gc.ssid /\ gc'.key = gc.key
  <2>1. gc \in Config /\ saved \in Config
    BY DEF Typed, TypeOK
  <2>2. CASE broadcastTime = 1
    <3>1. gc' = [gc EXCEPT !.CONFIG = FALSE] /\ saved' = gc'
      BY <2>2 DEF LanTick
    <3> QED
      BY <2>1, <3>1, MarksKeep
  <2>3. CASE broadcastTime # 1
    BY <2>1, <2>3 DEF LanTick
  <2> QED
    BY <2>2, <2>3
<1>3. UNCHANGED <<WMODE, at, hal, status, onboardingTime, scanWifiFlag, testCount, radioUp, todo,
                  newStatus, smartLink, wanted, hurt, opened>>
  BY DEF LanTick, history
<1>4. Typed'
  BY <1>1, <1>2, <1>3 DEF Typed, TypeOK
<1> QED
  BY <1>2, <1>3, <1>4 DEF NetInv

\* From rest to a mode start that joins n, or to a step that asks for nothing.
LEMMA Asked ==
  /\ \A s \in {Todo6, Todo7} : /\ s \in Todos /\ s \in TodoSeqs /\ s # <<>>
                              /\ s \notin ApTodos \cup AfterMode \cup AfterSsid \cup AfterKey
  /\ Todo1 \in Todos /\ Todo1 \in TodoSeqs /\ Todo1 \notin ApTodos
BY Places, TodosAreSteps DEF Todos, StationTodos, TodoSeqs, AfterMode, AfterSsid

LEMMA McuKeeps ==
  ASSUME Typed, NetInv, Mcu
  PROVE  Typed' /\ NetInv'
<1>1. CASE ConfigAp
  <2>1. hal' \in Hal /\ hal'.AP = hal.AP /\ hal'.STATION = hal.STATION
    BY <1>1 DEF ConfigAp, Typed, TypeOK, Hal
  <2>2. UNCHANGED <<WMODE, at, saved, gc, status, onboardingTime, broadcastTime, scanWifiFlag,
                    testCount, radioUp, todo, newStatus, smartLink, wanted, hurt, opened>>
    BY <1>1 DEF ConfigAp, persistent, history
  <2> QED
    BY <2>1, <2>2 DEF Typed, TypeOK, NetInv
<1>2. CASE ConfigAirlink
  <2>1. gc' \in Config /\ saved' \in Config /\ gc'.ssid = gc.ssid /\ gc'.key = gc.key
    BY <1>2 DEF ConfigAirlink, Typed, TypeOK, Config
  <2>2. todo' = Todo7 /\ smartLink' \in BOOLEAN
        /\ UNCHANGED <<WMODE, at, hal, status, onboardingTime, broadcastTime, scanWifiFlag,
                       testCount, radioUp, newStatus, wanted, hurt, opened>>
    BY <1>2 DEF ConfigAirlink, Todo7, history
  <2>3. Typed'
    BY <2>1, <2>2, Asked DEF Typed, TypeOK, TodoSeqs
  <2> QED
    BY <2>1, <2>2, <2>3, Asked DEF NetInv
<1>3. CASE ResetWifi
  <2>1. gc' \in Config /\ saved' \in Config
    BY <1>3 DEF ResetWifi, NoConfig, Typed, TypeOK, Config, Ssids
  <2>2. todo' = Todo1 /\ wanted' = NoNet /\ opened' = FALSE
        /\ UNCHANGED <<WMODE, at, hal, status, onboardingTime, broadcastTime, scanWifiFlag,
                       testCount, radioUp, newStatus, smartLink, hurt>>
    BY <1>3 DEF ResetWifi, Todo1
  <2>3. Typed'
    BY <2>1, <2>2, Asked DEF Typed, TypeOK, TodoSeqs, Ssids
  <2> QED
    BY <2>2, <2>3, Asked DEF NetInv
<1>4. CASE EnterTest
  <2>1. scanWifiFlag' \in BOOLEAN /\ status' \in Status
    BY <1>4 DEF EnterTest, Typed, TypeOK, Status
  <2>2. UNCHANGED <<WMODE, at, saved, gc, hal, onboardingTime, broadcastTime, testCount, radioUp,
                    todo, newStatus, smartLink, wanted, hurt, opened>>
    BY <1>4 DEF EnterTest, persistent, history
  <2> QED
    BY <2>1, <2>2 DEF Typed, TypeOK, NetInv
<1>5. CASE Restart
  <2>1. Boot(WMODE, at, saved) /\ todo = <<>> /\ opened' = FALSE /\ UNCHANGED <<wanted, hurt>>
    BY <1>5 DEF Restart
  <2>2. WMODE \in {"STA", "AP"} /\ at \in [ssid : Ssids, key : Ssids] /\ saved \in Config
        /\ wanted' \in Ssids /\ hurt' \in BOOLEAN /\ opened' \in BOOLEAN
    BY <2>1 DEF Typed, TypeOK
  <2>3. wanted' # NoNet /\ ~hurt' => WMODE = "STA" /\ at.ssid = wanted' /\ at.key = wanted'
    BY <2>1, AtRest
  <2> QED
    BY <2>1, <2>2, <2>3, BootTyped, BootNet
<1> QED
  BY <1>1, <1>2, <1>3, <1>4, <1>5 DEF Mcu

LEMMA AppKeeps ==
  ASSUME Typed, NetInv, App
  PROVE  Typed' /\ NetInv'
<1>1. CASE ExitTest
  <2> DEFINE t == [T EXCEPT !.scanned = FALSE, !.status.TEST = FALSE]
             u == NullMode(t)
  <2>1. Keeps(T, t)
    BY TickTyped DEF TickStates, Keeps, Status
  <2>2. Keeps(T, u)
    BY <2>1, NullKeeps, KeepsTwice DEF Keeps
  <2>3. Becomes(u) /\ UNCHANGED <<WMODE, at, newStatus, smartLink, wanted, hurt, opened>>
    BY <1>1 DEF ExitTest, history
  <2> HIDE DEF u
  <2>4. Typed'
    BY <2>2, <2>3, BecomesTyped DEF Keeps, Typed, TypeOK
  <2>5. /\ todo' = todo /\ gc'.ssid = gc.ssid /\ gc'.key = gc.key
        /\ hal'.AP = hal.AP /\ hal'.STATION = hal.STATION
    BY <2>2, <2>3 DEF Becomes, Keeps, T
  <2> QED
    BY <2>3, <2>4, <2>5 DEF NetInv
<1>2. ASSUME NEW n \in Nets, Onboarding(n) \/ WebConfig(n) PROVE Typed' /\ NetInv'
  <2>1. gc' \in Config /\ saved' \in Config /\ gc'.ssid = n /\ gc'.key = n
    <3>1. gc' = Given(n) /\ saved' = gc'
      BY <1>2 DEF Onboarding, WebConfig
    <3>2. gc \in Config /\ n \in Ssids
      BY DEF Typed, TypeOK, Ssids
    <3>3. Given(n) \in Config /\ Given(n).ssid = n /\ Given(n).key = n
      BY <3>2 DEF Given, Config
    <3> QED
      BY <3>1, <3>3
  <2>2. hal' \in Hal
    BY <1>2 DEF Onboarding, WebConfig, Typed, TypeOK, Hal
  <2>3. broadcastTime' \in 0 .. SendTimes
    BY <1>2, Lengths DEF Onboarding, WebConfig, Typed, TypeOK
  <2>4. /\ todo' = Todo6 /\ wanted' = n /\ hurt' = FALSE /\ opened' = FALSE /\ radioUp' \in BOOLEAN
        /\ UNCHANGED <<WMODE, at, status, onboardingTime, scanWifiFlag, testCount, newStatus, smartLink>>
    BY <1>2 DEF Onboarding, WebConfig, Joins, Todo6, Typed, TypeOK
  <2>5. Typed'
    BY <2>1, <2>2, <2>3, <2>4, Asked DEF Typed, TypeOK, TodoSeqs, Ssids
  <2> QED
    BY <2>1, <2>4, <2>5, Asked DEF NetInv
<1> QED
  BY <1>1, <1>2 DEF App

LEMMA WorldKeeps ==
  ASSUME Typed, NetInv, World
  PROVE  Typed' /\ NetInv'
<1>1. CASE WifiEvent
  <2>1. hal' \in Hal /\ hal'.AP = hal.AP /\ hal'.STATION = TRUE
    BY <1>1 DEF WifiEvent, Typed, TypeOK, Hal
  <2>2. UNCHANGED <<WMODE, at, saved, gc, status, onboardingTime, broadcastTime, scanWifiFlag,
                    testCount, radioUp, todo, newStatus, smartLink, wanted, hurt, opened>>
    BY <1>1 DEF WifiEvent, persistent, history
  <2> QED
    BY <2>1, <2>2 DEF Typed, TypeOK, NetInv
<1>2. CASE PowerCut
  <2>1. Boot(WMODE, at, saved) /\ hurt' = (hurt \/ todo # <<>>) /\ opened' = FALSE
        /\ UNCHANGED wanted
    BY <1>2 DEF PowerCut
  <2>2. WMODE \in {"STA", "AP"} /\ at \in [ssid : Ssids, key : Ssids] /\ saved \in Config
        /\ wanted' \in Ssids /\ hurt' \in BOOLEAN /\ opened' \in BOOLEAN
    BY <2>1 DEF Typed, TypeOK
  <2>3. wanted' # NoNet /\ ~hurt' => WMODE = "STA" /\ at.ssid = wanted' /\ at.key = wanted'
    BY <2>1, AtRest
  <2> QED
    BY <2>1, <2>2, <2>3, BootTyped, BootNet
<1>3. ASSUME NEW n \in Nets, SmartLinkDone(n) PROVE Typed' /\ NetInv'
  <2> DEFINE a == [ssid |-> n, key |-> n]
  <2>1. Boot("STA", a, saved) /\ wanted' = n /\ hurt' = FALSE /\ opened' = FALSE
    BY <1>3 DEF SmartLinkDone
  <2>2. "STA" \in {"STA", "AP"} /\ a \in [ssid : Ssids, key : Ssids] /\ saved \in Config
        /\ wanted' \in Ssids /\ hurt' \in BOOLEAN /\ opened' \in BOOLEAN
    BY <2>1 DEF Typed, TypeOK, Ssids
  <2>3. a.ssid = wanted' /\ a.key = wanted'
    BY <2>1
  <2> HIDE DEF a
  <2> QED
    BY <2>1, <2>2, <2>3, BootTyped, BootNet
<1> QED
  BY <1>1, <1>2, <1>3 DEF World

LEMMA NetStep == Typed /\ NetInv /\ [Next]_vars => Typed' /\ NetInv'
<1> SUFFICES ASSUME Typed, NetInv, [Next]_vars PROVE Typed' /\ NetInv'
  OBVIOUS
<1>1. CASE Next
  BY <1>1, TickStep, LanTickKeeps, ModeStepKeeps, McuKeeps, AppKeeps, WorldKeeps DEF Next
<1>2. CASE UNCHANGED vars
  BY <1>2 DEF vars, persistent, history, Typed, TypeOK, NetInv
<1> QED
  BY <1>1, <1>2

-----------------------------------------------------------------------------
(* The state is type correct: the sequences of commands are only ever those   *)
(* of StationCustomModeStart, DRVWiFi_SoftAPModeStart and GAgent_Config, and  *)
(* the counters of the window, the announcement and the test stay in range.   *)
THEOREM ModeTypes == Spec => []TypeOK
<1>1. Typed => TypeOK
  BY DEF Typed
<1> QED
  BY NetInit, NetStep, <1>1, PTL DEF Spec

\* However commands of the MCU, apps, SmartLink, the window's end and restarts
\* come between, a network the module was told to join is the one it is a
\* station of; but for a mode start in which power was lost or a command failed.
THEOREM NetworkHolds == Spec => []NetworkTakesEffect
<1>1. Typed /\ NetInv => NetworkTakesEffect
  <2> SUFFICES ASSUME Typed, NetInv, todo = <<>>, wanted # NoNet, ~hurt
               PROVE  WMODE = "STA" /\ at = [ssid |-> wanted, key |-> wanted] /\ hal.STATION /\ ~hal.AP
    BY DEF NetworkTakesEffect
  <2>1. at = [ssid |-> at.ssid, key |-> at.key]
    BY DEF Typed, TypeOK
  <2> QED
    BY <2>1, AtRest
<1> QED
  BY NetInit, NetStep, <1>1, PTL DEF Spec
=============================================================================
