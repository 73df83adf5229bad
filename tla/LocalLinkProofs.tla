--------------------------- MODULE LocalLinkProofs --------------------------
(* Proofs about LocalLink, for any apps, any number of sends and any nesting *)
(* of calls.                                                                 *)
EXTENDS LocalLink, SequenceTheorems, WellFoundedInduction, TLAPS

USE AppAssumption, BoundAssumption, KindAssumption

-----------------------------------------------------------------------------
(* Induction, one set at a time *)

LEMMA Least ==
  ASSUME NEW T \in SUBSET Nat, T # {}
  PROVE  \E n \in T : \A m \in T : ~(m < n)
<1>1. PICK n \in T : \A m \in T : ~(<<m, n>> \in OpToRel(<, Nat))
  BY NatLessThanWellFounded, WFMin
<1>2. ASSUME NEW m \in T, m < n PROVE FALSE
  <2>1. <<m, n>> \in OpToRel(<, Nat) BY <1>2 DEF OpToRel
  <2>q. QED BY <2>1, <1>1
<1>q. QED BY <1>2

LEMMA Induction ==
  ASSUME NEW S \in SUBSET Nat, 0 \in S, \A n \in S : n + 1 \in S
  PROVE  S = Nat
<1> SUFFICES ASSUME Nat \ S # {} PROVE FALSE OBVIOUS
<1>1. PICK n \in Nat \ S : \A m \in Nat \ S : ~(m < n) BY Least
<1>2. n # 0 /\ n - 1 \in Nat /\ n - 1 < n OBVIOUS
<1>3. n - 1 \in S BY <1>1, <1>2
<1>4. (n - 1) + 1 \in S BY <1>3
<1>q. QED BY <1>4, <1>2

-----------------------------------------------------------------------------
(* The line without the answers to an old request *)

\* Packets that are no answer to a request numbered n.
Others(n) == {p \in Packets : ~(p.kind = "ack" /\ p.frame.sn = n)}

\* g is what Recent has kept of the first k packets of l.
KeptUpTo(g, n, l, k) ==
  g = [i \in 0 .. k |->
         IF i = 0 THEN <<>>
         ELSE IF l[i].kind = "ack" /\ l[i].frame.sn = n THEN g[i - 1]
         ELSE Append(g[i - 1], l[i])]

LEMMA KeptExists ==
  ASSUME NEW n, NEW l \in Seq(Packets), NEW k \in Nat
  PROVE  \E g : KeptUpTo(g, n, l, k)
<1> DEFINE S == {j \in Nat : \E g : KeptUpTo(g, n, l, j)}
<1>1. 0 \in S
  <2>1. KeptUpTo([i \in 0 .. 0 |-> <<>>], n, l, 0) BY DEF KeptUpTo
  <2>q. QED BY <2>1
<1>2. ASSUME NEW j \in S PROVE j + 1 \in S
  <2>1. PICK g : KeptUpTo(g, n, l, j) OBVIOUS
  <2> DEFINE more == IF l[j + 1].kind = "ack" /\ l[j + 1].frame.sn = n THEN g[j]
                     ELSE Append(g[j], l[j + 1])
             h == [i \in 0 .. j + 1 |-> IF i <= j THEN g[i] ELSE more]
  <2>2. j \in Nat OBVIOUS
  <2>3. \A i \in 0 .. j : h[i] = g[i] BY <2>2
  <2>4. h[j + 1] = more BY <2>2
  <2>5. ASSUME NEW i \in 0 .. j + 1
        PROVE  h[i] = IF i = 0 THEN <<>>
                      ELSE IF l[i].kind = "ack" /\ l[i].frame.sn = n THEN h[i - 1]
                      ELSE Append(h[i - 1], l[i])
    <3>1. CASE i <= j
      <4>1. i \in 0 .. j BY <2>2, <3>1
      <4>2. g[i] = IF i = 0 THEN <<>>
                   ELSE IF l[i].kind = "ack" /\ l[i].frame.sn = n THEN g[i - 1]
                   ELSE Append(g[i - 1], l[i])
        BY <2>1, <4>1 DEF KeptUpTo
      <4>3. i # 0 => i - 1 \in 0 .. j BY <2>2, <4>1
      <4> HIDE DEF h
      <4>q. QED BY <4>1, <4>2, <4>3, <2>3
    <3>2. CASE i = j + 1
      <4>1. i # 0 /\ i - 1 = j /\ j \in 0 .. j BY <2>2, <3>2
      <4> HIDE DEF h
      <4>q. QED BY <4>1, <2>3, <2>4, <3>2
    <3>q. QED BY <2>2, <3>1, <3>2
  <2>6. h = [i \in 0 .. j + 1 |-> h[i]] OBVIOUS
  <2> HIDE DEF h
  <2>7. KeptUpTo(h, n, l, j + 1) BY <2>5, <2>6 DEF KeptUpTo
  <2>q. QED BY <2>2, <2>7
<1>3. S = Nat
  <2> HIDE DEF S
  <2>1. S \in SUBSET Nat BY DEF S
  <2>q. QED BY <1>1, <1>2, <2>1, Induction
<1>q. QED BY <1>3

\* What stays on the line are packets, none of them an answer to a request
\* with the number just given out.
LEMMA RecentDropsAnswers ==
  ASSUME NEW n, NEW l \in Seq(Packets)
  PROVE  Recent(n, l) \in Seq(Others(n))
<1> DEFINE g == CHOOSE f : KeptUpTo(f, n, l, Len(l))
           S == {j \in Nat : j <= Len(l) => g[j] \in Seq(Others(n))}
<1>0. Len(l) \in Nat BY LenProperties
<1>1. Recent(n, l) = g[Len(l)] BY DEF Recent, KeptUpTo
<1>2. KeptUpTo(g, n, l, Len(l)) BY <1>0, KeptExists
<1> HIDE DEF g
<1>3. 0 \in S
  <2>1. g[0] = <<>> BY <1>0, <1>2 DEF KeptUpTo
  <2>2. <<>> \in Seq(Others(n)) BY EmptySeq
  <2>q. QED BY <2>1, <2>2
<1>4. ASSUME NEW j \in S PROVE j + 1 \in S
  <2> SUFFICES ASSUME j + 1 <= Len(l) PROVE g[j + 1] \in Seq(Others(n)) OBVIOUS
  <2>1. j \in Nat /\ j + 1 \in 0 .. Len(l) /\ j + 1 \in 1 .. Len(l) /\ j + 1 # 0 /\ (j + 1) - 1 = j
    BY <1>0
  <2>2. g[j + 1] = IF l[j + 1].kind = "ack" /\ l[j + 1].frame.sn = n THEN g[j]
                   ELSE Append(g[j], l[j + 1])
    BY <1>2, <2>1 DEF KeptUpTo
  <2>3. g[j] \in Seq(Others(n)) BY <1>0, <2>1
  <2>4. l[j + 1] \in Packets BY <2>1, ElementOfSeq
  <2>5. ~(l[j + 1].kind = "ack" /\ l[j + 1].frame.sn = n) => l[j + 1] \in Others(n)
    BY <2>4 DEF Others
  <2>6. \A x \in Others(n) : Append(g[j], x) \in Seq(Others(n)) BY <2>3, AppendProperties
  <2>q. QED BY <2>2, <2>3, <2>5, <2>6
<1>5. S = Nat
  <2> HIDE DEF S
  <2>1. S \in SUBSET Nat BY DEF S
  <2>q. QED BY <1>3, <1>4, <2>1, Induction
<1>q. QED BY <1>0, <1>1, <1>5

-----------------------------------------------------------------------------
(* What the operations of the link do to the line and to the stack *)

\* Every answer on line l to the number of request t is an answer to t.
Answers(l, t) ==
  \A j \in 1 .. Len(l) : l[j].kind = "ack" /\ l[j].frame.sn = t.sn => l[j].frame = t

LEMMA Transmitted ==
  ASSUME NEW t, NEW f \in Frames \cup {NoFrame}, f \in {NoFrame, t},
         NEW l \in Seq(Packets), Answers(l, t), NEW m \in Transmit(f, l)
  PROVE  m \in Seq(Packets) /\ Answers(m, t)
<1>1. CASE m = l BY <1>1
<1>2. CASE m # l
  <2>1. Acknowledged(f) /\ m = Append(l, Ack(f)) BY <1>2 DEF Transmit
  <2>2. f = t /\ f \in Frames BY <2>1 DEF Acknowledged, NoFrame
  <2>3. Ack(f) \in Packets /\ Ack(f).frame = t BY <2>2 DEF Ack, Packets
  <2>4. /\ m \in Seq(Packets) /\ Len(m) = Len(l) + 1 /\ m[Len(l) + 1] = Ack(f)
        /\ \A i \in 1 .. Len(l) : m[i] = l[i]
    BY <2>1, <2>3, AppendProperties
  <2>5. Len(l) \in Nat BY LenProperties
  <2>6. ASSUME NEW j \in 1 .. Len(m), m[j].kind = "ack", m[j].frame.sn = t.sn
        PROVE  m[j].frame = t
    <3>1. CASE j \in 1 .. Len(l) BY <2>4, <2>6, <3>1 DEF Answers
    <3>2. CASE j = Len(l) + 1 BY <2>3, <2>4, <3>2
    <3>q. QED BY <2>4, <2>5, <3>1, <3>2
  <2>q. QED BY <2>4, <2>6 DEF Answers
<1>q. QED BY <1>1, <1>2

\* A request put on the line: nothing is left there of an older request with
\* its number.
LEMMA WrittenLine ==
  ASSUME NEW f \in Frames, NEW l \in Seq(Packets), NEW m \in Transmit(f, Recent(f.sn, l))
  PROVE  m \in Seq(Packets) /\ Answers(m, f)
<1> DEFINE r == Recent(f.sn, l)
<1>1. r \in Seq(Others(f.sn)) BY RecentDropsAnswers
<1> HIDE DEF r
<1>2. Others(f.sn) \subseteq Packets BY DEF Others
<1>3. r \in Seq(Packets) BY <1>1, <1>2, SeqMonotonic
<1>4. \A j \in 1 .. Len(r) : r[j] \in Others(f.sn) BY <1>1, ElementOfSeq
<1>5. Answers(r, f) BY <1>4 DEF Answers, Others
<1>6. m \in Transmit(f, r) BY DEF r
<1>q. QED BY <1>3, <1>5, <1>6, Transmitted

LEMMA HandledLine ==
  ASSUME NEW t, NEW l \in Seq(Packets), l # <<>>, Answers(l, t)
  PROVE  /\ Head(l) \in Packets /\ Tail(l) \in Seq(Packets) /\ Answers(Tail(l), t)
         /\ Head(l).kind = "ack" => /\ Head(l).frame \in Frames
                                    /\ Head(l).frame.sn = t.sn => Head(l).frame = t
<1>1. Len(l) \in Nat /\ Len(l) # 0 BY LenProperties, EmptySeq
<1>2. /\ Head(l) = l[1] /\ Head(l) \in Packets
      /\ Tail(l) \in Seq(Packets) /\ Len(Tail(l)) = Len(l) - 1
      /\ \A i \in 1 .. Len(Tail(l)) : Tail(l)[i] = l[i + 1]
  BY HeadTailProperties
<1>3. \A i \in 1 .. Len(Tail(l)) : i + 1 \in 1 .. Len(l) BY <1>1, <1>2
<1>4. Answers(Tail(l), t) BY <1>2, <1>3 DEF Answers
<1>5. 1 \in 1 .. Len(l) BY <1>1
<1>6. Head(l).kind = "ack" => Head(l).frame \in Frames BY <1>2 DEF Packets
<1>q. QED BY <1>2, <1>4, <1>5, <1>6 DEF Answers

LEMMA Pushed ==
  ASSUME NEW S, NEW c \in S, NEW st \in Seq(S)
  PROVE  /\ <<c>> \o st \in Seq(S)
         /\ Len(st) \in Nat /\ Len(<<c>> \o st) = Len(st) + 1
         /\ <<c>> \o st # <<>>
         /\ Head(<<c>> \o st) = c /\ (<<c>> \o st)[1] = c
         /\ \A i \in 2 .. Len(st) + 1 : i - 1 \in 1 .. Len(st) /\ (<<c>> \o st)[i] = st[i - 1]
<1>1. <<c>> \in Seq(S) /\ Len(<<c>>) = 1 /\ <<c>>[1] = c OBVIOUS
<1>2. /\ <<c>> \o st \in Seq(S)
      /\ Len(<<c>> \o st) = 1 + Len(st)
      /\ \A i \in 1 .. 1 + Len(st) : (<<c>> \o st)[i] = IF i <= 1 THEN <<c>>[i] ELSE st[i - 1]
  BY <1>1, ConcatProperties
<1>3. Len(st) \in Nat BY LenProperties
<1>4. Head(<<c>> \o st) = (<<c>> \o st)[1] BY <1>2, <1>3, HeadTailProperties, EmptySeq
<1>q. QED BY <1>1, <1>2, <1>3, <1>4, EmptySeq

LEMMA Popping ==
  ASSUME NEW S, NEW st \in Seq(S), st # <<>>
  PROVE  /\ Len(st) \in Nat \ {0} /\ Head(st) = st[1] /\ Head(st) \in S
         /\ Tail(st) \in Seq(S) /\ Len(Tail(st)) = Len(st) - 1
         /\ \A i \in 1 .. Len(Tail(st)) : i + 1 \in 1 .. Len(st) /\ Tail(st)[i] = st[i + 1]
<1>1. Len(st) \in Nat \ {0} BY LenProperties, EmptySeq
<1>q. QED BY <1>1, HeadTailProperties

LEMMA Changed ==
  ASSUME NEW S, NEW st \in Seq(S), st # <<>>, NEW c \in S
  PROVE  LET new == [st EXCEPT ![1] = c]
         IN /\ new \in Seq(S) /\ Len(new) = Len(st) /\ new # <<>>
            /\ Head(new) = c /\ new[1] = c
            /\ \A i \in 1 .. Len(st) : i # 1 => new[i] = st[i]
<1> DEFINE new == [st EXCEPT ![1] = c]
<1>1. Len(st) \in Nat \ {0} BY LenProperties, EmptySeq
<1>2. new \in Seq(S) /\ Len(new) = Len(st) BY <1>1, ExceptSeq
<1>3. st = [i \in 1 .. Len(st) |-> st[i]] BY LenProperties
<1>4. new[1] = c /\ \A i \in 1 .. Len(st) : i # 1 => new[i] = st[i] BY <1>1, <1>3
<1>5. Head(new) = new[1] /\ new # <<>>
  <2> HIDE DEF new
  <2>q. QED BY <1>1, <1>2, HeadTailProperties, EmptySeq
<1>q. QED BY <1>2, <1>4, <1>5

-----------------------------------------------------------------------------
(* The link: one call describes the request that is out *)

\* Only the innermost call can hold the request TxbufInfo describes.
OneInv == \A i \in 1 .. Len(stack) : stack[i].frame = TxbufInfo => i = 1

LinkTypes == /\ stack \in Seq(Calls) /\ isBusy \in BOOLEAN
             /\ TxbufInfo \in Frames \cup {NoFrame} /\ txbuf \in {NoFrame, TxbufInfo}
             /\ sn \in Sns /\ line \in Seq(Packets)

\* What is nested in a call is the order to stop, and nothing else.
Nested(st) == \A i \in 1 .. Len(st) : i < Len(st) => st[i].frame.cmd = "stop"

\* TxbufInfo describes the innermost call, or a stop that was nested in it.
LastWritten == stack # <<>> => TxbufInfo = Head(stack).frame \/ TxbufInfo.cmd = "stop"

LinkOK == /\ LinkTypes /\ BusyMatchesCall
          /\ OneInv /\ Answers(line, TxbufInfo)
          /\ Nested(stack) /\ LastWritten

Conts == {"tick", "ready", "lan", "cloud", "piece", "stray"}

LEMMA NestedBelow ==
  ASSUME NEW st \in Seq(Calls), st # <<>>, Nested(st)
  PROVE  Nested(Tail(st))
<1> SUFFICES ASSUME NEW i \in 1 .. Len(Tail(st)), i < Len(Tail(st))
             PROVE  Tail(st)[i].frame.cmd = "stop"
  BY DEF Nested
<1>1. /\ i + 1 \in 1 .. Len(st) /\ Tail(st)[i] = st[i + 1]
      /\ Len(Tail(st)) = Len(st) - 1 /\ Len(st) \in Nat
  BY Popping
<1>2. i + 1 < Len(st) BY <1>1
<1>q. QED BY <1>1, <1>2 DEF Nested

LEMMA WriteLink ==
  ASSUME LinkOK, NEW cmd \in Commands, NEW app \in Apps \cup {NoApp}, NEW cont \in Conts,
         NEW l \in Seq(Packets), NEW st \in Seq(Calls), Write(cmd, app, cont, l, st),
         Nested(st), st # <<>> => cmd = "stop"
  PROVE  LinkOK'
<1> DEFINE f == [cmd |-> cmd, sn |-> sn, app |-> app]
           c == [frame |-> f, sends |-> 1, acked |-> FALSE, cont |-> cont]
<1>1. f \in Frames /\ f.sn = sn /\ f.cmd = cmd BY DEF Frames, LinkOK, LinkTypes
<1>2. c \in Calls /\ c.frame = f BY <1>1 DEF Calls, Conts
<1> HIDE DEF f
<1>3. /\ stack' = <<c>> \o st /\ isBusy' = TRUE /\ TxbufInfo' = f /\ txbuf' = f
      /\ line' \in Transmit(f, Recent(f.sn, l)) /\ Fresh(f.sn, st) /\ sn' = NewSN(sn)
  BY <1>1 DEF Write, f
<1> HIDE DEF c
<1>4. sn' \in Sns BY <1>3 DEF LinkOK, LinkTypes, NewSN, Sns
<1>5. line' \in Seq(Packets) /\ Answers(line', f) BY <1>1, <1>3, WrittenLine
<1>6. LinkTypes' BY <1>1, <1>2, <1>3, <1>4, <1>5, Pushed DEF LinkTypes
<1>7. BusyMatchesCall' BY <1>2, <1>3, Pushed DEF BusyMatchesCall
<1>8. ASSUME NEW i \in 1 .. Len(stack'), stack'[i].frame = f PROVE i = 1
  <2> SUFFICES ASSUME i # 1 PROVE FALSE OBVIOUS
  <2>1. Len(st) \in Nat /\ Len(stack') = Len(st) + 1 BY <1>2, <1>3, Pushed
  <2>2. i \in 2 .. Len(st) + 1 BY <2>1
  <2>3. i - 1 \in 1 .. Len(st) /\ stack'[i] = st[i - 1] BY <1>2, <1>3, <2>2, Pushed
  <2>q. QED BY <1>3, <1>8, <2>3 DEF Fresh
<1>9. ASSUME NEW i \in 1 .. Len(stack'), i < Len(stack') PROVE stack'[i].frame.cmd = "stop"
  <2>1. Len(st) \in Nat /\ Len(stack') = Len(st) + 1 BY <1>2, <1>3, Pushed
  <2>2. CASE i = 1
    <3>1. stack'[1] = c BY <1>2, <1>3, Pushed
    <3>2. st # <<>> BY <1>9, <2>1, <2>2, EmptySeq
    <3>q. QED BY <1>1, <1>2, <2>2, <3>1, <3>2
  <2>3. CASE i # 1
    <3>1. i \in 2 .. Len(st) + 1 BY <2>1, <2>3
    <3>2. i - 1 \in 1 .. Len(st) /\ stack'[i] = st[i - 1] BY <1>2, <1>3, <3>1, Pushed
    <3>3. i - 1 < Len(st) BY <1>9, <2>1, <3>1
    <3>q. QED BY <3>2, <3>3 DEF Nested
  <2>q. QED BY <2>2, <2>3
<1>10. LastWritten' BY <1>2, <1>3, Pushed DEF LastWritten
<1>q. QED BY <1>3, <1>5, <1>6, <1>7, <1>8, <1>9, <1>10 DEF LinkOK, OneInv, Nested

LEMMA PoppedLink ==
  ASSUME LinkOK, stack # <<>>, Popped
  PROVE  LinkOK'
<1>1. LinkTypes' BY Popping DEF LinkOK, LinkTypes, Popped
<1>2. ASSUME NEW i \in 1 .. Len(stack'), stack'[i].frame = TxbufInfo PROVE FALSE
  <2>1. i + 1 \in 1 .. Len(stack) /\ stack'[i] = stack[i + 1]
    BY Popping DEF LinkOK, LinkTypes, Popped
  <2>2. i + 1 = 1 BY <1>2, <2>1 DEF LinkOK, OneInv
  <2>3. Len(stack') \in Nat BY LenProperties, <1>1 DEF LinkTypes
  <2>q. QED BY <2>2, <2>3
<1>3. OneInv' BY <1>2 DEF OneInv, Popped
<1>4. stack' # <<>> => Head(stack') = stack'[1] /\ 1 \in 1 .. Len(stack')
  BY <1>1, Popping DEF LinkTypes
<1>5. stack' # <<>> => TxbufInfo.cmd = "stop"
  <2> SUFFICES ASSUME stack' # <<>> PROVE TxbufInfo.cmd = "stop" OBVIOUS
  <2>1. 1 \in 1 .. Len(stack) /\ 1 < Len(stack) /\ Head(stack) = stack[1]
    <3>1. Len(stack') \in Nat \ {0} BY <1>4
    <3>2. Len(stack') = Len(stack) - 1 /\ Len(stack) \in Nat \ {0} /\ Head(stack) = stack[1]
      BY Popping DEF LinkOK, LinkTypes, Popped
    <3>q. QED BY <3>1, <3>2
  <2>2. Head(stack).frame.cmd = "stop" BY <2>1 DEF LinkOK, Nested
  <2>q. QED BY <2>2 DEF LinkOK, LastWritten
<1>6. BusyMatchesCall' /\ LastWritten' BY <1>2, <1>4, <1>5 DEF BusyMatchesCall, LastWritten, Popped
<1>7. Answers(line, TxbufInfo)' BY DEF LinkOK, Popped
<1>8. Nested(stack') BY NestedBelow DEF LinkOK, LinkTypes, Popped
<1>q. QED BY <1>1, <1>3, <1>6, <1>7, <1>8 DEF LinkOK

\* A packet handled without a word to the MCU.
LEMMA SilentLink ==
  ASSUME LinkOK, line # <<>>, Silent, UNCHANGED isBusy, txbuf' \in {NoFrame, txbuf}
  PROVE  LinkOK'
<1>1. line' \in Seq(Packets) /\ Answers(line', TxbufInfo')
  BY HandledLine DEF LinkOK, LinkTypes, Silent, Consumed
<1>q. QED
  BY <1>1 DEF LinkOK, LinkTypes, BusyMatchesCall, OneInv, Nested, LastWritten, Silent, Consumed

\* Only the answer to the request that is out frees the link.
LEMMA CheckedLink ==
  ASSUME LinkOK, line # <<>>, Head(line).kind = "ack", Checked(Head(line).frame),
         Consumed, UNCHANGED txbuf
  PROVE  LinkOK'
<1> DEFINE f == Head(line).frame
           c == [Head(stack) EXCEPT !.acked = TRUE]
<1>1. /\ line' \in Seq(Packets) /\ Answers(line', TxbufInfo')
      /\ CheckAck(f) => f = TxbufInfo
  BY HandledLine DEF LinkOK, LinkTypes, Consumed, CheckAck
<1>2. CASE CheckAck(f) /\ stack # <<>> /\ Head(stack).frame = f
  <2>1. /\ Head(stack) \in Calls /\ Head(stack) = stack[1] /\ Len(stack) \in Nat \ {0}
    BY <1>2, Popping DEF LinkOK, LinkTypes
  <2>2. c \in Calls /\ c.frame = Head(stack).frame /\ c.acked = TRUE BY <2>1 DEF Calls
  <2>3. stack' = [stack EXCEPT ![1] = c] BY <1>2, <2>1 DEF Checked
  <2> HIDE DEF c
  <2>4. /\ stack' \in Seq(Calls) /\ Len(stack') = Len(stack) /\ stack' # <<>>
        /\ Head(stack') = c /\ stack'[1] = c
        /\ \A i \in 1 .. Len(stack) : i # 1 => stack'[i] = stack[i]
    BY <1>2, <2>2, <2>3, Changed DEF LinkOK, LinkTypes
  <2>5. isBusy' = FALSE BY <1>2 DEF Checked
  <2>6. OneInv' BY <2>4 DEF LinkOK, OneInv, Consumed
  <2>7. Nested(stack)' BY <2>1, <2>2, <2>4 DEF LinkOK, Nested
  <2>8. LastWritten' BY <1>2, <2>2, <2>4 DEF LinkOK, LastWritten, Consumed
  <2>q. QED
    BY <1>1, <2>2, <2>4, <2>5, <2>6, <2>7, <2>8 DEF LinkOK, LinkTypes, BusyMatchesCall, Consumed
<1>3. CASE ~(CheckAck(f) /\ stack # <<>> /\ Head(stack).frame = f)
  <2>1. stack' = stack BY <1>3 DEF Checked
  <2>2. isBusy' \in BOOLEAN /\ (isBusy' => isBusy) BY DEF Checked, LinkOK, LinkTypes
  <2>3. ASSUME stack # <<>>, TxbufInfo = Head(stack).frame PROVE isBusy' = isBusy
    <3>1. ~CheckAck(f) BY <1>1, <1>3, <2>3
    <3>q. QED BY <3>1 DEF Checked, LinkOK, LinkTypes
  <2>4. BusyMatchesCall'
    BY <2>1, <2>2, <2>3 DEF LinkOK, BusyMatchesCall, LastWritten, Consumed
  <2>q. QED
    BY <1>1, <2>1, <2>2, <2>4 DEF LinkOK, LinkTypes, OneInv, Nested, LastWritten, Consumed
<1>q. QED BY <1>2, <1>3

LEMMA ResendLink ==
  ASSUME LinkOK, Resend
  PROVE  LinkOK'
<1> DEFINE c == [Head(stack) EXCEPT !.sends = @ + 1]
<1>1. /\ Head(stack) \in Calls /\ Head(stack) = stack[1] /\ Len(stack) \in Nat \ {0}
  BY Popping DEF LinkOK, LinkTypes, Resend
<1>2. c \in Calls /\ c.frame = Head(stack).frame BY <1>1 DEF Calls, Resend
<1>3. stack' = [stack EXCEPT ![1] = c] BY <1>1 DEF Resend
<1>s. stack \in Seq(Calls) /\ stack # <<>> BY DEF LinkOK, LinkTypes, Resend
<1> HIDE DEF c
<1>4. /\ stack' \in Seq(Calls) /\ Len(stack') = Len(stack) /\ stack' # <<>>
      /\ Head(stack') = c /\ stack'[1] = c
      /\ \A i \in 1 .. Len(stack) : i # 1 => stack'[i] = stack[i]
  BY <1>2, <1>3, <1>s, Changed
<1>5. line' \in Seq(Packets) /\ Answers(line', TxbufInfo)
  BY Transmitted DEF LinkOK, LinkTypes, Resend
<1>6. OneInv' BY <1>1, <1>2, <1>4 DEF LinkOK, OneInv, Resend
<1>7. Nested(stack)' BY <1>1, <1>2, <1>4 DEF LinkOK, Nested
<1>8. LastWritten' BY <1>2, <1>4 DEF LinkOK, LastWritten, Resend
<1>q. QED BY <1>2, <1>4, <1>5, <1>6, <1>7, <1>8 DEF LinkOK, LinkTypes, BusyMatchesCall, Resend

\* A module that has just started.
LEMMA StartedLink ==
  ASSUME stack = <<>>, isBusy = FALSE, TxbufInfo = NoFrame, txbuf = NoFrame, sn = 0, line = <<>>
  PROVE  LinkOK
<1>1. stack \in Seq(Calls) /\ line \in Seq(Packets) /\ Len(stack) = 0 /\ Len(line) = 0
  BY EmptySeq
<1>2. 0 \in Sns BY DEF Sns
<1>3. 1 .. Len(stack) = {} /\ 1 .. Len(line) = {} BY <1>1
<1>4. Nested(<<>>) BY <1>1, <1>3 DEF Nested
<1>q. QED BY <1>1, <1>2, <1>3, <1>4 DEF LinkOK, LinkTypes, BusyMatchesCall, OneInv, LastWritten, Answers

\* The MCU is told to stop, or the answer is only left in Txbuf.
LEMMA FailedLink ==
  ASSUME LinkOK, NEW l \in Seq(Packets), Answers(l, TxbufInfo), PieceFailed(l, stack, isBusy)
  PROVE  LinkOK'
<1>1. CASE isBusy
  <2>1. txbuf' = NoFrame /\ line' = l /\ UNCHANGED <<stack, isBusy, TxbufInfo, sn>>
    BY <1>1 DEF PieceFailed
  <2>q. QED BY <2>1 DEF LinkOK, LinkTypes, BusyMatchesCall, OneInv, Nested, LastWritten
<1>2. CASE ~isBusy
  <2>1. Write("stop", NoApp, "piece", l, stack) BY <1>2 DEF PieceFailed
  <2>2. stack \in Seq(Calls) /\ Nested(stack) BY DEF LinkOK, LinkTypes
  <2>q. QED BY <2>1, <2>2, WriteLink DEF Commands, Conts
<1>q. QED BY <1>1, <1>2 DEF LinkOK, LinkTypes

LEMMA PacketLink ==
  ASSUME LinkOK, HandlePacket
  PROVE  LinkOK'
<1>0. stack \in Seq(Calls) /\ Nested(stack) BY DEF LinkOK, LinkTypes
<1>1. CASE HandleReport BY <1>1, SilentLink DEF HandleReport, Arrived
<1>2. CASE HandleCtrlAck BY <1>2, CheckedLink DEF HandleCtrlAck, Arrived
<1>3. CASE HandlePlainAck BY <1>3, CheckedLink DEF HandlePlainAck, Arrived
<1>4. CASE HandleReadyAck BY <1>4, CheckedLink DEF HandleReadyAck, Arrived
<1>5. CASE HandleNeedUpgrade BY <1>5, SilentLink DEF HandleNeedUpgrade, Arrived
<1>6. CASE HandleStopSend BY <1>6, SilentLink DEF HandleStopSend, Arrived
<1>7. CASE HandleQueryInfo BY <1>7, SilentLink DEF HandleQueryInfo, Arrived
<1>8. CASE HandleStrayPiece
  <2>1. line # <<>> /\ Write("stop", NoApp, "stray", Tail(line), stack)
    BY <1>8 DEF HandleStrayPiece, Arrived
  <2>2. Tail(line) \in Seq(Packets) BY <2>1, HandledLine DEF LinkOK, LinkTypes
  <2>q. QED BY <1>0, <2>1, <2>2, WriteLink DEF Commands, Conts
<1>9. CASE HandlePiece
  <2>1. CASE PieceSynced /\ Silent /\ UNCHANGED <<isBusy, txbuf>>
    BY <1>9, <2>1, SilentLink DEF HandlePiece, Arrived
  <2>2. CASE PieceFailed(Tail(line), stack, isBusy)
    <3>1. line # <<>> BY <1>9 DEF HandlePiece, Arrived
    <3>2. Tail(line) \in Seq(Packets) /\ Answers(Tail(line), TxbufInfo)
      BY <3>1, HandledLine DEF LinkOK, LinkTypes
    <3>q. QED BY <2>2, <3>2, FailedLink
  <2>q. QED BY <1>9, <2>1, <2>2 DEF HandlePiece
<1>q. QED BY <1>1, <1>2, <1>3, <1>4, <1>5, <1>6, <1>7, <1>8, <1>9 DEF HandlePacket

\* A call that returns leaves the link to the one below it, or to the order to
\* stop that follows.
LEMMA ContinueShape ==
  ASSUME NEW ok, Continue(ok)
  PROVE  Popped \/ (Head(stack).cont = "stray" /\ PieceFailed(line, Tail(stack), FALSE))
BY DEF Continue

LEMMA ContinueLink ==
  ASSUME LinkOK, stack # <<>>, NEW ok, Continue(ok)
  PROVE  LinkOK'
<1>1. CASE Popped BY <1>1, PoppedLink
<1>2. CASE PieceFailed(line, Tail(stack), FALSE)
  <2>1. Write("stop", NoApp, "piece", line, Tail(stack)) BY <1>2 DEF PieceFailed
  <2>2. Tail(stack) \in Seq(Calls) /\ line \in Seq(Packets) BY Popping DEF LinkOK, LinkTypes
  <2>3. Nested(Tail(stack)) BY NestedBelow DEF LinkOK, LinkTypes
  <2>q. QED BY <2>1, <2>2, <2>3, WriteLink DEF Commands, Conts
<1>q. QED BY <1>1, <1>2, ContinueShape

LEMMA McuSendLink ==
  ASSUME LinkOK, NEW k \in Kinds, McuSend(k)
  PROVE  LinkOK'
<1> DEFINE p == [kind |-> k, frame |-> NoFrame]
<1>1. p \in Packets /\ p.kind # "ack" BY DEF Packets
<1>2. line' = Append(line, p) /\ UNCHANGED <<stack, isBusy, TxbufInfo, txbuf, sn>> BY DEF McuSend
<1> HIDE DEF p
<1>3. /\ line' \in Seq(Packets) /\ Len(line') = Len(line) + 1 /\ line'[Len(line) + 1] = p
      /\ \A i \in 1 .. Len(line) : line'[i] = line[i]
  BY <1>1, <1>2, AppendProperties DEF LinkOK, LinkTypes
<1>4. Len(line) \in Nat BY LenProperties DEF LinkOK, LinkTypes
<1>5. \A j \in 1 .. Len(line') : j \in 1 .. Len(line) \/ line'[j] = p BY <1>3, <1>4
<1>6. Answers(line', TxbufInfo') BY <1>1, <1>2, <1>3, <1>5 DEF LinkOK, Answers
<1>q. QED BY <1>2, <1>3, <1>6 DEF LinkOK, LinkTypes, BusyMatchesCall, OneInv, Nested, LastWritten

LEMMA LinkStep ==
  ASSUME LinkOK, [Next]_vars
  PROVE  LinkOK'
<1>0. stack \in Seq(Calls) /\ line \in Seq(Packets) /\ Nested(stack) BY DEF LinkOK, LinkTypes
<1>1. CASE HandlePacket BY <1>1, PacketLink
<1>2. CASE Resend BY <1>2, ResendLink
<1>3. CASE ReturnOk BY <1>3, ContinueLink DEF ReturnOk
<1>4. CASE GiveUp BY <1>4, ContinueLink DEF GiveUp
<1>5. ASSUME NEW a \in LanApps, LanControl(a) PROVE LinkOK'
  BY <1>0, <1>5, WriteLink DEF LanControl, Idle, Commands, Conts, Apps
<1>6. ASSUME NEW s \in CloudSources, CloudControl(s) PROVE LinkOK'
  <2>1. s.app \in Apps BY DEF CloudSources, Apps
  <2>q. QED BY <1>0, <1>6, <2>1, WriteLink DEF CloudControl, Idle, Commands, Conts
<1>7. CASE SendStatus BY <1>0, <1>7, WriteLink DEF SendStatus, Idle, Commands, Conts
<1>8. CASE Ping BY <1>0, <1>8, WriteLink DEF Ping, Idle, Commands, Conts
<1>9. CASE DevReset
  <2>2. /\ stack' = <<>> /\ isBusy' = FALSE /\ TxbufInfo' = NoFrame /\ txbuf' = NoFrame
        /\ sn' = 0 /\ line' = <<>>
    BY <1>9 DEF DevReset
  <2>3. stack' \in Seq(Calls) /\ line' \in Seq(Packets) /\ Len(stack') = 0 /\ Len(line') = 0
    BY <2>2, EmptySeq
  <2>4. 0 \in Sns BY DEF Sns
  <2>5. 1 .. Len(stack') = {} /\ 1 .. Len(line') = {} BY <2>3
  <2>6. Nested(stack)' BY <2>5 DEF Nested
  <2>q. QED
    BY <2>2, <2>3, <2>4, <2>5, <2>6 DEF LinkOK, LinkTypes, BusyMatchesCall, OneInv, LastWritten, Answers
<1>10. CASE SendReady BY <1>0, <1>10, WriteLink DEF SendReady, Idle, Commands, Conts
<1>11. CASE TransferTimeout BY <1>0, <1>11, WriteLink DEF TransferTimeout, Idle, Commands, Conts
<1>12. ASSUME NEW k \in Kinds, McuSend(k) PROVE LinkOK' BY <1>12, McuSendLink
<1>13. CASE UNCHANGED vars
  BY <1>13 DEF vars, linkVars, LinkOK, LinkTypes, BusyMatchesCall, OneInv, Nested, LastWritten
<1>q. QED
  BY <1>1, <1>2, <1>3, <1>4, <1>5, <1>6, <1>7, <1>8, <1>9, <1>10, <1>11, <1>12, <1>13
  DEF Next, Controls, Ticks

-----------------------------------------------------------------------------
(* The routing: whoever is being served waits at the bottom of the stack *)

At(st, cont, app) ==
  st # <<>> /\ st[Len(st)].cont = cont /\ st[Len(st)].frame.app = app

\* Only the main loop serves an app.
BottomOnly(st) == \A i \in 1 .. Len(st) : st[i].cont \in {"lan", "cloud"} => i = Len(st)

\* While attributes name an app, its control waits.
Served(st) ==
  /\ srcLan # NoApp => At(st, "lan", srcLan)
  /\ srcCloud # NoSource => At(st, "cloud", srcCloud.app)
  /\ chLan \in LanApps => At(st, "lan", chLan)
  /\ chCloud \in CloudApps => At(st, "cloud", chCloud)

\* A control that is out is the only call.
ControlAlone(st) ==
  TxbufInfo.cmd = "ctrl" /\ st # <<>> => Len(st) = 1 /\ st[1].frame = TxbufInfo

Routes(st) == BottomOnly(st) /\ Served(st) /\ ControlAlone(st)

RouteTypes ==
  /\ rxType \in SUBSET {"cloud", "lan"}
  /\ srcLan \in LanApps \cup {NoApp} /\ srcCloud \in CloudSources \cup {NoSource}
  /\ chLan \in LanApps \cup {NoApp, "all"} /\ chCloud \in CloudApps \cup {NoApp, "all"}

RouteOK == RouteTypes /\ Routes(stack)

LEMMA Sources ==
  ASSUME NEW s \in CloudSources
  PROVE  s.app \in CloudApps /\ s # NoSource
BY DEF CloudSources, NoSource

\* The same calls wait, and the attributes are as they were, cleared, set for
\* everyone, or set for the app that is being served.
LEMMA SameRoutes ==
  ASSUME RouteOK, stack \in Seq(Calls),
         Len(stack') = Len(stack), (stack' = <<>>) <=> (stack = <<>>),
         \A i \in 1 .. Len(stack) : stack'[i].frame = stack[i].frame /\ stack'[i].cont = stack[i].cont,
         UNCHANGED TxbufInfo, rxType' \subseteq {"cloud", "lan"},
         srcLan' \in {srcLan, NoApp}, srcCloud' \in {srcCloud, NoSource},
         chLan' \in {chLan, srcLan, NoApp, "all"}, chCloud' \in {chCloud, srcCloud.app, NoApp, "all"}
  PROVE  RouteOK'
<1>1. RouteTypes'
  <2>1. srcCloud.app \in CloudApps \cup {NoApp} BY Sources DEF RouteOK, RouteTypes, NoSource
  <2>q. QED BY <2>1 DEF RouteOK, RouteTypes
<1>2. Len(stack) \in Nat /\ (stack # <<>> => Len(stack) \in 1 .. Len(stack) /\ 1 \in 1 .. Len(stack))
  BY LenProperties, EmptySeq
<1>3. BottomOnly(stack)' BY DEF RouteOK, Routes, BottomOnly
<1>4. ControlAlone(stack)' BY <1>2 DEF RouteOK, Routes, ControlAlone
<1>5. \A cont, app : At(stack, cont, app) => At(stack', cont, app) BY <1>2 DEF At
<1>6. srcLan' # NoApp => At(stack', "lan", srcLan') BY <1>5 DEF RouteOK, Routes, Served
<1>7. srcCloud' # NoSource => At(stack', "cloud", srcCloud'.app)
  BY <1>5 DEF RouteOK, Routes, Served
<1>8. chLan' \in LanApps => At(stack', "lan", chLan') BY <1>5 DEF RouteOK, Routes, Served
<1>9. chCloud' \in CloudApps => At(stack', "cloud", chCloud')
  <2>1. srcCloud.app \in CloudApps => At(stack', "cloud", srcCloud.app)
    BY <1>5 DEF RouteOK, Routes, Served, NoSource
  <2>q. QED BY <1>5, <2>1 DEF RouteOK, Routes, Served
<1>q. QED BY <1>1, <1>3, <1>4, <1>6, <1>7, <1>8, <1>9 DEF RouteOK, Routes, Served

LEMMA IdleRoutes ==
  ASSUME RouteTypes, stack = <<>>, srcLan = NoApp, srcCloud = NoSource,
         chLan \notin LanApps, chCloud \notin CloudApps
  PROVE  RouteOK
<1>1. 1 .. Len(stack) = {} BY EmptySeq
<1>q. QED BY <1>1 DEF RouteOK, Routes, BottomOnly, Served, ControlAlone

\* The calls below one that serves no app.
LEMMA BelowRoutes ==
  ASSUME LinkOK, RouteOK, stack # <<>>, Head(stack).cont \notin {"lan", "cloud"}
  PROVE  Routes(Tail(stack))
<1> DEFINE t == Tail(stack)
<1>1. /\ Len(stack) \in Nat \ {0} /\ Head(stack) = stack[1]
      /\ t \in Seq(Calls) /\ Len(t) = Len(stack) - 1
      /\ \A i \in 1 .. Len(t) : i + 1 \in 1 .. Len(stack) /\ t[i] = stack[i + 1]
  BY Popping DEF LinkOK, LinkTypes
<1>2. t = <<>> <=> Len(t) = 0 BY <1>1, EmptySeq
<1> HIDE DEF t
<1>3. \A cont \in {"lan", "cloud"} : \A app : At(stack, cont, app) => At(t, cont, app)
  <2>1. ASSUME NEW cont \in {"lan", "cloud"}, NEW app, At(stack, cont, app) PROVE At(t, cont, app)
    <3>1. Len(stack) # 1 BY <1>1, <2>1 DEF At
    <3>2. Len(t) \in 1 .. Len(t) /\ Len(t) + 1 = Len(stack) BY <1>1, <3>1
    <3>q. QED BY <1>1, <1>2, <2>1, <3>1, <3>2 DEF At
  <2>q. QED BY <2>1
<1>4. Served(t) BY <1>3 DEF RouteOK, Routes, Served
<1>5. BottomOnly(t)
  <2>1. ASSUME NEW i \in 1 .. Len(t), t[i].cont \in {"lan", "cloud"} PROVE i = Len(t)
    <3>1. i + 1 \in 1 .. Len(stack) /\ t[i] = stack[i + 1] BY <1>1
    <3>2. i + 1 = Len(stack) BY <2>1, <3>1 DEF RouteOK, Routes, BottomOnly
    <3>q. QED BY <1>1, <3>2
  <2>q. QED BY <2>1 DEF BottomOnly
<1>6. ControlAlone(t)
  <2>1. TxbufInfo.cmd = "ctrl" => Len(stack) = 1 BY DEF RouteOK, Routes, ControlAlone
  <2>2. Len(stack) = 1 => t = <<>> BY <1>1, <1>2
  <2>q. QED BY <2>1, <2>2 DEF ControlAlone
<1>q. QED BY <1>4, <1>5, <1>6 DEF Routes, t

\* A request for nobody, sent on top of the calls st.
LEMMA WriteRoutes ==
  ASSUME RouteTypes, NEW st \in Seq(Calls), Routes(st),
         NEW cmd \in Commands, cmd # "ctrl", NEW app, NEW cont \in Conts \ {"lan", "cloud"}, NEW l,
         Write(cmd, app, cont, l, st),
         rxType' \subseteq {"cloud", "lan"}, UNCHANGED <<srcLan, srcCloud>>,
         chLan' \in {chLan, NoApp, "all"}, chCloud' \in {chCloud, NoApp, "all"}
  PROVE  RouteOK'
<1> DEFINE f == [cmd |-> cmd, sn |-> sn, app |-> app]
           c == [frame |-> f, sends |-> 1, acked |-> FALSE, cont |-> cont]
           any == Calls \cup {c}
<1>1. stack' = <<c>> \o st /\ TxbufInfo'.cmd # "ctrl" BY DEF Write
<1>2. c \in any /\ st \in Seq(any) /\ c.cont = cont BY SeqMonotonic
<1> HIDE DEF c, any
<1>3. /\ stack' \in Seq(any) /\ Len(st) \in Nat /\ Len(stack') = Len(st) + 1 /\ stack' # <<>>
      /\ stack'[1] = c
      /\ \A i \in 2 .. Len(st) + 1 : i - 1 \in 1 .. Len(st) /\ stack'[i] = st[i - 1]
  BY <1>1, <1>2, Pushed
<1>4. BottomOnly(stack)'
  <2>1. ASSUME NEW i \in 1 .. Len(stack'), stack'[i].cont \in {"lan", "cloud"}
        PROVE  i = Len(stack')
    <3>1. i # 1 BY <1>2, <1>3, <2>1
    <3>2. i \in 2 .. Len(st) + 1 BY <1>3, <3>1
    <3>3. i - 1 \in 1 .. Len(st) /\ stack'[i] = st[i - 1] BY <1>3, <3>2
    <3>4. i - 1 = Len(st) BY <2>1, <3>3 DEF Routes, BottomOnly
    <3>q. QED BY <1>3, <3>4
  <2>q. QED BY <2>1 DEF BottomOnly
<1>5. \A to, who : At(st, to, who) => At(stack', to, who)
  <2>1. ASSUME NEW to, NEW who, At(st, to, who) PROVE At(stack', to, who)
    <3>1. Len(st) # 0 BY <2>1, EmptySeq DEF At
    <3>2. Len(st) + 1 \in 2 .. Len(st) + 1 /\ (Len(st) + 1) - 1 = Len(st) BY <1>3, <3>1
    <3>3. stack'[Len(st) + 1] = st[Len(st)] BY <1>3, <3>2
    <3>q. QED BY <1>3, <2>1, <3>3 DEF At
  <2>q. QED BY <2>1
<1>6. Served(stack)'
  <2>1. srcLan' # NoApp => At(stack', "lan", srcLan') BY <1>5 DEF Routes, Served
  <2>2. srcCloud' # NoSource => At(stack', "cloud", srcCloud'.app) BY <1>5 DEF Routes, Served
  <2>3. chLan' \in LanApps => At(stack', "lan", chLan') BY <1>5 DEF Routes, Served
  <2>4. chCloud' \in CloudApps => At(stack', "cloud", chCloud') BY <1>5 DEF Routes, Served
  <2>q. QED BY <2>1, <2>2, <2>3, <2>4 DEF Served
<1>7. ControlAlone(stack)' BY <1>1 DEF ControlAlone
<1>8. RouteTypes' BY DEF RouteTypes
<1>q. QED BY <1>4, <1>6, <1>7, <1>8 DEF RouteOK, Routes

\* The control of an app, put on an empty stack.
LEMMA ControlRoutes ==
  ASSUME RouteOK, Idle, NEW app \in Apps, NEW cont \in {"lan", "cloud"}, NEW l,
         Write("ctrl", app, cont, l, stack), UNCHANGED <<rxType, chLan, chCloud>>,
         cont = "lan" => app \in LanApps /\ srcLan' = app /\ UNCHANGED srcCloud,
         cont = "cloud" => /\ srcCloud' \in CloudSources /\ srcCloud'.app = app /\ UNCHANGED srcLan
  PROVE  RouteOK'
<1> DEFINE f == [cmd |-> "ctrl", sn |-> sn, app |-> app]
           c == [frame |-> f, sends |-> 1, acked |-> FALSE, cont |-> cont]
<1>1. /\ srcLan = NoApp /\ srcCloud = NoSource /\ chLan \notin LanApps /\ chCloud \notin CloudApps
  BY DEF RouteOK, Routes, Served, At, Idle
<1>2. stack' = <<c>> \o stack /\ TxbufInfo' = f /\ stack = <<>> BY DEF Write, Idle
<1>3. c.frame = f /\ c.cont = cont /\ f.app = app OBVIOUS
<1> HIDE DEF c, f
<1>4. stack' = <<c>> BY <1>2
<1>5. Len(stack') = 1 /\ stack'[1] = c /\ stack' # <<>> BY <1>4
<1>6. At(stack', cont, app) BY <1>3, <1>5 DEF At
<1>7. BottomOnly(stack)' BY <1>5 DEF BottomOnly
<1>8. ControlAlone(stack)' BY <1>2, <1>3, <1>5 DEF ControlAlone
<1>9. Served(stack)' BY <1>1, <1>6, Sources DEF Served
<1>10. RouteTypes' BY <1>1 DEF RouteOK, RouteTypes
<1>q. QED BY <1>7, <1>8, <1>9, <1>10 DEF RouteOK, Routes

\* dealPacket has come back to the main loop.
LEMMA DoneRoutes ==
  ASSUME LinkOK, RouteOK, stack # <<>>, Head(stack).cont \in {"lan", "cloud"}, Popped,
         rxType' = {}, IF Head(stack).cont = "lan" THEN LanDone ELSE CloudDone
  PROVE  RouteOK'
<1>1. /\ Len(stack) \in Nat \ {0} /\ Head(stack) = stack[1]
      /\ Tail(stack) \in Seq(Calls) /\ Len(Tail(stack)) = Len(stack) - 1
  BY Popping DEF LinkOK, LinkTypes
<1>2. Len(stack) = 1
  <2>1. 1 \in 1 .. Len(stack) BY <1>1
  <2>q. QED BY <1>1, <2>1 DEF RouteOK, Routes, BottomOnly
<1>3. stack' = <<>> BY <1>1, <1>2, EmptySeq DEF Popped
<1>4. srcLan' = NoApp /\ srcCloud' = NoSource
  BY <1>1, <1>2 DEF RouteOK, Routes, Served, At, LanDone, CloudDone
<1>5. chLan' = NoApp /\ chCloud' = NoApp BY DEF LanDone, CloudDone
<1>6. 1 .. Len(stack') = {} BY <1>3, EmptySeq
<1>7. RouteTypes' BY <1>4, <1>5 DEF RouteTypes
<1>q. QED BY <1>3, <1>4, <1>5, <1>6, <1>7 DEF RouteOK, Routes, BottomOnly, Served, ControlAlone

\* Popped, the caller serving nobody.
LEMMA PoppedRoutes ==
  ASSUME LinkOK, RouteOK, stack # <<>>, Head(stack).cont \notin {"lan", "cloud"}, Popped,
         rxType' \subseteq {"cloud", "lan"}, UNCHANGED <<srcLan, srcCloud>>,
         chLan' \in {chLan, "all"}, chCloud' \in {chCloud, "all"}
  PROVE  RouteOK'
<1>1. Routes(Tail(stack)) BY BelowRoutes
<1>2. stack' = Tail(stack) /\ UNCHANGED TxbufInfo BY DEF Popped
<1>3. RouteTypes' BY DEF RouteOK, RouteTypes
<1>4. Served(stack)' BY <1>1, <1>2 DEF Routes, Served
<1>5. BottomOnly(stack)' /\ ControlAlone(stack)'
  BY <1>1, <1>2 DEF Routes, BottomOnly, ControlAlone
<1>q. QED BY <1>3, <1>4, <1>5 DEF RouteOK, Routes

\* An acknowledgement and a resend change no call's request nor what follows it.
LEMMA SameCalls ==
  ASSUME LinkOK, Checked(Head(line).frame) \/ Resend
  PROVE  /\ stack \in Seq(Calls) /\ Len(stack') = Len(stack) /\ ((stack' = <<>>) <=> (stack = <<>>))
         /\ \A i \in 1 .. Len(stack) : /\ stack'[i].frame = stack[i].frame
                                       /\ stack'[i].cont = stack[i].cont
<1>0. stack \in Seq(Calls) BY DEF LinkOK, LinkTypes
<1>1. CASE stack' = stack BY <1>0, <1>1
<1>2. CASE stack' # stack
  <2> DEFINE a == [Head(stack) EXCEPT !.acked = TRUE]
             r == [Head(stack) EXCEPT !.sends = @ + 1]
  <2>1. stack # <<>> BY <1>2 DEF Checked, Resend
  <2>2. Head(stack) \in Calls /\ Head(stack) = stack[1] BY <1>0, <2>1, Popping
  <2>3. /\ a \in Calls /\ a.frame = stack[1].frame /\ a.cont = stack[1].cont
        /\ r.frame = stack[1].frame /\ r.cont = stack[1].cont
    BY <2>2 DEF Calls
  <2>r. ASSUME Resend PROVE r \in Calls
    <3>1. Head(stack).sends < MaxSends BY <2>r DEF Resend
    <3>q. QED BY <2>2, <3>1 DEF Calls
  <2>4. stack' = [stack EXCEPT ![1] = a] \/ (Resend /\ stack' = [stack EXCEPT ![1] = r])
    BY <1>2, <2>2 DEF Checked, Resend
  <2> HIDE DEF a, r
  <2>5. PICK c \in {a, r} : c \in Calls /\ stack' = [stack EXCEPT ![1] = c] BY <2>3, <2>r, <2>4
  <2>6. /\ Len(stack') = Len(stack) /\ stack' # <<>> /\ stack'[1] = c
        /\ \A i \in 1 .. Len(stack) : i # 1 => stack'[i] = stack[i]
    BY <1>0, <2>1, <2>5, Changed
  <2>q. QED BY <1>0, <2>1, <2>3, <2>5, <2>6
<1>q. QED BY <1>1, <1>2

LEMMA PacketRoutes ==
  ASSUME LinkOK, RouteOK, HandlePacket
  PROVE  RouteOK'
<1>0. /\ stack \in Seq(Calls) /\ RouteTypes /\ Routes(stack)
      /\ NoSource.app = NoApp /\ rxType \subseteq {"cloud", "lan"}
  BY DEF LinkOK, LinkTypes, RouteOK, RouteTypes, NoSource
<1>1. CASE HandleReport
  <2>1. stack' = stack /\ TxbufInfo' = TxbufInfo BY <1>1 DEF HandleReport, Silent, Consumed
  <2>2. /\ rxType' \subseteq {"cloud", "lan"} /\ UNCHANGED <<srcLan, srcCloud>>
        /\ chLan' \in {chLan, "all"} /\ chCloud' \in {chCloud, "all"}
    BY <1>0, <1>1 DEF HandleReport, Report, routeVars
  <2>q. QED BY <1>0, <2>1, <2>2, SameRoutes
<1>2. CASE HandleCtrlAck
  <2>1. Checked(Head(line).frame) /\ UNCHANGED TxbufInfo BY <1>2 DEF HandleCtrlAck, Consumed
  <2>2. /\ rxType' \subseteq {"cloud", "lan"}
        /\ srcLan' \in {srcLan, NoApp} /\ srcCloud' \in {srcCloud, NoSource}
        /\ chLan' \in {chLan, srcLan} /\ chCloud' \in {chCloud, srcCloud.app, "all"}
    <3>1. CASE Answer(Head(line).frame) BY <3>1 DEF Answer
    <3>2. CASE UNCHANGED routeVars BY <1>0, <3>2 DEF routeVars
    <3>q. QED BY <1>2, <3>1, <3>2 DEF HandleCtrlAck
  <2>q. QED BY <2>1, <2>2, SameCalls, SameRoutes
<1>3. CASE HandlePlainAck
  <2>1. Checked(Head(line).frame) /\ UNCHANGED <<TxbufInfo, routeVars>>
    BY <1>3 DEF HandlePlainAck, Consumed
  <2>q. QED BY <1>0, <2>1, SameCalls, SameRoutes DEF routeVars
<1>4. CASE HandleReadyAck
  <2>1. Checked(Head(line).frame) /\ UNCHANGED <<TxbufInfo, routeVars>>
    BY <1>4 DEF HandleReadyAck, Consumed
  <2>q. QED BY <1>0, <2>1, SameCalls, SameRoutes DEF routeVars
<1>5. CASE HandleNeedUpgrade
  <2>1. UNCHANGED <<stack, TxbufInfo, srcLan, srcCloud, chLan, chCloud>> /\ rxType' \subseteq {"cloud", "lan"}
    BY <1>5 DEF HandleNeedUpgrade, Silent, Consumed
  <2>q. QED BY <1>0, <2>1, SameRoutes
<1>6. CASE HandleStopSend
  <2>1. UNCHANGED <<stack, TxbufInfo, routeVars>> BY <1>6 DEF HandleStopSend, Silent, Consumed
  <2>q. QED BY <1>0, <2>1, SameRoutes DEF routeVars
<1>7. CASE HandleQueryInfo
  <2>1. UNCHANGED <<stack, TxbufInfo, routeVars>> BY <1>7 DEF HandleQueryInfo, Silent, Consumed
  <2>q. QED BY <1>0, <2>1, SameRoutes DEF routeVars
<1>8. CASE HandleStrayPiece
  <2>1. Write("stop", NoApp, "stray", Tail(line), stack) /\ UNCHANGED routeVars
    BY <1>8 DEF HandleStrayPiece
  <2>q. QED BY <1>0, <2>1, WriteRoutes DEF Commands, Conts, routeVars
<1>9. CASE HandlePiece
  <2>1. chLan' = "all" /\ chCloud' = "all" /\ UNCHANGED <<srcLan, srcCloud>> BY <1>9 DEF HandlePiece
  <2>2. rxType' \subseteq {"cloud", "lan"}
    BY <1>9 DEF HandlePiece, PieceSynced, PieceFailed
  <2>3. CASE UNCHANGED <<stack, TxbufInfo>> BY <1>0, <2>1, <2>2, <2>3, SameRoutes
  <2>4. CASE Write("stop", NoApp, "piece", Tail(line), stack)
    BY <1>0, <2>1, <2>2, <2>4, WriteRoutes DEF Commands, Conts
  <2>q. QED BY <1>9, <2>3, <2>4 DEF HandlePiece, PieceFailed, Silent, Consumed
<1>q. QED BY <1>1, <1>2, <1>3, <1>4, <1>5, <1>6, <1>7, <1>8, <1>9 DEF HandlePacket

LEMMA ContinueRoutes ==
  ASSUME LinkOK, RouteOK, stack # <<>>, NEW ok \in BOOLEAN, Continue(ok)
  PROVE  RouteOK'
<1>0. stack \in Seq(Calls) /\ RouteTypes /\ rxType \subseteq {"cloud", "lan"}
  BY DEF LinkOK, LinkTypes, RouteOK, RouteTypes
<1> DEFINE cont == Head(stack).cont
<1>1. CASE cont \in {"tick", "ready", "piece"}
  <2>1. Popped /\ UNCHANGED routeVars BY <1>1 DEF Continue
  <2>q. QED BY <1>0, <1>1, <2>1, PoppedRoutes DEF routeVars
<1>2. CASE cont \in {"lan", "cloud"}
  <2>1. Popped /\ rxType' = {} /\ IF cont = "lan" THEN LanDone ELSE CloudDone
    BY <1>2 DEF Continue
  <2>q. QED BY <1>2, <2>1, DoneRoutes
<1>3. CASE cont = "stray"
  <2>1. chLan' = "all" /\ chCloud' = "all" /\ UNCHANGED <<srcLan, srcCloud>>
    BY <1>3 DEF Continue
  <2>2. rxType' \subseteq {"cloud", "lan"} BY <1>3 DEF Continue, PieceSynced, PieceFailed
  <2>3. CASE Popped BY <1>3, <2>1, <2>2, <2>3, PoppedRoutes
  <2>4. CASE PieceFailed(line, Tail(stack), FALSE)
    <3>1. Write("stop", NoApp, "piece", line, Tail(stack)) BY <2>4 DEF PieceFailed
    <3>2. Tail(stack) \in Seq(Calls) BY <1>0, Popping
    <3>3. Routes(Tail(stack)) BY <1>3, BelowRoutes
    <3>q. QED BY <1>0, <2>1, <2>2, <3>1, <3>2, <3>3, WriteRoutes DEF Commands, Conts
  <2>q. QED BY <1>3, <2>3, <2>4, ContinueShape
<1>q. QED BY <1>1, <1>2, <1>3 DEF Continue

LEMMA RouteStep ==
  ASSUME LinkOK, RouteOK, [Next]_vars
  PROVE  RouteOK'
<1>0. /\ stack \in Seq(Calls) /\ RouteTypes /\ Routes(stack) /\ rxType \subseteq {"cloud", "lan"}
  BY DEF LinkOK, LinkTypes, RouteOK, RouteTypes
<1>1. CASE HandlePacket BY <1>1, PacketRoutes
<1>2. CASE Resend
  <2>1. UNCHANGED <<TxbufInfo, routeVars>> BY <1>2 DEF Resend
  <2>q. QED BY <1>0, <1>2, <2>1, SameCalls, SameRoutes DEF routeVars
<1>3. CASE ReturnOk BY <1>3, ContinueRoutes DEF ReturnOk
<1>4. CASE GiveUp BY <1>4, ContinueRoutes DEF GiveUp
<1>5. ASSUME NEW a \in LanApps, LanControl(a) PROVE RouteOK'
  BY <1>5, ControlRoutes DEF LanControl, Apps
<1>6. ASSUME NEW s \in CloudSources, CloudControl(s) PROVE RouteOK'
  <2>1. s.app \in Apps BY Sources DEF Apps
  <2>2. Idle /\ srcCloud' = s /\ Write("ctrl", s.app, "cloud", line, stack)
        /\ UNCHANGED <<rxType, srcLan, chLan, chCloud>>
    BY <1>6 DEF CloudControl
  <2>q. QED BY <2>1, <2>2, ControlRoutes
<1>7. CASE SendStatus
  BY <1>0, <1>7, WriteRoutes DEF SendStatus, Commands, Conts, routeVars
<1>8. CASE Ping BY <1>0, <1>8, WriteRoutes DEF Ping, Commands, Conts, routeVars
<1>9. CASE DevReset
  <2>1. /\ stack' = <<>> /\ rxType' = {} /\ srcLan' = NoApp /\ srcCloud' = NoSource
        /\ chLan' = NoApp /\ chCloud' = NoApp
    BY <1>9 DEF DevReset
  <2>2. 1 .. Len(stack') = {} BY <2>1, EmptySeq
  <2>q. QED BY <2>1, <2>2
    DEF RouteOK, RouteTypes, Routes, BottomOnly, Served, ControlAlone
<1>10. CASE SendReady
  BY <1>0, <1>10, WriteRoutes DEF SendReady, Commands, Conts, routeVars
<1>11. CASE TransferTimeout
  BY <1>0, <1>11, WriteRoutes DEF TransferTimeout, Commands, Conts, routeVars
<1>12. ASSUME NEW k \in Kinds, McuSend(k) PROVE RouteOK'
  <2>1. UNCHANGED <<stack, TxbufInfo, routeVars>> BY <1>12 DEF McuSend
  <2>q. QED BY <1>0, <2>1, SameRoutes DEF routeVars
<1>13. CASE UNCHANGED vars
  <2>1. UNCHANGED <<stack, TxbufInfo, routeVars>> BY <1>13 DEF vars, linkVars
  <2>q. QED BY <1>0, <2>1, SameRoutes DEF routeVars
<1>q. QED
  BY <1>1, <1>2, <1>3, <1>4, <1>5, <1>6, <1>7, <1>8, <1>9, <1>10, <1>11, <1>12, <1>13
  DEF Next, Controls, Ticks

-----------------------------------------------------------------------------
(* What is given to the senders *)

\* Messages that answer no control, or answer a control of the app they go to.
Rightful == {m \in Messages : m.app \in Apps /\ m.what # NoFrame => m.what.app = m.app}

LEMMA Outgoing ==
  ASSUME NEW what \in Frames \cup {NoFrame},
         NEW ch \in LanApps \cup {NoApp, "all"}, NEW to \in CloudApps \cup {NoApp, "all"}
  PROVE  /\ (ch \in LanApps /\ what # NoFrame => what.app = ch) => LanOut(ch, what) \subseteq Rightful
         /\ (to \in CloudApps /\ what # NoFrame => what.app = to) => CloudOut(to, what) \subseteq Rightful
<1>1. ToLan(ch, what) \in Messages /\ ToCloud(to, what) \in Messages
  BY DEF Messages, ToLan, ToCloud, Apps
<1>2. ch \notin CloudApps /\ to \notin LanApps OBVIOUS
<1>q. QED BY <1>1, <1>2 DEF LanOut, CloudOut, Rightful, ToLan, ToCloud, Apps

LEMMA AnswerRightful ==
  ASSUME LinkOK, RouteOK, HandleCtrlAck
  PROVE  out' \subseteq Rightful
<1> DEFINE f == Head(line).frame
<1>1. CASE out' = {} BY <1>1
<1>2. CASE CheckAck(f) /\ Answer(f)
  <2>1. f \in Frames /\ f = TxbufInfo /\ f.cmd = "ctrl"
    <3>1. line # <<>> /\ Head(line).kind = "ack" /\ f.cmd = "ctrl"
      BY DEF HandleCtrlAck, Arrived
    <3>2. f \in Frames /\ (f.sn = TxbufInfo.sn => f = TxbufInfo)
      BY <3>1, HandledLine DEF LinkOK, LinkTypes
    <3>q. QED BY <1>2, <3>1, <3>2 DEF CheckAck
  <2> HIDE DEF f
  <2>2. ASSUME NEW cont, NEW app, At(stack, cont, app) PROVE f.app = app
    BY <2>1, <2>2 DEF At, RouteOK, Routes, ControlAlone
  <2>3. RouteTypes BY DEF RouteOK
  <2>4. /\ srcLan # NoApp => f.app = srcLan /\ srcLan \in LanApps
        /\ srcCloud # NoSource => f.app = srcCloud.app /\ srcCloud.app \in CloudApps
        /\ chLan \in LanApps => f.app = chLan
        /\ chCloud \in CloudApps => f.app = chCloud
    BY <2>2, <2>3, Sources DEF RouteOK, Routes, Served, RouteTypes
  <2>5. CASE srcLan # NoApp
    <3>1. out' = LanOut(srcLan, f) BY <1>2, <2>5 DEF Answer
    <3>q. QED BY <2>1, <2>4, <2>5, <3>1, Outgoing
  <2>6. CASE srcLan = NoApp /\ srcCloud # NoSource
    <3>1. chCloud' \in {srcCloud.app, "all"} /\ out' = CloudOut(chCloud', f)
      BY <1>2, <2>6 DEF Answer
    <3>2. chCloud' \in CloudApps \cup {NoApp, "all"} /\ (chCloud' \in CloudApps => f.app = chCloud')
      BY <2>4, <2>6, <3>1
    <3>q. QED BY <2>1, <3>1, <3>2, Outgoing
  <2>7. CASE srcLan = NoApp /\ srcCloud = NoSource
    <3>1. out' = LanOut(chLan, f) \cup CloudOut(chCloud, f) BY <1>2, <2>7 DEF Answer
    <3>2. LanOut(chLan, f) \subseteq Rightful BY <2>1, <2>3, <2>4, Outgoing DEF RouteTypes
    <3>3. CloudOut(chCloud, f) \subseteq Rightful BY <2>1, <2>3, <2>4, Outgoing DEF RouteTypes
    <3>q. QED BY <3>1, <3>2, <3>3
  <2>q. QED BY <2>5, <2>6, <2>7
<1>q. QED BY <1>1, <1>2 DEF HandleCtrlAck

LEMMA LeftoverRightful ==
  ASSUME RouteOK
  PROVE  Leftover \subseteq Rightful
<1>1. LanOut(chLan, NoFrame) \subseteq Rightful BY Outgoing DEF RouteOK, RouteTypes
<1>2. CloudOut(chCloud, NoFrame) \subseteq Rightful BY Outgoing DEF RouteOK, RouteTypes
<1>q. QED BY <1>1, <1>2 DEF Leftover

LEMMA ReportRightful ==
  ASSUME Report
  PROVE  out' \subseteq Rightful
BY DEF Report, Rightful, Messages, ToLan, ToCloud, Apps

LEMMA OutStep ==
  ASSUME LinkOK, RouteOK, out \subseteq Rightful, [Next]_vars
  PROVE  out' \subseteq Rightful
<1>1. CASE HandlePacket
  <2>1. CASE HandleReport BY <2>1, ReportRightful DEF HandleReport
  <2>2. CASE HandleCtrlAck BY <2>2, AnswerRightful
  <2>3. CASE out' = {} BY <2>3
  <2>q. QED
    BY <1>1, <2>1, <2>2, <2>3 DEF HandlePacket, HandlePlainAck, HandleReadyAck,
       HandleNeedUpgrade, HandleStopSend, HandleQueryInfo, HandleStrayPiece, HandlePiece
<1>2. CASE Resend BY <1>2 DEF Resend
<1>3. ASSUME NEW ok \in BOOLEAN, Continue(ok) PROVE out' \subseteq Rightful
  <2>1. out' = {} \/ out' = Leftover BY <1>3 DEF Continue
  <2>q. QED BY <2>1, LeftoverRightful
<1>4. CASE Controls BY <1>4 DEF Controls, LanControl, CloudControl
<1>5. CASE Ticks BY <1>5 DEF Ticks, SendStatus, Ping, DevReset, SendReady, TransferTimeout
<1>6. CASE \E k \in Kinds : McuSend(k) BY <1>6 DEF McuSend
<1>7. CASE UNCHANGED vars BY <1>7 DEF vars
<1>q. QED BY <1>1, <1>2, <1>3, <1>4, <1>5, <1>6, <1>7 DEF Next, ReturnOk, GiveUp

-----------------------------------------------------------------------------
(* The theorems *)

FileTypes == /\ using \in BOOLEAN /\ readyFlag \in BOOLEAN
             /\ timeoutCnt \in 0 .. MaxPings + 1

IInv == LinkOK /\ RouteOK /\ FileTypes /\ out \subseteq Rightful

LEMMA FileStep ==
  ASSUME FileTypes, [Next]_vars
  PROVE  FileTypes'
<1>1. using \in BOOLEAN /\ readyFlag \in BOOLEAN /\ timeoutCnt \in 0 .. MaxPings + 1
      /\ 0 \in 0 .. MaxPings + 1
  BY DEF FileTypes
<1>2. CASE HandlePacket
  <2>1. timeoutCnt' = 0
    BY <1>2 DEF HandlePacket, HandleReport, HandleCtrlAck, HandlePlainAck, HandleReadyAck,
       HandleNeedUpgrade, HandleStopSend, HandleQueryInfo, HandleStrayPiece, HandlePiece, Arrived
  <2>2. using' \in {using, TRUE, FALSE} /\ readyFlag' \in {readyFlag, TRUE}
    BY <1>2 DEF HandlePacket, HandleReport, HandleCtrlAck, HandlePlainAck, HandleReadyAck,
       HandleNeedUpgrade, HandleStopSend, HandleQueryInfo, HandleStrayPiece, HandlePiece,
       PieceSynced, PieceFailed, fileVars
  <2>q. QED BY <1>1, <2>1, <2>2 DEF FileTypes
<1>3. CASE Resend BY <1>1, <1>3 DEF Resend, fileVars, FileTypes
<1>4. ASSUME NEW ok \in BOOLEAN, Continue(ok), UNCHANGED timeoutCnt PROVE FileTypes'
  <2>1. using' \in {using, FALSE, using /\ ok} /\ readyFlag' = readyFlag
    BY <1>4 DEF Continue, PieceSynced, PieceFailed, fileVars
  <2>2. using' \in BOOLEAN BY <1>1, <2>1
  <2>q. QED BY <1>1, <1>4, <2>1, <2>2 DEF FileTypes
<1>5. CASE Controls BY <1>1, <1>5 DEF Controls, LanControl, CloudControl, fileVars, FileTypes
<1>6. CASE Ticks
  <2>1. CASE Ping
    <3>1. timeoutCnt + 1 \in 0 .. MaxPings + 1 BY <1>1, <2>1 DEF Ping
    <3>q. QED BY <1>1, <2>1, <3>1 DEF Ping, fileVars, FileTypes
  <2>2. CASE SendStatus BY <1>1, <2>2 DEF SendStatus, fileVars, FileTypes
  <2>3. CASE DevReset BY <1>1, <2>3 DEF DevReset, FileTypes
  <2>4. CASE SendReady BY <1>1, <2>4 DEF SendReady, FileTypes
  <2>5. CASE TransferTimeout BY <1>1, <2>5 DEF TransferTimeout, FileTypes
  <2>q. QED BY <1>6, <2>1, <2>2, <2>3, <2>4, <2>5 DEF Ticks
<1>7. ASSUME NEW k \in Kinds, McuSend(k) PROVE FileTypes'
  BY <1>1, <1>7 DEF McuSend, fileVars, FileTypes
<1>8. CASE UNCHANGED vars BY <1>1, <1>8 DEF vars, fileVars, FileTypes
<1>q. QED BY <1>2, <1>3, <1>4, <1>5, <1>6, <1>7, <1>8 DEF Next, ReturnOk, GiveUp

LEMMA InitIInv == Init => IInv
<1> SUFFICES ASSUME Init PROVE IInv OBVIOUS
<1>1. LinkOK BY StartedLink DEF Init
<1>2. RouteTypes BY DEF Init, RouteTypes
<1>3. RouteOK BY <1>2, IdleRoutes DEF Init
<1>4. 0 \in 0 .. MaxPings + 1 OBVIOUS
<1>5. FileTypes BY <1>4 DEF FileTypes, Init
<1>6. out \subseteq Rightful BY DEF Init
<1>q. QED BY <1>1, <1>3, <1>5, <1>6 DEF IInv

LEMMA Inductive == IInv /\ [Next]_vars => IInv'
BY LinkStep, RouteStep, FileStep, OutStep DEF IInv

LEMMA Invariance == Spec => []IInv
BY InitIInv, Inductive, PTL DEF Spec

\* The stack holds calls, the line packets, and the attributes the app, the
\* apps or nobody a packet goes to, through every handler of local.c.
THEOREM LinkTypeSafe == Spec => []TypeOK
<1>1. IInv => TypeOK
  BY DEF IInv, LinkOK, LinkTypes, RouteOK, RouteTypes, FileTypes, Rightful, TypeOK
<1>q. QED BY <1>1, Invariance, PTL

\* mcu.isBusy is set only while a GAgent_LocalDataWriteP0 waits for the request
\* in TxbufInfo.  Whatever the line delivers late, it is clear under a waiting
\* call only after the acknowledgement of that call's own request, or after a
\* stop nested in the call, sent for a piece of a file, which takes the link from
\* it and lets it return success unacknowledged (local.c:1181).
THEOREM BusyMeansWaiting == Spec => []BusyMatchesCall
<1>1. IInv => BusyMatchesCall BY DEF IInv, LinkOK
<1>q. QED BY <1>1, Invariance, PTL

\* dealPacket never gives the acknowledgement of one app's control to another
\* app, on either transport.
THEOREM RepliesGoHome == Spec => []ReplyToRequester
<1>1. IInv => ReplyToRequester BY DEF IInv, Rightful, ReplyToRequester
<1>q. QED BY <1>1, Invariance, PTL

-----------------------------------------------------------------------------
(* The link is the stop-and-wait link of StopAndWait *)

\* The request on the line, as StopAndWait sees it.
Out(f) == [cmd |-> f.cmd, sn |-> f.sn]

LEMMA Requests ==
  ASSUME NEW f \in Frames
  PROVE  Out(f) \in Link!Requests
BY DEF Out, Frames, Link!Requests

\* A request put on an idle line is issued; put on a busy one, it takes the
\* place of the one that was out, and must be the order to stop.
LEMMA WriteImplements ==
  ASSUME LinkOK, NEW cmd \in Commands, NEW app \in Apps \cup {NoApp}, NEW cont \in Conts,
         NEW l, NEW st \in Seq(Calls), Write(cmd, app, cont, l, st),
         isBusy => cmd = "stop"
  PROVE  Link!Next
<1> DEFINE f == [cmd |-> cmd, sn |-> sn, app |-> app]
           c == [frame |-> f, sends |-> 1, acked |-> FALSE, cont |-> cont]
<1>1. f \in Frames BY DEF Frames, LinkOK, LinkTypes
<1>2. c \in Calls /\ c.sends = 1 BY <1>1 DEF Calls, Conts
<1>3. stack' = <<c>> \o st /\ isBusy' = TRUE /\ TxbufInfo' = f BY DEF Write
<1>4. Out(f).cmd = cmd BY DEF Out
<1> HIDE DEF f, c
<1>5. Head(stack') = c BY <1>2, <1>3, Pushed
<1>6. Out(f) \in Link!Requests BY <1>1, Requests
<1>7. CASE isBusy
  <2>1. Link!Displace(Out(f)) BY <1>2, <1>3, <1>4, <1>5, <1>7 DEF Link!Displace, Out
  <2>q. QED BY <1>6, <2>1 DEF Link!Next
<1>8. CASE ~isBusy
  <2>1. Link!Issue(Out(f)) BY <1>2, <1>3, <1>5, <1>8 DEF Link!Issue, Out
  <2>q. QED BY <1>6, <2>1 DEF Link!Next
<1>q. QED BY <1>7, <1>8

\* What changes neither isBusy, TxbufInfo nor the innermost call's sends.
LEMMA Stutters ==
  ASSUME UNCHANGED <<isBusy, TxbufInfo>>, isBusy => Head(stack').sends = Head(stack).sends
  PROVE  UNCHANGED Link!vars
BY DEF Link!vars

LEMMA CheckedImplements ==
  ASSUME LinkOK, line # <<>>, Checked(Head(line).frame), UNCHANGED TxbufInfo
  PROVE  [Link!Next]_(Link!vars)
<1> DEFINE f == Head(line).frame
<1>1. CASE isBusy /\ CheckAck(f)
  <2>1. isBusy' = FALSE BY <1>1 DEF Checked
  <2>2. Link!Acked BY <1>1, <2>1 DEF Link!Acked
  <2>q. QED BY <2>2 DEF Link!Next
<1>2. CASE ~(isBusy /\ CheckAck(f))
  <2>1. isBusy' = isBusy BY <1>2 DEF Checked, LinkOK, LinkTypes
  <2>2. isBusy => stack' = stack BY <1>2 DEF Checked
  <2>q. QED BY <2>1, <2>2, Stutters
<1>q. QED BY <1>1, <1>2

LEMMA PacketImplements ==
  ASSUME LinkOK, HandlePacket
  PROVE  [Link!Next]_(Link!vars)
<1>0. stack \in Seq(Calls) /\ isBusy \in BOOLEAN BY DEF LinkOK, LinkTypes
<1>1. CASE Silent /\ UNCHANGED isBusy BY <1>1, Stutters DEF Silent, Consumed
<1>2. CASE Checked(Head(line).frame) /\ Consumed /\ line # <<>>
  BY <1>2, CheckedImplements DEF Consumed
<1>3. CASE HandleStrayPiece
  BY <1>0, <1>3, WriteImplements DEF HandleStrayPiece, Commands, Conts
<1>4. CASE PieceFailed(Tail(line), stack, isBusy)
  <2>1. CASE isBusy BY <1>4, <2>1, Stutters DEF PieceFailed
  <2>2. CASE ~isBusy BY <1>0, <1>4, <2>2, WriteImplements DEF PieceFailed, Commands, Conts
  <2>q. QED BY <2>1, <2>2
<1>q. QED
  BY <1>1, <1>2, <1>3, <1>4 DEF HandlePacket, HandleReport, HandleCtrlAck, HandlePlainAck,
     HandleReadyAck, HandleNeedUpgrade, HandleStopSend, HandleQueryInfo, HandlePiece, Arrived

LEMMA ResendImplements ==
  ASSUME LinkOK, Resend
  PROVE  Link!Resend
<1> DEFINE c == [Head(stack) EXCEPT !.sends = @ + 1]
<1>0. stack \in Seq(Calls) /\ stack # <<>> BY DEF LinkOK, LinkTypes, Resend
<1>1. Head(stack) \in Calls /\ Head(stack) = stack[1] BY <1>0, Popping
<1>2. c.sends = Head(stack).sends + 1 /\ Head(stack).sends < MaxSends BY <1>1 DEF Calls, Resend
<1>3. c \in Calls BY <1>1 DEF Calls, Resend
<1>4. stack' = [stack EXCEPT ![1] = c] BY <1>1 DEF Resend
<1> HIDE DEF c
<1>5. Head(stack') = c BY <1>0, <1>3, <1>4, Changed
<1>6. isBusy /\ UNCHANGED <<isBusy, TxbufInfo>> BY DEF Resend
<1>q. QED BY <1>2, <1>5, <1>6 DEF Link!Resend

LEMMA ReturnImplements ==
  ASSUME LinkOK, ReturnOk \/ GiveUp
  PROVE  [Link!Next]_(Link!vars)
<1>1. stack # <<>> /\ \E ok \in BOOLEAN : Continue(ok) BY DEF ReturnOk, GiveUp
<1>2. Popped \/ PieceFailed(line, Tail(stack), FALSE) BY <1>1, ContinueShape
<1>3. CASE Popped
  <2>1. CASE isBusy
    <3>1. Head(stack).sends = MaxSends BY <2>1 DEF ReturnOk, GiveUp
    <3>2. Link!GiveUp BY <1>3, <2>1, <3>1 DEF Link!GiveUp, Popped
    <3>q. QED BY <3>2 DEF Link!Next
  <2>2. CASE ~isBusy BY <1>3, <2>2, Stutters DEF Popped, LinkOK, LinkTypes
  <2>q. QED BY <2>1, <2>2
<1>4. CASE PieceFailed(line, Tail(stack), FALSE)
  <2>1. Write("stop", NoApp, "piece", line, Tail(stack)) BY <1>4 DEF PieceFailed
  <2>2. Tail(stack) \in Seq(Calls) BY <1>1, Popping DEF LinkOK, LinkTypes
  <2>q. QED BY <2>1, <2>2, WriteImplements DEF Commands, Conts
<1>q. QED BY <1>2, <1>3, <1>4

\* The main loop sends only when no call waits, hence when the link is free.
LEMMA IdleImplements ==
  ASSUME LinkOK, Idle, NEW cmd \in Commands, NEW app \in Apps \cup {NoApp}, NEW cont \in Conts,
         Write(cmd, app, cont, line, stack)
  PROVE  Link!Next
<1>1. ~isBusy /\ stack \in Seq(Calls) BY DEF LinkOK, LinkTypes, BusyMatchesCall, Idle
<1>q. QED BY <1>1, WriteImplements

LEMMA StepImplements ==
  ASSUME LinkOK, [Next]_vars
  PROVE  [Link!Next]_(Link!vars)
<1>1. CASE HandlePacket BY <1>1, PacketImplements
<1>2. CASE Resend BY <1>2, ResendImplements DEF Link!Next
<1>3. CASE ReturnOk \/ GiveUp BY <1>3, ReturnImplements
<1>4. ASSUME NEW a \in LanApps, LanControl(a) PROVE Link!Next
  BY <1>4, IdleImplements DEF LanControl, Commands, Conts, Apps
<1>5. ASSUME NEW s \in CloudSources, CloudControl(s) PROVE Link!Next
  <2>1. s.app \in Apps BY Sources DEF Apps
  <2>q. QED BY <1>5, <2>1, IdleImplements DEF CloudControl, Commands, Conts
<1>6. CASE SendStatus BY <1>6, IdleImplements DEF SendStatus, Commands, Conts
<1>7. CASE Ping BY <1>7, IdleImplements DEF Ping, Commands, Conts
<1>8. CASE SendReady BY <1>8, IdleImplements DEF SendReady, Commands, Conts
<1>9. CASE TransferTimeout BY <1>9, IdleImplements DEF TransferTimeout, Commands, Conts
<1>10. CASE DevReset
  <2>1. ~isBusy /\ isBusy \in BOOLEAN BY <1>10 DEF DevReset, LinkOK, LinkTypes, BusyMatchesCall, Idle
  <2>2. isBusy' = FALSE BY <1>10 DEF DevReset
  <2>q. QED BY <2>1, <2>2 DEF Link!vars
<1>11. ASSUME NEW k \in Kinds, McuSend(k) PROVE UNCHANGED Link!vars
  BY <1>11, Stutters DEF McuSend
<1>12. CASE UNCHANGED vars BY <1>12, Stutters DEF vars, linkVars
<1>q. QED
  BY <1>1, <1>2, <1>3, <1>4, <1>5, <1>6, <1>7, <1>8, <1>9, <1>10, <1>11, <1>12
  DEF Next, Controls, Ticks

\* The link keeps the promise of StopAndWait, its fairness apart: one request
\* at a time, at most MaxSends sends, given up only after the last of them, and
\* displaced only by the order to stop a transfer.
THEOREM LinkIsStopAndWait == Spec => Link!SafeSpec
<1>1. Init => Link!Init BY DEF Init, Link!Init
<1>2. IInv /\ [Next]_vars => [Link!Next]_(Link!vars) BY StepImplements DEF IInv
<1>q. QED BY <1>1, <1>2, Invariance, PTL DEF Spec, Link!SafeSpec

=============================================================================
