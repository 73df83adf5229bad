---------------------------- MODULE BigDataProofs ---------------------------
(* Proofs about BigData, for files of any size and any nesting of calls.     *)
EXTENDS BigData, SequenceTheorems, TLAPS

USE BoundAssumption

-----------------------------------------------------------------------------
(* Pieces *)

Numbered(n) == [i \in 1 .. n |-> i]
Zeros(n) == [i \in 1 .. n |-> 0]

InOrder(got) ==
  \E n \in 0 .. Len(got) : got = [i \in 1 .. Len(got) |-> IF i <= n THEN i ELSE 0]

LEMMA NumberedSeq ==
  ASSUME NEW n \in 0 .. MaxPieces
  PROVE  /\ Numbered(n) \in Seq(0 .. MaxPieces) /\ Len(Numbered(n)) = n
         /\ \A i \in 1 .. n : Numbered(n)[i] = i
         /\ InOrder(Numbered(n))
<1>1. n \in Nat /\ \A i \in 1 .. n : i \in 0 .. MaxPieces OBVIOUS
<1>2. Numbered(n) \in Seq(0 .. MaxPieces) /\ Len(Numbered(n)) = n
  BY <1>1 DEF Numbered
<1>3. \A i \in 1 .. n : Numbered(n)[i] = i BY DEF Numbered
<1>4. Numbered(n) = [i \in 1 .. n |-> IF i <= n THEN i ELSE 0] BY <1>1 DEF Numbered
<1>q. QED BY <1>1, <1>2, <1>3, <1>4 DEF InOrder

LEMMA ZerosSeq ==
  ASSUME NEW n \in Nat
  PROVE  /\ Zeros(n) \in Seq(0 .. MaxPieces) /\ Len(Zeros(n)) = n
         /\ \A i \in 1 .. n : Zeros(n)[i] = 0
BY DEF Zeros

\* Garbage after the first n pieces leaves them in order.
LEMMA MadeUp ==
  ASSUME NEW n \in 0 .. MaxPieces, NEW r \in Nat
  PROVE  /\ Numbered(n) \o Zeros(r) \in Seq(0 .. MaxPieces)
         /\ InOrder(Numbered(n) \o Zeros(r))
<1> DEFINE s == Numbered(n) \o Zeros(r)
           g == [i \in 1 .. n + r |-> IF i <= n THEN i ELSE 0]
<1>1. /\ s \in Seq(0 .. MaxPieces) /\ Len(s) = n + r
      /\ \A i \in 1 .. n + r : s[i] = IF i <= n THEN Numbered(n)[i] ELSE Zeros(r)[i - n]
  <2>1. Numbered(n) \in Seq(0 .. MaxPieces) /\ Len(Numbered(n)) = n BY NumberedSeq
  <2>2. Zeros(r) \in Seq(0 .. MaxPieces) /\ Len(Zeros(r)) = r BY ZerosSeq
  <2> DEFINE a == Numbered(n)
             b == Zeros(r)
  <2> HIDE DEF a, b
  <2>3. a \in Seq(0 .. MaxPieces) /\ Len(a) = n /\ b \in Seq(0 .. MaxPieces) /\ Len(b) = r
    BY <2>1, <2>2 DEF a, b
  <2>4. /\ a \o b \in Seq(0 .. MaxPieces) /\ Len(a \o b) = n + r
        /\ \A i \in 1 .. n + r : (a \o b)[i] = IF i <= n THEN a[i] ELSE b[i - n]
    BY <2>3, ConcatProperties
  <2>q. QED BY <2>4 DEF a, b
<1>2. n \in Nat /\ n \in 0 .. n + r OBVIOUS
<1>3. s = [i \in 1 .. Len(s) |-> s[i]]
  <2> HIDE DEF s
  <2>q. QED BY <1>1, LenProperties
<1>4. ASSUME NEW i \in 1 .. n + r PROVE s[i] = IF i <= n THEN i ELSE 0
  <2>1. CASE i <= n
    <3>1. i \in 1 .. n BY <1>2, <2>1
    <3>q. QED BY <1>1, <2>1, <3>1, NumberedSeq
  <2>2. CASE ~(i <= n)
    <3>1. i - n \in 1 .. r BY <1>2, <2>2
    <3>q. QED BY <1>1, <2>2, <3>1, ZerosSeq
  <2>q. QED BY <2>1, <2>2
<1> HIDE DEF s
<1>5. s = [i \in 1 .. Len(s) |-> IF i <= n THEN i ELSE 0] BY <1>1, <1>3, <1>4
<1>q. QED BY <1>1, <1>2, <1>5 DEF InOrder, s

LEMMA NextPiece ==
  ASSUME NEW n \in Nat, n + 1 <= MaxPieces
  PROVE  Numbered(n) \o <<n + 1>> = Numbered(n + 1)
<1> DEFINE s == Numbered(n) \o <<n + 1>>
           t == Numbered(n + 1)
<1>1. n \in 0 .. MaxPieces /\ n + 1 \in 0 .. MaxPieces OBVIOUS
<1>2. <<n + 1>> \in Seq(0 .. MaxPieces) /\ Len(<<n + 1>>) = 1 /\ <<n + 1>>[1] = n + 1
  BY <1>1
<1>3. Numbered(n) \in Seq(0 .. MaxPieces) /\ Len(Numbered(n)) = n BY <1>1, NumberedSeq
<1>4. /\ s \in Seq(0 .. MaxPieces) /\ Len(s) = n + 1
      /\ \A i \in 1 .. n + 1 : s[i] = IF i <= n THEN Numbered(n)[i] ELSE <<n + 1>>[i - n]
  BY <1>2, <1>3, ConcatProperties
<1>5. t \in Seq(0 .. MaxPieces) /\ Len(t) = n + 1 /\ \A i \in 1 .. n + 1 : t[i] = i
  BY <1>1, NumberedSeq
<1>6. ASSUME NEW i \in 1 .. n + 1 PROVE s[i] = t[i]
  <2>1. CASE i <= n
    <3>1. i \in 1 .. n BY <2>1
    <3>q. QED BY <1>1, <1>4, <1>5, <2>1, <3>1, NumberedSeq
  <2>2. CASE ~(i <= n)
    <3>1. i = n + 1 /\ i - n = 1 BY <2>2
    <3>q. QED BY <1>2, <1>4, <1>5, <2>2, <3>1
  <2>q. QED BY <2>1, <2>2
<1> HIDE DEF s, t
<1>7. s = t BY <1>4, <1>5, <1>6, SeqEqual
<1>q. QED BY <1>7 DEF s, t

-----------------------------------------------------------------------------
(* What is written to the broker *)

Streams == [owed : 0 .. MaxPieces, got : Seq(0 .. MaxPieces), torn : BOOLEAN, blame : Blames]

\* The transfer is one the code is made for, and the broker is there to see it.
Sound(s) == cloud = "up" /\ s.blame = "none"

\* The broker has its place; outside a sound transfer it waits for nothing.
StreamOK(s) == /\ s \in Streams /\ ~s.torn /\ InOrder(s.got)
               /\ ~Sound(s) => s.owed = 0 /\ s.got = <<>>

\* An open packet lacks what the open transfer has still to pass on.
Matches(f, s) ==
  IF f.using /\ f.lastpiece > 0
  THEN s.owed = f.totalsize - f.recvsize /\ s.got = Numbered(f.lastpiece)
  ELSE s.owed = 0

LEMMA EmptyInOrder == InOrder(<<>>) /\ <<>> \in Seq(0 .. MaxPieces)
<1>1. <<>> = Numbered(0) BY DEF Numbered
<1>2. 0 \in 0 .. MaxPieces OBVIOUS
<1>q. QED BY <1>1, <1>2, NumberedSeq

LEMMA FreshOK == StreamOK(Fresh) /\ Fresh.owed = 0
BY EmptyInOrder DEF StreamOK, Streams, Fresh, Blames

\* Once something is blamed nothing more is said of the stream.
LEMMA BlamedOK ==
  ASSUME NEW s, StreamOK(s), NEW why \in Blames \ {"none"}
  PROVE  StreamOK(Blamed(s, why)) /\ Blamed(s, why).blame # "none"
<1>1. CASE s.blame = "none"
  <2>1. Blamed(s, why) = [s EXCEPT !.torn = FALSE, !.owed = 0, !.got = <<>>, !.blame = why]
    BY <1>1 DEF Blamed, Torn, StreamOK, Streams
  <2> DEFINE t == [s EXCEPT !.torn = FALSE, !.owed = 0, !.got = <<>>, !.blame = why]
  <2>2. 0 \in 0 .. MaxPieces /\ s \in Streams BY DEF StreamOK
  <2>3. t \in Streams BY <2>2, EmptyInOrder DEF Streams
  <2>4. ~t.torn /\ t.owed = 0 /\ t.got = <<>> /\ t.blame = why BY <2>2 DEF Streams
  <2>q. QED BY <2>1, <2>3, <2>4, EmptyInOrder DEF StreamOK
<1>2. CASE s.blame # "none" BY <1>2 DEF Blamed
<1>q. QED BY <1>1, <1>2

LEMMA PacketOK ==
  ASSUME NEW s, StreamOK(s), s.owed = 0
  PROVE  Packet(s) = s
BY DEF Packet, StreamOK, Streams

LEMMA UnsoundWrites ==
  ASSUME NEW s, StreamOK(s), ~Sound(s)
  PROVE  /\ \A n, what : Publish(s, n, what) = s
         /\ \A what : Raw(s, what) = s
         /\ \A f : Garbage(f, s) = s
         /\ Packet(s) = s
BY DEF Publish, Raw, Garbage, Packet, Sound

LEMMA PublishOK ==
  ASSUME NEW s, StreamOK(s), Sound(s), s.owed = 0, NEW n \in Pieces
  PROVE  LET t == Publish(s, n, <<1>>)
         IN StreamOK(t) /\ t.blame = "none" /\ t.owed = n - 1 /\ t.got = Numbered(1)
<1> DEFINE t == [s EXCEPT !.owed = n - 1, !.got = <<1>>]
<1>1. Publish(s, n, <<1>>) = t BY DEF Publish, Sound, Pieces
<1>2. <<1>> = Numbered(1) BY DEF Numbered
<1>3. 1 \in 0 .. MaxPieces /\ n - 1 \in 0 .. MaxPieces BY DEF Pieces
<1>4. InOrder(<<1>>) /\ <<1>> \in Seq(0 .. MaxPieces) BY <1>2, <1>3, NumberedSeq
<1>5. /\ t \in Streams /\ ~t.torn /\ t.got = <<1>> /\ t.owed = n - 1 /\ t.blame = "none"
  BY <1>3, <1>4 DEF StreamOK, Streams, Sound
<1>6. StreamOK(t) BY <1>4, <1>5 DEF StreamOK, Sound
<1>q. QED BY <1>1, <1>2, <1>5, <1>6

LEMMA RawOK ==
  ASSUME NEW s, StreamOK(s), Sound(s), NEW n \in Nat, n + 1 <= MaxPieces,
         s.got = Numbered(n), s.owed > 0
  PROVE  LET t == Raw(s, <<n + 1>>)
         IN StreamOK(t) /\ t.blame = "none" /\ t.owed = s.owed - 1 /\ t.got = Numbered(n + 1)
<1> DEFINE t == [s EXCEPT !.owed = @ - 1, !.got = @ \o <<n + 1>>]
<1>0. Len(<<n + 1>>) = 1 /\ s.owed \in Nat /\ s.owed - 1 \in 0 .. MaxPieces /\ n + 1 \in 0 .. MaxPieces
  BY DEF StreamOK, Streams
<1>1. Raw(s, <<n + 1>>) = t BY <1>0 DEF Raw, Sound
<1>2. s.got \o <<n + 1>> = Numbered(n + 1) BY NextPiece
<1>3. Numbered(n + 1) \in Seq(0 .. MaxPieces) /\ InOrder(Numbered(n + 1)) BY <1>0, NumberedSeq
<1>4. /\ t \in Streams /\ ~t.torn /\ t.got = Numbered(n + 1) /\ t.owed = s.owed - 1
      /\ t.blame = "none"
  BY <1>0, <1>2, <1>3 DEF StreamOK, Streams, Sound
<1>5. StreamOK(t) BY <1>3, <1>4 DEF StreamOK, Sound
<1>q. QED BY <1>1, <1>4, <1>5

\* Making up a transfer closes its packet.
LEMMA GarbageOK ==
  ASSUME NEW f \in Files, NEW s, StreamOK(s), Matches(f, s),
         f.data => f.using /\ f.lastpiece > 0 /\ f.lastpiece <= MaxPieces /\ f.recvsize <= f.totalsize,
         f.using /\ f.lastpiece > 0 => f.data
  PROVE  LET t == Garbage(f, s)
         IN StreamOK(t) /\ t.blame = s.blame /\ t.owed = 0
<1>1. CASE ~Sound(s) BY <1>1, UnsoundWrites DEF StreamOK
<1>2. CASE ~f.data BY <1>2 DEF Garbage, Matches
<1>3. CASE Sound(s) /\ f.data
  <2> DEFINE r == Remain(f)
             t == [s EXCEPT !.owed = 0, !.got = @ \o Zeros(r)]
  <2>1. s.owed = r /\ r \in Nat /\ s.got = Numbered(f.lastpiece)
    BY <1>3 DEF Matches, Remain, Files
  <2>2. Len(Zeros(r)) = r BY <2>1, ZerosSeq
  <2> HIDE DEF r
  <2>3. Garbage(f, s) = Raw(s, Zeros(r)) BY <1>3 DEF Garbage, Zeros, r
  <2>4. Raw(s, Zeros(r)) = t
    <3>1. s.owed - Len(Zeros(r)) = 0 /\ ~(s.owed < Len(Zeros(r))) BY <2>1, <2>2
    <3>q. QED BY <1>3, <2>2, <3>1 DEF Raw, Sound
  <2>5. f.lastpiece \in 0 .. MaxPieces BY <1>3 DEF Files
  <2>6. s.got \o Zeros(r) \in Seq(0 .. MaxPieces) /\ InOrder(s.got \o Zeros(r))
    BY <2>1, <2>5, MadeUp
  <2>7. t \in Streams /\ ~t.torn /\ t.got = s.got \o Zeros(r) /\ t.owed = 0 /\ t.blame = s.blame
    <3> DEFINE g == s.got \o Zeros(r)
    <3>1. s \in Streams /\ ~s.torn /\ 0 \in 0 .. MaxPieces /\ g \in Seq(0 .. MaxPieces)
      BY <2>6 DEF StreamOK
    <3>2. t = [s EXCEPT !.owed = 0, !.got = g] OBVIOUS
    <3> HIDE DEF t, g
    <3>q. QED BY <3>1, <3>2 DEF Streams, g
  <2>8. StreamOK(t) BY <1>3, <2>6, <2>7 DEF StreamOK, Sound
  <2>q. QED BY <2>3, <2>4, <2>7, <2>8
<1>q. QED BY <1>1, <1>2, <1>3

-----------------------------------------------------------------------------
(* The calls that wait *)

Conts == {"ready", "control", "tail", "last", "stray"}

Has(st, cont) == \E i \in 1 .. Len(st) : st[i] = cont

\* READY is sent by the main loop only.
ReadyBelow(st) == \A i \in 1 .. Len(st) : st[i] = "ready" => i = Len(st)

StackOK(st) == st \in Seq(Conts) /\ Len(st) <= MaxDepth /\ ReadyBelow(st)

LEMMA EmptyStack == StackOK(<<>>) /\ \A c : ~Has(<<>>, c)
<1>1. <<>> \in Seq(Conts) /\ Len(<<>>) = 0 /\ 1 .. 0 = {} BY EmptySeq
<1>q. QED BY <1>1 DEF StackOK, ReadyBelow, Has

LEMMA PushedStack ==
  ASSUME NEW st, StackOK(st), Len(st) < MaxDepth, NEW c \in Conts, c # "ready" \/ st = <<>>
  PROVE  LET new == <<c>> \o st
         IN /\ StackOK(new) /\ new # <<>> /\ Head(new) = c
            /\ \A x : Has(new, x) => x = c \/ Has(st, x)
<1> DEFINE new == <<c>> \o st
<1>1. <<c>> \in Seq(Conts) /\ Len(<<c>>) = 1 /\ <<c>>[1] = c /\ st \in Seq(Conts) BY DEF StackOK
<1>2. Len(st) \in Nat BY <1>1, LenProperties
<1>3. /\ new \in Seq(Conts) /\ Len(new) = 1 + Len(st)
      /\ \A i \in 1 .. 1 + Len(st) : new[i] = IF i <= 1 THEN <<c>>[i] ELSE st[i - 1]
  BY <1>1, ConcatProperties
<1> HIDE DEF new
<1>4. new # <<>> /\ Head(new) = new[1] BY <1>2, <1>3, HeadTailProperties, EmptySeq
<1>5. new[1] = c BY <1>1, <1>2, <1>3
<1>6. ASSUME NEW i \in 1 .. Len(new), i # 1 PROVE i - 1 \in 1 .. Len(st) /\ new[i] = st[i - 1]
  BY <1>2, <1>3, <1>6
<1>7. ASSUME NEW i \in 1 .. Len(new), new[i] = "ready" PROVE i = Len(new)
  <2>1. CASE i = 1
    <3>1. Len(st) = 0 BY <1>5, <1>7, <2>1, EmptySeq
    <3>q. QED BY <1>3, <2>1, <3>1
  <2>2. CASE i # 1
    <3>1. i - 1 \in 1 .. Len(st) /\ st[i - 1] = "ready" BY <1>6, <1>7, <2>2
    <3>2. i - 1 = Len(st) BY <3>1 DEF StackOK, ReadyBelow
    <3>q. QED BY <1>2, <1>3, <3>2
  <2>q. QED BY <2>1, <2>2
<1>8. ASSUME NEW x, Has(new, x) PROVE x = c \/ Has(st, x)
  BY <1>5, <1>6, <1>8 DEF Has
<1>9. Len(new) <= MaxDepth BY <1>2, <1>3
<1>10. StackOK(new) BY <1>3, <1>7, <1>9 DEF StackOK, ReadyBelow
<1>q. QED BY <1>4, <1>5, <1>8, <1>10 DEF new

LEMMA PoppedStack ==
  ASSUME NEW st, StackOK(st), st # <<>>
  PROVE  /\ StackOK(Tail(st)) /\ Head(st) \in Conts /\ Has(st, Head(st))
         /\ \A x : Has(Tail(st), x) => Has(st, x)
         /\ Head(st) = "ready" => Tail(st) = <<>>
         /\ Head(st) = "ready" => \A x : Has(st, x) => x = "ready"
<1> DEFINE t == Tail(st)
<1>1. st \in Seq(Conts) /\ Len(st) \in Nat \ {0} BY LenProperties, EmptySeq DEF StackOK
<1>2. /\ Head(st) = st[1] /\ Head(st) \in Conts
      /\ t \in Seq(Conts) /\ Len(t) = Len(st) - 1
      /\ \A i \in 1 .. Len(t) : t[i] = st[i + 1]
  BY <1>1, HeadTailProperties
<1> HIDE DEF t
<1>3. 1 \in 1 .. Len(st) /\ \A i \in 1 .. Len(t) : i + 1 \in 1 .. Len(st) BY <1>1, <1>2
<1>4. Has(st, Head(st)) BY <1>2, <1>3 DEF Has
<1>5. ASSUME NEW x, Has(t, x) PROVE Has(st, x)
  <2>1. PICK i \in 1 .. Len(t) : t[i] = x BY <1>5 DEF Has
  <2>2. i + 1 \in 1 .. Len(st) /\ st[i + 1] = x BY <1>2, <1>3, <2>1
  <2>q. QED BY <2>2 DEF Has
<1>6. ASSUME NEW i \in 1 .. Len(t), t[i] = "ready" PROVE i = Len(t)
  <2>1. i + 1 \in 1 .. Len(st) /\ st[i + 1] = "ready" BY <1>2, <1>3, <1>6
  <2>2. i + 1 = Len(st) BY <2>1 DEF StackOK, ReadyBelow
  <2>q. QED BY <1>2, <2>2
<1>7. Len(t) <= MaxDepth BY <1>1, <1>2 DEF StackOK
<1>8. StackOK(t) BY <1>2, <1>6, <1>7 DEF StackOK, ReadyBelow
<1>9. ASSUME Head(st) = "ready" PROVE t = <<>> /\ \A x : Has(st, x) => x = "ready"
  <2>1. Len(st) = 1 BY <1>2, <1>3, <1>9 DEF StackOK, ReadyBelow
  <2>2. t = <<>> BY <1>2, <2>1, EmptySeq
  <2>3. \A i \in 1 .. Len(st) : st[i] = "ready" BY <1>2, <1>9, <2>1
  <2>q. QED BY <2>2, <2>3 DEF Has
<1>q. QED BY <1>2, <1>4, <1>5, <1>8, <1>9 DEF t

\* The request that is waited for is the innermost call's; READY is never
\* awaited by another.
LinkOK == /\ StackOK(stack)
          /\ isBusy \in BOOLEAN /\ (isBusy => stack # <<>>)
          /\ awaited \in {"none", "ctrl", "ready", "stop"} /\ readySent \in BOOLEAN
          /\ isBusy /\ awaited = "ready" => Head(stack) = "ready"

LEMMA WriteLink ==
  ASSUME LinkOK, NEW cmd \in {"ctrl", "ready", "stop"}, NEW cont \in Conts, NEW st, StackOK(st),
         Write(cmd, cont, st), cont = "ready" <=> cmd = "ready", cont = "ready" => st = <<>>
  PROVE  /\ LinkOK' /\ isBusy' = TRUE /\ Head(stack') = cont
         /\ \A x : Has(stack', x) => x = cont \/ Has(st, x)
<1>1. stack' = <<cont>> \o st /\ Len(st) < MaxDepth /\ isBusy' = TRUE /\ awaited' = cmd
      /\ readySent' = (readySent \/ cmd = "ready")
  BY DEF Write
<1>2. /\ StackOK(stack') /\ stack' # <<>> /\ Head(stack') = cont
      /\ \A x : Has(stack', x) => x = cont \/ Has(st, x)
  BY <1>1, PushedStack
<1>3. readySent' \in BOOLEAN BY <1>1 DEF LinkOK
<1>4. LinkOK' BY <1>1, <1>2, <1>3 DEF LinkOK
<1>q. QED BY <1>1, <1>2, <1>4

LEMMA PoppedLink ==
  ASSUME LinkOK, stack # <<>>, Popped
  PROVE  LinkOK' /\ stack' = Tail(stack) /\ isBusy' = FALSE
BY PoppedStack DEF Popped, LinkOK

-----------------------------------------------------------------------------
(* The transfer *)

\* What resetfile, parsefileinfo and the pieces leave behind, sound or not.
FileOK(f) == /\ f \in Files
             /\ ~f.using => f.totalsize \in {0, asked}
             /\ ~f.data => f.lastpiece = 0 /\ f.recvsize = 0

\* A transfer that is open counts what it has passed on, and has not passed on
\* the last piece; without one there is nothing to make up.
GoodFile(f) ==
  IF f.using THEN /\ f.totalsize = asked /\ f.lastpiece < asked
                  /\ f.recvsize = f.lastpiece /\ (f.data <=> f.lastpiece > 0)
             ELSE ~f.data

\* While a transfer is open no READY is due or being waited for.
GoodCalls ==
  /\ ~Has(stack, "stray")
  /\ readyFlag => ~Has(stack, "ready")
  /\ file.using => /\ ~readyFlag /\ ~Has(stack, "last")
                   /\ ~(isBusy /\ Head(stack) = "ready")

OpenOK == Sound(stream) => GoodFile(file) /\ GoodCalls /\ Matches(file, stream)

RestOK == /\ readyFlag \in BOOLEAN /\ rx \in 0 .. MaxPieces /\ rxCloud \in BOOLEAN
          /\ asked \in 0 .. MaxPieces /\ cloud \in {"up", "dead", "down"}

IInv == LinkOK /\ FileOK(file) /\ RestOK /\ StreamOK(stream) /\ OpenOK

LEMMA NoFileOK == FileOK(NoFile) /\ GoodFile(NoFile) /\ \A s : Matches(NoFile, s) <=> s.owed = 0
<1>1. 0 \in 0 .. MaxPieces /\ 0 \in 0 .. MaxPieces + 1 OBVIOUS
<1>q. QED BY <1>1 DEF FileOK, GoodFile, Matches, NoFile, Files

LEMMA GarbageCloses ==
  ASSUME IInv
  PROVE  LET t == Garbage(file, stream)
         IN StreamOK(t) /\ t.blame = stream.blame /\ t.owed = 0
<1>1. CASE ~Sound(stream) BY <1>1, UnsoundWrites DEF IInv, StreamOK
<1>2. CASE Sound(stream)
  <2>1. GoodFile(file) /\ Matches(file, stream) /\ file \in Files /\ asked \in 0 .. MaxPieces
    BY <1>2 DEF IInv, OpenOK, FileOK, RestOK
  <2>2. file.lastpiece \in Nat /\ file.totalsize \in Nat /\ file.recvsize \in Nat BY <2>1 DEF Files
  <2>3. file.data => /\ file.using /\ file.lastpiece > 0 /\ file.lastpiece <= MaxPieces
                     /\ file.recvsize <= file.totalsize
    BY <2>1, <2>2 DEF GoodFile
  <2>4. file.using /\ file.lastpiece > 0 => file.data BY <2>1 DEF GoodFile
  <2>q. QED BY <2>1, <2>3, <2>4, GarbageOK DEF IInv
<1>q. QED BY <1>1, <1>2

LEMMA DealLink ==
  ASSUME LinkOK, NEW st, StackOK(st), NEW busy \in BOOLEAN,
         (st = stack /\ busy = isBusy) \/ busy = FALSE,
         NEW k, NEW last, NEW s, DealPiece(k, last, s, st, busy)
  PROVE  /\ LinkOK' /\ rxCloud' \in BOOLEAN
         /\ \A x : Has(stack', x) => x \in {"tail", "last"} \/ Has(st, x)
         /\ isBusy' /\ Head(stack') = "ready" => busy /\ st = stack
         /\ ~Failed(k, [file EXCEPT !.data = TRUE]) => stack' = st /\ isBusy' = busy
<1> DEFINE cont == IF last THEN "last" ELSE "tail"
<1>1. rxCloud' \in BOOLEAN BY DEF DealPiece
<1>2. CASE Failed(k, [file EXCEPT !.data = TRUE]) /\ ~busy
  <2>1. Write("stop", cont, st) BY <1>2 DEF DealPiece
  <2>2. cont \in Conts /\ cont \in {"tail", "last"} BY DEF Conts
  <2> HIDE DEF cont
  <2>3. /\ LinkOK' /\ isBusy' = TRUE /\ Head(stack') = cont
        /\ \A x : Has(stack', x) => x = cont \/ Has(st, x)
    BY <2>1, <2>2, WriteLink
  <2>q. QED BY <1>1, <1>2, <2>2, <2>3
<1>3. CASE Failed(k, [file EXCEPT !.data = TRUE]) /\ busy
  <2>1. stack' = st /\ isBusy' = TRUE /\ UNCHANGED <<awaited, readySent>> BY <1>3 DEF DealPiece
  <2>2. st = stack /\ isBusy = TRUE BY <1>3
  <2>q. QED BY <1>1, <1>3, <2>1, <2>2 DEF LinkOK
<1>4. CASE ~Failed(k, [file EXCEPT !.data = TRUE])
  <2>1. stack' = st /\ isBusy' = busy /\ UNCHANGED <<awaited, readySent>> BY <1>4 DEF DealPiece
  <2>2. CASE st = stack /\ busy = isBusy BY <1>1, <1>4, <2>1, <2>2 DEF LinkOK
  <2>3. CASE busy = FALSE BY <1>1, <1>4, <2>1, <2>3 DEF LinkOK
  <2>q. QED BY <2>2, <2>3
<1>q. QED BY <1>2, <1>3, <1>4

LEMMA PassedOK ==
  ASSUME NEW f, FileOK(f), f.data, NEW k \in 0 .. MaxPieces + 1
  PROVE  FileOK(Passed(k, f))
<1> DEFINE n == IF f.recvsize < MaxPieces THEN f.recvsize + 1 ELSE f.recvsize
           g == [f EXCEPT !.recvsize = n, !.lastpiece = k]
<1>1. f \in Files /\ n \in 0 .. MaxPieces BY DEF FileOK, Files
<1>2. Passed(k, f) = g BY DEF Passed
<1> HIDE DEF n
<1>3. g \in Files /\ g.using = f.using /\ g.totalsize = f.totalsize /\ g.data = f.data
  BY <1>1 DEF Files
<1>q. QED BY <1>2, <1>3 DEF FileOK

\* A piece leaves a file of the right kind, whatever piece it is.
LEMMA DealFile ==
  ASSUME FileOK(file), NEW k \in 0 .. MaxPieces + 1, NEW last, NEW s, NEW st, NEW busy,
         DealPiece(k, last, s, st, busy), UNCHANGED asked
  PROVE  FileOK(file)'
<1> DEFINE f == [file EXCEPT !.data = TRUE]
<1>1. FileOK(f) /\ f.data BY DEF FileOK, Files
<1>2. file' \in {NoFile, Synced(k, f, s).file} BY DEF DealPiece
<1> HIDE DEF f
<1>3. Synced(k, f, s).file \in {f, Passed(k, f)} BY DEF Synced
<1>4. FileOK(file') BY <1>1, <1>2, <1>3, NoFileOK, PassedOK
<1>q. QED BY <1>4 DEF FileOK

LEMMA DealUnsound ==
  ASSUME NEW k, NEW last, NEW s, NEW st, NEW busy, StreamOK(s), ~Sound(s),
         DealPiece(k, last, s, st, busy)
  PROVE  stream' = s
<1> DEFINE f == [file EXCEPT !.data = TRUE]
<1>1. stream' \in {Garbage(f, s), Synced(k, f, s).stream} BY DEF DealPiece
<1> HIDE DEF f
<1>2. Synced(k, f, s).stream = s BY UnsoundWrites DEF Synced
<1>q. QED BY <1>1, <1>2, UnsoundWrites

-----------------------------------------------------------------------------
(* The steps *)

\* As long as the connection does not change, the stream is what it is.
LEMMA StreamKeptOK ==
  ASSUME StreamOK(stream'), UNCHANGED cloud
  PROVE  StreamOK(stream)' /\ (Sound(stream)' <=> Sound(stream'))
BY DEF StreamOK, Sound

LEMMA UnsoundOpen ==
  ASSUME ~Sound(stream)'
  PROVE  OpenOK'
BY DEF OpenOK

\* A piece in its place in a sound transfer: the first one opens the packet,
\* the last one closes it, and one out of place ends the transfer, made up.
LEMMA SoundPiece ==
  ASSUME IInv, Sound(stream), file.using, NEW k \in Pieces, k <= asked,
         k = 1 <=> file.lastpiece = 0,
         DealPiece(k, k = asked, stream, stack, isBusy), UNCHANGED <<asked, cloud>>
  PROVE  /\ StreamOK(stream') /\ GoodFile(file)' /\ Matches(file', stream')
         /\ file'.using => ~Failed(k, [file EXCEPT !.data = TRUE])
<1> DEFINE f == [file EXCEPT !.data = TRUE]
           n == file.lastpiece
<1>0. /\ file \in Files /\ StreamOK(stream) /\ GoodFile(file) /\ Matches(file, stream)
      /\ k \in Nat \ {0} /\ n \in Nat /\ asked \in Nat /\ asked <= MaxPieces
      /\ file.totalsize = asked /\ n < asked /\ file.recvsize = n /\ cloud = "up"
  BY DEF IInv, FileOK, OpenOK, GoodFile, RestOK, Files, Pieces, Sound
<1>1. /\ f \in Files /\ f.using /\ f.lastpiece = n /\ f.recvsize = n /\ f.totalsize = asked
      /\ f.data = TRUE
  BY <1>0 DEF Files
<1>2. (n > 0 => Matches(f, stream)) /\ (n > 0 => f = file)
  <2>1. n > 0 => file.data = TRUE BY <1>0 DEF GoodFile, Files
  <2>2. n > 0 => f = file BY <1>0, <2>1 DEF Files
  <2>q. QED BY <1>0, <2>2
<1> HIDE DEF f
<1>d. /\ IF Failed(k, f) THEN stream' = Garbage(f, stream) /\ file' = NoFile
         ELSE /\ stream' = Synced(k, f, stream).stream
              /\ file' = IF k = asked THEN NoFile ELSE Synced(k, f, stream).file
  BY DEF DealPiece, f
<1>n. \A s : Matches(NoFile, s) <=> s.owed = 0 BY NoFileOK
<1>g. GoodFile(NoFile)' /\ NoFile.using = FALSE BY DEF GoodFile, NoFile
<1>3. CASE k = 1
  <2>1. ~Failed(k, f) BY <1>0, <1>3 DEF Failed
  <2> DEFINE t == Publish(stream, asked, <<1>>)
             g == [f EXCEPT !.recvsize = 1, !.lastpiece = 1]
  <2>2. n = 0 /\ stream.owed = 0 /\ asked \in Pieces
    BY <1>0, <1>3 DEF Matches, Pieces
  <2>3. StreamOK(t) /\ t.blame = "none" /\ t.owed = asked - 1 /\ t.got = Numbered(1)
    BY <1>0, <2>2, PublishOK
  <2>4. Synced(k, f, stream).stream = t BY <1>1, <1>3 DEF Synced
  <2>5. Synced(k, f, stream).file = g
    <3>1. 0 < MaxPieces /\ 0 + 1 = 1 BY <1>0, <2>2
    <3>2. Passed(1, f) = g BY <1>1, <2>2, <3>1 DEF Passed
    <3>q. QED BY <1>3, <3>2 DEF Synced
  <2>6. g.using /\ g.lastpiece = 1 /\ g.recvsize = 1 /\ g.totalsize = asked /\ g.data
    BY <1>1 DEF Files
  <2> HIDE DEF t, g
  <2>7. CASE k = asked BY <1>d, <1>n, <1>g, <1>3, <2>1, <2>3, <2>4, <2>7
  <2>8. CASE k # asked
    <3>1. file' = g /\ stream' = t BY <1>d, <2>1, <2>4, <2>5, <2>8
    <3>2. 1 < asked BY <1>0, <1>3, <2>8
    <3>3. GoodFile(file)' BY <2>6, <3>1, <3>2 DEF GoodFile
    <3>4. Matches(file', stream') BY <2>3, <2>6, <3>1 DEF Matches
    <3>q. QED BY <2>1, <2>3, <3>1, <3>3, <3>4 DEF f
  <2>q. QED BY <2>7, <2>8
<1>4. CASE k # 1 /\ k = n
  <2>1. ~Failed(k, f) BY <1>1, <1>4 DEF Failed
  <2>2. Synced(k, f, stream).stream = stream /\ Synced(k, f, stream).file = f
    BY <1>1, <1>4 DEF Synced
  <2>3. k # asked /\ f = file BY <1>0, <1>2, <1>4
  <2>4. file' = file /\ stream' = stream BY <1>d, <2>1, <2>2, <2>3
  <2>5. GoodFile(file)' BY <1>0, <2>4 DEF GoodFile
  <2>q. QED BY <1>0, <2>1, <2>4, <2>5 DEF f
<1>5. CASE k # 1 /\ k = n + 1
  <2>1. ~Failed(k, f) BY <1>0, <1>1, <1>5 DEF Failed, InSequence
  <2> DEFINE t == Raw(stream, <<n + 1>>)
             g == [f EXCEPT !.recvsize = n + 1, !.lastpiece = n + 1]
  <2>2. n > 0 /\ n + 1 <= MaxPieces /\ n < MaxPieces /\ k # n BY <1>0, <1>5
  <2>3. stream.owed = asked - n /\ stream.got = Numbered(n) /\ stream.owed > 0
    BY <1>0, <2>2 DEF Matches
  <2>4. StreamOK(t) /\ t.blame = "none" /\ t.owed = stream.owed - 1 /\ t.got = Numbered(n + 1)
    BY <1>0, <2>2, <2>3, RawOK
  <2>5. Synced(k, f, stream).stream = t BY <1>1, <1>5, <2>2 DEF Synced
  <2>6. Synced(k, f, stream).file = g
    <3>1. Passed(k, f) = g BY <1>1, <1>5, <2>2 DEF Passed
    <3>q. QED BY <1>1, <1>5, <2>2, <3>1 DEF Synced
  <2>7. g.using /\ g.lastpiece = n + 1 /\ g.recvsize = n + 1 /\ g.totalsize = asked /\ g.data
    BY <1>1 DEF Files
  <2> HIDE DEF t, g
  <2>8. CASE k = asked
    <3>1. t.owed = 0 BY <1>0, <1>5, <2>3, <2>4, <2>8
    <3>q. QED BY <1>d, <1>n, <1>g, <2>1, <2>4, <2>5, <2>8, <3>1
  <2>9. CASE k # asked
    <3>1. file' = g /\ stream' = t BY <1>d, <2>1, <2>5, <2>6, <2>9
    <3>2. n + 1 < asked /\ n + 1 > 0 BY <1>0, <1>5, <2>9
    <3>3. GoodFile(file)' BY <2>7, <3>1, <3>2 DEF GoodFile
    <3>4. t.owed = asked - (n + 1) BY <1>0, <2>3, <2>4
    <3>5. Matches(file', stream') BY <2>4, <2>7, <3>1, <3>2, <3>4 DEF Matches
    <3>q. QED BY <2>1, <2>4, <3>1, <3>3, <3>5 DEF f
  <2>q. QED BY <2>8, <2>9
<1>6. CASE k # 1 /\ k # n /\ k # n + 1
  <2>1. Failed(k, f) BY <1>1, <1>6 DEF Failed, InSequence
  <2>2. n > 0 BY <1>0, <1>6
  <2>3. f = file BY <1>2, <2>2
  <2>4. StreamOK(Garbage(file, stream)) /\ Garbage(file, stream).owed = 0 BY GarbageCloses
  <2>q. QED BY <1>d, <1>n, <1>g, <2>1, <2>3, <2>4
<1>q. QED BY <1>3, <1>4, <1>5, <1>6

LEMMA ExpectedOK ==
  ASSUME IInv, NEW k
  PROVE  LET s == Expected(k, stream)
         IN /\ StreamOK(s)
            /\ Sound(s) => /\ Sound(stream) /\ s = stream
                           /\ k = 1 <=> file.lastpiece = 0
<1>1. StreamOK(stream) BY DEF IInv
<1>2. CASE k = 1 /\ file.lastpiece # 0
  <2>1. Expected(k, stream) = Blamed(stream, "again") BY <1>2 DEF Expected
  <2>2. StreamOK(Blamed(stream, "again")) /\ Blamed(stream, "again").blame # "none"
    BY <1>1, BlamedOK DEF Blames
  <2>q. QED BY <2>1, <2>2 DEF Sound
<1>3. CASE k # 1 /\ file.lastpiece = 0
  <2>1. Expected(k, stream) = Blamed(stream, "headless") BY <1>3 DEF Expected
  <2>2. StreamOK(Blamed(stream, "headless")) /\ Blamed(stream, "headless").blame # "none"
    BY <1>1, BlamedOK DEF Blames
  <2>q. QED BY <2>1, <2>2 DEF Sound
<1>4. CASE k = 1 <=> file.lastpiece = 0
  <2>1. Expected(k, stream) = stream BY <1>4 DEF Expected
  <2>q. QED BY <1>1, <1>4, <2>1
<1>q. QED BY <1>2, <1>3, <1>4

LEMMA PieceStep ==
  ASSUME IInv, NEW k \in Pieces, HandlePiece(k)
  PROVE  IInv'
<1> DEFINE s == Expected(k, stream)
<1>0. /\ DealPiece(k, k = asked, s, stack, isBusy) /\ UNCHANGED <<readyFlag, asked, cloud>>
      /\ file.using /\ k <= asked /\ rx' = k
  BY DEF HandlePiece
<1>1. LinkOK /\ StackOK(stack) /\ isBusy \in BOOLEAN /\ FileOK(file) BY DEF IInv, LinkOK
<1>2. /\ StreamOK(s)
      /\ Sound(s) => Sound(stream) /\ s = stream /\ (k = 1 <=> file.lastpiece = 0)
  BY ExpectedOK
<1> HIDE DEF s
<1>3. /\ LinkOK' /\ rxCloud' \in BOOLEAN
      /\ \A x : Has(stack', x) => x \in {"tail", "last"} \/ Has(stack, x)
      /\ ~Failed(k, [file EXCEPT !.data = TRUE]) => stack' = stack /\ isBusy' = isBusy
  BY <1>0, <1>1, DealLink
<1>4. FileOK(file)'
  <2>1. k \in 0 .. MaxPieces + 1 BY DEF Pieces
  <2>q. QED BY <1>0, <1>1, <2>1, DealFile
<1>5. RestOK' BY <1>0, <1>3 DEF IInv, RestOK, Pieces
<1>6. CASE ~Sound(s)
  <2>1. stream' = s BY <1>0, <1>2, <1>6, DealUnsound
  <2>2. StreamOK(stream)' /\ ~Sound(stream)' BY <1>0, <1>2, <1>6, <2>1, StreamKeptOK
  <2>q. QED BY <1>3, <1>4, <1>5, <2>2, UnsoundOpen DEF IInv
<1>7. CASE Sound(s)
  <2>1. Sound(stream) /\ s = stream /\ (k = 1 <=> file.lastpiece = 0) BY <1>2, <1>7
  <2>2. /\ StreamOK(stream') /\ GoodFile(file)' /\ Matches(file', stream')
        /\ file'.using => ~Failed(k, [file EXCEPT !.data = TRUE])
    BY <1>0, <2>1, SoundPiece
  <2>3. StreamOK(stream)' BY <1>0, <2>2, StreamKeptOK
  <2>4. GoodCalls /\ ~readyFlag BY <1>0, <2>1 DEF IInv, OpenOK, GoodCalls
  <2>5. GoodCalls'
    <3>1. ~Has(stack', "stray") BY <1>3, <2>4 DEF GoodCalls
    <3>2. ~readyFlag' BY <1>0, <2>4
    <3>3. file'.using => ~Has(stack', "last") /\ ~(isBusy' /\ Head(stack') = "ready")
      BY <1>0, <1>3, <2>2, <2>4 DEF GoodCalls
    <3>q. QED BY <3>1, <3>2, <3>3 DEF GoodCalls
  <2>6. OpenOK' BY <2>2, <2>5 DEF OpenOK
  <2>q. QED BY <1>3, <1>4, <1>5, <2>3, <2>6 DEF IInv
<1>q. QED BY <1>6, <1>7

\* Something outside the transfer's making: the stream is blamed.
LEMMA BlamedOpen ==
  ASSUME StreamOK(stream), NEW why \in Blames \ {"none"}, stream' = Blamed(stream, why), UNCHANGED cloud
  PROVE  StreamOK(stream)' /\ OpenOK'
<1>1. StreamOK(stream') /\ stream'.blame # "none" BY BlamedOK
<1>2. ~Sound(stream)' BY <1>1 DEF Sound
<1>q. QED BY <1>1, <1>2, StreamKeptOK, UnsoundOpen

LEMMA StrayPieceStep ==
  ASSUME IInv, NEW k \in Pieces, HandleStrayPiece(k)
  PROVE  IInv'
<1>1. /\ Write("stop", "stray", stack) /\ rx' = k /\ stream' = Blamed(stream, "stray")
      /\ UNCHANGED <<file, readyFlag, rxCloud, asked, cloud>>
  BY DEF HandleStrayPiece
<1>2. LinkOK' BY <1>1, WriteLink DEF IInv, LinkOK, Conts
<1>3. StreamOK(stream)' /\ OpenOK' BY <1>1, BlamedOpen DEF IInv, Blames
<1>4. FileOK(file)' /\ RestOK' BY <1>1 DEF IInv, FileOK, RestOK, Pieces
<1>q. QED BY <1>2, <1>3, <1>4 DEF IInv

LEMMA NeedUpgradeStep ==
  ASSUME IInv, NEW n \in Pieces, HandleNeedUpgrade(n)
  PROVE  IInv'
<1> DEFINE g == [file EXCEPT !.totalsize = n]
<1>1. /\ asked' = n /\ file' = IF file.using THEN file ELSE g
      /\ readyFlag' = TRUE /\ rx' = 0 /\ rxCloud' = TRUE
      /\ stream' = IF Underway THEN Blamed(stream, "renewed") ELSE stream
      /\ UNCHANGED <<stack, isBusy, awaited, readySent, cloud>>
  BY DEF HandleNeedUpgrade, linkVars
<1>2. LinkOK' BY <1>1 DEF IInv, LinkOK
<1>3. g \in Files /\ g.totalsize = n /\ g.using = file.using /\ g.data = file.data
      /\ g.lastpiece = file.lastpiece /\ g.recvsize = file.recvsize
  BY DEF IInv, FileOK, Files, Pieces
<1> HIDE DEF g
<1>4. FileOK(file)' BY <1>1, <1>3 DEF IInv, FileOK
<1>5. RestOK' BY <1>1 DEF IInv, RestOK, Pieces
<1>6. CASE Underway
  <2>1. StreamOK(stream)' /\ OpenOK' BY <1>1, <1>6, BlamedOpen DEF IInv, Blames
  <2>q. QED BY <1>2, <1>4, <1>5, <2>1 DEF IInv
<1>7. CASE ~Underway
  <2>1. ~file.using /\ ~Has(stack, "ready") BY <1>7 DEF Underway, Has
  <2>2. file' = g /\ stream' = stream BY <1>1, <1>7, <2>1
  <2>3. StreamOK(stream)' /\ (Sound(stream)' <=> Sound(stream))
    BY <1>1, <2>2, StreamKeptOK DEF IInv
  <2>4. ASSUME Sound(stream) PROVE GoodFile(file)' /\ GoodCalls' /\ Matches(file, stream)'
    <3>1. GoodFile(file) /\ GoodCalls /\ Matches(file, stream) BY <2>4 DEF IInv, OpenOK
    <3>2. GoodFile(file)' BY <1>3, <2>1, <2>2, <3>1 DEF GoodFile
    <3>3. GoodCalls' BY <1>1, <1>3, <2>1, <2>2, <3>1 DEF GoodCalls
    <3>4. Matches(file, stream)' BY <1>3, <2>1, <2>2, <3>1 DEF Matches
    <3>q. QED BY <3>2, <3>3, <3>4
  <2>5. OpenOK' BY <2>3, <2>4 DEF OpenOK
  <2>q. QED BY <1>2, <1>4, <1>5, <2>3, <2>5 DEF IInv
<1>q. QED BY <1>6, <1>7

LEMMA ReadyAckStep ==
  ASSUME IInv, HandleReadyAck
  PROVE  IInv'
<1> DEFINE g == [file EXCEPT !.using = TRUE]
           first == isBusy /\ awaited = "ready" /\ isBusy' = FALSE
                    /\ stream' = IF file.totalsize = 0 THEN Blamed(stream, "withdrawn") ELSE stream
           later == UNCHANGED isBusy
                    /\ stream' = IF file.using THEN stream ELSE Blamed(stream, "late")
<1>1. /\ first \/ later
      /\ file' = g /\ rx' = 0
      /\ UNCHANGED <<readyFlag, stack, awaited, readySent, rxCloud, asked, cloud>>
  BY DEF HandleReadyAck
<1>2. isBusy' \in BOOLEAN /\ (isBusy' => isBusy)
  <2>1. isBusy' = isBusy \/ isBusy' = FALSE BY <1>1
  <2>2. isBusy \in BOOLEAN BY DEF IInv, LinkOK
  <2>3. CASE isBusy' = isBusy BY <2>2, <2>3
  <2>4. CASE isBusy' = FALSE BY <2>4
  <2>q. QED BY <2>1, <2>3, <2>4
<1>3. LinkOK' BY <1>1, <1>2 DEF IInv, LinkOK
<1>4. /\ g \in Files /\ g.totalsize = file.totalsize /\ g.using = TRUE /\ g.data = file.data
      /\ g.lastpiece = file.lastpiece /\ g.recvsize = file.recvsize
  BY DEF IInv, FileOK, Files
<1>5. file.using => g = file BY DEF IInv, FileOK, Files
<1> HIDE DEF g
<1>6. FileOK(file)' BY <1>1, <1>4 DEF IInv, FileOK
<1>7. RestOK' BY <1>1 DEF IInv, RestOK
<1>8. CASE stream' = Blamed(stream, "withdrawn") \/ stream' = Blamed(stream, "late")
  <2>1. StreamOK(stream)' /\ OpenOK' BY <1>1, <1>8, BlamedOpen DEF IInv, Blames
  <2>q. QED BY <1>3, <1>6, <1>7, <2>1 DEF IInv
<1>9. CASE first /\ file.totalsize # 0 /\ stream' = stream
  <2>1. StreamOK(stream)' /\ (Sound(stream)' <=> Sound(stream))
    BY <1>1, <1>9, StreamKeptOK DEF IInv
  <2>2. Head(stack) = "ready" /\ stack # <<>> BY <1>9 DEF IInv, LinkOK
  <2>3. Has(stack, "ready") /\ \A x : Has(stack, x) => x = "ready"
    BY <2>2, PoppedStack DEF IInv, LinkOK
  <2>4. ASSUME Sound(stream) PROVE GoodFile(file)' /\ GoodCalls' /\ Matches(file, stream)'
    <3>1. GoodFile(file) /\ GoodCalls /\ Matches(file, stream) BY <2>4 DEF IInv, OpenOK
    <3>2. ~file.using BY <1>9, <2>2, <3>1 DEF GoodCalls
    <3>3. /\ ~file.data /\ file.totalsize = asked /\ file.lastpiece = 0 /\ file.recvsize = 0
          /\ asked > 0
      BY <1>9, <3>1, <3>2 DEF IInv, FileOK, GoodFile, RestOK
    <3>4. GoodFile(file)' BY <1>1, <1>4, <3>3 DEF GoodFile
    <3>5. GoodCalls' BY <1>1, <1>9, <2>3, <3>1 DEF GoodCalls
    <3>6. Matches(file, stream)' BY <1>1, <1>4, <1>9, <3>1, <3>2, <3>3 DEF Matches
    <3>q. QED BY <3>4, <3>5, <3>6
  <2>5. OpenOK' BY <2>1, <2>4 DEF OpenOK
  <2>q. QED BY <1>3, <1>6, <1>7, <2>1, <2>5 DEF IInv
<1>10. CASE later /\ file.using /\ stream' = stream
  <2>1. UNCHANGED <<file, stream, isBusy>> BY <1>1, <1>5, <1>10
  <2>2. StreamOK(stream)' /\ (Sound(stream)' <=> Sound(stream)) BY <1>1, <2>1, StreamKeptOK DEF IInv
  <2>3. OpenOK' BY <1>1, <2>1, <2>2 DEF IInv, OpenOK, GoodFile, GoodCalls, Matches
  <2>q. QED BY <1>3, <1>6, <1>7, <2>2, <2>3 DEF IInv
<1>q. QED BY <1>1, <1>8, <1>9, <1>10

\* The file is closed, made up, and whoever waits goes on waiting.
LEMMA ClosedOpen ==
  ASSUME IInv, stream' = Garbage(file, stream), file' = NoFile, UNCHANGED <<readyFlag, asked, cloud>>,
         \A x : Has(stack', x) => x \in {"tail", "last"} \/ Has(stack, x)
  PROVE  FileOK(file)' /\ StreamOK(stream)' /\ OpenOK'
<1>1. FileOK(NoFile) /\ GoodFile(NoFile) /\ \A s : Matches(NoFile, s) <=> s.owed = 0 BY NoFileOK
<1>2. FileOK(file)' BY <1>1 DEF FileOK
<1>3. StreamOK(stream') /\ stream'.blame = stream.blame /\ stream'.owed = 0 BY GarbageCloses
<1>4. StreamOK(stream)' /\ (Sound(stream)' <=> Sound(stream)) BY <1>3, StreamKeptOK DEF Sound
<1>5. ASSUME Sound(stream) PROVE GoodFile(file)' /\ GoodCalls' /\ Matches(file, stream)'
  <2>1. GoodCalls BY <1>5 DEF IInv, OpenOK
  <2>2. GoodFile(file)' BY DEF GoodFile, NoFile
  <2>3. ~file'.using BY DEF NoFile
  <2>4. GoodCalls' BY <2>1, <2>3 DEF GoodCalls
  <2>5. Matches(file, stream)' BY <1>3, <2>3 DEF Matches
  <2>q. QED BY <2>2, <2>4, <2>5
<1>6. OpenOK' BY <1>4, <1>5 DEF OpenOK
<1>q. QED BY <1>2, <1>4, <1>6

LEMMA StopSendStep ==
  ASSUME IInv, HandleStopSend
  PROVE  IInv'
<1>1. /\ stream' = Garbage(file, stream) /\ file' = NoFile /\ rx' = 0
      /\ UNCHANGED <<readyFlag, stack, isBusy, awaited, readySent, rxCloud, asked, cloud>>
  BY DEF HandleStopSend, linkVars
<1>2. FileOK(file)' /\ StreamOK(stream)' /\ OpenOK' BY <1>1, ClosedOpen
<1>3. LinkOK' /\ RestOK' BY <1>1 DEF IInv, LinkOK, RestOK
<1>q. QED BY <1>2, <1>3 DEF IInv

\* Outside a transfer nothing is owed, and a packet of its own does no harm.
LEMMA NothingOwed ==
  ASSUME IInv, ~file.using
  PROVE  Packet(stream) = stream
<1>1. CASE Sound(stream)
  <2>1. stream.owed = 0 BY <1>1 DEF IInv, OpenOK, Matches
  <2>q. QED BY <2>1, PacketOK DEF IInv
<1>2. CASE ~Sound(stream) BY <1>2, UnsoundWrites DEF IInv
<1>q. QED BY <1>1, <1>2

\* A step that leaves the transfer alone and lets no call wait longer.
LEMMA SameOpen ==
  ASSUME IInv, UNCHANGED <<file, stream, asked, cloud>>, isBusy' => isBusy, readyFlag' => readyFlag,
         \A x : Has(stack', x) => Has(stack, x),
         isBusy' => Head(stack') = Head(stack)
  PROVE  FileOK(file)' /\ StreamOK(stream)' /\ OpenOK'
<1>1. FileOK(file)' BY DEF IInv, FileOK
<1>2. StreamOK(stream)' /\ (Sound(stream)' <=> Sound(stream)) BY StreamKeptOK DEF IInv
<1>3. ASSUME Sound(stream) PROVE GoodFile(file)' /\ GoodCalls' /\ Matches(file, stream)'
  <2>1. GoodFile(file) /\ GoodCalls /\ Matches(file, stream) BY <1>3 DEF IInv, OpenOK
  <2>2. GoodFile(file)' /\ Matches(file, stream)' BY <2>1 DEF GoodFile, Matches
  <2>3. GoodCalls' BY <2>1 DEF GoodCalls
  <2>q. QED BY <2>2, <2>3
<1>4. OpenOK' BY <1>2, <1>3 DEF OpenOK
<1>q. QED BY <1>1, <1>2, <1>4

LEMMA ReportStep ==
  ASSUME IInv, HandleReport
  PROVE  IInv'
<1>1. /\ stream' = stream /\ (rxCloud' = rxCloud \/ rxCloud' = FALSE) /\ rx' = 0
      /\ UNCHANGED <<file, readyFlag, stack, isBusy, awaited, readySent, asked, cloud>>
  BY NothingOwed DEF HandleReport, linkVars
<1>2. FileOK(file)' /\ StreamOK(stream)' /\ OpenOK' BY <1>1, SameOpen
<1>3. LinkOK' BY <1>1 DEF IInv, LinkOK
<1>4. rxCloud' \in BOOLEAN
  <2>1. rxCloud \in BOOLEAN BY DEF IInv, RestOK
  <2>2. CASE rxCloud' = rxCloud BY <2>1, <2>2
  <2>3. CASE rxCloud' = FALSE BY <2>3
  <2>q. QED BY <1>1, <2>2, <2>3
<1>5. RestOK' BY <1>1, <1>4 DEF IInv, RestOK
<1>q. QED BY <1>2, <1>3, <1>5 DEF IInv

LEMMA CtrlAckStep ==
  ASSUME IInv, HandleCtrlAck
  PROVE  IInv'
<1>1. /\ stream' = stream /\ (rxCloud' = rxCloud \/ rxCloud' = FALSE) /\ rx' = 0 /\ isBusy' = FALSE
      /\ UNCHANGED <<file, readyFlag, stack, awaited, readySent, asked, cloud>>
  BY NothingOwed DEF HandleCtrlAck
<1>2. FileOK(file)' /\ StreamOK(stream)' /\ OpenOK' BY <1>1, SameOpen
<1>3. LinkOK' BY <1>1 DEF IInv, LinkOK
<1>4. rxCloud' \in BOOLEAN
  <2>1. rxCloud \in BOOLEAN BY DEF IInv, RestOK
  <2>2. CASE rxCloud' = rxCloud BY <2>1, <2>2
  <2>3. CASE rxCloud' = FALSE BY <2>3
  <2>q. QED BY <1>1, <2>2, <2>3
<1>5. RestOK' BY <1>1, <1>4 DEF IInv, RestOK
<1>q. QED BY <1>2, <1>3, <1>5 DEF IInv

\* A call that returns, nothing else: the link is free and one call fewer waits.
LEMMA PoppedOpen ==
  ASSUME IInv, stack # <<>>, Popped, UNCHANGED <<file, stream, readyFlag, asked, cloud>>
  PROVE  LinkOK' /\ FileOK(file)' /\ StreamOK(stream)' /\ OpenOK'
<1>1. LinkOK' /\ stack' = Tail(stack) /\ isBusy' = FALSE BY PoppedLink DEF IInv
<1>2. \A x : Has(stack', x) => Has(stack, x) BY <1>1, PoppedStack DEF IInv, LinkOK
<1>3. FileOK(file)' /\ StreamOK(stream)' /\ OpenOK' BY <1>1, <1>2, SameOpen
<1>q. QED BY <1>1, <1>3

\* The file is dropped with nothing made up, where it was not open anyway.
LEMMA DroppedOpen ==
  ASSUME IInv, Sound(stream) => ~file.using, file' = NoFile, UNCHANGED <<stream, readyFlag, asked, cloud>>,
         \A x : Has(stack', x) => Has(stack, x)
  PROVE  FileOK(file)' /\ StreamOK(stream)' /\ OpenOK'
<1>1. FileOK(NoFile) BY NoFileOK
<1>2. FileOK(file)' BY <1>1 DEF FileOK
<1>3. StreamOK(stream)' /\ (Sound(stream)' <=> Sound(stream)) BY StreamKeptOK DEF IInv
<1>4. ASSUME Sound(stream) PROVE GoodFile(file)' /\ GoodCalls' /\ Matches(file, stream)'
  <2>1. GoodCalls /\ Matches(file, stream) /\ ~file.using BY <1>4 DEF IInv, OpenOK
  <2>2. GoodFile(file)' /\ ~file'.using BY DEF GoodFile, NoFile
  <2>3. GoodCalls' BY <2>1, <2>2 DEF GoodCalls
  <2>4. Matches(file, stream)' BY <2>1, <2>2 DEF Matches
  <2>q. QED BY <2>2, <2>3, <2>4
<1>5. OpenOK' BY <1>3, <1>4 DEF OpenOK
<1>q. QED BY <1>2, <1>3, <1>5

LEMMA FromReadyStep ==
  ASSUME IInv, ReturnFromReady
  PROVE  IInv'
<1>1. /\ stack # <<>> /\ Head(stack) = "ready" /\ Popped
      /\ file' = IF isBusy THEN NoFile ELSE file
      /\ UNCHANGED <<readyFlag, rx, rxCloud, asked, cloud, stream>>
  BY DEF ReturnFromReady, rxVars
<1>2. RestOK' BY <1>1 DEF IInv, RestOK
<1>3. LinkOK' /\ stack' = Tail(stack) BY <1>1, PoppedLink DEF IInv
<1>4. CASE isBusy
  <2>1. Sound(stream) => ~file.using BY <1>1, <1>4 DEF IInv, OpenOK, GoodCalls
  <2>2. \A x : Has(stack', x) => Has(stack, x) BY <1>1, <1>3, PoppedStack DEF IInv, LinkOK
  <2>3. FileOK(file)' /\ StreamOK(stream)' /\ OpenOK' BY <1>1, <1>4, <2>1, <2>2, DroppedOpen
  <2>q. QED BY <1>2, <1>3, <2>3 DEF IInv
<1>5. CASE ~isBusy
  <2>1. LinkOK' /\ FileOK(file)' /\ StreamOK(stream)' /\ OpenOK' BY <1>1, <1>5, PoppedOpen
  <2>q. QED BY <1>2, <2>1 DEF IInv
<1>q. QED BY <1>4, <1>5

LEMMA FromControlStep ==
  ASSUME IInv, ReturnFromControl
  PROVE  IInv'
<1>1. /\ stack # <<>> /\ Popped /\ rxCloud' = FALSE
      /\ stream' = IF rxCloud /\ cloud # "down"
                   THEN IF file.using THEN Blamed(stream, "leftover") ELSE Packet(stream)
                   ELSE stream
      /\ UNCHANGED <<file, readyFlag, rx, asked, cloud>>
  BY DEF ReturnFromControl
<1>2. RestOK' BY <1>1 DEF IInv, RestOK
<1>3. CASE stream' = stream
  <2>1. LinkOK' /\ FileOK(file)' /\ StreamOK(stream)' /\ OpenOK' BY <1>1, <1>3, PoppedOpen
  <2>q. QED BY <1>2, <2>1 DEF IInv
<1>4. CASE stream' = Blamed(stream, "leftover")
  <2>1. LinkOK' BY <1>1, PoppedLink DEF IInv
  <2>2. StreamOK(stream)' /\ OpenOK' BY <1>1, <1>4, BlamedOpen DEF IInv, Blames
  <2>3. FileOK(file)' BY <1>1 DEF IInv, FileOK
  <2>q. QED BY <1>2, <2>1, <2>2, <2>3 DEF IInv
<1>q. QED BY <1>1, <1>3, <1>4, NothingOwed

LEMMA FromStopStep ==
  ASSUME IInv, ReturnFromStop
  PROVE  IInv'
<1>1. /\ stack # <<>> /\ Popped
      /\ file' = IF Head(stack) = "last" THEN NoFile ELSE file
      /\ UNCHANGED <<readyFlag, rx, rxCloud, asked, cloud, stream>>
  BY DEF ReturnFromStop, rxVars
<1>2. RestOK' BY <1>1 DEF IInv, RestOK
<1>3. LinkOK' /\ stack' = Tail(stack) BY <1>1, PoppedLink DEF IInv
<1>4. Has(stack, Head(stack)) /\ \A x : Has(stack', x) => Has(stack, x)
  BY <1>1, <1>3, PoppedStack DEF IInv, LinkOK
<1>5. CASE Head(stack) = "last"
  <2>1. Sound(stream) => ~file.using BY <1>4, <1>5 DEF IInv, OpenOK, GoodCalls
  <2>2. FileOK(file)' /\ StreamOK(stream)' /\ OpenOK' BY <1>1, <1>4, <1>5, <2>1, DroppedOpen
  <2>q. QED BY <1>2, <1>3, <2>2 DEF IInv
<1>6. CASE Head(stack) # "last"
  <2>1. FileOK(file)' /\ StreamOK(stream)' /\ OpenOK' BY <1>1, <1>6, PoppedOpen
  <2>q. QED BY <1>2, <1>3, <2>1 DEF IInv
<1>q. QED BY <1>5, <1>6

\* After the stop for a stray piece the piece is dealt with all the same, but
\* the stream was blamed when it came.
LEMMA FromStrayStep ==
  ASSUME IInv, ReturnFromStray
  PROVE  IInv'
<1>1. PICK k \in IF rx = 0 THEN 0 .. MaxPieces + 1 ELSE {rx}, last \in BOOLEAN :
        DealPiece(k, last, stream, Tail(stack), FALSE)
  BY DEF ReturnFromStray
<1>2. stack # <<>> /\ Head(stack) = "stray" /\ UNCHANGED <<readyFlag, rx, asked, cloud>>
  BY DEF ReturnFromStray
<1>3. Has(stack, "stray") /\ StackOK(Tail(stack)) BY <1>2, PoppedStack DEF IInv, LinkOK
<1>4. ~Sound(stream) BY <1>3 DEF IInv, OpenOK, GoodCalls
<1>5. LinkOK' /\ rxCloud' \in BOOLEAN BY <1>1, <1>3, DealLink DEF IInv
<1>6. k \in 0 .. MaxPieces + 1 BY DEF IInv, RestOK
<1>7. FileOK(file)' BY <1>1, <1>2, <1>6, DealFile DEF IInv
<1>8. stream' = stream BY <1>1, <1>4, DealUnsound DEF IInv
<1>9. StreamOK(stream)' /\ ~Sound(stream)' BY <1>2, <1>4, <1>8, StreamKeptOK DEF IInv
<1>10. RestOK' BY <1>2, <1>5 DEF IInv, RestOK
<1>q. QED BY <1>5, <1>7, <1>9, <1>10, UnsoundOpen DEF IInv

LEMMA ControlStep ==
  ASSUME IInv, Control
  PROVE  IInv'
<1>1. /\ stack = <<>> /\ Write("ctrl", "control", stack) /\ rx' = 0
      /\ UNCHANGED <<file, readyFlag, rxCloud, asked, cloud, stream>>
  BY DEF Control, Idle
<1>2. /\ LinkOK' /\ Head(stack') = "control"
      /\ \A x : Has(stack', x) => x = "control" \/ Has(stack, x)
  BY <1>1, WriteLink DEF IInv, LinkOK, Conts
<1>3. RestOK' BY <1>1 DEF IInv, RestOK
<1>4. FileOK(file)' BY <1>1 DEF IInv, FileOK
<1>5. StreamOK(stream)' /\ (Sound(stream)' <=> Sound(stream)) BY <1>1, StreamKeptOK DEF IInv
<1>6. ASSUME Sound(stream) PROVE GoodFile(file)' /\ GoodCalls' /\ Matches(file, stream)'
  <2>1. GoodFile(file) /\ GoodCalls /\ Matches(file, stream) BY <1>6 DEF IInv, OpenOK
  <2>2. GoodFile(file)' /\ Matches(file, stream)' BY <1>1, <2>1 DEF GoodFile, Matches
  <2>3. GoodCalls' BY <1>1, <1>2, <2>1 DEF GoodCalls
  <2>q. QED BY <2>2, <2>3
<1>7. OpenOK' BY <1>5, <1>6 DEF OpenOK
<1>q. QED BY <1>2, <1>3, <1>4, <1>5, <1>7 DEF IInv

LEMMA SendReadyStep ==
  ASSUME IInv, SendReady
  PROVE  IInv'
<1>1. /\ stack = <<>> /\ readyFlag /\ readyFlag' = FALSE /\ Write("ready", "ready", stack)
      /\ UNCHANGED <<file, rx, rxCloud, asked, cloud, stream>>
  BY DEF SendReady, Idle, rxVars
<1>2. /\ LinkOK' /\ \A x : Has(stack', x) => x = "ready"
  BY <1>1, WriteLink, EmptyStack DEF IInv, LinkOK, Conts
<1>3. RestOK' BY <1>1 DEF IInv, RestOK
<1>4. FileOK(file)' BY <1>1 DEF IInv, FileOK
<1>5. StreamOK(stream)' /\ (Sound(stream)' <=> Sound(stream)) BY <1>1, StreamKeptOK DEF IInv
<1>6. ASSUME Sound(stream) PROVE GoodFile(file)' /\ GoodCalls' /\ Matches(file, stream)'
  <2>1. GoodFile(file) /\ GoodCalls /\ Matches(file, stream) BY <1>6 DEF IInv, OpenOK
  <2>2. GoodFile(file)' /\ Matches(file, stream)' BY <1>1, <2>1 DEF GoodFile, Matches
  <2>3. ~file.using BY <1>1, <2>1 DEF GoodCalls
  <2>4. GoodCalls' BY <1>1, <1>2, <2>3 DEF GoodCalls
  <2>q. QED BY <2>2, <2>4
<1>7. OpenOK' BY <1>5, <1>6 DEF OpenOK
<1>q. QED BY <1>2, <1>3, <1>4, <1>5, <1>7 DEF IInv

LEMMA TimeoutStep ==
  ASSUME IInv, TransferTimeout
  PROVE  IInv'
<1>1. /\ stack = <<>> /\ stream' = Garbage(file, stream) /\ file' = NoFile
      /\ Write("stop", "tail", stack) /\ UNCHANGED <<readyFlag, rx, rxCloud, asked, cloud>>
  BY DEF TransferTimeout, Idle, rxVars
<1>2. /\ LinkOK' /\ \A x : Has(stack', x) => x = "tail" \/ Has(stack, x)
  BY <1>1, WriteLink DEF IInv, LinkOK, Conts
<1>3. FileOK(file)' /\ StreamOK(stream)' /\ OpenOK' BY <1>1, <1>2, ClosedOpen
<1>4. RestOK' BY <1>1 DEF IInv, RestOK
<1>q. QED BY <1>2, <1>3, <1>4 DEF IInv

LEMMA HeartbeatStep ==
  ASSUME IInv, Heartbeat
  PROVE  IInv'
<1>1. UNCHANGED <<stream, file, readyFlag, stack, isBusy, awaited, readySent, rx, rxCloud, asked, cloud>>
  BY NothingOwed DEF Heartbeat, linkVars, rxVars
<1>2. FileOK(file)' /\ StreamOK(stream)' /\ OpenOK' BY <1>1, SameOpen
<1>3. LinkOK' /\ RestOK' BY <1>1 DEF IInv, LinkOK, RestOK
<1>q. QED BY <1>2, <1>3 DEF IInv

\* The connection to the broker: lost, given up, made anew.
LEMMA ConnectionStep ==
  ASSUME IInv, ConnectionLost \/ LossNoticed \/ LoggedIn
  PROVE  IInv'
<1>1. UNCHANGED <<file, readyFlag, stack, isBusy, awaited, readySent, rx, rxCloud, asked>>
      /\ cloud' \in {"up", "dead", "down"}
  BY DEF ConnectionLost, LossNoticed, LoggedIn, linkVars, rxVars
<1>2. LinkOK' /\ RestOK' /\ FileOK(file)' BY <1>1 DEF IInv, LinkOK, RestOK, FileOK
<1>3. StreamOK(stream)' /\ OpenOK'
  <2>1. CASE ConnectionLost
    <3>1. cloud' = "dead" /\ stream' = Fresh BY <2>1 DEF ConnectionLost
    <3>2. ~Sound(stream)' BY <3>1 DEF Sound
    <3>3. StreamOK(stream)' BY <3>1, FreshOK DEF StreamOK, Fresh
    <3>q. QED BY <3>2, <3>3, UnsoundOpen
  <2>2. CASE LossNoticed
    <3>1. cloud = "dead" /\ cloud' = "down" /\ stream' = stream BY <2>2 DEF LossNoticed
    <3>2. ~Sound(stream)' BY <3>1 DEF Sound
    <3>3. StreamOK(stream)' BY <3>1 DEF IInv, StreamOK, Sound
    <3>q. QED BY <3>2, <3>3, UnsoundOpen
  <2>3. CASE LoggedIn /\ (file.using \/ file.data)
    <3>1. stream' = Blamed(Fresh, "reconnected") BY <2>3 DEF LoggedIn
    <3>2. StreamOK(stream') /\ stream'.blame # "none" BY <3>1, FreshOK, BlamedOK DEF Blames
    <3>3. stream'.owed = 0 /\ stream'.got = <<>> BY <3>2 DEF StreamOK, Sound
    <3>4. ~Sound(stream)' /\ StreamOK(stream)' BY <3>2, <3>3 DEF Sound, StreamOK
    <3>q. QED BY <3>4, UnsoundOpen
  <2>4. CASE LoggedIn /\ ~(file.using \/ file.data)
    <3>1. stream' = Fresh /\ stack = <<>> BY <2>4 DEF LoggedIn, Idle
    <3>2. StreamOK(stream)' /\ stream'.owed = 0 BY <3>1, FreshOK DEF StreamOK, Fresh
    <3>3. GoodFile(file)' /\ Matches(file, stream)' BY <1>1, <2>4, <3>2 DEF GoodFile, Matches
    <3>4. GoodCalls' BY <1>1, <2>4, <3>1, EmptyStack DEF GoodCalls
    <3>q. QED BY <3>2, <3>3, <3>4 DEF OpenOK
  <2>q. QED BY <2>1, <2>2, <2>3, <2>4
<1>q. QED BY <1>2, <1>3 DEF IInv

-----------------------------------------------------------------------------
(* The theorems *)

LEMMA InitIInv == Init => IInv
<1> SUFFICES ASSUME Init PROVE IInv OBVIOUS
<1>1. LinkOK BY EmptyStack DEF Init, LinkOK
<1>2. FileOK(file) /\ GoodFile(file) /\ Matches(file, stream)
  BY NoFileOK, FreshOK DEF Init
<1>3. StreamOK(stream) BY FreshOK DEF Init
<1>z. 0 \in 0 .. MaxPieces OBVIOUS
<1>4. RestOK BY <1>z DEF Init, RestOK
<1>5. OpenOK BY DEF Init, OpenOK, Sound
<1>q. QED BY <1>1, <1>2, <1>3, <1>4, <1>5 DEF IInv

LEMMA Inductive == IInv /\ [Next]_vars => IInv'
<1> SUFFICES ASSUME IInv, [Next]_vars PROVE IInv' OBVIOUS
<1>1. CASE HandlePacket
  BY <1>1, PieceStep, StrayPieceStep, NeedUpgradeStep, ReadyAckStep, StopSendStep, ReportStep,
     CtrlAckStep DEF HandlePacket
<1>2. CASE Return
  BY <1>2, FromReadyStep, FromControlStep, FromStopStep, FromStrayStep DEF Return
<1>3. CASE Control \/ SendReady \/ TransferTimeout \/ Heartbeat
  BY <1>3, ControlStep, SendReadyStep, TimeoutStep, HeartbeatStep
<1>4. CASE ConnectionLost \/ LossNoticed \/ LoggedIn BY <1>4, ConnectionStep
<1>5. CASE UNCHANGED vars
  <2>1. UNCHANGED <<stream, file, readyFlag, stack, isBusy, awaited, readySent, rx, rxCloud, asked, cloud>>
    BY <1>5 DEF vars, linkVars, rxVars
  <2>2. FileOK(file)' /\ StreamOK(stream)' /\ OpenOK' BY <2>1, SameOpen
  <2>3. LinkOK' /\ RestOK' BY <2>1 DEF IInv, LinkOK, RestOK
  <2>q. QED BY <2>2, <2>3 DEF IInv
<1>q. QED BY <1>1, <1>2, <1>3, <1>4, <1>5 DEF Next

LEMMA Invariance == Spec => []IInv
BY InitIInv, Inductive, PTL DEF Spec

\* The counters of rtinfo.file, the calls that wait and what the broker has got
\* stay of their kind, for files of any size.
THEOREM TransferTypes == Spec => []TypeOK
<1>1. IInv => TypeOK
  BY DEF IInv, LinkOK, StackOK, FileOK, RestOK, StreamOK, Streams, Conts, TypeOK
<1>q. QED BY <1>1, Invariance, PTL

\* Through every order of pieces, stops, time-outs, reports and lost
\* connections the broker keeps its place in the bytes syncfile, throwgabage
\* and MQTT_SendData write, unless one of the named things happened first.
THEOREM BrokerKeepsPlace == Spec => []StreamKept
<1>1. IInv => StreamKept BY DEF IInv, StreamOK, StreamKept
<1>q. QED BY <1>1, Invariance, PTL

\* rtinfo.file and the MQTT packet agree at every moment: what the packet lacks
\* is what the open file has still to pass on, and nothing without one.
THEOREM PacketMatchesTransfer == Spec => []PublishMatchesFile
<1>1. IInv => PublishMatchesFile
  BY DEF IInv, OpenOK, Sound, Matches, PublishMatchesFile
<1>q. QED BY <1>1, Invariance, PTL

\* pushfiledata and syncfile pass the pieces on in order, none missing and none
\* twice, and throwgabage adds nothing but the end.
THEOREM FileArrivesInOrder == Spec => []PiecesInOrder
<1>1. IInv => PiecesInOrder BY DEF IInv, StreamOK, InOrder, PiecesInOrder
<1>q. QED BY <1>1, Invariance, PTL

=============================================================================
