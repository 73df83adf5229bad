---------------------------- MODULE McuOtaProofs ----------------------------
(* Proofs about McuOta, for any images, however long, and any nesting of     *)
(* calls.                                                                    *)
EXTENDS McuOta, SequenceTheorems, TLAPS

USE ImageAssumption, BoundAssumption

\* The calls that may wait when m is the image whose header was read last: a
\* piece lies within its image, and without an image there is no transfer and
\* no result of a download.
CallsFor(m) == {c \in Calls : /\ c.next = "piece" => c.num \in 1 .. c.count
                              /\ c.next \in {"piece", "result"} => m \in Images}

LEMMA Pushed ==
  ASSUME NEW S, NEW c \in S, NEW st \in Seq(S)
  PROVE  /\ <<c>> \o st \in Seq(S)
         /\ Len(<<c>> \o st) = Len(st) + 1
         /\ <<c>> \o st # <<>>
         /\ Head(<<c>> \o st) = c
         /\ \A i \in 1 .. Len(st) + 1 : (<<c>> \o st)[i] = IF i = 1 THEN c ELSE st[i - 1]
<1>1. <<c>> \in Seq(S) /\ Len(<<c>>) = 1 /\ <<c>>[1] = c OBVIOUS
<1>2. /\ <<c>> \o st \in Seq(S)
      /\ Len(<<c>> \o st) = 1 + Len(st)
      /\ \A i \in 1 .. 1 + Len(st) : (<<c>> \o st)[i] = IF i <= 1 THEN <<c>>[i] ELSE st[i - 1]
  BY <1>1, ConcatProperties
<1>3. Len(st) \in Nat BY LenProperties
<1>q. QED BY <1>1, <1>2, <1>3, EmptySeq

\* What a well typed stack says, and a type of its own.
LEMMA StackType ==
  ASSUME NEW m, NEW st \in Seq(CallsFor(m)), Len(st) <= MaxDepth
  PROVE  /\ st \in Seq(Calls)
         /\ \A i \in 1 .. Len(st) : st[i].next = "piece" => st[i].num \in 1 .. st[i].count
<1>1. CallsFor(m) \subseteq Calls BY DEF CallsFor
<1>2. \A i \in 1 .. Len(st) : st[i] \in CallsFor(m) BY ElementOfSeq
<1>q. QED BY <1>1, <1>2, SeqMonotonic DEF CallsFor

\* An image read later leaves the calls that wait as they are.
LEMMA CallsKept ==
  ASSUME NEW m, NEW n \in Images, NEW st \in Seq(CallsFor(m))
  PROVE  st \in Seq(CallsFor(n))
<1>1. CallsFor(m) \subseteq CallsFor(n) BY DEF CallsFor
<1>q. QED BY <1>1, SeqMonotonic

LinkOK == /\ stack \in Seq(CallsFor(MD5)) /\ Len(stack) <= MaxDepth
          /\ isBusy \in BOOLEAN /\ (isBusy => stack # <<>>)
          /\ Txbuf \in {"request", "other", "sent"}

\* The calls below the innermost one.
LEMMA Popping ==
  ASSUME LinkOK, stack # <<>>
  PROVE  /\ Tail(stack) \in Seq(CallsFor(MD5)) /\ Len(Tail(stack)) = Len(stack) - 1
         /\ Head(stack) \in CallsFor(MD5) /\ Head(stack) = stack[1]
         /\ Len(stack) \in Nat \ {0}
         /\ \A i \in 1 .. Len(Tail(stack)) : Tail(stack)[i] = stack[i + 1]
BY HeadTailProperties, LenProperties, EmptySeq DEF LinkOK

LEMMA WriteType ==
  ASSUME NEW m, NEW c \in CallsFor(m), NEW st \in Seq(CallsFor(m)), Write(c, st), MD5' = m
  PROVE  LinkOK'
<1>1. Len(st) \in Nat BY LenProperties
<1>2. stack' = <<c>> \o st /\ Len(st) < MaxDepth BY DEF Write
<1>q. QED BY <1>1, <1>2, Pushed DEF Write, LinkOK

LEMMA TryWriteType ==
  ASSUME LinkOK, NEW m \in Images, NEW c \in CallsFor(m), TryWrite(c), MD5' = m
  PROVE  LinkOK'
<1>1. stack \in Seq(CallsFor(m)) BY CallsKept DEF LinkOK
<1>2. CASE isBusy BY <1>1, <1>2 DEF TryWrite, LinkOK
<1>3. CASE ~isBusy BY <1>1, <1>3, WriteType DEF TryWrite
<1>q. QED BY <1>2, <1>3

LEMMA PlainCalls ==
  ASSUME NEW m
  PROVE  /\ Call("nothing") \in CallsFor(m) /\ Call("stop") \in CallsFor(m)
         /\ m \in Images => Call("result") \in CallsFor(m)
         /\ \A n, count \in Nat, hex \in BOOLEAN :
              m \in Images /\ n \in 1 .. count => Piece(n, count, hex) \in CallsFor(m)
BY DEF CallsFor, Calls, Call, Piece

-----------------------------------------------------------------------------
(* Types *)

HistoryOK == /\ taken \in Seq([image : Images, num : Nat, sound : BOOLEAN])
             /\ outcome \in {"none", "success", "failed"} /\ told \in BOOLEAN /\ extra \in Nat
             /\ blame \in {"none", "replaced", "twice", "busy", "damaged", "overwritten", "stray"}

ImageOK == /\ flash \in [image : Images \cup {NoImage}, whole : BOOLEAN]
           /\ flash.image = MD5
           /\ stopSendFlag \in BOOLEAN /\ offered \subseteq Images

TInv == LinkOK /\ HistoryOK /\ ImageOK

LEMMA TypesSplit == TInv => TypeOK
BY StackType DEF TInv, LinkOK, HistoryOK, ImageOK, TypeOK

LEMMA BlameType == ASSUME HistoryOK, NEW why \in {"replaced", "overwritten", "stray"}, Blame(why)
                   PROVE  blame' \in {"none", "replaced", "twice", "busy", "damaged", "overwritten", "stray"}
BY DEF Blame, HistoryOK

LEMMA FetchedType ==
  ASSUME ImageOK, NEW i \in Images, NEW d \in Downloads, Fetched(i, d)
  PROVE  /\ flash' \in [image : Images \cup {NoImage}, whole : BOOLEAN]
         /\ MD5' = i /\ flash'.image = MD5' /\ stopSendFlag' \in BOOLEAN
         /\ outcome' = "none" /\ UNCHANGED <<taken, told, extra, stopSendFlag>>
BY DEF Fetched, Downloads, ImageOK

LEMMA TypeStep == TInv /\ [Next]_vars => TInv'
<1> SUFFICES ASSUME TInv, [Next]_vars PROVE TInv' OBVIOUS
<1> USE DEF TInv
<1>1. ASSUME NEW i \in Images, NEW d \in Downloads, Download(i, d) PROVE TInv'
  <2>1. Fetched(i, d) /\ Blame("replaced") /\ UNCHANGED offered BY <1>1 DEF Download
  <2>2. ImageOK' BY <2>1, FetchedType DEF ImageOK
  <2>3. HistoryOK' BY <2>1, FetchedType, BlameType DEF HistoryOK
  <2>4. LinkOK' BY <1>1, <2>1, FetchedType, PlainCalls, TryWriteType DEF Download
  <2>q. QED BY <2>2, <2>3, <2>4
<1>2. ASSUME NEW i \in Images, NEW d \in Downloads, PushedDownload(i, d) PROVE TInv'
  <2>1. Fetched(i, d) /\ UNCHANGED blame /\ stack = <<>> BY <1>2 DEF PushedDownload
  <2>2. ImageOK' BY <1>2, <2>1, FetchedType DEF PushedDownload, ImageOK, linkVars
  <2>3. HistoryOK' BY <2>1, FetchedType DEF HistoryOK
  <2>4. stack \in Seq(CallsFor(i)) BY CallsKept DEF LinkOK
  <2>5. ASSUME d.ok PROVE LinkOK'
    BY <1>2, <2>1, <2>4, <2>5, FetchedType, PlainCalls, WriteType DEF PushedDownload
  <2>6. ASSUME ~d.ok PROVE LinkOK'
    BY <1>2, <2>1, <2>4, <2>6, FetchedType DEF PushedDownload, linkVars, LinkOK
  <2>q. QED BY <2>2, <2>3, <2>5, <2>6
<1>3. CASE DownloadFails
  <2>1. UNCHANGED <<flash, MD5, stopSendFlag, offered, history>> BY <1>3 DEF DownloadFails
  <2>2. ImageOK' /\ HistoryOK' BY <2>1 DEF ImageOK, HistoryOK, history
  <2>3. ASSUME isBusy PROVE LinkOK' BY <1>3, <2>1, <2>3 DEF DownloadFails, TryWrite, LinkOK
  <2>4. ASSUME ~isBusy PROVE LinkOK'
    BY <1>3, <2>1, <2>4, PlainCalls, WriteType DEF DownloadFails, TryWrite, LinkOK
  <2>q. QED BY <2>2, <2>3, <2>4
<1>4. CASE NextPiece
  <2> DEFINE p == Head(stack)
  <2>1. /\ stack # <<>> /\ p.next = "piece"
        /\ UNCHANGED <<flash, MD5, stopSendFlag, offered, taken, blame>>
    BY <1>4 DEF NextPiece
  <2>2. p \in CallsFor(MD5) /\ Tail(stack) \in Seq(CallsFor(MD5)) /\ Len(Tail(stack)) <= MaxDepth
    BY <2>1, Popping DEF LinkOK
  <2>3. /\ MD5 \in Images /\ p.num \in Nat /\ p.count \in Nat /\ p.hex \in BOOLEAN
        /\ p.num \in 1 .. p.count
    BY <2>1, <2>2 DEF CallsFor, Calls
  <2>4. ImageOK' BY <2>1 DEF ImageOK
  <2>5. CASE p.num < p.count /\ Begin(Piece(After(p), p.count, p.hex), Tail(stack))
             /\ UNCHANGED <<outcome, told>>
    <3>1. Piece(After(p), p.count, p.hex) \in CallsFor(MD5) BY <2>3, <2>5, PlainCalls DEF After
    <3>2. LinkOK' BY <2>1, <2>2, <2>5, <3>1, WriteType DEF Begin
    <3>3. HistoryOK' BY <2>1, <2>5 DEF HistoryOK, Begin
    <3>q. QED BY <2>4, <3>2, <3>3
  <2>6. ASSUME NEW how \in {"success", "failed"}, Ends(how, Tail(stack)), UNCHANGED told
        PROVE  TInv'
    BY <2>1, <2>2, <2>4, <2>6 DEF Ends, LinkOK, HistoryOK
  <2>7. CASE SendStop(Tail(stack)) /\ UNCHANGED extra
    <3>1. LinkOK' BY <2>1, <2>2, <2>7, PlainCalls, WriteType DEF SendStop
    <3>2. HistoryOK' BY <2>1, <2>7 DEF HistoryOK, SendStop
    <3>q. QED BY <2>4, <3>1, <3>2
  <2>q. QED BY <1>4, <2>5, <2>6, <2>7 DEF NextPiece
<1>5. CASE GiveUpPiece
  <2>1. stack # <<>> /\ SendStop(Tail(stack)) BY <1>5 DEF GiveUpPiece
  <2>2. /\ stopSendFlag' = TRUE
        /\ UNCHANGED <<flash, MD5, offered, taken, extra, blame>>
    BY <1>5 DEF GiveUpPiece
  <2>3. LinkOK' BY <2>1, <2>2, Popping, PlainCalls, WriteType DEF SendStop
  <2>4. HistoryOK' /\ ImageOK' BY <2>1, <2>2 DEF HistoryOK, ImageOK, SendStop
  <2>q. QED BY <2>3, <2>4
<1>6. CASE Resend
  BY <1>6, BlameType DEF Resend, LinkOK, HistoryOK, ImageOK
<1>7. CASE HandleAck
  <2>1. isBusy' = FALSE /\ stack # <<>>
        /\ UNCHANGED <<flash, MD5, stopSendFlag, stack, Txbuf, offered, outcome, told, extra, blame>>
    BY <1>7 DEF HandleAck, LinkOK
  <2>2. Head(stack) \in CallsFor(MD5) BY <2>1, Popping
  <2>3. CASE Head(stack).next = "piece" /\ blame = "none"
    <3>1. [image |-> flash.image, num |-> Head(stack).num,
           sound |-> flash.whole /\ Txbuf # "sent"] \in [image : Images, num : Nat, sound : BOOLEAN]
      BY <2>2, <2>3 DEF CallsFor, Calls, ImageOK
    <3>2. taken' \in Seq([image : Images, num : Nat, sound : BOOLEAN])
      BY <1>7, <2>3, <3>1, AppendProperties DEF HandleAck, HistoryOK
    <3>q. QED BY <2>1, <3>2 DEF LinkOK, HistoryOK, ImageOK
  <2>4. CASE UNCHANGED taken BY <2>1, <2>4 DEF LinkOK, HistoryOK, ImageOK
  <2>q. QED BY <1>7, <2>3, <2>4 DEF HandleAck
<1>8. ASSUME NEW i \in Images, NEW hex \in BOOLEAN, HandleReady(i, hex) PROVE TInv'
  <2>1. /\ i = MD5 /\ taken' = <<>> /\ extra' = 0 /\ told' = FALSE
        /\ UNCHANGED <<flash, MD5, offered>>
    BY <1>8 DEF HandleReady
  <2>2. PiecesOf[i] \in Nat \ {0} OBVIOUS
  <2>b. blame' \in {"none", "twice", "busy", "damaged"} BY <1>8 DEF HandleReady
  <2>h. outcome' \in {"none", "success", "failed"} => HistoryOK'
    BY <2>1, <2>b, EmptySeq DEF HistoryOK
  <2>3. ImageOK' BY <1>8, <2>1 DEF HandleReady, ImageOK, LinkOK
  <2>4. CASE Write(Piece(1, PiecesOf[i], hex), stack) /\ outcome' = "none"
    <3>1. Piece(1, PiecesOf[i], hex) \in CallsFor(MD5) BY <2>1, <2>2, PlainCalls
    <3>2. LinkOK' BY <2>1, <2>4, <3>1, WriteType DEF LinkOK
    <3>q. QED BY <2>3, <2>4, <2>h, <3>2
  <2>5. CASE /\ outcome' \in {"success", "failed"} /\ Txbuf' = "other"
             /\ UNCHANGED <<stack, isBusy>>
    BY <2>1, <2>3, <2>5, <2>h DEF LinkOK
  <2>q. QED BY <1>8, <2>2, <2>4, <2>5 DEF HandleReady
<1>9. CASE HandleStop
  BY <1>9 DEF HandleStop, linkVars, LinkOK, HistoryOK, ImageOK
<1>10. CASE HandleQuery
  BY <1>10 DEF HandleQuery, history, LinkOK, HistoryOK, ImageOK
<1>11. CASE HandlePiece
  <2>1. LinkOK' BY <1>11, PlainCalls, WriteType DEF HandlePiece, LinkOK
  <2>2. HistoryOK' /\ ImageOK' BY <1>11, BlameType DEF HandlePiece, HistoryOK, ImageOK
  <2>q. QED BY <2>1, <2>2
<1>12. CASE Return
  <2>1. stack # <<>> /\ UNCHANGED <<flash, MD5, stopSendFlag, history>> BY <1>12 DEF Return
  <2>2. HistoryOK' BY <2>1 DEF history, HistoryOK
  <2>3. CASE Head(stack).next = "result"
    <3>1. MD5 \in Images BY <2>1, <2>3, Popping DEF CallsFor
    <3>2. ImageOK' BY <1>12, <2>1, <2>3, <3>1 DEF Return, ImageOK
    <3>3. LinkOK' BY <1>12, <2>1, <2>3, Popping, PlainCalls, WriteType DEF Return
    <3>q. QED BY <2>2, <3>2, <3>3
  <2>4. CASE Head(stack).next # "result"
    <3>1. /\ stack' = Tail(stack) /\ isBusy' = FALSE /\ UNCHANGED <<Txbuf, offered>>
      BY <1>12, <2>4 DEF Return
    <3>t. Tail(stack) \in Seq(CallsFor(MD5)) /\ Len(Tail(stack)) <= MaxDepth
      BY <2>1, Popping DEF LinkOK
    <3>2. LinkOK' BY <2>1, <3>1, <3>t DEF LinkOK
    <3>q. QED BY <2>1, <2>2, <3>1, <3>2 DEF ImageOK
  <2>q. QED BY <2>3, <2>4
<1>13. CASE UNCHANGED vars
  BY <1>13 DEF vars, linkVars, history, LinkOK, HistoryOK, ImageOK
<1>q. QED
  BY <1>1, <1>2, <1>3, <1>4, <1>5, <1>6, <1>7, <1>8, <1>9, <1>10, <1>11, <1>12, <1>13
  DEF Next, GetFirmware, HandlePacket, HandleWrongReady

LEMMA Typed == Spec => []TInv
<1>1. Init => TInv
  <2> SUFFICES ASSUME Init PROVE TInv OBVIOUS
  <2>1. LinkOK
    <3>1. stack = <<>> /\ isBusy = FALSE /\ Txbuf = "request" BY DEF Init
    <3>2. stack \in Seq(CallsFor(MD5)) /\ Len(stack) = 0 BY <3>1, EmptySeq
    <3>3. 0 <= MaxDepth OBVIOUS
    <3>q. QED BY <3>1, <3>2, <3>3 DEF LinkOK
  <2>2. HistoryOK BY EmptySeq DEF Init, HistoryOK
  <2>3. ImageOK BY DEF Init, ImageOK
  <2>q. QED BY <2>1, <2>2, <2>3 DEF TInv
<1>q. QED BY <1>1, TypeStep, PTL DEF Spec

\* For any images and any nesting of calls the state of an upgrade is type
\* correct: pieces are within the image, and the link is busy only for a call.
THEOREM UpgradeTypes == Spec => []TypeOK
BY Typed, TypesSplit, PTL

-----------------------------------------------------------------------------
(* A failure is told *)

\* The stop flag is set with a stop of the MCU's or with one sent to it, except
\* where a READY came at the wrong time.
TellInv == stopSendFlag /\ blame \notin {"twice", "busy"} => told

LEMMA TellStep == TInv /\ TellInv /\ FailureTold /\ [Next]_vars => TellInv' /\ FailureTold'
<1> SUFFICES ASSUME TInv, TellInv, FailureTold, [Next]_vars PROVE TellInv' /\ FailureTold'
  OBVIOUS
<1> USE DEF TellInv, FailureTold, TInv, HistoryOK, ImageOK
<1>1. ASSUME NEW i \in Images, NEW d \in Downloads, Download(i, d) \/ PushedDownload(i, d)
      PROVE  TellInv' /\ FailureTold'
  BY <1>1 DEF Download, PushedDownload, Fetched, Blame
<1>2. CASE DownloadFails BY <1>2 DEF DownloadFails, history
<1>3. CASE NextPiece
  <2> DEFINE p == Head(stack)
  <2>1. UNCHANGED <<stopSendFlag, blame>> BY <1>3 DEF NextPiece
  <2>2. CASE UNCHANGED <<outcome, told>> BY <2>1, <2>2
  <2>3. CASE p.num < p.count /\ ~MayGoOn(p) /\ UNCHANGED told
    BY <2>1, <2>3 DEF MayGoOn
  <2>4. CASE outcome' = (IF stopSendFlag /\ ~p.hex THEN "failed" ELSE "success") /\ UNCHANGED told
    BY <2>1, <2>4
  <2>5. CASE SendStop(Tail(stack)) BY <2>1, <2>5 DEF SendStop
  <2>q. QED BY <1>3, <2>2, <2>3, <2>4, <2>5 DEF NextPiece, Ends, Begin
<1>4. CASE GiveUpPiece BY <1>4 DEF GiveUpPiece, SendStop
<1>5. CASE Resend \/ HandlePiece BY <1>5 DEF Resend, HandlePiece, Blame
<1>6. CASE HandleAck \/ HandleQuery \/ Return BY <1>6 DEF HandleAck, HandleQuery, Return, history
<1>7. CASE HandleStop BY <1>7 DEF HandleStop
<1>8. ASSUME NEW i \in Images, NEW hex \in BOOLEAN, HandleReady(i, hex)
      PROVE  TellInv' /\ FailureTold'
  <2>1. isBusy => blame' \in {"twice", "busy"} BY <1>8 DEF HandleReady
  <2>2. ~isBusy => stopSendFlag' = FALSE /\ outcome' # "failed" BY <1>8 DEF HandleReady
  <2>q. QED BY <2>1, <2>2 DEF LinkOK
<1>9. CASE UNCHANGED vars BY <1>9 DEF vars, history
<1>q. QED
  BY <1>1, <1>2, <1>3, <1>4, <1>5, <1>6, <1>7, <1>8, <1>9
  DEF Next, GetFirmware, HandlePacket, HandleWrongReady

\* However downloads, stops, repeated requests and lost acknowledgements mix, an
\* MCU that asked once with the line free learns of a transfer that failed.
THEOREM FailuresAreTold == Spec => []FailureTold
<1>1. Init => TellInv /\ FailureTold BY DEF Init, TellInv, FailureTold
<1>q. QED BY <1>1, Typed, TellStep, PTL DEF Spec

-----------------------------------------------------------------------------
(* A stop is obeyed *)

IsPiece(c) == c.next = "piece"

\* One transfer at most is on the stack, and when a piece was begun after the
\* MCU's stop, it is the last one.
OneTransfer(st, e) ==
  /\ \A i, j \in 1 .. Len(st) : IsPiece(st[i]) /\ IsPiece(st[j]) => i = j
  /\ e = 1 => \A i \in 1 .. Len(st) : IsPiece(st[i]) => st[i].num = st[i].count
NoTransfer(st) == \A i \in 1 .. Len(st) : ~IsPiece(st[i])

StopInv == blame # "twice" => extra <= 1 /\ OneTransfer(stack, extra)

LEMMA PlainPushed ==
  ASSUME NEW S, NEW c \in S, NEW st \in Seq(S), NEW e, ~IsPiece(c), OneTransfer(st, e)
  PROVE  OneTransfer(<<c>> \o st, e)
<1>1. Len(st) \in Nat BY LenProperties
<1> DEFINE s == <<c>> \o st
<1>2. /\ Len(s) = Len(st) + 1
      /\ \A i \in 1 .. Len(st) + 1 : s[i] = IF i = 1 THEN c ELSE st[i - 1]
  BY Pushed
<1>3. \A i \in 1 .. Len(s) : IsPiece(s[i]) => i - 1 \in 1 .. Len(st) /\ s[i] = st[i - 1]
  BY <1>1, <1>2
<1> HIDE DEF s
<1>4. ASSUME NEW i \in 1 .. Len(s), NEW j \in 1 .. Len(s), IsPiece(s[i]), IsPiece(s[j])
      PROVE  i = j
  <2>1. i - 1 = j - 1 BY <1>3, <1>4 DEF OneTransfer
  <2>2. i \in Int /\ j \in Int BY <1>1, <1>2
  <2>q. QED BY <2>1, <2>2
<1>5. ASSUME e = 1, NEW i \in 1 .. Len(s), IsPiece(s[i]) PROVE s[i].num = s[i].count
  BY <1>3, <1>5 DEF OneTransfer
<1>q. QED BY <1>4, <1>5 DEF OneTransfer, s

LEMMA PiecePushed ==
  ASSUME NEW S, NEW c \in S, NEW st \in Seq(S), NEW e, NoTransfer(st),
         e = 1 => c.num = c.count
  PROVE  OneTransfer(<<c>> \o st, e)
<1>1. Len(st) \in Nat BY LenProperties
<1> DEFINE s == <<c>> \o st
<1>2. /\ Len(s) = Len(st) + 1
      /\ \A i \in 1 .. Len(st) + 1 : s[i] = IF i = 1 THEN c ELSE st[i - 1]
  BY Pushed
<1>3. \A i \in 1 .. Len(s) : IsPiece(s[i]) => i = 1 /\ s[i] = c
  BY <1>1, <1>2 DEF NoTransfer
<1> HIDE DEF s
<1>q. QED BY <1>3 DEF OneTransfer, s

LEMMA TransferPopped ==
  ASSUME LinkOK, stack # <<>>, NEW e, OneTransfer(stack, e)
  PROVE  /\ OneTransfer(Tail(stack), e)
         /\ IsPiece(Head(stack)) => NoTransfer(Tail(stack))
<1>1. /\ Len(stack) \in Nat \ {0} /\ Len(Tail(stack)) = Len(stack) - 1
      /\ Head(stack) = stack[1]
      /\ \A i \in 1 .. Len(Tail(stack)) : Tail(stack)[i] = stack[i + 1]
  BY Popping
<1>2. \A i \in 1 .. Len(Tail(stack)) : i + 1 \in 1 .. Len(stack) BY <1>1
<1>q. QED BY <1>1, <1>2 DEF OneTransfer, NoTransfer

LEMMA StopStep == TInv /\ StopInv /\ [Next]_vars => StopInv'
<1> SUFFICES ASSUME TInv, StopInv, [Next]_vars, blame' # "twice"
             PROVE  extra' <= 1 /\ OneTransfer(stack', extra')
  BY DEF StopInv
<1> USE DEF TInv
<1>s. stack \in Seq(CallsFor(MD5)) BY DEF LinkOK
<1>w. ASSUME NEW c, ~IsPiece(c), NEW st, Write(c, st), NEW m, c \in CallsFor(m),
             st \in Seq(CallsFor(m)), extra' <= 1, OneTransfer(st, extra')
      PROVE  extra' <= 1 /\ OneTransfer(stack', extra')
  BY <1>w, PlainPushed DEF Write
<1>p. ~IsPiece(Call("nothing")) /\ ~IsPiece(Call("stop")) /\ ~IsPiece(Call("result"))
  BY DEF IsPiece, Call
<1>b. ASSUME blame # "twice" PROVE extra <= 1 /\ OneTransfer(stack, extra)
  BY <1>b DEF StopInv
<1>c. ASSUME NEW why \in {"replaced", "overwritten", "stray"}, Blame(why) PROVE blame # "twice"
  BY <1>c DEF Blame
<1>t. ASSUME NEW c \in CallsFor(MD5), ~IsPiece(c), TryWrite(c), UNCHANGED extra, blame # "twice"
      PROVE  extra' <= 1 /\ OneTransfer(stack', extra')
  BY <1>s, <1>t, <1>w, <1>b DEF TryWrite
<1>1. ASSUME NEW i \in Images, NEW d \in Downloads, Download(i, d) \/ PushedDownload(i, d)
      PROVE  extra' <= 1 /\ OneTransfer(stack', extra')
  <2>1. UNCHANGED extra /\ blame # "twice"
    BY <1>1, <1>c DEF Download, PushedDownload, Fetched
  <2>2. stack \in Seq(CallsFor(i)) BY <1>s, CallsKept
  <2>3. ASSUME NEW c \in CallsFor(i), ~IsPiece(c), Write(c, stack)
        PROVE  extra' <= 1 /\ OneTransfer(stack', extra')
    BY <1>b, <1>w, <2>1, <2>2, <2>3
  <2>4. CASE UNCHANGED stack BY <1>b, <2>1, <2>4
  <2>q. QED
    BY <1>1, <1>p, <2>3, <2>4, PlainCalls DEF Download, PushedDownload, TryWrite, linkVars
<1>2. CASE DownloadFails
  BY <1>2, <1>p, <1>t, PlainCalls DEF DownloadFails, history
<1>3. CASE NextPiece
  <2> DEFINE p == Head(stack)
  <2>1. /\ stack # <<>> /\ IsPiece(p) /\ UNCHANGED blame /\ p \in CallsFor(MD5)
        /\ Tail(stack) \in Seq(CallsFor(MD5))
    BY <1>3, Popping DEF NextPiece, IsPiece
  <2>2. /\ extra \in Nat /\ extra <= 1 /\ OneTransfer(stack, extra)
        /\ OneTransfer(Tail(stack), extra) /\ NoTransfer(Tail(stack))
    BY <1>b, <2>1, TransferPopped DEF HistoryOK
  <2>3. CASE p.num < p.count /\ (MayGoOn(p) \/ MayEndHex(p))
             /\ Begin(Piece(After(p), p.count, p.hex), Tail(stack))
    <3>1. p.num \in Nat /\ p.count \in Nat /\ p.hex \in BOOLEAN /\ MD5 \in Images
      BY <2>1 DEF CallsFor, Calls, IsPiece
    <3>2. extra # 1
      <4>1. 1 \in 1 .. Len(stack) /\ p = stack[1] BY <2>1, Popping
      <4>q. QED BY <2>1, <2>2, <2>3, <3>1, <4>1 DEF OneTransfer
    <3>3. extra' <= 1 /\ (extra' = 1 => After(p) = p.count)
      BY <2>2, <2>3, <3>1, <3>2 DEF Begin, MayGoOn, MayEndHex, After
    <3>4. Piece(After(p), p.count, p.hex) \in CallsFor(MD5)
      BY <2>3, <3>1, PlainCalls DEF After
    <3>5. extra' = 1 => Piece(After(p), p.count, p.hex).num = Piece(After(p), p.count, p.hex).count
      BY <3>3 DEF Piece
    <3>q. QED BY <2>1, <2>2, <2>3, <3>3, <3>4, <3>5, PiecePushed DEF Begin, Write
  <2>4. CASE UNCHANGED extra /\ stack' = Tail(stack) BY <2>2, <2>4
  <2>5. CASE SendStop(Tail(stack)) /\ UNCHANGED extra
    BY <1>p, <1>w, <2>1, <2>2, <2>5, PlainCalls DEF SendStop
  <2>q. QED BY <1>3, <2>3, <2>4, <2>5 DEF NextPiece, Ends
<1>4. CASE GiveUpPiece
  <2>1. stack # <<>> /\ UNCHANGED <<blame, extra>> /\ Write(Call("stop"), Tail(stack))
    BY <1>4 DEF GiveUpPiece, SendStop
  <2>2. Tail(stack) \in Seq(CallsFor(MD5)) /\ extra' <= 1 /\ OneTransfer(Tail(stack), extra')
    BY <1>b, <2>1, Popping, TransferPopped
  <2>q. QED BY <1>p, <1>w, <2>1, <2>2, PlainCalls
<1>5. CASE Resend BY <1>5, <1>b, <1>c DEF Resend
<1>6. CASE HandleAck \/ HandleStop \/ HandleQuery
  BY <1>6, <1>b DEF HandleAck, HandleStop, HandleQuery, linkVars, history
<1>7. ASSUME NEW i \in Images, NEW hex \in BOOLEAN, HandleReady(i, hex)
      PROVE  extra' <= 1 /\ OneTransfer(stack', extra')
  <2>1. ~InTransfer /\ extra' = 0 /\ i = MD5 BY <1>7 DEF HandleReady
  <2>2. NoTransfer(stack) BY <2>1 DEF NoTransfer, IsPiece, InTransfer
  <2>3. CASE UNCHANGED stack BY <2>1, <2>2, <2>3 DEF NoTransfer, OneTransfer
  <2>4. CASE Write(Piece(1, PiecesOf[i], hex), stack)
    <3>1. Piece(1, PiecesOf[i], hex) \in CallsFor(MD5) BY <2>1, PlainCalls
    <3>q. QED BY <1>s, <2>1, <2>2, <2>4, <3>1, PiecePushed DEF Write
  <2>q. QED BY <1>7, <2>3, <2>4 DEF HandleReady
<1>8. CASE HandlePiece
  <2>1. blame # "twice" /\ UNCHANGED extra /\ Write(Call("nothing"), stack)
    BY <1>8, <1>c DEF HandlePiece
  <2>q. QED BY <1>b, <1>p, <1>s, <1>w, <2>1, PlainCalls
<1>9. CASE Return
  <2>1. stack # <<>> /\ UNCHANGED <<blame, extra>> BY <1>9 DEF Return, history
  <2>2. Tail(stack) \in Seq(CallsFor(MD5)) /\ extra' <= 1 /\ OneTransfer(Tail(stack), extra')
    BY <1>b, <2>1, Popping, TransferPopped
  <2>q. QED BY <1>9, <1>p, <1>w, <2>2, PlainCalls DEF Return
<1>10. CASE UNCHANGED vars BY <1>10, <1>b DEF vars, linkVars, history
<1>q. QED
  BY <1>1, <1>2, <1>3, <1>4, <1>5, <1>6, <1>7, <1>8, <1>9, <1>10
  DEF Next, GetFirmware, HandlePacket, HandleWrongReady

\* An MCU that says stop gets one more piece at most, unless it has two
\* transfers going on at once.
THEOREM StopIsObeyed == Spec => []StopObeyed
<1>1. Init => StopInv BY EmptySeq DEF Init, StopInv, OneTransfer
<1>2. StopInv => StopObeyed BY DEF StopInv, StopObeyed
<1>q. QED BY <1>1, <1>2, Typed, StopStep, PTL DEF Spec

-----------------------------------------------------------------------------
(* A success is a whole image *)

Received(m, n) == [image |-> m, num |-> n, sound |-> TRUE]
FirstPieces(m, n) == [k \in 1 .. n |-> Received(m, k)]

LEMMA NoPieces == \A m : FirstPieces(m, 0) = <<>>
BY DEF FirstPieces

LEMMA OneMorePiece ==
  ASSUME NEW m \in Images, NEW n \in Nat
  PROVE  Append(FirstPieces(m, n), Received(m, n + 1)) = FirstPieces(m, n + 1)
<1> DEFINE S == [image : Images, num : Nat, sound : BOOLEAN]
<1>1. \A l \in Nat : /\ FirstPieces(m, l) \in Seq(S) /\ Len(FirstPieces(m, l)) = l
                      /\ \A k \in 1 .. l : FirstPieces(m, l)[k] = Received(m, k)
  BY DEF FirstPieces, Received
<1>2. Received(m, n + 1) \in S BY DEF Received
<1> DEFINE t == Append(FirstPieces(m, n), Received(m, n + 1))
<1> HIDE DEF S
<1>3. /\ t \in Seq(S) /\ Len(t) = Len(FirstPieces(m, n)) + 1
      /\ \A k \in 1 .. Len(FirstPieces(m, n)) : t[k] = FirstPieces(m, n)[k]
      /\ t[Len(FirstPieces(m, n)) + 1] = Received(m, n + 1)
  BY <1>1, <1>2, AppendProperties
<1> HIDE DEF t
<1>4. Len(t) = n + 1 /\ t[n + 1] = Received(m, n + 1) BY <1>1, <1>3
<1>5. \A k \in 1 .. n : t[k] = Received(m, k) BY <1>1, <1>3
<1>6. \A k \in 1 .. n + 1 : t[k] = Received(m, k)
  <2>1. \A k \in 1 .. n + 1 : k \in 1 .. n \/ k = n + 1 OBVIOUS
  <2>q. QED BY <1>4, <1>5, <2>1
<1>7. /\ FirstPieces(m, n + 1) \in Seq(S) /\ Len(FirstPieces(m, n + 1)) = n + 1
      /\ \A k \in 1 .. n + 1 : FirstPieces(m, n + 1)[k] = Received(m, k)
  BY <1>1
<1>8. t = FirstPieces(m, n + 1) BY <1>3, <1>4, <1>6, <1>7, SeqEqual
<1>q. QED BY <1>8 DEF t

\* A piece on the stack: those before it were received, and itself too unless it
\* is the call that waits.
PieceOK(c, waits) ==
  /\ flash.whole /\ outcome = "none" /\ c.count = PiecesOf[MD5]
  /\ taken = FirstPieces(MD5, IF waits THEN c.num - 1 ELSE c.num)
  /\ waits => Txbuf # "sent"
PiecesOK == \A i \in 1 .. Len(stack) : IsPiece(stack[i]) => PieceOK(stack[i], i = 1 /\ isBusy)
SuccessOK == outcome = "success" /\ PiecesOf[MD5] > 1 => taken = FirstPieces(MD5, PiecesOf[MD5])

SentInv == blame = "none" => PiecesOK /\ SuccessOK

Untouched == UNCHANGED <<flash, MD5, outcome, taken>>

\* Another call above pieces of which none waits.
LEMMA PieceBelow ==
  ASSUME NEW m, NEW c \in CallsFor(m), NEW st \in Seq(CallsFor(m)), Write(c, st), ~IsPiece(c),
         \A i \in 1 .. Len(st) : IsPiece(st[i]) => PieceOK(st[i], FALSE), Untouched
  PROVE  PiecesOK'
<1>1. Len(st) \in Nat BY LenProperties
<1>2. /\ Len(stack') = Len(st) + 1
      /\ \A i \in 1 .. Len(st) + 1 : stack'[i] = IF i = 1 THEN c ELSE st[i - 1]
  BY Pushed DEF Write
<1>3. ASSUME NEW i \in 1 .. Len(stack'), IsPiece(stack'[i])
      PROVE  PieceOK(stack'[i], FALSE) /\ i # 1
  <2>1. i = 1 \/ i - 1 \in 1 .. Len(st) BY <1>1, <1>2
  <2>2. stack'[i] = IF i = 1 THEN c ELSE st[i - 1] BY <1>2
  <2>3. i # 1 BY <1>3, <2>2
  <2>q. QED BY <1>3, <2>1, <2>2, <2>3
<1>q. QED BY <1>3 DEF PiecesOK, PieceOK, Untouched

\* The innermost call returns.
LEMMA PieceAbove ==
  ASSUME LinkOK, PiecesOK, stack # <<>>, ~IsPiece(Head(stack))
  PROVE  \A i \in 1 .. Len(Tail(stack)) : IsPiece(Tail(stack)[i]) => PieceOK(Tail(stack)[i], FALSE)
<1>1. /\ Len(stack) \in Nat \ {0} /\ Len(Tail(stack)) = Len(stack) - 1
      /\ \A i \in 1 .. Len(Tail(stack)) : Tail(stack)[i] = stack[i + 1]
  BY Popping
<1>2. \A i \in 1 .. Len(Tail(stack)) : i + 1 \in 1 .. Len(stack) /\ i + 1 # 1 BY <1>1
<1>q. QED BY <1>1, <1>2 DEF PiecesOK

LEMMA IdleLink ==
  ASSUME PiecesOK, ~isBusy
  PROVE  \A i \in 1 .. Len(stack) : IsPiece(stack[i]) => PieceOK(stack[i], FALSE)
BY DEF PiecesOK

LEMMA SameCalls ==
  ASSUME PiecesOK, Untouched, UNCHANGED <<stack, isBusy>>, Txbuf' # "sent" \/ UNCHANGED Txbuf
  PROVE  PiecesOK'
BY DEF PiecesOK, PieceOK, Untouched

LEMMA NoneLeft ==
  ASSUME NEW st, NoTransfer(st), stack' = st
  PROVE  PiecesOK'
BY DEF PiecesOK, NoTransfer

LEMMA NoneAbove ==
  ASSUME NEW m, NEW c \in CallsFor(m), NEW st \in Seq(CallsFor(m)), Write(c, st), ~IsPiece(c),
         NoTransfer(st)
  PROVE  PiecesOK'
<1>1. Len(st) \in Nat BY LenProperties
<1>2. /\ Len(stack') = Len(st) + 1
      /\ \A i \in 1 .. Len(st) + 1 : stack'[i] = IF i = 1 THEN c ELSE st[i - 1]
  BY Pushed DEF Write
<1>3. ASSUME NEW i \in 1 .. Len(stack') PROVE ~IsPiece(stack'[i])
  <2>1. i = 1 \/ i - 1 \in 1 .. Len(st) BY <1>1, <1>2
  <2>q. QED BY <1>2, <2>1 DEF NoTransfer
<1>q. QED BY <1>3 DEF PiecesOK

\* A piece that waits above no other transfer.
LEMMA PieceWaits ==
  ASSUME NEW m, NEW c \in CallsFor(m), NEW st \in Seq(CallsFor(m)), Write(c, st),
         NoTransfer(st), PieceOK(c, TRUE)'
  PROVE  PiecesOK'
<1>1. Len(st) \in Nat BY LenProperties
<1>2. /\ Len(stack') = Len(st) + 1 /\ isBusy'
      /\ \A i \in 1 .. Len(st) + 1 : stack'[i] = IF i = 1 THEN c ELSE st[i - 1]
  BY Pushed DEF Write
<1>3. ASSUME NEW i \in 1 .. Len(stack'), IsPiece(stack'[i]) PROVE i = 1 /\ stack'[i] = c
  <2>1. i = 1 \/ i - 1 \in 1 .. Len(st) BY <1>1, <1>2
  <2>2. i \in 1 .. Len(st) + 1 BY <1>2
  <2>3. i # 1 => stack'[i] = st[i - 1] BY <1>2, <2>2
  <2>4. i = 1 BY <1>3, <2>1, <2>3 DEF NoTransfer
  <2>q. QED BY <1>2, <2>2, <2>4
<1>q. QED BY <1>2, <1>3 DEF PiecesOK

LEMMA SentStep == TInv /\ StopInv /\ SentInv /\ [Next]_vars => SentInv'
<1> SUFFICES ASSUME TInv, StopInv, SentInv, [Next]_vars, blame' = "none"
             PROVE  PiecesOK' /\ SuccessOK'
  BY DEF SentInv
<1> USE DEF TInv
<1>s. stack \in Seq(CallsFor(MD5)) BY DEF LinkOK
<1>p. ~IsPiece(Call("nothing")) /\ ~IsPiece(Call("stop")) /\ ~IsPiece(Call("result"))
  BY DEF IsPiece, Call
<1>b. ASSUME blame = "none" PROVE PiecesOK /\ SuccessOK /\ OneTransfer(stack, extra)
  BY <1>b DEF SentInv, StopInv
<1>c. ASSUME NEW why \in {"replaced", "overwritten", "stray"}, Blame(why)
      PROVE  blame = "none" /\ NoTransfer(stack)
  BY <1>c DEF Blame, NoTransfer, IsPiece, InTransfer
<1>u. ASSUME Untouched, SuccessOK PROVE SuccessOK'
  BY <1>u DEF Untouched, SuccessOK
<1>1. ASSUME NEW i \in Images, NEW d \in Downloads, Download(i, d) \/ PushedDownload(i, d)
      PROVE  PiecesOK' /\ SuccessOK'
  <2>1. outcome' = "none" BY <1>1 DEF Download, PushedDownload, Fetched
  <2>2. NoTransfer(stack) /\ stack \in Seq(CallsFor(i))
    BY <1>1, <1>s, <1>c, CallsKept, EmptySeq DEF Download, PushedDownload, NoTransfer
  <2>3. CASE UNCHANGED stack BY <2>1, <2>2, <2>3, NoneLeft DEF SuccessOK
  <2>4. ASSUME NEW c \in CallsFor(i), ~IsPiece(c), Write(c, stack) PROVE PiecesOK' /\ SuccessOK'
    BY <2>1, <2>2, <2>4, NoneAbove DEF SuccessOK
  <2>q. QED
    BY <1>1, <1>p, <2>3, <2>4, PlainCalls DEF Download, PushedDownload, TryWrite, linkVars
<1>2. CASE DownloadFails
  <2>1. Untouched /\ blame = "none" BY <1>2 DEF DownloadFails, history, Untouched
  <2>2. CASE isBusy
    BY <1>2, <1>b, <1>u, <2>1, <2>2, SameCalls DEF DownloadFails, TryWrite
  <2>3. ASSUME ~isBusy PROVE PiecesOK'
    BY <1>2, <1>b, <1>p, <1>s, <2>1, <2>3, IdleLink, PieceBelow, PlainCalls
    DEF DownloadFails, TryWrite
  <2>q. QED BY <1>b, <1>u, <2>1, <2>2, <2>3
<1>3. CASE NextPiece
  <2>p. PICK p : p = Head(stack) OBVIOUS
  <2>1. /\ stack # <<>> /\ IsPiece(p) /\ ~isBusy /\ p \in CallsFor(MD5) /\ p = stack[1]
        /\ 1 \in 1 .. Len(stack) /\ Tail(stack) \in Seq(CallsFor(MD5))
        /\ UNCHANGED <<flash, MD5, taken, blame>>
    BY <1>3, <2>p, Popping DEF NextPiece, IsPiece
  <2>2. PieceOK(p, FALSE) /\ NoTransfer(Tail(stack))
    BY <1>b, <2>p, <2>1, IdleLink, TransferPopped
  <2>3. MD5 \in Images /\ p.num \in Nat /\ p.count \in Nat BY <2>1 DEF CallsFor, Calls, IsPiece
  <2>4. CASE p.num < p.count /\ Begin(Piece(After(p), p.count, p.hex), Tail(stack))
             /\ UNCHANGED outcome
    <3> DEFINE q == Piece(After(p), p.count, p.hex)
    <3>1. p.hex \in BOOLEAN BY <2>1 DEF CallsFor, Calls
    <3>2. q \in CallsFor(MD5) BY <2>3, <2>4, <3>1, PlainCalls DEF After
    <3>3. q.num - 1 = p.num /\ q.count = p.count BY <2>3 DEF Piece, After
    <3>4. PieceOK(q, TRUE)'
      BY <2>1, <2>2, <2>4, <3>3 DEF PieceOK, Begin, Write
    <3>5. Write(q, Tail(stack)) BY <2>4 DEF Begin
    <3> HIDE DEF q
    <3>6. PiecesOK' BY <2>1, <2>2, <3>2, <3>4, <3>5, PieceWaits
    <3>7. outcome' = "none" BY <2>2, <2>4 DEF PieceOK
    <3>q. QED BY <3>6, <3>7 DEF SuccessOK
  <2>5. CASE Ends("failed", Tail(stack))
    BY <2>2, <2>5, NoneLeft DEF Ends, SuccessOK
  <2>6. ASSUME p.num = p.count, NEW how, Ends(how, Tail(stack)) PROVE PiecesOK' /\ SuccessOK'
    <3>1. taken = FirstPieces(MD5, PiecesOf[MD5]) BY <2>2, <2>6 DEF PieceOK
    <3>q. QED BY <2>1, <2>2, <2>6, <3>1, NoneLeft DEF Ends, SuccessOK
  <2>7. CASE SendStop(Tail(stack))
    BY <1>p, <2>1, <2>2, <2>7, NoneAbove, PlainCalls DEF SendStop, SuccessOK
  <2>q. QED BY <1>3, <2>p, <2>4, <2>5, <2>6, <2>7 DEF NextPiece
<1>4. CASE GiveUpPiece
  <2>1. stack # <<>> /\ IsPiece(Head(stack)) /\ SendStop(Tail(stack)) /\ UNCHANGED blame
    BY <1>4 DEF GiveUpPiece, IsPiece
  <2>2. Tail(stack) \in Seq(CallsFor(MD5)) /\ NoTransfer(Tail(stack))
    BY <1>b, <2>1, Popping, TransferPopped
  <2>q. QED BY <1>p, <2>1, <2>2, NoneAbove, PlainCalls DEF SendStop, SuccessOK
<1>5. CASE Resend
  <2>1. Blame("overwritten") /\ Untouched /\ UNCHANGED stack BY <1>5 DEF Resend, Untouched
  <2>q. QED BY <1>b, <1>c, <1>u, <2>1, NoneLeft
<1>6. CASE HandleAck
  <2>1. /\ isBusy /\ isBusy' = FALSE /\ stack # <<>> /\ blame = "none"
        /\ UNCHANGED <<flash, MD5, stack, outcome>>
    BY <1>6 DEF HandleAck, LinkOK
  <2>2. PiecesOK /\ SuccessOK /\ OneTransfer(stack, extra) BY <1>b, <2>1
  <2>3. Head(stack) \in CallsFor(MD5) /\ Head(stack) = stack[1] /\ 1 \in 1 .. Len(stack)
    BY <2>1, Popping
  <2>4. CASE ~IsPiece(Head(stack))
    <3>1. UNCHANGED taken BY <1>6, <2>4 DEF HandleAck, IsPiece
    <3>2. \A i \in 1 .. Len(stack) : IsPiece(stack[i]) => PieceOK(stack[i], FALSE)
      BY <2>2, <2>3, <2>4 DEF PiecesOK
    <3>3. PiecesOK' BY <2>1, <3>1, <3>2 DEF PiecesOK, PieceOK
    <3>q. QED BY <1>u, <2>1, <2>2, <3>1, <3>3 DEF Untouched
  <2>5. CASE IsPiece(Head(stack))
    <3> DEFINE p == Head(stack)
    <3>1. PieceOK(p, TRUE) BY <2>1, <2>2, <2>3, <2>5 DEF PiecesOK
    <3>2. MD5 \in Images /\ p.num \in Nat \ {0} BY <2>3, <2>5 DEF CallsFor, Calls, IsPiece
    <3>3. taken' = Append(FirstPieces(MD5, p.num - 1), Received(MD5, p.num))
      BY <1>6, <2>1, <2>5, <3>1 DEF HandleAck, IsPiece, PieceOK, Received, ImageOK
    <3>4. taken' = FirstPieces(MD5, p.num)
      <4>1. p.num - 1 \in Nat /\ p.num - 1 + 1 = p.num BY <3>2
      <4>q. QED BY <3>2, <3>3, <4>1, OneMorePiece
    <3>5. PieceOK(p, FALSE)' BY <2>1, <3>1, <3>4 DEF PieceOK
    <3>6. \A i \in 1 .. Len(stack) : IsPiece(stack[i]) => stack[i] = p
      BY <2>2, <2>3, <2>5 DEF OneTransfer
    <3>7. PiecesOK' BY <2>1, <3>5, <3>6 DEF PiecesOK
    <3>8. outcome' = "none" BY <2>1, <3>1 DEF PieceOK
    <3>q. QED BY <3>7, <3>8 DEF SuccessOK
  <2>q. QED BY <2>4, <2>5
<1>7. CASE HandleStop
  BY <1>7, <1>b, <1>u, SameCalls DEF HandleStop, linkVars, Untouched
<1>8. CASE HandleQuery
  BY <1>8, <1>b, <1>u, SameCalls DEF HandleQuery, history, Untouched
<1>9. ASSUME NEW i \in Images, NEW hex \in BOOLEAN, HandleReady(i, hex)
      PROVE  PiecesOK' /\ SuccessOK'
  <2>1. ~InTransfer /\ ~isBusy /\ flash.whole BY <1>9 DEF HandleReady
  <2>2. taken' = <<>> /\ i = MD5 /\ UNCHANGED <<flash, MD5>> BY <1>9 DEF HandleReady
  <2>3. NoTransfer(stack) BY <2>1 DEF NoTransfer, IsPiece, InTransfer
  <2>4. CASE PiecesOf[i] = 1 /\ UNCHANGED stack
    BY <2>2, <2>3, <2>4, NoneLeft DEF SuccessOK
  <2>5. CASE outcome' = "none" /\ Write(Piece(1, PiecesOf[i], hex), stack)
    <3> DEFINE q == Piece(1, PiecesOf[i], hex)
    <3>1. q \in CallsFor(MD5) BY <2>2, PlainCalls
    <3>2. PieceOK(q, TRUE)'
      BY <2>1, <2>2, <2>5, NoPieces DEF PieceOK, Piece, Write
    <3>3. PiecesOK' BY <1>s, <2>3, <2>5, <3>1, <3>2, PieceWaits
    <3>q. QED BY <2>5, <3>3 DEF SuccessOK
  <2>q. QED BY <1>9, <2>1, <2>4, <2>5 DEF HandleReady
<1>10. CASE HandlePiece
  <2>1. Untouched /\ Blame("stray") /\ Write(Call("nothing"), stack)
    BY <1>10 DEF HandlePiece, Untouched
  <2>q. QED BY <1>b, <1>c, <1>p, <1>s, <1>u, <2>1, NoneAbove, PlainCalls
<1>11. CASE Return
  <2>1. stack # <<>> /\ ~IsPiece(Head(stack)) /\ Untouched /\ blame = "none"
    BY <1>11 DEF Return, IsPiece, history, Untouched
  <2>2. /\ Tail(stack) \in Seq(CallsFor(MD5))
        /\ \A i \in 1 .. Len(Tail(stack)) :
              IsPiece(Tail(stack)[i]) => PieceOK(Tail(stack)[i], FALSE)
    BY <1>b, <2>1, Popping, PieceAbove
  <2>3. CASE Write(Call("nothing"), Tail(stack))
    BY <1>b, <1>p, <1>u, <2>1, <2>2, <2>3, PieceBelow, PlainCalls
  <2>4. CASE stack' = Tail(stack) /\ isBusy' = FALSE
    <3>1. PiecesOK' BY <2>1, <2>2, <2>4 DEF PiecesOK, PieceOK, Untouched
    <3>q. QED BY <1>b, <1>u, <2>1, <3>1
  <2>q. QED BY <1>11, <2>3, <2>4 DEF Return
<1>12. CASE UNCHANGED vars
  BY <1>12, <1>b, <1>u, SameCalls DEF vars, linkVars, history, Untouched
<1>q. QED
  BY <1>1, <1>2, <1>3, <1>4, <1>5, <1>6, <1>7, <1>8, <1>9, <1>10, <1>11, <1>12
  DEF Next, GetFirmware, HandlePacket, HandleWrongReady

\* A transfer that succeeds has given the MCU the whole image it asked for, in
\* order and sound, whatever was going on around it, but for what blame names.
THEOREM SuccessIsWhole == Spec => []WholeImageSent
<1>1. Init => StopInv /\ SentInv
  BY EmptySeq DEF Init, StopInv, OneTransfer, SentInv, PiecesOK, SuccessOK
<1>2. SentInv => WholeImageSent
  BY DEF SentInv, SuccessOK, WholeImageSent, FirstPieces, Received
<1>q. QED BY <1>1, <1>2, Typed, StopStep, SentStep, PTL DEF Spec

=============================================================================
