------------------------------- MODULE McuOta -------------------------------
(* The upgrade of the MCU's firmware (local.c, local_common.c, the download  *)
(* in gagent_hf_drv.c): an image is downloaded into flash, the MCU is told,  *)
(* and when it is ready the image goes to it piece by piece.                 *)
(*                                                                           *)
(* The pieces are sent from the handler of the MCU's READY, so everything    *)
(* else the MCU sends until the last piece is acknowledged is handled inside *)
(* that handler: stack holds the calls of WriteP0 and WriteP0withFlag that   *)
(* wait, innermost first, each with what its caller does next.               *)
EXTENDS Naturals, Sequences

CONSTANTS
  Images,   \* firmware images the cloud offers
  NoImage,
  PiecesOf, \* their pieces: ceil(filelen / piecelen), or lines of a hex file
  Hex,      \* the images that are hex files (mcu_firmware_type)
  MaxDepth  \* bound of the model: calls inside each other

ASSUME ImageAssumption == /\ NoImage \notin Images /\ Hex \subseteq Images
                          /\ PiecesOf \in [Images -> Nat \ {0}]
ASSUME BoundAssumption == MaxDepth \in Nat \ {0}

VARIABLES
  flash,        \* the image in flash, and whether it is whole
  MD5,          \* mcu.MD5: the image whose header was read last
  stopSendFlag,
  stack, isBusy,
  Txbuf,        \* whose bytes are in the buffer requests are sent again from
  offered,      \* images the MCU knows of: it can name their MD5
  taken,        \* history: what the MCU acknowledged in this transfer
  outcome,      \* history: how the last transfer ended
  told,         \* history: the MCU sent a stop, or was sent one
  extra,        \* history: pieces begun since the MCU sent its stop
  blame         \* history: what is wrong with this transfer from outside

linkVars == <<stack, isBusy, Txbuf>>
history == <<taken, outcome, told, extra, blame>>
vars == <<flash, MD5, stopSendFlag, linkVars, offered, history>>

Init == /\ flash = [image |-> NoImage, whole |-> FALSE] /\ MD5 = NoImage
        /\ stopSendFlag = FALSE
        /\ stack = <<>> /\ isBusy = FALSE /\ Txbuf = "request"
        /\ offered = {}
        /\ taken = <<>> /\ outcome = "none" /\ told = FALSE /\ extra = 0 /\ blame = "none"

Call(next) == [next |-> next, num |-> 0, count |-> 0, hex |-> FALSE]
Piece(n, count, hex) == [next |-> "piece", num |-> n, count |-> count, hex |-> hex]
InTransfer == \E i \in 1 .. Len(stack) : stack[i].next \in {"piece", "stop"}

Blame(why) == blame' = IF InTransfer /\ blame = "none" THEN why ELSE blame

\* Up to the polling loop of a WriteP0 above the calls st.
Write(call, st) ==
  Len(st) < MaxDepth /\ stack' = <<call>> \o st /\ isBusy' = TRUE /\ Txbuf' = "request"

\* A WriteP0 from a handler: its caller has filled Txbuf before a busy link
\* refuses it.
TryWrite(call) == IF isBusy THEN Txbuf' = "other" /\ UNCHANGED <<stack, isBusy>>
                  ELSE Write(call, stack)

-----------------------------------------------------------------------------
(* The download: GAgent_MCUOTAByUrl, Http_ResGetFirmware *)

\* The header is read before anything is written, and its MD5 kept even when
\* the rest does not come.  The MD5 is checked over what was received: that the
\* flash reads back otherwise is only logged.
Downloads == {d \in [ok : BOOLEAN, whole : BOOLEAN] : d.whole => d.ok}

Fetched(i, d) ==
  /\ flash' = [image |-> i, whole |-> d.whole] /\ MD5' = i
  /\ outcome' = "none"
  /\ UNCHANGED <<stopSendFlag, taken, told, extra>>

\* trans_startmcuota: the result, then NEED_UPGRADE.  A busy link takes neither.
Download(i, d) ==
  /\ Fetched(i, d) /\ Blame("replaced")
  /\ TryWrite(Call(IF d.ok THEN "result" ELSE "nothing"))
  /\ UNCHANGED offered

\* A download that fails before the header.
DownloadFails ==
  /\ TryWrite(Call("nothing"))
  /\ UNCHANGED <<flash, MD5, stopSendFlag, offered, history>>

\* A firmware the cloud pushed, fetched by the main loop: no result.
PushedDownload(i, d) ==
  /\ stack = <<>> /\ Fetched(i, d) /\ UNCHANGED blame
  /\ IF d.ok THEN Write(Call("nothing"), stack) /\ offered' = offered \cup {i}
     ELSE UNCHANGED <<linkVars, offered>>

GetFirmware == \/ \E i \in Images : \E d \in Downloads : Download(i, d) \/ PushedDownload(i, d)
               \/ DownloadFails

-----------------------------------------------------------------------------
(* Sending: GAgent_LocalSendUpgrade and GAgent_LocalSendbyHex *)

\* Fault: a piece given up ends the transfer silently.
GiveUpPieceSilently ==
  /\ stack # <<>> /\ Head(stack).next = "piece" /\ isBusy
  /\ stopSendFlag' = TRUE
  /\ outcome' = "failed" /\ stack' = Tail(stack) /\ isBusy' = FALSE
  /\ UNCHANGED <<flash, MD5, Txbuf, offered, taken, told, extra, blame>>

\* GAgent_SendStopUpgrade, and the transfer has failed.
SendStop(st) ==
  /\ outcome' = "failed" /\ told' = TRUE
  /\ Write(Call("stop"), st)

\* A piece begun after the MCU's stop is counted.
Begin(p, st) ==
  /\ Write(p, st)
  /\ extra' = IF stopSendFlag THEN extra + 1 ELSE extra

Ends(how, st) ==
  /\ outcome' = how
  /\ stack' = st /\ isBusy' = FALSE
  /\ UNCHANGED <<Txbuf, extra>>

\* Fault: a piece is passed over when the one before it was acknowledged.
AfterSkips(p) == IF p.num + 2 < p.count THEN p.num + 2 ELSE p.num + 1

After(p) == p.num + 1

\* Fault: the stop flag is not looked at between pieces.
MayGoOnAlways(p) == p.num < p.count

\* After piece p was acknowledged.  The flag is looked at between pieces, but
\* not before the last piece of a bin file, nor the last line of a hex file
\* when it does not end in CRLF.
MayGoOn(p) == ~stopSendFlag \/ (p.num + 1 = p.count /\ ~p.hex)
MayEndHex(p) == p.hex /\ p.num + 1 = p.count

NextPiece ==
  LET p == Head(stack)
  IN /\ stack # <<>> /\ p.next = "piece" /\ ~isBusy
     /\ \/ /\ p.num < p.count /\ (MayGoOn(p) \/ MayEndHex(p))
           /\ Begin(Piece(After(p), p.count, p.hex), Tail(stack))
           /\ UNCHANGED <<outcome, told>>
        \/ /\ p.num < p.count /\ ~MayGoOn(p)
           /\ Ends("failed", Tail(stack)) /\ UNCHANGED told
        \/ /\ p.num = p.count
           /\ Ends(IF stopSendFlag /\ ~p.hex THEN "failed" ELSE "success", Tail(stack))
           /\ UNCHANGED told
        \/ /\ p.hex /\ p.num < p.count  \* no CRLF in 263 bytes
           /\ SendStop(Tail(stack)) /\ UNCHANGED extra
     /\ UNCHANGED <<flash, MD5, stopSendFlag, offered, taken, blame>>

\* A piece is not acknowledged after three sends of MCU_ACK_BIGDATA_MS each.
GiveUpPiece ==
  /\ stack # <<>> /\ Head(stack).next = "piece" /\ isBusy
  /\ stopSendFlag' = TRUE
  /\ SendStop(Tail(stack))
  /\ UNCHANGED <<flash, MD5, offered, taken, extra, blame>>

\* A piece that was not acknowledged is sent again, from Txbuf.
Resend ==
  /\ stack # <<>> /\ isBusy /\ Txbuf = "other"
  /\ Txbuf' = "sent" /\ Blame("overwritten")
  /\ UNCHANGED <<flash, MD5, stopSendFlag, stack, isBusy, offered, taken, outcome, told, extra>>

-----------------------------------------------------------------------------
(* Packets of the MCU *)

\* The acknowledgement of the request that waits.  A piece is what the flash
\* held when it was sent, unless something else was sent again in its place.
HandleAck ==
  /\ isBusy /\ isBusy' = FALSE
  /\ LET p == Head(stack)
     IN taken' = IF p.next = "piece" /\ blame = "none"
                 THEN Append(taken, [image |-> flash.image, num |-> p.num,
                                      sound |-> flash.whole /\ Txbuf # "sent"]) ELSE taken
  /\ UNCHANGED <<flash, MD5, stopSendFlag, stack, Txbuf, offered, outcome, told, extra, blame>>

\* MCU_READY_RECV_FIRMWARE with another image's MD5, or asking for lines of a
\* file that has none.
HandleWrongReady(i, hex) ==
  /\ i \in offered /\ (i # MD5 \/ (hex /\ i \notin Hex))
  /\ UNCHANGED vars

\* The first piece.  Sending less than two pieces of a bin file is a success;
\* a link that is busy refuses the piece and the stop after it.
HandleReady(i, hex) ==
  /\ i \in offered /\ i = MD5 /\ (hex => i \in Hex)
  /\ taken' = <<>> /\ extra' = 0 /\ told' = FALSE
  /\ stopSendFlag' = (isBusy /\ (hex \/ PiecesOf[i] > 1))
  /\ CASE ~hex /\ PiecesOf[i] = 1 -> 
             outcome' = "success" /\ Txbuf' = "other" /\ UNCHANGED <<stack, isBusy>>
       [] (hex \/ PiecesOf[i] > 1) /\ isBusy ->
             outcome' = "failed" /\ Txbuf' = "other" /\ UNCHANGED <<stack, isBusy>>
       [] OTHER -> outcome' = "none" /\ Write(Piece(1, PiecesOf[i], hex), stack)
  /\ blame' = CASE InTransfer -> "twice"
                [] ~InTransfer /\ isBusy -> "busy"
                [] ~InTransfer /\ ~isBusy /\ ~flash.whole -> "damaged"
                [] OTHER -> "none"
  /\ UNCHANGED <<flash, MD5, offered>>

\* MCU_STOP_RECV_BIGDATA
HandleStop ==
  /\ stopSendFlag' = TRUE /\ told' = TRUE
  /\ UNCHANGED <<flash, MD5, linkVars, offered, taken, outcome, extra, blame>>

\* MCU_QUERY_WIFI_INFO builds its answer in Txbuf.
HandleQuery ==
  /\ Txbuf' = "other"
  /\ UNCHANGED <<flash, MD5, stopSendFlag, stack, isBusy, offered, history>>

\* GAGENT_SEND_BIGDATA outside a transfer of the MCU's data: the link is taken
\* from the request that waits.
HandlePiece ==
  /\ Write(Call("nothing"), stack) /\ Blame("stray")
  /\ UNCHANGED <<flash, MD5, stopSendFlag, offered, taken, outcome, told, extra>>

HandlePacket == \/ HandleAck \/ HandleStop \/ HandleQuery \/ HandlePiece
                \/ \E i \in Images, hex \in BOOLEAN :
                     HandleWrongReady(i, hex) \/ HandleReady(i, hex)

-----------------------------------------------------------------------------
(* The other calls return *)

\* Fault: a request given up leaves the link busy.
ReturnStaysBusy ==
  /\ stack # <<>> /\ Head(stack).next \notin {"piece", "result"}
  /\ stack' = Tail(stack)
  /\ UNCHANGED <<flash, MD5, stopSendFlag, isBusy, Txbuf, offered, history>>

\* Acknowledged or given up.  After the result comes NEED_UPGRADE, with the MD5
\* and the length as they are by then.
Return ==
  /\ stack # <<>> /\ Head(stack).next # "piece"
  /\ IF Head(stack).next = "result"
     THEN Write(Call("nothing"), Tail(stack)) /\ offered' = offered \cup {MD5}
     ELSE stack' = Tail(stack) /\ isBusy' = FALSE /\ UNCHANGED <<Txbuf, offered>>
  /\ UNCHANGED <<flash, MD5, stopSendFlag, history>>

Next == GetFirmware \/ HandlePacket \/ NextPiece \/ GiveUpPiece \/ Resend \/ Return
Spec == Init /\ [][Next]_vars

-----------------------------------------------------------------------------
(* Properties *)

Calls == [next : {"piece", "stop", "result", "nothing"}, num : Nat, count : Nat, hex : BOOLEAN]

TypeOK ==
  /\ flash \in [image : Images \cup {NoImage}, whole : BOOLEAN]
  /\ MD5 \in Images \cup {NoImage} /\ stopSendFlag \in BOOLEAN
  /\ stack \in Seq(Calls) /\ Len(stack) <= MaxDepth
  /\ \A i \in 1 .. Len(stack) : stack[i].next = "piece" => stack[i].num \in 1 .. stack[i].count
  /\ Txbuf \in {"request", "other", "sent"} /\ isBusy \in BOOLEAN /\ (isBusy => stack # <<>>)
  /\ offered \subseteq Images
  /\ taken \in Seq([image : Images, num : Nat, sound : BOOLEAN])
  /\ outcome \in {"none", "success", "failed"} /\ told \in BOOLEAN /\ extra \in Nat
  /\ blame \in {"none", "replaced", "twice", "busy", "damaged", "overwritten", "stray"}

\* A transfer that succeeds has given the MCU every piece of the image it asked
\* for, sound, in order and once each; unless the image was damaged when it asked
\* or replaced while it was sent, it asked twice, a query of its own spoiled a
\* piece sent again, or a stray piece of its own took the link.  An image of one
\* piece is the exception: as a bin file it is a success with nothing sent.
WholeImageSent ==
  outcome = "success" /\ blame = "none" /\ PiecesOf[MD5] > 1 =>
    taken = [n \in 1 .. PiecesOf[MD5] |-> [image |-> MD5, num |-> n, sound |-> TRUE]]

\* After the MCU's stop one more piece is begun at most.
\* An MCU that asks again during a transfer has two going on at once, both with
\* the one stop flag.
StopObeyed == blame # "twice" => extra <= 1

\* An MCU that asked once, with the line free, is not left waiting for a piece:
\* a transfer that fails was stopped by it, or it is sent a stop.
FailureTold == outcome = "failed" /\ blame \notin {"twice", "busy"} => told

=============================================================================
