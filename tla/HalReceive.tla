----------------------------- MODULE HalReceive -----------------------------
(* The receive side of the serial line (hal_receive.c): a ring buffer filled *)
(* by GAgent_Local_RecAll and emptied by GAgent_Local_ExtractOnePacket.  It  *)
(* implements Framing, as long as the MCU does not overrun the ring.         *)
(*                                                                           *)
(* GAgent_Local_Handle reads once and then extracts until nothing is left,   *)
(* but the handler of a packet may wait for an acknowledgement in            *)
(* GAgent_LocalDataWriteP0, which calls GAgent_Local_Handle again: between   *)
(* two packets of one portion the ring may be filled further.                *)
EXTENDS Naturals, Sequences

CONSTANTS
  Size,     \* HAL_BUF_SIZE: 4096
  PosMod,   \* positions are uint32: 2^32, a multiple of Size
  Frames,   \* packets the MCU sends: the bytes after len, before escaping
  Noise,    \* what else comes over the line: parts of packets, stray bytes
  MaxSent   \* bound of the model: packets and pieces of noise sent

ASSUME RingAssumption == Size \in Nat \ {0} /\ PosMod \in Nat \ {0} /\ PosMod % Size = 0
HDR == 255  \* MCU_HDR_FF
ESC == 85
\* After a stray 0xff the header and a length that begins with 0x55 would be
\* read as a longer header: HAL_BUF_SIZE keeps packets shorter than that.
ASSUME SizeAssumption == Size <= ESC * 256
Bytes == 0 .. 255
Uint16 == 0 .. 256 * 256 - 1

ASSUME LineAssumption == /\ Frames \subseteq Seq(Bytes) /\ Noise \subseteq Seq(Bytes)
                         /\ \A f \in Frames : Len(f) \in Uint16 \ {0}
                         /\ MaxSent \in Nat

VARIABLES
  hal_RxBuffer, \* the ring
  pos_start,    \* where the parser is
  pos_current,  \* where the next byte goes
  status,       \* gu8LocalHalStatus
  dataLen,      \* gu16LocalPacketDataLen
  packetStart,  \* guiLocalPacketStart
  keyWord,      \* halRecKeyWord
  fifo,         \* bytes sent and not read by serial_read yet
  filled,       \* RecAll was called and the parser has not run since
  packet,       \* the packet given out last, <<>> when there was none
  sent,         \* how many packets and pieces of noise were sent
  due           \* history: packets sent whole and not given out yet

ringVars == <<hal_RxBuffer, pos_start, pos_current>>
parserVars == <<status, dataLen, packetStart, keyWord>>
vars == <<ringVars, parserVars, fifo, filled, packet, sent, due>>

Slot(pos) == pos % Size  \* pos & HAL_BUF_MASK
Plus(pos, n) == (pos + n) % PosMod
Minus(pos, n) == (pos + PosMod - n) % PosMod

\* get_data_len: what is left between two positions; a full ring is empty.
DataLen(from, to) == (Slot(to) + Size - Slot(from)) % Size

\* Fault: the room beyond the end of the ring is counted in.
SpaceAnywhere(cur, start) == Size - DataLen(start, cur)

\* get_available_buf_space: room in one stretch, up to the end of the ring.
Available(cur, start) ==
  IF Slot(cur) >= Slot(start) THEN Size - Slot(cur) ELSE Slot(start) - Slot(cur)

Init == /\ hal_RxBuffer = [i \in 0 .. Size - 1 |-> 0]
        /\ pos_start = 0 /\ pos_current = 0
        /\ status = "SYNCHEAD1" /\ dataLen = 0 /\ packetStart = 0 /\ keyWord = FALSE
        /\ fifo = <<>> /\ filled = FALSE /\ packet = <<>>
        /\ sent = 0 /\ due = <<>>

-----------------------------------------------------------------------------
(* The line *)

\* Local_DataAdapter, and what the MCU does: 0x55 after every 0xff.
Escaped(b) == IF b = HDR THEN <<HDR, ESC>> ELSE <<b>>
Adapted(s) ==
  LET first[n \in 0 .. Len(s)] == IF n = 0 THEN <<>> ELSE first[n - 1] \o Escaped(s[n])
  IN first[Len(s)]
Raw(f) == <<HDR, HDR, Len(f) \div 256, Len(f) % 256>> \o f
OnLine(f) == <<HDR, HDR>> \o Adapted(<<Len(f) \div 256, Len(f) % 256>> \o f)

Unread == DataLen(pos_start, pos_current)

\* What the ring still holds of the packet that is being received.
Kept == IF status = "SYNCHEAD1" THEN 0 ELSE Minus(pos_start, packetStart)

\* The MCU is so far ahead that the ring is full at most.
Room(s) == sent < MaxSent /\ Kept + Unread + Len(fifo) + Len(s) < Size

McuSend(f) ==
  /\ Room(OnLine(f))
  /\ fifo' = fifo \o OnLine(f)
  /\ sent' = sent + 1 /\ due' = Append(due, Raw(f))
  /\ UNCHANGED <<ringVars, parserVars, filled, packet>>

McuNoise(s) ==
  /\ Room(s)
  /\ fifo' = fifo \o s
  /\ sent' = sent + 1
  /\ UNCHANGED <<ringVars, parserVars, filled, packet, due>>

-----------------------------------------------------------------------------
(* Reading *)

\* GAgent_Local_RecAll with serial_read giving n bytes.
RecAll(n) ==
  /\ ~filled /\ n <= Len(fifo) /\ n <= Available(pos_current, pos_start)
  /\ hal_RxBuffer' = [i \in 0 .. Size - 1 |->
       IF i \in Slot(pos_current) .. Slot(pos_current) + n - 1
       THEN fifo[i - Slot(pos_current) + 1] ELSE hal_RxBuffer[i]]
  /\ pos_current' = Plus(pos_current, n)
  /\ fifo' = SubSeq(fifo, n + 1, Len(fifo))
  /\ filled' = TRUE
  /\ UNCHANGED <<pos_start, parserVars, packet, sent, due>>

-----------------------------------------------------------------------------
(* Extracting: the loop of GAgent_Local_ExtractOnePacket, one turn per byte. *)
(* r holds the ring, the positions, the parser and whether a packet is done. *)

Here == [mem |-> hal_RxBuffer, start |-> pos_start, cur |-> pos_current,
         status |-> status, len |-> dataLen, pkt |-> packetStart, key |-> keyWord,
         done |-> FALSE]

Byte(r) == r.mem[Slot(r.start)]
Passed(r) == [r EXCEPT !.start = Plus(@, 1)]

SyncHead(r) ==
  Passed(IF r.status = "SYNCHEAD1"
         THEN IF Byte(r) = HDR THEN [r EXCEPT !.status = "SYNCHEAD2", !.pkt = r.start] ELSE r
         ELSE [r EXCEPT !.status = IF Byte(r) = HDR THEN "DATALEN1" ELSE "SYNCHEAD1"])

\* Fault: the count is signed.
TakeByteSigned(r, b) ==
  Passed(
    CASE r.status = "DATALEN1" -> [r EXCEPT !.len = 256 * b, !.status = "DATALEN2"]
      [] r.status = "DATALEN2" -> [r EXCEPT !.len = @ + b,
           !.status = IF r.len + b = 0 THEN "SYNCHEAD1" ELSE "DATA"]
      [] OTHER -> [r EXCEPT !.len = @ - 1, !.done = r.len = 1])

\* A byte of the packet: of its length, or of its data.
TakeByte(r, b) ==
  LET left == (r.len + 65535) % 65536
  IN Passed(
       CASE r.status = "DATALEN1" -> [r EXCEPT !.len = 256 * b, !.status = "DATALEN2"]
         [] r.status = "DATALEN2" -> [r EXCEPT !.len = @ + b,
              !.status = IF r.len + b = 0 THEN "SYNCHEAD1" ELSE "DATA"]
         [] OTHER -> [r EXCEPT !.len = left, !.done = left = 0])

\* 0xff 0x55: what follows moves over the 0x55 (move_data_backward).
Unescaped(r) ==
  LET moved == DataLen(Plus(r.start, 1), r.cur)
      From(i) == DataLen(r.start, i)  \* how far slot i is behind the 0x55
  IN TakeByte([r EXCEPT !.key = FALSE,
                 !.mem = [i \in 0 .. Size - 1 |->
                    IF From(i) < moved THEN r.mem[Slot(i + 1)] ELSE r.mem[i]],
                 !.cur = Minus(@, 1), !.start = Minus(@, 1)], HDR)

\* Fault: a packet cut short takes the next header with it.
AfterKeyDrops(r) ==
  LET s == [r EXCEPT !.key = FALSE]
  IN CASE Byte(r) = ESC -> Unescaped(r)
       [] Byte(r) # ESC /\ r.status = "DATALEN1" ->
            TakeByte([s EXCEPT !.pkt = Minus(r.start, 2)], Byte(r))
       [] OTHER -> Passed([s EXCEPT !.status = "SYNCHEAD1"])

\* 0xff 0xff is the header of a new packet, and 0xff before anything else is
\* the end of the header (of three 0xff) or means that the packet is lost.
AfterKey(r) ==
  LET s == [r EXCEPT !.key = FALSE]
  IN CASE Byte(r) = ESC -> Unescaped(r)
       [] Byte(r) = HDR -> Passed([s EXCEPT !.status = "DATALEN1", !.pkt = Minus(r.start, 1)])
       [] Byte(r) \notin {ESC, HDR} /\ r.status = "DATALEN1" ->
            TakeByte([s EXCEPT !.pkt = Minus(r.start, 2)], Byte(r))
       [] OTHER -> Passed([s EXCEPT !.status = "SYNCHEAD1"])

OneByte(r) ==
  CASE r.status \in {"SYNCHEAD1", "SYNCHEAD2"} -> SyncHead(r)
    [] r.status \notin {"SYNCHEAD1", "SYNCHEAD2"} /\ r.key -> AfterKey(r)
    [] r.status \notin {"SYNCHEAD1", "SYNCHEAD2"} /\ ~r.key /\ Byte(r) = HDR ->
         Passed([r EXCEPT !.key = TRUE])
    [] OTHER -> TakeByte(r, Byte(r))

\* Every turn leaves one byte less, also the one that takes the 0x55 out.
Scanned ==
  LET scan[i \in 0 .. Unread] ==
        IF i = 0 THEN Here
        ELSE LET r == scan[i - 1] IN IF r.done THEN r ELSE OneByte(r)
  IN scan[Unread]

Copied(mem, from, to) ==
  [i \in 1 .. (to + PosMod - from) % PosMod |-> mem[Slot(from + i - 1)]]

ExtractOnePacket ==
  LET r == Scanned
  IN /\ hal_RxBuffer' = r.mem /\ pos_start' = r.start /\ pos_current' = r.cur
     /\ status' = r.status /\ dataLen' = r.len /\ keyWord' = r.key
     /\ packet' = IF r.done THEN Copied(r.mem, r.pkt, r.start) ELSE <<>>
     /\ packetStart' = IF r.done THEN r.start ELSE r.pkt
     /\ due' = IF due # <<>> /\ packet' = Head(due) THEN Tail(due) ELSE due
     /\ filled' = FALSE
     /\ UNCHANGED <<fifo, sent>>

Next == \/ \E f \in Frames : McuSend(f)
        \/ \E s \in Noise : McuNoise(s)
        \/ \E n \in 1 .. Len(fifo) : RecAll(n)
        \/ ExtractOnePacket

Spec == Init /\ [][Next]_vars

-----------------------------------------------------------------------------
(* Properties *)

\* Type correctness of the ring and the parser.
TypeOK ==
  /\ hal_RxBuffer \in [0 .. Size - 1 -> Bytes]
  /\ pos_start \in 0 .. PosMod - 1 /\ pos_current \in 0 .. PosMod - 1
  /\ status \in {"SYNCHEAD1", "SYNCHEAD2", "DATALEN1", "DATALEN2", "DATA"}
  /\ dataLen \in Uint16 /\ packetStart \in 0 .. PosMod - 1 /\ keyWord \in BOOLEAN
  /\ Len(fifo) < Size /\ filled \in BOOLEAN
  /\ sent \in 0 .. MaxSent /\ Len(due) <= MaxSent

\* Every packet sent whole is given out whole and in order, whatever parts of
\* packets and stray bytes came before it: nothing is still due when all the
\* bytes have been parsed.
FramesArrive == fifo = <<>> /\ Unread = 0 => due = <<>>

\* The ring implements the framing: neither the portions the bytes are read
\* in, nor the wrap, nor what is moved in the ring makes a difference.
Held == IF keyWord THEN 1 ELSE 0
ParserNow == [status |-> status, key |-> keyWord, len |-> dataLen,
              pkt |-> IF status \in {"SYNCHEAD1", "SYNCHEAD2"} THEN <<>>
                      ELSE Copied(hal_RxBuffer, packetStart, Minus(pos_start, Held))]
Line == INSTANCE Framing WITH
          wire <- [i \in 1 .. Unread |-> hal_RxBuffer[Slot(pos_start + i - 1)]] \o fifo,
          parser <- ParserNow, packet <- packet
ImplementsFraming == Line!Spec

=============================================================================
