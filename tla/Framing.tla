------------------------------- MODULE Framing ------------------------------
(* What the receiver of the serial line promises: it takes the bytes of the  *)
(* line one after the other, in whatever portions they arrive, and gives out *)
(* the packets                                                               *)
(*                                                                           *)
(*   | 0xff 0xff | len (2 bytes) | len bytes |                               *)
(*                                                                           *)
(* where after the header 0xff is sent as 0xff 0x55 (Local_DataAdapter, and  *)
(* the MCU likewise).  There is no buffer here: HalReceive has it.           *)
EXTENDS Naturals, Sequences

HDR == 255  \* MCU_HDR_FF
ESC == 85   \* what makes a 0xff a byte of the packet

VARIABLES
  wire,   \* bytes sent and not taken yet
  parser, \* where the receiver is in a packet
  packet  \* the packet given out last, <<>> when there was none

vars == <<wire, parser, packet>>

\* gu8LocalHalStatus, halRecKeyWord (a 0xff of the packet is held back), the
\* number of bytes to come, and the packet so far, empty outside a packet.
Parser(status, key, len, pkt) == [status |-> status, key |-> key, len |-> len, pkt |-> pkt]
Bytes == 0 .. 255
Uint16 == 0 .. 256 * 256 - 1
Parsers == [status : {"SYNCHEAD1", "SYNCHEAD2", "DATALEN1", "DATALEN2", "DATA"},
            key : BOOLEAN, len : Uint16, pkt : Seq(Bytes)]

InPacket(p) == p.status \in {"DATALEN1", "DATALEN2", "DATA"}
Lost(p) == Parser("SYNCHEAD1", FALSE, p.len, <<>>)
Headed(p) == Parser("DATALEN1", FALSE, p.len, <<HDR, HDR>>)

-----------------------------------------------------------------------------
(* One byte *)

\* Looking for a header.
Sync(p, b) ==
  IF p.status = "SYNCHEAD1"
  THEN Parser(IF b = HDR THEN "SYNCHEAD2" ELSE "SYNCHEAD1", p.key, p.len, <<>>)
  ELSE IF b = HDR THEN [Headed(p) EXCEPT !.key = p.key] ELSE [Lost(p) EXCEPT !.key = p.key]

\* A byte of the packet.  The count of an 0 runs under, as a uint16 does.
Take(p, b) ==
  LET q == Append(p.pkt, b)
      left == IF p.status = "DATALEN2" THEN p.len + b ELSE (p.len + 65535) % 65536
  IN CASE p.status = "DATALEN1" -> Parser("DATALEN2", FALSE, 256 * b, q)
       [] p.status = "DATALEN2" /\ left = 0 -> Lost([p EXCEPT !.len = 0])
       [] OTHER -> Parser("DATA", FALSE, left, q)

\* After a 0xff: 0x55 makes it data, another makes both a new header, anything
\* else means that the 0xff was the end of the header, or that bytes are lost.
Held(p, b) ==
  CASE b = ESC -> Take(p, HDR)
    [] b = HDR -> Headed(p)
    [] b \notin {ESC, HDR} /\ p.status = "DATALEN1" -> Take(Headed(p), b)
    [] OTHER -> Lost(p)

Step(p, b) ==
  CASE ~InPacket(p) -> Sync(p, b)
    [] InPacket(p) /\ p.key -> Held(p, b)
    [] InPacket(p) /\ ~p.key /\ b = HDR -> [p EXCEPT !.key = TRUE]
    [] OTHER -> Take(p, b)

\* The byte that brings the count to 0 completes the packet.
Completes(p, b) ==
  /\ p.status = "DATA" /\ p.len = 1
  /\ IF p.key THEN b = ESC ELSE b # HDR

-----------------------------------------------------------------------------
(* The line *)

\* Parsing s up to the end of a packet: the parser, how many bytes it took and
\* whether they end a packet.
Scan(p, s) ==
  LET scan[i \in 0 .. Len(s)] ==
        IF i = 0 THEN [parser |-> p, taken |-> 0, whole |-> FALSE]
        ELSE LET r == scan[i - 1]
             IN IF r.whole THEN r
                ELSE [parser |-> Step(r.parser, s[i]), taken |-> i,
                      whole |-> Completes(r.parser, s[i])]
  IN scan[Len(s)]

Init == wire = <<>> /\ parser = Parser("SYNCHEAD1", FALSE, 0, <<>>) /\ packet = <<>>

\* More bytes are sent.
Arrive == /\ Len(wire') >= Len(wire) /\ SubSeq(wire', 1, Len(wire)) = wire
          /\ UNCHANGED <<parser, packet>>

\* The first n bytes have arrived and are taken, up to the end of a packet.
Extract ==
  \E n \in 0 .. Len(wire) :
    LET r == Scan(parser, SubSeq(wire, 1, n))
    IN /\ wire' = SubSeq(wire, r.taken + 1, Len(wire))
       /\ packet' = IF r.whole THEN r.parser.pkt ELSE <<>>
       /\ parser' = IF r.whole THEN [r.parser EXCEPT !.pkt = <<>>] ELSE r.parser

Next == Arrive \/ Extract
Spec == Init /\ [][Next]_vars
=============================================================================
