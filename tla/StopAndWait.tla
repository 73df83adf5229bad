----------------------------- MODULE StopAndWait ----------------------------
(* What local.c promises of the serial link to the MCU: one request at a     *)
(* time, sent at most MaxSends times, given up only after the last of them,  *)
(* and never left unsettled.  The one exception the code makes is explicit:  *)
(* the order to stop a transfer takes the place of the request on the line.  *)
EXTENDS Naturals

CONSTANTS Commands,  \* request commands
          Stop,      \* the command that may displace a request
          Sns,       \* sequence numbers
          MaxSends

VARIABLES request,   \* the request on the line, a set of at most one
          sends      \* how often it was sent

vars == <<request, sends>>

Requests == [cmd : Commands, sn : Sns]

Init == request = {} /\ sends = 0

Issue(r) == request = {} /\ request' = {r} /\ sends' = 1

Resend == request # {} /\ sends < MaxSends /\ sends' = sends + 1 /\ UNCHANGED request

Acked == request # {} /\ request' = {} /\ sends' = 0

GiveUp == request # {} /\ sends = MaxSends /\ request' = {} /\ sends' = 0

Displace(r) == request # {} /\ r.cmd = Stop /\ request' = {r} /\ sends' = 1

Next == \/ \E r \in Requests : Issue(r) \/ Displace(r)
        \/ Resend \/ Acked \/ GiveUp

SafeSpec == Init /\ [][Next]_vars

Spec == SafeSpec /\ WF_vars(Resend \/ GiveUp)

=============================================================================
