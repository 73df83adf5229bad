--------------------------- MODULE MCLanClients -----------------------------
(* Instances of LanClients for TLC. *)
EXTENDS LanClients

StationOnly == {{"sta"}}
ApOrStation == {{"ap"}, {"sta"}}

=============================================================================
