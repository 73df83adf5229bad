----------------------------- MODULE MCLocalLink ----------------------------
(* Instances of LocalLink for TLC. *)
EXTENDS LocalLink

AllKinds == {"report", "need_upgrade", "bigdata", "stop_send", "query_info"}

=============================================================================
