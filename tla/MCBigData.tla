----------------------------- MODULE MCBigData ------------------------------
(* BigData with files of up to MaxPieces pieces.  A file of three has a      *)
(* first, a middle and a last piece; two calls of WriteP0 inside each other  *)
(* are a request that waits and the stop a piece sends below it.             *)
EXTENDS BigData
=============================================================================
