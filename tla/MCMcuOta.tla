------------------------------ MODULE MCMcuOta ------------------------------
(* Values for McuOta: an image of one piece and a hex image of four, so that *)
(* there are pieces that are neither the first nor the last.                 *)
EXTENDS McuOta

CONSTANTS small, large
MCPieces == [i \in {small, large} |-> IF i = small THEN 1 ELSE 4]
=============================================================================
