----------------------------- MODULE MCHalReceive ---------------------------
(* The values of Frames and Noise.  Bodies of two bytes over 0xff, 0x55 and  *)
(* another byte have every combination of an escape next to an escape; the   *)
(* noise ends in each state of the parser.                                   *)
EXTENDS HalReceive

MCFrames == {<<1, 255>>, <<255, 85>>, <<255, 255>>, <<85, 1>>}
MCNoise == {<<255>>, <<85>>, <<255, 255>>, <<255, 255, 0>>, <<255, 255, 0, 0>>,
            <<255, 255, 0, 2, 255>>, <<255, 255, 0, 2, 1>>}
=============================================================================
