------------------------------ MODULE MCGServer ------------------------------
(* Three failures in a row make provisioning start over, so that every state  *)
(* has requests made again, once and twice, and given up.                    *)
EXTENDS GServer

MCMaxPings == 3
=============================================================================
