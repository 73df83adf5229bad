----------------------------- MODULE MCWifiMode -----------------------------
(* Model values for WifiMode; the values are in the configurations.          *)
EXTENDS WifiMode
=============================================================================
