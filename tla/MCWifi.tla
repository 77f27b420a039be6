------------------------------- MODULE MCWifi -------------------------------
(* The checked instances of Wifi: their constants are plain numbers.       *)
EXTENDS Wifi
=============================================================================
