----------------------------- MODULE MCOffload -----------------------------
(* The checked instances of Offload: their constants are plain numbers.    *)
EXTENDS Offload
=============================================================================
