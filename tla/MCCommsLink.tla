---------------------------- MODULE MCCommsLink ----------------------------
(* Instances of CommsLink for TLC: the constants are given in the cfg files. *)
EXTENDS CommsLink
=============================================================================
