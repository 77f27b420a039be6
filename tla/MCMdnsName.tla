----------------------------- MODULE MCMdnsName -----------------------------
(* Instances of MdnsName for TLC. *)
EXTENDS MdnsName
=============================================================================
