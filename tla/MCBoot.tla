------------------------------- MODULE MCBoot -------------------------------
(* The checked instance of Boot: its constants are plain numbers.          *)
EXTENDS Boot
=============================================================================
