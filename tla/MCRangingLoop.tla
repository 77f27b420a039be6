--------------------------- MODULE MCRangingLoop ---------------------------
(* Instances of RangingLoop for TLC. *)
EXTENDS RangingLoop

\* Any one of the sensors failed to initialise.
OneDead    == {Sensors \ {s} : s \in Sensors}
AllSensors == {Sensors}
=============================================================================
