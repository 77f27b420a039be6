---------------------------- MODULE MCSensorBus ----------------------------
(* The checked instance of SensorBus: its constants are plain numbers.     *)
EXTENDS SensorBus
=============================================================================
