-------------------------- MODULE MCTelemetryPath --------------------------
(* The checked instance of TelemetryPath: its constants are plain numbers. *)
EXTENDS TelemetryPath
=============================================================================
