-------------------------- MODULE MCDriftMonitoring -------------------------
(* DriftMonitoring for TLC.                                                   *)
EXTENDS DriftMonitoring
=============================================================================
