---------------------------- MODULE MCEventHold ----------------------------
(* Instances of EventHold for TLC.                                           *)
EXTENDS EventHold
=============================================================================
