---------------------------- MODULE MCHealthGate ----------------------------
(***************************************************************************)
(* HealthGate with a window of two ticks and a heartbeat limit of two.     *)
(***************************************************************************)
EXTENDS HealthGate
=============================================================================
