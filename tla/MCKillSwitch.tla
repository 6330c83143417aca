---------------------------- MODULE MCKillSwitch ----------------------------
(* Small instances of KillSwitch for TLC. *)
EXTENDS KillSwitch

LossOrNothing == {-1, 0}
LossOrGain == {-1, 0, 1}
SecondIsShadow == {2}
AllControlOps == AllOps
PauseAndResume == {"pause", "resume"}
SwitchToLive == {"live"}
=============================================================================
