---------------------------- MODULE MCReplanFSM ----------------------------
(* Values of ReplanFSM's constants for TLC: drone 3 of a swarm, launched   *)
(* to fly to the goals of /goal or along a preset route.                   *)
EXTENDS ReplanFSM

CONSTANTS g1, g2

MCGoals == {g1, g2}
Predecessors == {0, 1, 2}   \* seen by drone 3
Route == <<g1, g2>>
Third == 3
Simulated == [target_type |-> "MANUAL_TARGET", realworld |-> FALSE]
Triggered == [target_type |-> "PRESET_TARGET", realworld |-> TRUE]
AnyLaunch == {Simulated, Triggered}
=============================================================================
