----------------------------- MODULE ObstacleMap -----------------------------
(***************************************************************************)
(* What the occupancy buffer of plan_env/grid_map.h promises to those who  *)
(* write to it and read it, without rings, addresses and origins: a set of *)
(* obstacles that stay at the place in the world where they were seen      *)
(* until they are seen free, fade or are left behind by the window, and    *)
(* obstacles nowhere else.  A map that has written to the voxel of another *)
(* place promises nothing more.                                            *)
(***************************************************************************)
EXTENDS Integers, FiniteSets

CONSTANTS
  Axes,
  UpdateRange,  \* local_update_range3i_, along every axis
  Centers,      \* where the camera may be
  MaxTouched    \* voxels one message touches

VARIABLES
  center,     \* the voxel of the camera at the last message
  obstacles,  \* the occupied voxels
  broken      \* the map has written to the voxel of another place

vars == <<center, obstacles, broken>>

Window(c) == {[a \in Axes |-> c[a] + d[a]] : d \in [Axes -> -UpdateRange .. UpdateRange - 1]}

Init == center = [a \in Axes |-> 0] /\ obstacles = {} /\ broken = FALSE

\* Along the axes on which the camera moves to n, the first row of the new window is
\* given up with the rows it leaves.
Behind(v, n) ==
  \E a \in Axes : \/ n[a] > center[a] /\ v[a] <= n[a] - UpdateRange
                  \/ n[a] < center[a] /\ v[a] >= n[a] + UpdateRange - 1
Kept(n) == {v \in obstacles : ~Behind(v, n)}

\* A message of a camera at n looks at the voxels V of its window: those in Hit are
\* obstacles from now on, the others are free.
Observe(n) ==
  /\ center' = n
  /\ UNCHANGED broken
  /\ \E V \in SUBSET Window(n) :
       /\ Cardinality(V) <= MaxTouched
       /\ \E Hit \in SUBSET V : obstacles' = (Kept(n) \ V) \cup Hit

Forget == \E v \in obstacles : obstacles' = obstacles \ {v} /\ UNCHANGED <<center, broken>>

Break == broken' = TRUE

Next == (\E n \in Centers : Observe(n)) \/ Forget \/ Break

Spec == Init /\ [][Next]_vars
=============================================================================
