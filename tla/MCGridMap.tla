----------------------------- MODULE MCGridMap -----------------------------
(* The camera moves along one axis, as far as Reach.                       *)
EXTENDS GridMap

CONSTANT Reach

Line == [Axes -> -Reach .. Reach]

\* A map that has booked something on the wrong voxel is not followed further.
Followed == ~strayed
=============================================================================
