----------------------------- MODULE MCSwarmTraj -----------------------------
(* A line of places.  A trajectory stays or goes on to the next place and is   *)
(* named by where it starts and ends; places at distance two are far.          *)
EXTENDS SwarmTraj

CONSTANT Length

Line == 1 .. Length
Trajectories == {p \in Line \X Line : p[2] - p[1] \in {0, 1}}
AlongLine == [p \in Trajectories |-> {p[1], p[2]}]
LateSwerve == [p \in Trajectories |-> {p[1]}]
HoverLine == [x \in Line |-> <<x, x>>]
NearLine == [x \in Line |-> {y \in Line : y - x \in {-1, 0, 1}}]
\* Drone 0 comes up behind drone 1, or drone 1 behind drone 0, out of its sight.
BehindOrAhead == {<<1, 2>>, <<3, 1>>}
TakeOffLine == {[i \in Drones |-> p[i + 1]] : p \in BehindOrAhead}
Nowhere == <<>>
=============================================================================
