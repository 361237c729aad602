-------------------------------- MODULE AStar --------------------------------
(***************************************************************************)
(* AStar::AstarSearch (path_searching/dyn_a_star.h and .cpp): searches     *)
(* from one free cell to another over a pool of nodes that is allocated    *)
(* once and never cleaned.  A node carries the number of the search that   *)
(* touched it last; what it holds of an earlier search must not matter.    *)
(*                                                                         *)
(* Abstractions.  The queue is ordered by fScore, but the fScore of a node *)
(* that waits in it is lowered in place, which leaves the heap unordered:  *)
(* here any waiting node may be the next, and fScore is left out.  Where   *)
(* an occupied start or end is moved to, and whether the straight line is  *)
(* free, are choices.  The map does not change during a search (one        *)
(* thread), but between two.                                               *)
(***************************************************************************)
EXTENDS Integers, Sequences, FiniteSets

CONSTANTS
  Axes,
  PoolSize,     \* POOL_SIZE_
  StepCost,     \* cost of a step along so many axes, sqrt scaled to an integer
  NULL,
  Maps,         \* bound: the sets of occupied cells
  Points,       \* bound: the cells searches start and end in
  MaxSearches   \* bound

Indices == {PoolSize[a] : a \in Axes}
Cells == {c \in [Axes -> UNION {0 .. n - 1 : n \in Indices}] : \A a \in Axes : c[a] < PoolSize[a]}

\* The outermost cells may be a start or an end, but no path leads into them.
Interior == {c \in Cells : \A a \in Axes : 1 <= c[a] /\ c[a] < PoolSize[a] - 1}

Neighbours ==
  [c \in Cells |-> {n \in Interior : n # c /\ \A a \in Axes : n[a] - c[a] \in {-1, 0, 1}}]
Cost(c, n) == StepCost[Cardinality({a \in Axes : c[a] # n[a]})]

ASSUME PoolAssumption ==
  /\ PoolSize \in [Axes -> Nat]
  /\ \A c \in Cells : \A n \in Neighbours[c] : Cost(c, n) \in Nat \ {0}
  /\ NULL \notin Cells
  /\ Maps \subseteq SUBSET Cells /\ Points \subseteq Cells

VARIABLES
  rounds_,    \* number of the search
  node,       \* GridNodeMap_
  openSet_,   \* how many times a node waits in the queue
  gridPath_,  \* from the end back to the start
  occupied,   \* cells with checkOccupancy, in the current search
  start, end,
  pc,         \* "idle", "search" or "retrieve"
  result,     \* what AstarSearch returned last
  how         \* history: how the last call ended

vars == <<rounds_, node, openSet_, gridPath_, occupied, start, end, pc, result, how>>

NodeStates == {"OPENSET", "CLOSEDSET", "UNDEFINED"}
Nodes == [rounds : Nat, state : NodeStates, gScore : Nat, cameFrom : Cells \cup {NULL}]
NewNode == [rounds |-> 0, state |-> "UNDEFINED", gScore |-> 0, cameFrom |-> NULL]

Init ==
  /\ rounds_ = 0
  /\ node = [c \in Cells |-> NewNode]
  /\ openSet_ = [c \in Cells |-> 0]
  /\ gridPath_ = <<>>
  /\ occupied = {}
  /\ start = NULL /\ end = NULL
  /\ pc = "idle" /\ result = "none" /\ how = "none"

Return(r, h) == pc' = "idle" /\ result' = r /\ how' = h

-----------------------------------------------------------------------------
(* The beginning of AstarSearch.                                           *)

Call ==
  /\ pc = "idle"
  /\ rounds_ < MaxSearches
  /\ rounds_' = rounds_ + 1
  /\ occupied' \in Maps

\* Both points are in the pool and nothing lies on the line between them.
Straight(s, e) ==
  /\ Call
  /\ gridPath_' = <<e, s>>
  /\ start' = s /\ end' = e
  /\ Return("SUCCESS", "line")
  /\ UNCHANGED <<node, openSet_>>

\* A point is outside the pool, or is moved out of it or against a virtual
\* wall; only the straight line has cleared the old path by then.
Refuse ==
  /\ Call
  /\ gridPath_' \in {gridPath_, <<>>}
  /\ Return("INIT_ERR", "refused")
  /\ UNCHANGED <<node, openSet_, start, end>>

\* The queue of the search before is thrown away.
EmptyMutant == openSet_
Empty == [c \in Cells |-> 0]

\* The start has no predecessor, even if it had one in an earlier search.
StartNodeMutant(s) == [node[s] EXCEPT !.rounds = rounds_ + 1, !.state = "OPENSET", !.gScore = 0]
StartNode(s) == [rounds |-> rounds_ + 1, state |-> "OPENSET", gScore |-> 0, cameFrom |-> NULL]

Begin(s, e) ==
  /\ Call
  /\ s \notin occupied' /\ e \notin occupied'
  /\ start' = s /\ end' = e
  /\ node' = [node EXCEPT ![s] = StartNode(s)]
  /\ openSet_' = [Empty EXCEPT ![s] = 1]
  /\ pc' = "search"
  /\ UNCHANGED <<gridPath_, result, how>>

-----------------------------------------------------------------------------
(* The loop of AstarSearch.                                                *)

Explored(n) == node[n].rounds = rounds_
InClosedSet(n) == Explored(n) /\ node[n].state = "CLOSEDSET"

\* The neighbours of c that are stamped, that are new, and to which c is a
\* shorter way; an occupied one is stamped and nothing else.
Touched(c) == {n \in Neighbours[c] : ~InClosedSet(n)}
DiscoveredMutant(c) == {n \in Touched(c) \ occupied : node[n].state = "UNDEFINED"}
Discovered(c) == {n \in Touched(c) \ occupied : ~Explored(n)}
Shorter(c) ==
  {n \in Touched(c) \ occupied :
     Explored(n) /\ node[c].gScore + Cost(c, n) < node[n].gScore}

Through(c, n) ==
  [rounds |-> rounds_, state |-> "OPENSET",
   gScore |-> node[c].gScore + Cost(c, n), cameFrom |-> c]

\* The way to n leads through c now; n keeps its state and its place in the queue.
Reroute(c, n) == [Through(c, n) EXCEPT !.state = node[n].state]

Expanded(c) ==
  [n \in Cells |->
     CASE n = c -> [node[n] EXCEPT !.state = "CLOSEDSET"]
       [] n \in Discovered(c) -> Through(c, n)
       [] n \in Shorter(c) -> Reroute(c, n)
       [] n \in Touched(c) \cap occupied -> [node[n] EXCEPT !.rounds = rounds_]
       [] OTHER -> node[n]]

PopMutant(c) == openSet_
Pop(c) == [openSet_ EXCEPT ![c] = @ - 1]

ExpandNode(c) ==
  /\ pc = "search"
  /\ openSet_[c] > 0
  /\ c # end
  /\ node' = Expanded(c)
  /\ openSet_' = [n \in Cells |-> IF n \in Discovered(c) THEN Pop(c)[n] + 1 ELSE Pop(c)[n]]
  /\ UNCHANGED <<rounds_, gridPath_, occupied, start, end>>

\* After every expansion the time may be up.
Expand(c) == ExpandNode(c) /\ UNCHANGED <<pc, result, how>>
TimeOut(c) == ExpandNode(c) /\ Return("SEARCH_ERR", "timeout")

Reach ==
  /\ pc = "search"
  /\ openSet_[end] > 0
  /\ openSet_' = Pop(end)
  /\ gridPath_' = <<end>>
  /\ pc' = "retrieve"
  /\ UNCHANGED <<rounds_, node, occupied, start, end, result, how>>

GiveUp ==
  /\ pc = "search"
  /\ \A c \in Cells : openSet_[c] = 0
  /\ Return("SEARCH_ERR", "exhausted")
  /\ UNCHANGED <<rounds_, node, openSet_, gridPath_, occupied, start, end>>

\* retrievePath
Last == gridPath_[Len(gridPath_)]
Retrieve ==
  /\ pc = "retrieve"
  /\ IF node[Last].cameFrom # NULL
       THEN /\ gridPath_' = Append(gridPath_, node[Last].cameFrom)
            /\ UNCHANGED <<pc, result, how>>
       ELSE /\ Return("SUCCESS", "search")
            /\ UNCHANGED gridPath_
  /\ UNCHANGED <<rounds_, node, openSet_, occupied, start, end>>

Step == GiveUp \/ Reach \/ Retrieve \/ \E c \in Cells : Expand(c)

Next ==
  \/ \E s, e \in Points : Straight(s, e) \/ Begin(s, e)
  \/ Refuse
  \/ Step
  \/ \E c \in Cells : TimeOut(c)

Spec == Init /\ [][Next]_vars

\* The loop runs in the thread of the caller; the time limit is not relied upon.
FairSpec == Spec /\ WF_vars(Step)

-----------------------------------------------------------------------------
(* Properties.                                                             *)

TypeOK ==
  /\ rounds_ \in Nat
  /\ node \in [Cells -> Nodes]
  /\ openSet_ \in [Cells -> Nat]
  /\ gridPath_ \in Seq(Cells)
  /\ occupied \subseteq Cells
  /\ start \in Cells \cup {NULL} /\ end \in Cells \cup {NULL}
  /\ pc \in {"idle", "search", "retrieve"}
  /\ result \in {"none", "SUCCESS", "INIT_ERR", "SEARCH_ERR"}
  /\ how \in {"none", "line", "refused", "timeout", "exhausted", "search"}

Searched == pc = "idle" /\ result = "SUCCESS" /\ how = "search"

\* A path that was searched for runs from the start to the end through cells
\* that are free in the map of this search, each next to the one before,
\* whatever earlier searches in other maps left in the pool.
PathIsClear ==
  Searched =>
    /\ gridPath_ # <<>> /\ gridPath_[1] = end /\ Last = start
    /\ \A i \in 1 .. Len(gridPath_) : gridPath_[i] \notin occupied
    /\ \A i \in 1 .. Len(gridPath_) - 1 : gridPath_[i] \in Neighbours[gridPath_[i + 1]]

\* The chain of predecessors never runs in a circle, although the way to a node
\* is changed while it waits and the pool is full of older chains: each cell of
\* the path is nearer to the start than the one before.
NoCircle ==
  pc = "retrieve" =>
    \A i, j \in 1 .. Len(gridPath_) :
      i < j => node[gridPath_[j]].gScore < node[gridPath_[i]].gScore

\* A search that empties its queue has closed a set of cells around the start
\* that no free neighbour leads out of: there is no path, a search fails for
\* nothing but the time or a real obstacle.
Closed == {c \in Cells \ occupied : InClosedSet(c)}
GivenUpIsCut ==
  pc = "idle" /\ how = "exhausted" =>
    /\ start \in Closed /\ end \notin Closed
    /\ \A c \in Closed : Neighbours[c] \ occupied \subseteq Closed

\* A search ends, also without the time limit: no node is expanded twice.
SearchReturns == pc # "idle" ~> pc = "idle"

=============================================================================
