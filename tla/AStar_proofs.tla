---------------------------- MODULE AStar_proofs ----------------------------
(***************************************************************************)
(* Proofs about AStar for every pool, every map and every order in which   *)
(* the queue yields its nodes.                                             *)
(*                                                                         *)
(* The invariant looks at the nodes that belong to the running search:     *)
(* those stamped with its number whose cell is free.  They are the start   *)
(* and what was discovered; whatever else the pool holds is never read.    *)
(***************************************************************************)
EXTENDS AStar, TLAPS

Reached(c) == Explored(c) /\ c \notin occupied
Done(c) == Reached(c) /\ node[c].state = "CLOSEDSET"
Running == pc \in {"search", "retrieve"}

\* No stamp is from the future: a new search finds the pool untouched.
StampsArePast == \A c \in Cells : node[c].rounds <= rounds_

StartIsReached ==
  /\ start \in Cells /\ end \in Cells
  /\ Reached(start)
  /\ node[start].gScore = 0

\* A node waits once, as long as it is open.
QueueIsOpen ==
  \A c \in Cells : openSet_[c] > 0 => Reached(c) /\ node[c].state = "OPENSET" /\ openSet_[c] = 1
OpenIsQueued ==
  pc = "search" => \A c \in Cells : Reached(c) /\ node[c].state # "CLOSEDSET" => openSet_[c] = 1

\* Each node but the start was reached from a node that is done and nearer.
CameFromDone ==
  \A c \in Cells : Reached(c) /\ c # start =>
    \E p \in Cells :
      p = node[c].cameFrom /\ Done(p) /\ c \in Neighbours[p] /\ node[p].gScore < node[c].gScore

DoneIsExpanded ==
  \A c \in Cells : Done(c) => \A n \in Neighbours[c] \ occupied : Explored(n)

SearchInv ==
  Running =>
    /\ StartIsReached
    /\ QueueIsOpen
    /\ OpenIsQueued
    /\ CameFromDone
    /\ DoneIsExpanded
    /\ node[start].cameFrom = NULL
    /\ ~Done(end)

\* What retrievePath has collected so far.
Collected ==
  /\ gridPath_ # <<>> /\ gridPath_[1] = end
  /\ \A i \in 1 .. Len(gridPath_) : Reached(gridPath_[i])
  /\ \A i \in 1 .. Len(gridPath_) - 1 : gridPath_[i] \in Neighbours[gridPath_[i + 1]]
PathInv == pc = "retrieve" => Collected

IInv == TypeOK /\ StampsArePast /\ SearchInv /\ PathInv /\ NoCircle /\ PathIsClear /\ GivenUpIsCut

-----------------------------------------------------------------------------
LEMMA NeighbourFacts ==
  ASSUME NEW c \in Cells, NEW n \in Neighbours[c]
  PROVE  n \in Cells /\ n # c /\ Cost(c, n) \in Nat /\ Cost(c, n) > 0
BY PoolAssumption DEF Neighbours, Interior

LEMMA NeighbourSets == \A c \in Cells : Neighbours[c] \subseteq Cells
BY DEF Neighbours, Interior

\* What an expansion does to each node.
LEMMA ExpandedNode ==
  ASSUME TypeOK, NEW c \in Cells, NEW n \in Cells
  PROVE  /\ n = c => Expanded(c)[n] = [node[n] EXCEPT !.state = "CLOSEDSET"]
         /\ n \in Discovered(c) => Expanded(c)[n] = Through(c, n)
         /\ n \in Shorter(c) => Expanded(c)[n] = Reroute(c, n)
         /\ n \in Touched(c) \cap occupied => Expanded(c)[n] = [node[n] EXCEPT !.rounds = rounds_]
         /\ n # c /\ n \notin Discovered(c) /\ n \notin Shorter(c) /\ n \notin Touched(c) \cap occupied
              => Expanded(c)[n] = node[n]
<1>1. c \notin Touched(c)
  BY NeighbourFacts DEF Touched
<1>2. Discovered(c) \cap Shorter(c) = {}
  BY DEF Discovered, Shorter
<1>3. /\ Discovered(c) \subseteq Touched(c) \ occupied
      /\ Shorter(c) \subseteq Touched(c) \ occupied
  BY DEF Discovered, Shorter
<1>. DEFINE D == Discovered(c)  S == Shorter(c)  T == Touched(c)
<1>4. Expanded(c)[n] = CASE n = c -> [node[n] EXCEPT !.state = "CLOSEDSET"]
                         [] n \in D -> Through(c, n)
                         [] n \in S -> Reroute(c, n)
                         [] n \in T \cap occupied -> [node[n] EXCEPT !.rounds = rounds_]
                         [] OTHER -> node[n]
  BY DEF Expanded
<1>. HIDE DEF D, S, T
<1>5. /\ c \notin T /\ D \cap S = {} /\ D \subseteq T \ occupied /\ S \subseteq T \ occupied
  BY <1>1, <1>2, <1>3 DEF D, S, T
<1>6. /\ n = c => Expanded(c)[n] = [node[n] EXCEPT !.state = "CLOSEDSET"]
      /\ n \in D => Expanded(c)[n] = Through(c, n)
      /\ n \in S => Expanded(c)[n] = Reroute(c, n)
      /\ n \in T \cap occupied => Expanded(c)[n] = [node[n] EXCEPT !.rounds = rounds_]
      /\ n # c /\ n \notin D /\ n \notin S /\ n \notin T \cap occupied
           => Expanded(c)[n] = node[n]
  BY <1>4, <1>5
<1> QED
  BY <1>6 DEF D, S, T

-----------------------------------------------------------------------------
(* Types.                                                                  *)

LEMMA ExpandedType ==
  ASSUME TypeOK, NEW c \in Cells
  PROVE  Expanded(c) \in [Cells -> Nodes]
<1> SUFFICES ASSUME NEW n \in Cells PROVE Expanded(c)[n] \in Nodes
  BY DEF Expanded
<1>. node[n] \in Nodes /\ node[c] \in Nodes
  BY DEF TypeOK
<1>1. CASE n \in Discovered(c)
  <2>1. n \in Neighbours[c]
    BY <1>1 DEF Discovered, Touched
  <2>2. Expanded(c)[n] = Through(c, n)
    BY <1>1, ExpandedNode
  <2> QED
    BY <2>1, <2>2, NeighbourFacts DEF Through, Nodes, NodeStates, TypeOK
<1>2. CASE n \in Shorter(c)
  <2>1. n \in Neighbours[c]
    BY <1>2 DEF Shorter, Touched
  <2>2. Expanded(c)[n] = Reroute(c, n)
    BY <1>2, ExpandedNode
  <2>3. node[c].gScore + Cost(c, n) \in Nat
    BY <2>1, NeighbourFacts DEF Nodes
  <2> QED
    BY <2>2, <2>3 DEF Reroute, Through, Nodes, NodeStates, TypeOK
<1>3. CASE n = c
  <2>1. Expanded(c)[n] = [node[n] EXCEPT !.state = "CLOSEDSET"]
    BY <1>3, ExpandedNode
  <2> QED
    BY <2>1 DEF Nodes, NodeStates
<1>4. CASE n \in Touched(c) \cap occupied
  <2>1. Expanded(c)[n] = [node[n] EXCEPT !.rounds = rounds_]
    BY <1>4, ExpandedNode
  <2> QED
    BY <2>1 DEF Nodes, TypeOK
<1>5. CASE n # c /\ n \notin Discovered(c) /\ n \notin Shorter(c) /\ n \notin Touched(c) \cap occupied
  BY <1>5, ExpandedNode
<1> QED
  BY <1>1, <1>2, <1>3, <1>4, <1>5

LEMMA InitType == Init => TypeOK
BY DEF Init, TypeOK, Nodes, NodeStates, NewNode

\* The queue stays a count per cell when an open node is taken from it.
LEMMA ExpandType ==
  ASSUME TypeOK, NEW c \in Cells, ExpandNode(c), pc' \in {"idle", "search"},
         result' \in {result, "SEARCH_ERR"}, how' \in {how, "timeout"}
  PROVE  TypeOK'
<1>1. node' \in [Cells -> Nodes]
  BY ExpandedType DEF ExpandNode
<1>2. openSet_' \in [Cells -> Nat]
  BY DEF ExpandNode, Pop, TypeOK
<1> QED
  BY <1>1, <1>2 DEF ExpandNode, TypeOK

LEMMA NextType == TypeOK /\ SearchInv /\ PathInv /\ [Next]_vars => TypeOK'
<1> SUFFICES ASSUME TypeOK, SearchInv, PathInv, [Next]_vars PROVE TypeOK'
  OBVIOUS
<1>. Points \subseteq Cells /\ \A X \in Maps : X \subseteq Cells
  BY PoolAssumption
<1>1. ASSUME NEW s \in Points, NEW e \in Points, Straight(s, e) PROVE TypeOK'
  BY <1>1 DEF Straight, Call, Return, TypeOK
<1>2. ASSUME NEW s \in Points, NEW e \in Points, Begin(s, e) PROVE TypeOK'
  BY <1>2 DEF Begin, Call, StartNode, Empty, TypeOK, Nodes, NodeStates
<1>3. CASE Refuse
  <2>1. CASE gridPath_' = gridPath_
    BY <1>3, <2>1 DEF Refuse, Call, Return, TypeOK
  <2>2. CASE gridPath_' = <<>>
    BY <1>3, <2>2 DEF Refuse, Call, Return, TypeOK
  <2> QED
    BY <1>3, <2>1, <2>2 DEF Refuse
<1>4. CASE GiveUp
  BY <1>4 DEF GiveUp, Return, TypeOK
<1>5. CASE Reach
  BY <1>5 DEF Reach, Pop, TypeOK, SearchInv, Running, StartIsReached
<1>6. CASE Retrieve
  <2>1. Last \in Cells
    BY <1>6 DEF Retrieve, Last, TypeOK, PathInv, Collected
  <2>2. node[Last].cameFrom \in Cells \cup {NULL}
    BY <2>1 DEF TypeOK, Nodes
  <2>3. CASE node[Last].cameFrom # NULL
    <3>1. Append(gridPath_, node[Last].cameFrom) \in Seq(Cells)
      BY <2>2, <2>3 DEF TypeOK
    <3> QED
      BY <1>6, <2>3, <3>1 DEF Retrieve, TypeOK
  <2>4. CASE node[Last].cameFrom = NULL
    BY <1>6, <2>4 DEF Retrieve, Return, TypeOK
  <2> QED
    BY <2>3, <2>4
<1>7. ASSUME NEW c \in Cells, Expand(c) PROVE TypeOK'
  <2>1. pc' \in {"idle", "search"}
    BY <1>7 DEF Expand, ExpandNode
  <2> QED
    BY <1>7, <2>1, ExpandType DEF Expand
<1>8. ASSUME NEW c \in Cells, TimeOut(c) PROVE TypeOK'
  BY <1>8, ExpandType DEF TimeOut, Return
<1>9. CASE UNCHANGED vars
  BY <1>9 DEF vars, TypeOK
<1> QED
  BY <1>1, <1>2, <1>3, <1>4, <1>5, <1>6, <1>7, <1>8, <1>9 DEF Next, Step

-----------------------------------------------------------------------------
(* The invariant of a running search.                                      *)

\* The nodes an expansion adds to the search, and the ones it leaves alone.
LEMMA Expansion ==
  ASSUME TypeOK, StampsArePast, SearchInv, NEW c \in Cells, ExpandNode(c)
  PROVE  /\ Reached(c) /\ node[c].state = "OPENSET" /\ openSet_[c] = 1 /\ ~Done(c)
         /\ \A n \in Cells :
              /\ node'[n].rounds = IF n \in Touched(c) THEN rounds_ ELSE node[n].rounds
              /\ node'[n].state = IF n = c THEN "CLOSEDSET"
                                  ELSE IF n \in Discovered(c) THEN "OPENSET" ELSE node[n].state
              /\ n \in Discovered(c) \cup Shorter(c) =>
                   node'[n].cameFrom = c /\ node'[n].gScore = node[c].gScore + Cost(c, n)
              /\ n \notin Discovered(c) \cup Shorter(c) =>
                   node'[n].cameFrom = node[n].cameFrom /\ node'[n].gScore = node[n].gScore
<1>1. Reached(c) /\ node[c].state = "OPENSET" /\ openSet_[c] = 1 /\ ~Done(c)
  BY DEF ExpandNode, SearchInv, Running, QueueIsOpen, Done
<1>2. SUFFICES ASSUME NEW n \in Cells
      PROVE  /\ node'[n].rounds = IF n \in Touched(c) THEN rounds_ ELSE node[n].rounds
             /\ node'[n].state = IF n = c THEN "CLOSEDSET"
                                 ELSE IF n \in Discovered(c) THEN "OPENSET" ELSE node[n].state
             /\ n \in Discovered(c) \cup Shorter(c) =>
                  node'[n].cameFrom = c /\ node'[n].gScore = node[c].gScore + Cost(c, n)
             /\ n \notin Discovered(c) \cup Shorter(c) =>
                  node'[n].cameFrom = node[n].cameFrom /\ node'[n].gScore = node[n].gScore
  BY <1>1
<1>. node'[n] = Expanded(c)[n] /\ node[n] \in Nodes /\ c \notin Touched(c)
  BY NeighbourFacts DEF ExpandNode, TypeOK, Touched
<1>. /\ Discovered(c) \subseteq Touched(c) \ occupied
     /\ Shorter(c) \subseteq Touched(c) \ occupied
     /\ \A m \in Shorter(c) : node[m].rounds = rounds_
     /\ Discovered(c) \cap Shorter(c) = {}
  BY DEF Discovered, Shorter, Explored
<1>3. CASE n = c
  <2>1. node'[n] = [node[n] EXCEPT !.state = "CLOSEDSET"]
    BY <1>3, ExpandedNode
  <2> QED
    BY <1>3, <2>1 DEF Nodes
<1>4. CASE n \in Discovered(c)
  <2>1. node'[n] = Through(c, n) /\ n # c
    BY <1>4, ExpandedNode
  <2> QED
    BY <1>4, <2>1 DEF Through
<1>5. CASE n \in Shorter(c)
  <2>1. node'[n] = Reroute(c, n) /\ n # c /\ n \notin Discovered(c)
    BY <1>5, ExpandedNode
  <2> QED
    BY <1>5, <2>1 DEF Reroute, Through
<1>6. CASE n \in Touched(c) \cap occupied
  <2>1. node'[n] = [node[n] EXCEPT !.rounds = rounds_] /\ n # c
    BY <1>6, ExpandedNode
  <2> QED
    BY <1>6, <2>1 DEF Nodes
<1>7. CASE n # c /\ n \notin Discovered(c) /\ n \notin Shorter(c) /\ n \notin Touched(c) \cap occupied
  <2>1. node'[n] = node[n]
    BY <1>7, ExpandedNode
  <2>2. n \in Touched(c) => node[n].rounds = rounds_
    BY <1>7 DEF Discovered, Explored
  <2> QED
    BY <1>7, <2>1, <2>2
<1> QED
  BY <1>3, <1>4, <1>5, <1>6, <1>7

\* In the words of the invariant.
LEMMA ExpansionReaches ==
  ASSUME TypeOK, StampsArePast, SearchInv, NEW c \in Cells, ExpandNode(c), NEW n \in Cells
  PROVE  /\ Explored(n)' <=> Explored(n) \/ n \in Touched(c)
         /\ Reached(n)' <=> Reached(n) \/ n \in Discovered(c)
         /\ Done(n)' <=> Done(n) \/ n = c
         /\ n \in Discovered(c) => n \in Neighbours[c] \ occupied /\ ~Explored(n)
         /\ n \in Shorter(c) =>
              /\ n \in Neighbours[c] \ occupied /\ Explored(n) /\ ~Done(n)
              /\ node[c].gScore + Cost(c, n) < node[n].gScore
         /\ Done(n) \/ n = c => /\ n \notin Discovered(c) \cup Shorter(c)
                                /\ node'[n].gScore = node[n].gScore
<1>. rounds_' = rounds_ /\ occupied' = occupied
  BY DEF ExpandNode
<1>1. Explored(n)' <=> Explored(n) \/ n \in Touched(c)
  BY Expansion DEF Explored
<1>2. n \in Discovered(c) => n \in Neighbours[c] \ occupied /\ n \in Touched(c) /\ ~Explored(n)
  BY DEF Discovered, Touched
<1>3. n \in Shorter(c) =>
        /\ n \in Neighbours[c] \ occupied /\ Explored(n) /\ ~Done(n)
        /\ node[c].gScore + Cost(c, n) < node[n].gScore
  BY DEF Shorter, Touched, Done, Reached, InClosedSet
<1>4. Reached(n)' <=> Reached(n) \/ n \in Discovered(c)
  BY <1>1, <1>2 DEF Reached, Discovered
<1>5. Done(n)' <=> Done(n) \/ n = c
  BY <1>2, <1>4, Expansion DEF Done, Reached
<1>6. Done(n) \/ n = c => n \notin Discovered(c) \cup Shorter(c)
  BY <1>2, <1>3, NeighbourFacts DEF Done, Reached
<1>7. Done(n) \/ n = c => node'[n].gScore = node[n].gScore
  BY <1>6, Expansion
<1> QED
  BY <1>1, <1>2, <1>3, <1>4, <1>5, <1>6, <1>7

LEMMA StampStep == TypeOK /\ StampsArePast /\ SearchInv /\ [Next]_vars => StampsArePast'
<1> SUFFICES ASSUME TypeOK, StampsArePast, SearchInv, [Next]_vars, NEW c \in Cells
    PROVE  (node[c].rounds <= rounds_)'
  BY DEF StampsArePast
<1>. node[c] \in Nodes /\ rounds_ \in Nat /\ node[c].rounds <= rounds_
  BY DEF TypeOK, StampsArePast
<1>1. ASSUME NEW d \in Cells, ExpandNode(d) PROVE (node[c].rounds <= rounds_)'
  BY <1>1, Expansion DEF ExpandNode
<1>2. ASSUME NEW s \in Points, NEW e \in Points, Begin(s, e) PROVE (node[c].rounds <= rounds_)'
  BY <1>2 DEF Begin, Call, StartNode, TypeOK, Nodes
<1>3. ASSUME NEW s \in Points, NEW e \in Points, Straight(s, e) PROVE (node[c].rounds <= rounds_)'
  BY <1>3 DEF Straight, Call, Nodes
<1>4. CASE Refuse
  BY <1>4 DEF Refuse, Call, Nodes
<1>5. CASE GiveUp \/ Reach \/ Retrieve \/ UNCHANGED vars
  BY <1>5 DEF GiveUp, Reach, Retrieve, vars
<1> QED
  BY <1>1, <1>2, <1>3, <1>4, <1>5 DEF Next, Step, Expand, TimeOut

\* A search begins with its start alone.
LEMMA SearchBegins ==
  ASSUME TypeOK, StampsArePast, NEW s \in Points, NEW e \in Points, Begin(s, e)
  PROVE  SearchInv'
<1>. s \in Cells /\ e \in Cells
  BY PoolAssumption
<1>1. /\ start' = s /\ end' = e /\ pc' = "search"
      /\ rounds_' = rounds_ + 1
      /\ s \notin occupied' /\ e \notin occupied'
      /\ node'[s] = StartNode(s)
      /\ \A c \in Cells : c # s => node'[c] = node[c]
      /\ \A c \in Cells : openSet_'[c] = IF c = s THEN 1 ELSE 0
  BY DEF Begin, Call, Empty, TypeOK
<1>2. \A c \in Cells : Explored(c)' <=> c = s
  <2> SUFFICES ASSUME NEW c \in Cells PROVE node'[c].rounds = rounds_ + 1 <=> c = s
    BY <1>1 DEF Explored
  <2>1. node[c] \in Nodes /\ node[c].rounds <= rounds_ /\ rounds_ \in Nat
    BY DEF TypeOK, StampsArePast
  <2> QED
    BY <1>1, <2>1 DEF StartNode, Nodes
<1>3. \A c \in Cells : Reached(c)' <=> c = s
  BY <1>1, <1>2 DEF Reached
<1>4. node'[s].state = "OPENSET" /\ node'[s].gScore = 0 /\ node'[s].cameFrom = NULL
  BY <1>1 DEF StartNode
<1>5. \A c \in Cells : ~Done(c)'
  BY <1>3, <1>4 DEF Done
<1> QED
  BY <1>1, <1>2, <1>3, <1>4, <1>5
  DEF SearchInv, StartIsReached, QueueIsOpen, OpenIsQueued, CameFromDone, DoneIsExpanded

LEMMA SearchExpands ==
  ASSUME TypeOK, StampsArePast, SearchInv, NEW c \in Cells, ExpandNode(c)
  PROVE  SearchInv'
<1>. Running
  BY DEF ExpandNode, Running
<1>. /\ StartIsReached /\ QueueIsOpen /\ CameFromDone /\ DoneIsExpanded /\ OpenIsQueued
     /\ node[start].cameFrom = NULL /\ ~Done(end)
  BY DEF SearchInv
<1>. /\ pc = "search" /\ c # end /\ start' = start /\ end' = end /\ occupied' = occupied
     /\ start \in Cells /\ end \in Cells /\ rounds_' = rounds_
  BY DEF ExpandNode, StartIsReached
<1>0. \A n \in Cells : node[n] \in Nodes
  BY DEF TypeOK
<1>1. StartIsReached' /\ node'[start].cameFrom = NULL
  <2>1. start \notin Discovered(c)
    BY ExpansionReaches DEF StartIsReached, Reached
  <2>2. start \notin Shorter(c)
    <3>1. \A n \in Neighbours[c] : ~(node[c].gScore + Cost(c, n) < 0)
      BY <1>0, NeighbourFacts DEF Nodes
    <3> QED
      BY <3>1, ExpansionReaches DEF StartIsReached
  <2>3. node'[start].cameFrom = node[start].cameFrom /\ node'[start].gScore = node[start].gScore
    BY <2>1, <2>2, Expansion
  <2> QED
    BY <2>3, ExpansionReaches DEF StartIsReached
<1>2. \A n \in Cells : openSet_'[n] = IF n = c THEN 0
                                      ELSE IF n \in Discovered(c) THEN openSet_[n] + 1 ELSE openSet_[n]
  <2>1. c \notin Discovered(c)
    BY ExpansionReaches
  <2> QED
    BY <2>1, Expansion DEF ExpandNode, Pop, TypeOK
<1>3. \A n \in Discovered(c) : openSet_[n] = 0
  <2> SUFFICES ASSUME NEW n \in Discovered(c) PROVE openSet_[n] = 0
    OBVIOUS
  <2>1. n \in Cells /\ ~Explored(n)
    BY NeighbourFacts DEF Discovered, Touched
  <2> QED
    BY <2>1 DEF QueueIsOpen, Reached, TypeOK
<1>4. QueueIsOpen'
  <2> SUFFICES ASSUME NEW n \in Cells, openSet_'[n] > 0
      PROVE  Reached(n)' /\ node'[n].state = "OPENSET" /\ openSet_'[n] = 1
    BY DEF QueueIsOpen
  <2>1. n # c
    BY <1>2
  <2>2. CASE n \in Discovered(c)
    BY <1>2, <1>3, <2>1, <2>2, Expansion, ExpansionReaches
  <2>3. CASE n \notin Discovered(c)
    BY <1>2, <2>1, <2>3, Expansion, ExpansionReaches DEF QueueIsOpen
  <2> QED
    BY <2>2, <2>3
<1>5. OpenIsQueued'
  <2> SUFFICES ASSUME NEW n \in Cells, Reached(n)', node'[n].state # "CLOSEDSET"
      PROVE  openSet_'[n] = 1
    BY DEF OpenIsQueued
  <2>1. n # c
    BY Expansion
  <2>2. CASE n \in Discovered(c)
    BY <1>2, <1>3, <2>1, <2>2
  <2>3. CASE n \notin Discovered(c)
    BY <1>2, <2>1, <2>3, Expansion, ExpansionReaches DEF OpenIsQueued
  <2> QED
    BY <2>2, <2>3
<1>6. CameFromDone'
  <2> SUFFICES ASSUME NEW n \in Cells, Reached(n)', n # start
      PROVE  \E p \in Cells : /\ p = node'[n].cameFrom /\ Done(p)' /\ n \in Neighbours[p]
                             /\ node'[p].gScore < node'[n].gScore
    BY DEF CameFromDone
  <2>1. CASE n \in Discovered(c) \cup Shorter(c)
    <3>1. node'[n].cameFrom = c /\ node'[n].gScore = node[c].gScore + Cost(c, n)
      BY <2>1, Expansion
    <3>2. n \in Neighbours[c]
      BY <2>1, ExpansionReaches
    <3>3. Done(c)' /\ node'[c].gScore = node[c].gScore
      BY ExpansionReaches
    <3>4. node[c].gScore < node[c].gScore + Cost(c, n)
      BY <1>0, <3>2, NeighbourFacts DEF Nodes
    <3> QED
      BY <3>1, <3>2, <3>3, <3>4
  <2>2. CASE n \notin Discovered(c) \cup Shorter(c)
    <3>1. Reached(n) /\ node'[n].cameFrom = node[n].cameFrom /\ node'[n].gScore = node[n].gScore
      BY <2>2, Expansion, ExpansionReaches
    <3>2. PICK p \in Cells : /\ p = node[n].cameFrom /\ Done(p) /\ n \in Neighbours[p]
                            /\ node[p].gScore < node[n].gScore
      BY <3>1 DEF CameFromDone
    <3>3. Done(p)' /\ node'[p].gScore = node[p].gScore
      BY <3>2, ExpansionReaches
    <3> QED
      BY <3>1, <3>2, <3>3
  <2> QED
    BY <2>1, <2>2
<1>7. DoneIsExpanded'
  <2> SUFFICES ASSUME NEW n \in Cells, Done(n)', NEW m \in Neighbours[n] \ occupied
      PROVE  Explored(m)'
    BY DEF DoneIsExpanded
  <2>1. m \in Cells
    BY NeighbourFacts
  <2>2. CASE n = c
    BY <2>1, <2>2, ExpansionReaches DEF Touched, InClosedSet
  <2>3. CASE Done(n)
    BY <2>1, <2>3, ExpansionReaches DEF DoneIsExpanded
  <2> QED
    BY <2>2, <2>3, ExpansionReaches
<1>8. ~Done(end)'
  BY ExpansionReaches
<1> QED
  BY <1>1, <1>4, <1>5, <1>6, <1>7, <1>8 DEF SearchInv

LEMMA SearchStep == TypeOK /\ StampsArePast /\ SearchInv /\ [Next]_vars => SearchInv'
<1> SUFFICES ASSUME TypeOK, StampsArePast, SearchInv, [Next]_vars PROVE SearchInv'
  OBVIOUS
<1>1. ASSUME NEW s \in Points, NEW e \in Points, Straight(s, e) PROVE SearchInv'
  BY <1>1 DEF Straight, Return, SearchInv, Running
<1>2. ASSUME NEW s \in Points, NEW e \in Points, Begin(s, e) PROVE SearchInv'
  BY <1>2, SearchBegins
<1>3. CASE Refuse \/ GiveUp
  BY <1>3 DEF Refuse, GiveUp, Return, SearchInv, Running
<1>4. ASSUME NEW c \in Cells, Expand(c) \/ TimeOut(c) PROVE SearchInv'
  BY <1>4, SearchExpands DEF Expand, TimeOut
<1>5. CASE Reach
  <2>1. /\ pc = "search" /\ pc' = "retrieve" /\ openSet_[end] > 0 /\ openSet_' = Pop(end)
        /\ UNCHANGED <<rounds_, node, occupied, start, end>>
    BY <1>5 DEF Reach
  <2>2. /\ StartIsReached /\ QueueIsOpen /\ CameFromDone /\ DoneIsExpanded
        /\ node[start].cameFrom = NULL /\ ~Done(end) /\ end \in Cells
    BY <2>1 DEF SearchInv, Running, StartIsReached
  <2>3. \A c \in Cells : Explored(c)' = Explored(c) /\ Reached(c)' = Reached(c) /\ Done(c)' = Done(c)
    BY <2>1 DEF Explored, Reached, Done
  <2>4. QueueIsOpen'
    <3>1. \A c \in Cells : openSet_'[c] = IF c = end THEN 0 ELSE openSet_[c]
      BY <2>1, <2>2 DEF Pop, QueueIsOpen, TypeOK
    <3> QED
      BY <2>1, <2>2, <2>3, <3>1 DEF QueueIsOpen
  <2>5. StartIsReached' /\ ~Done(end)' /\ node'[start'].cameFrom = NULL
    BY <2>1, <2>2, <2>3 DEF StartIsReached
  <2>6. CameFromDone' /\ DoneIsExpanded'
    BY <2>1, <2>2, <2>3, NeighbourSets DEF CameFromDone, DoneIsExpanded
  <2> QED
    BY <2>1, <2>4, <2>5, <2>6 DEF SearchInv, OpenIsQueued
<1>6. CASE Retrieve \/ UNCHANGED vars
  <2>1. UNCHANGED <<rounds_, node, openSet_, occupied, start, end>>
    BY <1>6 DEF Retrieve, vars
  <2>2. Running' => Running /\ pc' = pc
    BY <1>6 DEF Retrieve, Return, Running, vars
  <2>3. /\ StartIsReached' = StartIsReached /\ QueueIsOpen' = QueueIsOpen
        /\ CameFromDone' = CameFromDone /\ DoneIsExpanded' = DoneIsExpanded
        /\ Done(end)' = Done(end)
    BY <2>1 DEF StartIsReached, QueueIsOpen, CameFromDone, DoneIsExpanded, Done, Reached, Explored
  <2>4. Running' => OpenIsQueued' = OpenIsQueued
    BY <2>1, <2>2 DEF OpenIsQueued, Reached, Explored
  <2> QED
    BY <2>1, <2>2, <2>3, <2>4 DEF SearchInv
<1> QED
  BY <1>1, <1>2, <1>3, <1>4, <1>5, <1>6 DEF Next, Step

-----------------------------------------------------------------------------
(* What is retrieved, and what giving up means.                            *)

\* One more step of retrievePath.
LEMMA Predecessor ==
  ASSUME TypeOK, SearchInv, PathInv, pc = "retrieve", node[Last].cameFrom # NULL
  PROVE  \E p \in Cells : /\ p = node[Last].cameFrom /\ Reached(p) /\ Last \in Neighbours[p]
                          /\ node[p].gScore < node[Last].gScore
<1>1. Last \in Cells /\ Reached(Last)
  BY DEF PathInv, Collected, Last, TypeOK
<1>2. CameFromDone /\ node[start].cameFrom = NULL
  BY DEF SearchInv, Running
<1> QED
  BY <1>1, <1>2 DEF CameFromDone, Done

LEMMA PathStep ==
  TypeOK /\ SearchInv /\ PathInv /\ NoCircle /\ [Next]_vars => PathInv' /\ NoCircle'
<1> SUFFICES ASSUME TypeOK, SearchInv, PathInv, NoCircle, [Next]_vars, pc' = "retrieve"
    PROVE  Collected' /\ NoCircle'
  BY DEF PathInv, NoCircle
<1>1. CASE Reach
  <2>1. Reached(end) /\ end \in Cells
    BY <1>1 DEF Reach, SearchInv, Running, StartIsReached, QueueIsOpen
  <2>2. Reached(end)' /\ gridPath_' = <<end>> /\ end' = end
    BY <1>1, <2>1 DEF Reach, Reached, Explored
  <2>3. Collected'
    BY <2>2 DEF Collected, Reached, Explored
  <2>4. NoCircle'
    BY <2>2 DEF NoCircle
  <2> QED
    BY <2>3, <2>4
<1>2. CASE Retrieve
  <2>1. /\ pc = "retrieve" /\ node[Last].cameFrom # NULL
        /\ gridPath_' = Append(gridPath_, node[Last].cameFrom)
        /\ UNCHANGED <<rounds_, node, occupied, end>>
    BY <1>2 DEF Retrieve, Return
  <2>2. PICK p \in Cells : /\ p = node[Last].cameFrom /\ Reached(p) /\ Last \in Neighbours[p]
                           /\ node[p].gScore < node[Last].gScore
    BY <2>1, Predecessor
  <2>. DEFINE n == Len(gridPath_)
  <2>3. /\ n \in Nat /\ n >= 1 /\ Len(gridPath_') = n + 1
        /\ \A i \in 1 .. n : gridPath_'[i] = gridPath_[i] /\ gridPath_[i] \in Cells
        /\ gridPath_'[n + 1] = p /\ Last = gridPath_[n]
    BY <2>1, <2>2 DEF TypeOK, PathInv, Collected, Last
  <2>4. Collected
    BY <2>1 DEF PathInv
  <2>. HIDE DEF n
  <2>5. gridPath_' # <<>> /\ gridPath_'[1] = end'
    BY <2>1, <2>3, <2>4 DEF Collected
  <2>6. \A c : Reached(c)' = Reached(c)
    BY <2>1 DEF Reached, Explored
  <2>7. ASSUME NEW i \in 1 .. n + 1 PROVE Reached(gridPath_'[i])
    <3>1. CASE i = n + 1
      BY <3>1, <2>2, <2>3
    <3>2. CASE i \in 1 .. n
      BY <3>2, <2>3, <2>4 DEF Collected, n
    <3> QED
      BY <3>1, <3>2, <2>3
  <2>8. ASSUME NEW i \in 1 .. n PROVE gridPath_'[i] \in Neighbours[gridPath_'[i + 1]]
    <3>1. CASE i = n
      BY <3>1, <2>2, <2>3
    <3>2. CASE i \in 1 .. n - 1
      <4>1. i \in 1 .. n /\ i + 1 \in 1 .. n
        BY <3>2, <2>3
      <4> QED
        BY <3>2, <4>1, <2>3, <2>4 DEF Collected, n
    <3> QED
      BY <3>1, <3>2, <2>3
  <2>9. Collected'
    <3>1. \A i \in 1 .. Len(gridPath_') : Reached(gridPath_'[i])
      BY <2>3, <2>7
    <3>2. \A i \in 1 .. Len(gridPath_') - 1 : gridPath_'[i] \in Neighbours[gridPath_'[i + 1]]
      BY <2>3, <2>8
    <3> QED
      BY <2>1, <2>5, <3>1, <3>2 DEF Collected, Reached, Explored
  <2>10. NoCircle'
    <3> SUFFICES ASSUME NEW i \in 1 .. n + 1, NEW j \in 1 .. n + 1, i < j
        PROVE  node[gridPath_'[j]].gScore < node[gridPath_'[i]].gScore
      BY <2>1, <2>3 DEF NoCircle
    <3>1. ASSUME NEW k \in 1 .. n, NEW l \in 1 .. n, k < l
          PROVE  node[gridPath_[l]].gScore < node[gridPath_[k]].gScore
      BY <2>1, <3>1 DEF NoCircle, n
    <3>2. CASE j = n + 1
      <4>1. i \in 1 .. n /\ n \in 1 .. n
        BY <3>2, <2>3
      <4>2. i = n \/ node[gridPath_[n]].gScore < node[gridPath_[i]].gScore
        BY <3>1, <4>1
      <4>3. /\ node[p].gScore \in Nat /\ node[gridPath_[n]].gScore \in Nat
            /\ node[gridPath_[i]].gScore \in Nat
        BY <4>1, <2>2, <2>3 DEF TypeOK, Nodes
      <4> QED
        BY <3>2, <4>1, <4>2, <4>3, <2>2, <2>3
    <3>3. CASE j \in 1 .. n
      <4>1. i \in 1 .. n
        BY <3>3, <2>3
      <4> QED
        BY <3>1, <3>3, <4>1, <2>3
    <3> QED
      BY <3>2, <3>3, <2>3
  <2> QED
    BY <2>9, <2>10
<1>3. CASE UNCHANGED vars
  BY <1>3 DEF vars, PathInv, Collected, Reached, Explored, NoCircle
<1>4. CASE ~(Reach \/ Retrieve \/ UNCHANGED vars)
  BY <1>4 DEF Next, Step, Straight, Begin, Refuse, GiveUp, Expand, TimeOut, ExpandNode, Return
<1> QED
  BY <1>1, <1>2, <1>3, <1>4

LEMMA ClearStep == TypeOK /\ SearchInv /\ PathInv /\ PathIsClear /\ [Next]_vars => PathIsClear'
<1> SUFFICES ASSUME TypeOK, SearchInv, PathInv, PathIsClear, [Next]_vars, Searched'
    PROVE  PathIsClear'
  BY DEF PathIsClear
<1>1. CASE Retrieve
  <2>1. CASE node[Last].cameFrom # NULL
    BY <1>1, <2>1 DEF Retrieve, Searched
  <2>2. CASE node[Last].cameFrom = NULL
    <3>1. Collected /\ UNCHANGED <<gridPath_, occupied, start, end>>
      BY <1>1, <2>2 DEF Retrieve, PathInv
    <3>2. Last \in Cells /\ Reached(Last)
      BY <3>1 DEF Collected, Last, TypeOK
    <3>3. Last = start
      <4>1. CameFromDone
        BY <1>1 DEF Retrieve, SearchInv, Running
      <4> QED
        BY <2>2, <3>2, <4>1, PoolAssumption DEF CameFromDone
    <3> QED
      BY <3>1, <3>3 DEF PathIsClear, Collected, Reached, Last
  <2> QED
    BY <2>1, <2>2
<1>2. CASE UNCHANGED vars
  BY <1>2 DEF vars, PathIsClear, Searched, Last
<1>3. CASE ~(Retrieve \/ UNCHANGED vars)
  BY <1>3 DEF Next, Step, Straight, Begin, Refuse, GiveUp, Reach, Expand, TimeOut, ExpandNode,
              Return, Searched
<1> QED
  BY <1>1, <1>2, <1>3

LEMMA CutStep == TypeOK /\ SearchInv /\ GivenUpIsCut /\ [Next]_vars => GivenUpIsCut'
<1> SUFFICES ASSUME TypeOK, SearchInv, GivenUpIsCut, [Next]_vars, pc' = "idle", how' = "exhausted"
    PROVE  GivenUpIsCut'
  BY DEF GivenUpIsCut
<1>1. CASE GiveUp
  <2>1. /\ pc = "search" /\ \A c \in Cells : openSet_[c] = 0
        /\ UNCHANGED <<rounds_, node, occupied, start, end>>
    BY <1>1 DEF GiveUp
  <2>2. StartIsReached /\ OpenIsQueued /\ DoneIsExpanded /\ ~Done(end)
    BY <2>1 DEF SearchInv, Running
  <2>3. \A c \in Cells : Reached(c) => Done(c)
    BY <2>1, <2>2 DEF OpenIsQueued, Done
  <2>4. \A c \in Cells : c \in Closed <=> Done(c)
    BY DEF Closed, Done, Reached, InClosedSet
  <2>5. ASSUME NEW c \in Closed, NEW n \in Neighbours[c] \ occupied PROVE n \in Closed
    <3>1. c \in Cells /\ n \in Cells
      BY NeighbourFacts DEF Closed
    <3> QED
      BY <3>1, <2>2, <2>3, <2>4 DEF DoneIsExpanded, Reached
  <2>6. start \in Closed /\ end \notin Closed
    BY <2>2, <2>3, <2>4 DEF StartIsReached
  <2>7. Closed' = Closed
    BY <2>1 DEF Closed, InClosedSet, Explored
  <2> QED
    BY <2>1, <2>5, <2>6, <2>7 DEF GivenUpIsCut
<1>2. CASE UNCHANGED vars
  BY <1>2 DEF vars, GivenUpIsCut, Closed, InClosedSet, Explored
<1>3. CASE ~(GiveUp \/ UNCHANGED vars)
  BY <1>3 DEF Next, Step, Straight, Begin, Refuse, Reach, Retrieve, Expand, TimeOut, ExpandNode,
              Return
<1> QED
  BY <1>1, <1>2, <1>3

-----------------------------------------------------------------------------
(* The theorems.                                                           *)

\* The inductive invariant.
THEOREM Invariance == Spec => []IInv
<1>1. Init => IInv
  BY InitType DEF Init, IInv, StampsArePast, NewNode, SearchInv, Running, PathInv, NoCircle,
                  PathIsClear, Searched, GivenUpIsCut
<1>2. IInv /\ [Next]_vars => IInv'
  BY NextType, StampStep, SearchStep, PathStep, ClearStep, CutStep DEF IInv
<1> QED
  BY <1>1, <1>2, PTL DEF Spec

\* The pool, the queue and the path keep the types of the C++ members.
THEOREM TypeCorrect == Spec => []TypeOK
BY Invariance, PTL DEF IInv

\* AstarSearch returns a path through free cells from the start to the end, for
\* every pool, every map, every order of the queue and every earlier search.
THEOREM ClearPath == Spec => []PathIsClear
BY Invariance, PTL DEF IInv

\* retrievePath never comes to a cell a second time.
THEOREM CircleFree == Spec => []NoCircle
BY Invariance, PTL DEF IInv

\* AstarSearch finds no path only if obstacles separate the start from the end.
THEOREM GivesUpRightly == Spec => []GivenUpIsCut
BY Invariance, PTL DEF IInv

=============================================================================
