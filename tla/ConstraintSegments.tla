------------------------- MODULE ConstraintSegments -------------------------
(***************************************************************************)
(* finelyCheckAndSetConstraintPoints (traj_opt/src/poly_traj_optimizer.cpp)*)
(* walks along a trajectory, cuts it into the segments that lead through   *)
(* obstacles, has AStar find a way around each, and gives the constraint   *)
(* points of each segment the base points that push them out of it.        *)
(* roughlyCheckConstraintPoints does the same during the optimisation, for *)
(* obstacles the constraint points have moved into since.                  *)
(*                                                                         *)
(* Abstractions.  Constraint point i is followed by piece i, which has any *)
(* number of samples, occupied or free in any pattern; what AStar returns  *)
(* is a choice, and so is where its path meets the plane through a point.  *)
(* same_occ_state_times stops counting where it is not told apart any      *)
(* more, the base points of a constraint point are counted up to two.      *)
(***************************************************************************)
EXTENDS Integers, Sequences

CONSTANTS
  Cols,         \* init_points.cols()
  MaxSegments   \* bound: segments per trajectory

ASSUME ColsAssumption == Cols \in Nat /\ Cols >= 3 /\ MaxSegments \in Nat

ENOUGH_INTERVAL == 2
Ids == 0 .. Cols - 1
Outcomes == {"hit", "near", "none", "stale"}

VARIABLES
  pc,           \* "idle", "scan", "search", "assign" or "done"
  rough,        \* which of the two checks it is
  i_end,        \* pieces that are checked
  i, sampled,   \* the piece, and whether it has been sampled
  scan,         \* the flags and counters of the loop
  segment_ids,  \* <<first, second>>
  k,            \* the segment that is searched for or assigned
  guides,       \* base_point of each constraint point, how many
  flag_temp,
  segments, ret,   \* what the caller gets: the segments that were given base points
  obstacle, left   \* history: pieces with samples in the obstacle of late (those less
                   \* than four samples apart are one), and in those before; in the
                   \* rough check the points given up, and those in obstacles

vars == <<pc, rough, i_end, i, sampled, scan, segment_ids, k, guides, flag_temp, segments, ret,
          obstacle, left>>

NewScan ==
  [in_id |-> -1, out_id |-> -1, same |-> ENOUGH_INTERVAL + 1, last_occ |-> FALSE,
   got_start |-> FALSE, got_end |-> FALSE, maybe |-> FALSE]

Init ==
  /\ pc = "idle" /\ rough = FALSE /\ i_end = 0 /\ i = 0 /\ sampled = FALSE
  /\ scan = NewScan /\ segment_ids = <<>> /\ k = 1
  /\ guides = [j \in Ids |-> 0] /\ flag_temp = [j \in Ids |-> FALSE]
  /\ segments = <<>> /\ ret = "none"
  /\ obstacle = {} /\ left = {}

-----------------------------------------------------------------------------
\* All of a trajectory that touches the goal is checked, of others two thirds.
TwoThirdsId(touch_goal) == IF touch_goal THEN Cols - 1 ELSE Cols - 1 - (Cols - 2) \div 3

\* Bound: what the optimisation before left in the constraint points is a base
\* point for all of them or for none, and so with flags.  (Flags are set with a
\* base point only, and resize_cp clears both.)
Kept ==
  /\ guides' \in {[j \in Ids |-> n] : n \in {0, 1}}
  /\ flag_temp' \in {[j \in Ids |-> b] : b \in BOOLEAN}
  /\ \A j \in Ids : flag_temp'[j] => guides'[j] > 0

Call(flag_first_init, touch_goal) ==
  /\ pc = "idle" /\ pc' = "scan"
  /\ i_end' = TwoThirdsId(touch_goal)
  /\ IF flag_first_init THEN UNCHANGED <<guides, flag_temp>> ELSE Kept
  /\ UNCHANGED <<rough, i, sampled, scan, segment_ids, k, segments, ret, obstacle, left>>

Return(r) == pc' = "done" /\ ret' = r

\* The caller has its answer; resize_cp at the next first check.
Done ==
  /\ pc = "done" /\ pc' = "idle"
  /\ rough' = FALSE /\ i_end' = 0 /\ i' = 0 /\ sampled' = FALSE
  /\ scan' = NewScan /\ segment_ids' = <<>> /\ k' = 1
  /\ guides' = [j \in Ids |-> 0] /\ flag_temp' = [j \in Ids |-> FALSE]
  /\ segments' = <<>> /\ ret' = "none"
  /\ obstacle' = {} /\ left' = {}

-----------------------------------------------------------------------------
(* The loop over the samples of the pieces.                                *)

Enough(same) == same > ENOUGH_INTERVAL
More(same) == IF Enough(same) THEN same ELSE same + 1

\* An obstacle opens a segment unless the last one ended just before it.
Opens == Enough(scan.same) \/ i = 0

Enter == [scan EXCEPT !.same = 0, !.maybe = FALSE,
                      !.in_id = IF Opens THEN i ELSE @, !.got_start = Opens \/ @]
Leave == [scan EXCEPT !.same = 0, !.maybe = TRUE, !.out_id = i + 1]
Stay == [scan EXCEPT !.same = More(@)]

Looked(occ) ==
  CASE occ /\ ~scan.last_occ -> Enter
    [] ~occ /\ scan.last_occ -> Leave
    [] OTHER -> Stay

\* The end of an obstacle is the end of a segment when the way stays free for a
\* while, or the last piece is reached.
SurelyLeftMutant(s) == s.maybe /\ Enough(s.same)
SurelyLeft(s) == s.maybe /\ (Enough(s.same) \/ i = i_end - 1)
Judged(s) == IF SurelyLeft(s) THEN [s EXCEPT !.maybe = FALSE, !.got_end = TRUE] ELSE s

Sample(occ) ==
  /\ pc = "scan"
  /\ sampled' = TRUE
  /\ LET s == Judged(Looked(occ))
         closes == s.got_start /\ s.got_end
     IN /\ closes => Len(segment_ids) < MaxSegments
        /\ scan' = [s EXCEPT !.last_occ = occ,
                             !.got_start = @ /\ ~closes, !.got_end = @ /\ ~closes]
        /\ segment_ids' = IF closes THEN Append(segment_ids, <<s.in_id, s.out_id>>)
                                    ELSE segment_ids
  /\ LET past == ~occ /\ Enough(scan'.same)
     IN /\ obstacle' = IF occ THEN obstacle \cup {i} ELSE IF past THEN {} ELSE obstacle
        /\ left' = IF past THEN left \cup obstacle ELSE left
  /\ UNCHANGED <<pc, rough, i_end, i, k, guides, flag_temp, segments, ret>>

\* Every piece has a sample: the samples are closer than the constraint points.
NextPiece ==
  /\ pc = "scan" /\ sampled
  /\ i' = i + 1 /\ sampled' = FALSE
  /\ IF i' < i_end
       THEN UNCHANGED <<pc, ret>>
       ELSE IF segment_ids = <<>> THEN Return("OBS_FREE")
            ELSE pc' = "search" /\ UNCHANGED ret
  /\ UNCHANGED <<rough, i_end, scan, segment_ids, k, guides, flag_temp, segments, obstacle,
                 left>>

-----------------------------------------------------------------------------
(* The rough check: which constraint points are in obstacles.              *)

LastFree(occ, j) ==
  IF \E n \in 0 .. j - 1 : n \notin occ
    THEN CHOOSE n \in 0 .. j - 1 : n \notin occ /\ n + 1 .. j - 1 \subseteq occ ELSE 0
NextFree(occ, j) ==
  CHOOSE n \in j + 1 .. Cols : n \notin occ /\ j + 1 .. n - 1 \subseteq occ

\* The loop goes on two points behind each segment it finds; at are the points
\* it finds them at.  A segment that has no end ends at Cols.
Finds(at, occ, unsafe) ==
  /\ \A m, n \in DOMAIN at : m < n => at[n] >= NextFree(occ, at[m]) + 2
  /\ \A j \in unsafe : \E n \in DOMAIN at : j \in at[n] .. NextFree(occ, at[n]) + 1
RoughSegments(at, occ) == [n \in DOMAIN at |-> <<LastFree(occ, at[n]), NextFree(occ, at[n])>>]

\* A point in an obstacle is new unless one of its base points still pushes it.
Roughly(touch_goal, occ, pushed) ==
  /\ rough' = TRUE
  /\ i_end' = TwoThirdsId(touch_goal)
  /\ Kept
  /\ \A j \in pushed : guides'[j] > 0
  /\ left' = {j \in occ \ pushed : 1 <= j /\ j <= i_end'}
  /\ IF left' = {} THEN Return("DONT_STOP") /\ UNCHANGED segment_ids
     ELSE /\ \E n \in 1 .. MaxSegments : \E at \in [1 .. n -> left'] :
               /\ Finds(at, occ, left')
               /\ segment_ids' = RoughSegments(at, occ)
          /\ IF segment_ids'[Len(segment_ids')][2] = Cols
               THEN Return("STOP_FOR_ERROR")  \* the local target is in collision
               ELSE pc' = "search" /\ UNCHANGED ret
  /\ UNCHANGED <<i, sampled, scan, k, segments, obstacle>>

RoughCheck ==
  /\ pc = "idle"
  /\ \E touch_goal \in BOOLEAN, occ \in SUBSET Ids :
       \E pushed \in SUBSET occ : Roughly(touch_goal, occ, pushed)

-----------------------------------------------------------------------------
(* A* around each segment.                                                 *)

scanned == <<rough, i_end, i, sampled, scan, left>>

Found ==
  /\ pc = "search"
  /\ IF k = Len(segment_ids) THEN pc' = "assign" /\ k' = 1 ELSE k' = k + 1 /\ UNCHANGED pc
  /\ UNCHANGED <<scanned, segment_ids, guides, flag_temp, segments, ret, obstacle>>

\* There is no way around this segment alone: try it together with the next.
Merged ==
  [n \in 1 .. Len(segment_ids) - 1 |->
     CASE n < k -> segment_ids[n]
       [] n = k -> <<segment_ids[k][1], segment_ids[k + 1][2]>>
       [] OTHER -> segment_ids[n + 1]]

SearchErr ==
  /\ pc = "search" /\ k < Len(segment_ids)
  /\ segment_ids' = Merged
  /\ UNCHANGED <<pc, scanned, k, guides, flag_temp, segments, ret, obstacle>>

\* There is no way at all, or the trajectory ended before two thirds of it.
Fails ==
  /\ (pc = "search" /\ ~rough) \/ (pc = "scan" /\ i = 0 /\ ~sampled)
  /\ Return("ERR")
  /\ UNCHANGED <<scanned, segment_ids, k, guides, flag_temp, segments, obstacle>>

\* The points the rough check does not look at again: it goes on two points
\* behind the segment.
Past(s) == (s[1] + 1 .. s[2] - 1) \cup {s[2] + 1}

Erased ==
  [n \in 1 .. Len(segment_ids) - 1 |-> segment_ids[IF n < k THEN n ELSE n + 1]]

\* The rough check goes on without the segment, and rebounds even without any.
Erases ==
  /\ pc = "search" /\ rough
  /\ obstacle' = obstacle \cup Past(segment_ids[k])
  /\ segment_ids' = Erased
  /\ IF k <= Len(segment_ids') THEN UNCHANGED <<pc, k, ret>>
     ELSE /\ k' = 1
          /\ IF segment_ids' = <<>> THEN Return("STOP_FOR_REBOUND")
                                   ELSE pc' = "assign" /\ UNCHANGED ret
  /\ UNCHANGED <<scanned, guides, flag_temp, segments>>

-----------------------------------------------------------------------------
(* Base points for the constraint points of each segment.                  *)

Overlap(a, b) == a[2] >= b[1]
MiddleMutant(a, b) == <<(a[2] + b[1]) \div 2, (a[2] + b[1]) \div 2>>
Middle(a, b) == <<(a[2] + b[1] - 1) \div 2, (a[2] + b[1]) \div 2 + 1>>

\* Segments that overlap are parted in the middle.
Adjusted(n) ==
  LET seg == segment_ids[n]
      low == IF n > 1 /\ Overlap(segment_ids[n - 1], seg)
               THEN Middle(segment_ids[n - 1], seg)[2] ELSE seg[1]
      up  == IF n < Len(segment_ids) /\ Overlap(seg, segment_ids[n + 1])
               THEN Middle(seg, segment_ids[n + 1])[1] ELSE seg[2]
  IN <<low, up>>

\* got_intersection_id once the points up to j are done: the last that had an
\* intersection far enough, if no later one was too near.
GotIntersection(outcome, j) ==
  LET latest == {h \in DOMAIN outcome :
                   /\ h <= j /\ outcome[h] = "hit"
                   /\ \A l \in h + 1 .. j : outcome[l] \notin {"hit", "near"}}
  IN IF latest = {} THEN -1 ELSE CHOOSE h \in latest : TRUE

\* A point has an intersection of its own, far enough or not, or none; after an
\* earlier point had one it then uses intersection_point uninitialised ("stale").
Possible(outcome) ==
  \A j \in DOMAIN outcome :
    /\ outcome[j] = "none" => GotIntersection(outcome, j - 1) < 0
    /\ outcome[j] = "stale" => GotIntersection(outcome, j - 1) >= 0

Inner(seg) == seg[1] + 1 .. seg[2] - 1
Another(n) == IF n = 2 THEN 2 ELSE n + 1

\* The points of own got a base point; those around got are given its neighbour's.
\* (In the fine check got may lie outside what is left of the segment.)
ToFill(adj, got) == (got + 1 .. adj[2]) \cup (adj[1] .. got - 1)
GiveGuides(adj, own, got) ==
  LET flag == [j \in Ids |-> j \in own \/ (flag_temp[j] /\ j \notin adj[1] .. adj[2])]
      filled == {j \in ToFill(adj, got) : ~flag[j]}
  IN /\ flag_temp' = flag
     /\ guides' = [j \in Ids |-> IF j \in own \/ (got >= 0 /\ j \in filled)
                                   THEN Another(guides[j]) ELSE guides[j]]
     /\ segments' = IF got >= 0 THEN Append(segments, adj) ELSE segments

\* The rough check parts the segments first.
Seg(n) == IF rough THEN Adjusted(n) ELSE segment_ids[n]

Assign(outcome) ==
  LET seg == Seg(k)
      got == GotIntersection(outcome, seg[2] - 1)
  IN /\ seg[2] - seg[1] > 1
     /\ Possible(outcome)
     /\ GiveGuides(Adjusted(k), {j \in Inner(seg) : outcome[j] \in {"hit", "stale"}}, got)

\* Corner case: the segment has no point between its ends.  Only the fine check
\* looks for an intersection then.
AssignCorner(found) ==
  LET seg == Seg(k)
  IN /\ seg[2] - seg[1] <= 1
     /\ IF found /\ ~rough
          THEN GiveGuides(Adjusted(k), {seg[1]}, seg[1])
          ELSE GiveGuides(Adjusted(k), {}, -1)

NextSegment ==
  /\ pc = "assign"
  /\ \/ \E outcome \in [Inner(Seg(k)) -> Outcomes] : Assign(outcome)
     \/ \E found \in BOOLEAN : AssignCorner(found)
  /\ k' = k + 1
  /\ IF k < Len(segment_ids) THEN UNCHANGED <<pc, ret>>
     ELSE Return(IF rough THEN "STOP_FOR_REBOUND" ELSE "FINISH")
  /\ UNCHANGED <<scanned, segment_ids, obstacle>>

Next ==
  \/ \E flag_first_init, touch_goal \in BOOLEAN : Call(flag_first_init, touch_goal)
  \/ \E occ \in BOOLEAN : Sample(occ)
  \/ RoughCheck
  \/ NextPiece \/ Found \/ SearchErr \/ Fails \/ Erases \/ NextSegment \/ Done

Spec == Init /\ [][Next]_vars

-----------------------------------------------------------------------------
(* Properties.                                                             *)

Segments == Ids \X (0 .. Cols)

\* Among the types: no segment ends beyond the last constraint point.
TypeOK ==
  /\ pc \in {"idle", "scan", "search", "assign", "done"} /\ rough \in BOOLEAN
  /\ i_end \in Ids /\ i \in 0 .. i_end /\ sampled \in BOOLEAN
  /\ scan \in [in_id : Ids \cup {-1}, out_id : Ids \cup {-1}, same : 0 .. ENOUGH_INTERVAL + 1,
               last_occ : BOOLEAN, got_start : BOOLEAN, got_end : BOOLEAN, maybe : BOOLEAN]
  /\ segment_ids \in Seq(Segments) /\ segments \in Seq(Ids \X Ids)
  /\ k \in Nat
  /\ guides \in [Ids -> 0 .. 2] /\ flag_temp \in [Ids -> BOOLEAN]
  /\ ret \in {"none", "OBS_FREE", "ERR", "FINISH", "DONT_STOP", "STOP_FOR_ERROR",
              "STOP_FOR_REBOUND"}
  /\ obstacle \subseteq 0 .. Cols /\ left \subseteq Ids

\* However short the gaps between obstacles and wherever the pieces begin and
\* end, every obstacle the trajectory comes out of again lies in a segment;
\* only in the last piece one may be overlooked, and only after another.  (The
\* obstacle the checked part ends in is not noticed: the answer may be OBS_FREE.)
\* The rough check overlooks no point but the second one behind a segment, and
\* leaves out only what A* found no way around.
Out == IF scan.last_occ THEN left ELSE left \cup obstacle
Ends == {segment_ids[n] : n \in 1 .. Len(segment_ids)}
FinelyCut == Out \subseteq
  (UNION {s[1] .. s[2] - 1 : s \in Ends}) \cup (IF Ends = {} THEN {} ELSE {i_end - 1})
RoughlyCut == left \subseteq obstacle \cup (UNION {Past(s) : s \in Ends})

ObstaclesAreCut ==
  /\ ~rough /\ (pc \in {"search", "assign"} \/ ret = "OBS_FREE") => FinelyCut
  /\ rough /\ (pc \in {"search", "assign"} \/ ret = "STOP_FOR_REBOUND") => RoughlyCut

\* The segments that are reported do not run past the constraint points and share
\* none of them, and each point of them has something that pushes it, whichever
\* points had an intersection and however overlapping segments were parted.
\* Nor is a base point ever copied from a point that has none: a point that is
\* skipped because it has its flag has a base point too.
SegmentsArePushed ==
  /\ \A j \in Ids : flag_temp[j] => guides[j] > 0
  /\ \A n \in 1 .. Len(segments) :
       /\ segments[n] \in Ids \X Ids
       /\ \A j \in segments[n][1] .. segments[n][2] : guides[j] > 0
       /\ n > 1 => segments[n - 1][2] < segments[n][1]

=============================================================================
