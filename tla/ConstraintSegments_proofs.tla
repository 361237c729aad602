------------------------ MODULE ConstraintSegments_proofs ------------------------
(***************************************************************************)
(* Proofs about ConstraintSegments for trajectories of any length and any  *)
(* number of segments.  IInv is the inductive invariant: what the flags of *)
(* the scan say about the obstacle the trajectory is in, the order of the  *)
(* segments, which merging and erasing keep, and how far the segments that *)
(* have their base points reach.                                           *)
(*                                                                         *)
(* The theorems hold under ColsAssumption.  As their hypothesis it has a   *)
(* name of its own, so that a lemma can be used in the next state.         *)
(***************************************************************************)
EXTENDS ConstraintSegments, SequenceTheorems, NaturalsInduction, WellFoundedInduction, TLAPS

ColsOK == Cols \in Nat /\ Cols >= 3 /\ MaxSegments \in Nat

N == 1 .. Len(segment_ids)

\* Piece x is in the cut (FinelyCut, piece by piece).
InCut(x) ==
  \/ \E n \in N : x \in segment_ids[n][1] .. segment_ids[n][2] - 1
  \/ segment_ids # <<>> /\ x = i_end - 1

\* Between two calls nothing is left but the constraint points.
Idle ==
  pc = "idle" =>
    /\ ~rough /\ i = 0 /\ ~sampled /\ scan = NewScan /\ segment_ids = <<>> /\ k = 1
    /\ segments = <<>> /\ obstacle = {} /\ left = {}

\* A segment that is searched for or assigned exists, and ends at a constraint point.
Started ==
  /\ pc # "done" => ret = "none"
  /\ pc = "scan" => ~rough /\ i < i_end /\ k = 1
  /\ pc \in {"scan", "search"} => segments = <<>>
  /\ pc \in {"search", "assign"} =>
       /\ k \in N
       /\ \A n \in N : segment_ids[n][2] < Cols

\* No segment is empty, they begin and end in order, and those of the rough
\* check end two points apart.
Sorted ==
  /\ \A n \in N : segment_ids[n][1] < segment_ids[n][2]
  /\ \A m, n \in N : m <= n =>
       /\ segment_ids[m][1] <= segment_ids[n][1]
       /\ segment_ids[m][2] <= segment_ids[n][2]
       /\ rough /\ m < n => segment_ids[m][2] + 2 <= segment_ids[n][2]

\* What the flags say: the obstacle the samples are in, or of late were in, is in
\* the cut or in the segment that is open; a segment is open as long as
\* last_occ or maybe says so; and got_end without got_start, or samples that are
\* free again after an obstacle that opened none, occur in the last piece only, once there
\* is a segment.
Scanned ==
  /\ \A x \in left : InCut(x)
  /\ \A x \in obstacle : x <= i /\ (InCut(x) \/ (scan.got_start /\ scan.in_id <= x))
  /\ \A n \in N : segment_ids[n][1] <= i /\ segment_ids[n][2] <= i + 1
  /\ scan.got_start =>
       /\ scan.in_id \in 0 .. i
       /\ \A n \in N : segment_ids[n][1] <= scan.in_id
       /\ ~scan.got_end
       /\ scan.last_occ \/ scan.maybe
  /\ scan.maybe =>
       /\ scan.got_start /\ ~scan.last_occ
       /\ scan.in_id < scan.out_id /\ scan.out_id <= i + 1
       /\ \A x \in obstacle : InCut(x) \/ x < scan.out_id
       /\ \A n \in N : segment_ids[n][2] <= scan.out_id
       /\ sampled => i < i_end - 1
       /\ ~Enough(scan.same)
  /\ scan.got_end => i = i_end - 1 /\ segment_ids # <<>> /\ scan.out_id = i_end
  /\ ~scan.got_start /\ (~Enough(scan.same) \/ scan.last_occ) =>
       i = i_end - 1 /\ segment_ids # <<>>
ScanInv == pc = "scan" => Scanned

\* The segments with base points end before the next one begins.
Assigned ==
  pc = "assign" /\ segments # <<>> => segments[Len(segments)][2] < Adjusted(k)[1]

IInv ==
  /\ TypeOK /\ Idle /\ Started /\ Sorted /\ ScanInv /\ Assigned
  /\ ObstaclesAreCut /\ SegmentsArePushed

-----------------------------------------------------------------------------
\* A nonempty set of naturals has a least element.
LEMMA NatMin == ASSUME NEW T \in SUBSET Nat, T # {} PROVE \E x \in T : \A y \in T : x <= y
<1>1. IsWellFoundedOn(OpToRel(<, Nat), Nat)
  BY NatLessThanWellFounded DEF OpToRel
<1>2. PICK x \in T : \A y \in T : ~ (<<y, x>> \in OpToRel(<, Nat))
  BY <1>1, WFMin
<1>3. \A y \in T : ~ (y < x)
  BY <1>2 DEF OpToRel
<1> QED
  BY <1>3

USE DEF ENOUGH_INTERVAL, Ids, ColsOK

\* The types, the flags apart from what is counted.
TypeFlags ==
  /\ pc \in {"idle", "scan", "search", "assign", "done"} /\ rough \in BOOLEAN
  /\ sampled \in BOOLEAN
  /\ ret \in {"none", "OBS_FREE", "ERR", "FINISH", "DONT_STOP", "STOP_FOR_ERROR",
              "STOP_FOR_REBOUND"}
TypeCounts ==
  /\ i_end \in Ids /\ i \in 0 .. i_end /\ k \in Nat
  /\ obstacle \subseteq 0 .. Cols /\ left \subseteq Ids
TypeSegments ==
  /\ segment_ids \in Seq(Segments) /\ segments \in Seq(Ids \X Ids)
  /\ guides \in [Ids -> 0 .. 2] /\ flag_temp \in [Ids -> BOOLEAN]
TypeScan ==
  scan \in [in_id : Ids \cup {-1}, out_id : Ids \cup {-1}, same : 0 .. 3,
            last_occ : BOOLEAN, got_start : BOOLEAN, got_end : BOOLEAN, maybe : BOOLEAN]

LEMMA TypeParts == TypeOK <=> TypeFlags /\ TypeCounts /\ TypeSegments /\ TypeScan
<1>1. ENOUGH_INTERVAL + 1 = 3
  OBVIOUS
<1> QED
  BY <1>1 DEF TypeOK, TypeFlags, TypeCounts, TypeSegments, TypeScan

\* At least one piece is checked, and not the last point.
LEMMA TwoThirds == ASSUME NEW touch_goal \in BOOLEAN, ColsOK
  PROVE TwoThirdsId(touch_goal) \in 1 .. Cols - 1
BY DEF TwoThirdsId, ColsOK

\* LastFree is the last free point before j, so any free one there is at or before it.
LEMMA LastFreeFacts ==
  ASSUME ColsOK, NEW occ \in SUBSET Ids, NEW j \in 1 .. Cols - 1
  PROVE  /\ LastFree(occ, j) \in 0 .. j - 1
         /\ \A n \in 0 .. j - 1 : n \notin occ => n <= LastFree(occ, j)
<1> DEFINE Free == {n \in 0 .. j - 1 : n \notin occ}
<1>1. CASE Free = {}
  BY <1>1 DEF LastFree, ColsOK
<1>2. CASE Free # {}
  <2> DEFINE T == {j - n : n \in Free}
  <2>1. T \in SUBSET Nat /\ T # {}
    BY <1>2 DEF ColsOK
  <2>2. PICK x \in T : \A y \in T : x <= y
    BY <2>1, NatMin
  <2>3. PICK n \in Free : x = j - n
    BY <2>2
  <2>4. n + 1 .. j - 1 \subseteq occ
    <3> SUFFICES ASSUME NEW m \in n + 1 .. j - 1, m \notin occ PROVE FALSE
      OBVIOUS
    <3>1. m \in Free /\ j - m \in T
      BY DEF ColsOK
    <3>2. x <= j - m
      BY <2>2, <3>1
    <3> QED
      BY <2>3, <3>2 DEF ColsOK
  <2>5. \E m \in 0 .. j - 1 : m \notin occ /\ m + 1 .. j - 1 \subseteq occ
    BY <2>4
  <2> DEFINE last == CHOOSE m \in 0 .. j - 1 : m \notin occ /\ m + 1 .. j - 1 \subseteq occ
  <2>6. last \in 0 .. j - 1 /\ last + 1 .. j - 1 \subseteq occ
    BY <2>5
  <2>7. LastFree(occ, j) = last
    BY <1>2 DEF LastFree
  <2> HIDE DEF last
  <2>8. ASSUME NEW m \in 0 .. j - 1, m \notin occ PROVE m <= last
    BY <2>6, <2>8
  <2> QED
    BY <2>6, <2>7, <2>8
<1> QED
  BY <1>1, <1>2

\* NextFree is free and comes after j; at Cols at the latest.
LEMMA NextFreeFacts ==
  ASSUME ColsOK, NEW occ \in SUBSET Ids, NEW j \in 1 .. Cols - 1
  PROVE  /\ NextFree(occ, j) \in j + 1 .. Cols
         /\ NextFree(occ, j) \notin occ
<1> DEFINE Free == {n \in j + 1 .. Cols : n \notin occ}
<1>1. Free \in SUBSET Nat /\ Cols \in Free
  BY DEF ColsOK
<1>2. PICK n \in Free : \A m \in Free : n <= m
  BY <1>1, NatMin
<1>3. j + 1 .. n - 1 \subseteq occ
  BY <1>2 DEF ColsOK
<1>4. \E m \in j + 1 .. Cols : m \notin occ /\ j + 1 .. m - 1 \subseteq occ
  BY <1>3
<1>5. NextFree(occ, j) \in j + 1 .. Cols /\ NextFree(occ, j) \notin occ
  BY <1>4 DEF NextFree
<1> QED
  BY <1>5

\* got_intersection_id is one of the points that had an intersection, or none.
LEMMA GotIntersectionFacts ==
  ASSUME ColsOK, NEW seg \in Ids \X Ids, NEW outcome \in [Inner(seg) -> Outcomes], NEW j \in Int
  PROVE  LET got == GotIntersection(outcome, j)
         IN got = -1 \/ (got \in Inner(seg) /\ outcome[got] = "hit")
<1> DEFINE latest == {h \in DOMAIN outcome :
                   /\ h <= j /\ outcome[h] = "hit"
                   /\ \A l \in h + 1 .. j : outcome[l] \notin {"hit", "near"}}
<1>1. CASE latest = {}
  BY <1>1 DEF GotIntersection
<1>2. CASE latest # {}
  <2>1. (CHOOSE h \in latest : TRUE) \in latest
    BY <1>2
  <2> QED
    BY <1>2, <2>1 DEF GotIntersection
<1> QED
  BY <1>1, <1>2

-----------------------------------------------------------------------------
\* One lemma for every step; each shows the conjuncts of IInv in turn.
LEMMA InitInv == ColsOK /\ Init => IInv
<1> SUFFICES ASSUME ColsOK, Init PROVE IInv
  OBVIOUS
<1>1. TypeOK
  BY DEF Init, TypeOK, NewScan, ColsOK
<1>2. Idle /\ Started /\ Sorted /\ ScanInv /\ Assigned
  BY DEF Init, Idle, Started, Sorted, ScanInv, Assigned, N
<1>3. ObstaclesAreCut /\ SegmentsArePushed
  BY DEF Init, ObstaclesAreCut, SegmentsArePushed
<1> QED
  BY <1>1, <1>2, <1>3 DEF IInv

LEMMA CallStep ==
  ASSUME ColsOK, IInv, NEW flag_first_init \in BOOLEAN, NEW touch_goal \in BOOLEAN,
         Call(flag_first_init, touch_goal)
  PROVE  IInv'
<1>1. TwoThirdsId(touch_goal) \in 1 .. Cols - 1
  BY TwoThirds
<1>2. TypeOK'
  BY <1>1 DEF IInv, TypeOK, Idle, Call, Kept, NewScan, ColsOK
<1>3. (Idle /\ Started /\ Sorted)'
  BY <1>1 DEF IInv, Idle, Started, Sorted, Call, N
<1>4. ScanInv'
  BY <1>1 DEF IInv, Idle, Call, ScanInv, Scanned, NewScan, Enough, N
<1>5. (Assigned /\ ObstaclesAreCut)'
  BY DEF IInv, Idle, Call, Assigned, Started, ObstaclesAreCut
<1>6. SegmentsArePushed'
  BY DEF IInv, Idle, Call, Kept, SegmentsArePushed
<1> QED
  BY <1>2, <1>3, <1>4, <1>5, <1>6 DEF IInv

LEMMA FoundStep ==
  ASSUME ColsOK, IInv, Found
  PROVE  IInv'
<1>1. TypeOK'
  BY DEF IInv, TypeOK, Found, scanned
<1>2. (Idle /\ Started)'
  BY DEF IInv, TypeOK, Started, Idle, Found, scanned, N
<1>3. (Sorted /\ ScanInv /\ Assigned)'
  BY DEF IInv, Started, Sorted, ScanInv, Assigned, Found, scanned, N
<1>4. ObstaclesAreCut'
  <2>1. UNCHANGED <<rough, ret, Out, Ends, i_end, obstacle, left>>
    BY DEF Found, scanned, Out, Ends
  <2>2. (FinelyCut' <=> FinelyCut) /\ (RoughlyCut' <=> RoughlyCut)
    BY <2>1 DEF FinelyCut, RoughlyCut
  <2>3. pc = "search"
    BY DEF Found
  <2> QED
    BY <2>1, <2>2, <2>3 DEF IInv, Started, ObstaclesAreCut
<1>5. SegmentsArePushed'
  BY DEF IInv, SegmentsArePushed, Found
<1> QED
  BY <1>1, <1>2, <1>3, <1>4, <1>5 DEF IInv

LEMMA FailsStep ==
  ASSUME ColsOK, IInv, Fails
  PROVE  IInv'
<1>1. TypeOK'
  BY DEF IInv, TypeOK, Fails, Return, scanned
<1>2. (Idle /\ Started /\ Sorted /\ ScanInv /\ Assigned)'
  BY DEF IInv, Started, Idle, Sorted, ScanInv, Assigned, Fails, Return, scanned, N
<1>3. ObstaclesAreCut'
  BY DEF ObstaclesAreCut, Fails, Return
<1>4. SegmentsArePushed'
  BY DEF IInv, SegmentsArePushed, Fails
<1> QED
  BY <1>1, <1>2, <1>3, <1>4 DEF IInv

LEMMA DoneStep ==
  ASSUME ColsOK, IInv, Done
  PROVE  IInv'
<1>1. TypeOK'
  <2>1. TypeFlags'
    BY DEF TypeFlags, Done
  <2>2. (TypeCounts /\ TypeSegments)'
    BY DEF TypeCounts, TypeSegments, Done
  <2>3. TypeScan'
    BY DEF TypeScan, Done, NewScan
  <2> QED
    BY <2>1, <2>2, <2>3, TypeParts, PTL
<1>3. (Idle /\ Started /\ Sorted /\ ScanInv /\ Assigned)'
  BY DEF Started, Idle, Sorted, ScanInv, Assigned, Done, N
<1>4. (ObstaclesAreCut /\ SegmentsArePushed)'
  BY DEF ObstaclesAreCut, SegmentsArePushed, Done
<1> QED
  BY <1>1, <1>3, <1>4 DEF IInv

\* InCut is membership in the cut.
LEMMA CutPoints == TypeOK => (FinelyCut <=> \A x \in Out : InCut(x))
<1> SUFFICES ASSUME TypeOK PROVE FinelyCut <=> \A x \in Out : InCut(x)
  OBVIOUS
<1> DEFINE A == UNION {s[1] .. s[2] - 1 : s \in Ends}
           B == IF Ends = {} THEN {} ELSE {i_end - 1}
<1>1. Ends = {} <=> segment_ids = <<>>
  <2>1. segment_ids \in Seq(Segments)
    BY DEF TypeOK
  <2>2. segment_ids # <<>> => 1 \in 1 .. Len(segment_ids)
    BY <2>1
  <2>3. segment_ids = <<>> => 1 .. Len(segment_ids) = {}
    OBVIOUS
  <2> QED
    BY <2>2, <2>3 DEF Ends
<1>2. \A x : x \in A <=> \E n \in N : x \in segment_ids[n][1] .. segment_ids[n][2] - 1
  BY DEF Ends, N
<1>3. \A x : x \in B <=> segment_ids # <<>> /\ x = i_end - 1
  BY <1>1
<1>4. FinelyCut <=> Out \subseteq A \cup B
  BY DEF FinelyCut
<1> HIDE DEF A, B
<1> QED
  BY <1>2, <1>3, <1>4 DEF InCut

LEMMA NextPieceStep ==
  ASSUME ColsOK, IInv, NextPiece
  PROVE  IInv'
<1> USE DEF N
<1>1. TypeOK'
  <2>1. TypeFlags'
    BY TypeParts DEF IInv, TypeFlags, NextPiece, Return
  <2>2. (TypeCounts /\ TypeSegments)'
    BY TypeParts DEF IInv, TypeCounts, TypeSegments, Started, NextPiece
  <2>3. TypeScan'
    BY TypeParts DEF IInv, TypeScan, NextPiece
  <2> QED
    BY <2>1, <2>2, <2>3, TypeParts, PTL
<1>2. (Idle /\ Sorted /\ Assigned)'
  BY DEF IInv, Started, Idle, Sorted, Assigned, NextPiece, Return
<1>3. Started'
  <2>1. \A n \in N : segment_ids[n][2] < Cols
    <3>1. /\ i < i_end /\ i \in Nat /\ i_end \in Ids
          /\ \A n \in N : segment_ids[n][2] <= i + 1
      BY TypeParts DEF IInv, TypeCounts, Started, ScanInv, Scanned, NextPiece
    <3>2. \A n \in N : segment_ids[n][2] \in Nat
      BY TypeParts DEF IInv, TypeSegments, Segments
    <3> QED
      BY <3>1, <3>2
  <2>2. segment_ids # <<>> => k \in N
    BY TypeParts DEF IInv, TypeSegments, Started, NextPiece
  <2> QED
    BY <2>1, <2>2 DEF IInv, Started, NextPiece, Return
<1>4. ScanInv'
  <2> SUFFICES ASSUME pc' = "scan" PROVE Scanned'
    BY DEF ScanInv
  <2>1. /\ Scanned /\ i' = i + 1 /\ i' < i_end /\ ~sampled' /\ sampled
        /\ UNCHANGED <<i_end, scan, segment_ids, obstacle, left>>
    BY DEF IInv, ScanInv, NextPiece, Return
  <2>2. \A x : InCut(x)' <=> InCut(x)
    BY <2>1 DEF InCut
  <2>3. i \in Nat /\ i_end \in Nat /\ i # i_end - 1
    BY <2>1, TypeParts DEF IInv, TypeCounts
  <2> QED
    BY <2>1, <2>2, <2>3, TypeParts DEF IInv, TypeScan, TypeSegments, TypeCounts, Scanned, Enough, Segments
<1>5. ObstaclesAreCut'
  <2>1. ASSUME i + 1 = i_end PROVE FinelyCut
    BY <2>1, CutPoints, TypeParts DEF IInv, TypeCounts, ScanInv, Scanned, Out, NextPiece
  <2>2. FinelyCut' <=> FinelyCut
    <3>1. UNCHANGED <<Out, Ends, i_end>>
      BY DEF NextPiece, Out, Ends
    <3> QED
      BY <3>1 DEF FinelyCut
  <2>3. pc' # "scan" => i + 1 = i_end
    BY TypeParts DEF IInv, TypeCounts, Started, NextPiece
  <2> QED
    BY <2>1, <2>2, <2>3 DEF IInv, Started, ObstaclesAreCut, NextPiece, Return
<1>6. SegmentsArePushed'
  BY DEF IInv, SegmentsArePushed, NextPiece
<1> QED
  BY <1>1, <1>2, <1>3, <1>4, <1>5, <1>6 DEF IInv

-----------------------------------------------------------------------------
(* The searches: merging and erasing keeps the segments in order.          *)

LEMMA SeqOfFcn ==
  ASSUME NEW S, NEW n \in Nat, NEW f \in [1 .. n -> S]
  PROVE  f \in Seq(S) /\ Len(f) = n
BY SeqDef, LenProperties

\* The ends of a segment are numbers.
LEMMA SegmentTypes ==
  ASSUME TypeOK, NEW n \in N
  PROVE  /\ segment_ids[n] \in Segments
         /\ segment_ids[n][1] \in Ids /\ segment_ids[n][2] \in 0 .. Cols
         /\ n \in Nat /\ Len(segment_ids) \in Nat
<1>1. segment_ids \in Seq(Segments)
  BY TypeParts DEF TypeSegments
<1>2. segment_ids[n] \in Segments
  BY <1>1 DEF N
<1> QED
  BY <1>1, <1>2 DEF Segments, N

\* Merging drops the end of segment k and the beginning of the next.
LEMMA MergedFacts ==
  ASSUME ColsOK, TypeOK, k \in N, k < Len(segment_ids)
  PROVE  /\ Merged \in Seq(Segments) /\ Len(Merged) = Len(segment_ids) - 1
         /\ \A n \in 1 .. Len(segment_ids) - 1 :
              /\ Merged[n][1] = segment_ids[IF n <= k THEN n ELSE n + 1][1]
              /\ Merged[n][2] = segment_ids[IF n < k THEN n ELSE n + 1][2]
<1> DEFINE L == Len(segment_ids)
<1>1. L \in Nat /\ k \in 1 .. L - 1
  BY SegmentTypes DEF N
<1>2. \A n \in 1 .. L : segment_ids[n] \in Segments
  BY SegmentTypes DEF N
<1>3. ASSUME NEW n \in 1 .. L - 1
      PROVE  /\ Merged[n] \in Segments
             /\ Merged[n][1] = segment_ids[IF n <= k THEN n ELSE n + 1][1]
             /\ Merged[n][2] = segment_ids[IF n < k THEN n ELSE n + 1][2]
  <2>1. n \in 1 .. L /\ n + 1 \in 1 .. L
    BY <1>1
  <2>2. CASE n = k
    <3>1. Merged[n] = <<segment_ids[k][1], segment_ids[k + 1][2]>>
      BY <2>2 DEF Merged
    <3> QED
      BY <1>1, <1>2, <2>1, <2>2, <3>1 DEF Segments
  <2>3. CASE n < k
    BY <1>1, <1>2, <2>1, <2>3 DEF Merged
  <2>4. CASE n > k
    BY <1>1, <1>2, <2>1, <2>4 DEF Merged
  <2> QED
    BY <1>1, <2>2, <2>3, <2>4
<1>4. Merged \in [1 .. L - 1 -> Segments]
  BY <1>3 DEF Merged
<1>5. L - 1 \in Nat
  BY <1>1
<1>6. Merged \in Seq(Segments) /\ Len(Merged) = L - 1
  BY <1>4, <1>5, SeqOfFcn
<1> QED
  BY <1>3, <1>6

\* Erasing drops segment k.
LEMMA ErasedFacts ==
  ASSUME ColsOK, TypeOK, k \in N
  PROVE  /\ Erased \in Seq(Segments) /\ Len(Erased) = Len(segment_ids) - 1
         /\ \A n \in 1 .. Len(segment_ids) - 1 :
              Erased[n] = segment_ids[IF n < k THEN n ELSE n + 1]
<1> DEFINE L == Len(segment_ids)
<1>1. L \in Nat /\ L - 1 \in Nat /\ k \in 1 .. L
  BY SegmentTypes DEF N
<1>2. \A n \in 1 .. L : segment_ids[n] \in Segments
  BY SegmentTypes DEF N
<1>3. \A n \in 1 .. L - 1 : Erased[n] = segment_ids[IF n < k THEN n ELSE n + 1]
  BY DEF Erased
<1>4. Erased \in [1 .. L - 1 -> Segments]
  BY <1>1, <1>2 DEF Erased
<1>5. Erased \in Seq(Segments) /\ Len(Erased) = L - 1
  BY <1>1, <1>4, SeqOfFcn
<1> QED
  BY <1>3, <1>5

\* Both keep the order.
LEMMA MergedSorted ==
  ASSUME ColsOK, TypeOK, Sorted, k \in N, k < Len(segment_ids), segment_ids' = Merged,
         UNCHANGED rough
  PROVE  Sorted'
<1> DEFINE L == Len(segment_ids)
           a(n) == IF n <= k THEN n ELSE n + 1
           b(n) == IF n < k THEN n ELSE n + 1
<1>1. L \in Nat /\ k \in 1 .. L - 1
  BY SegmentTypes DEF N
<1>2. N' = 1 .. L - 1
  BY MergedFacts DEF N
<1>3. \A n \in N' : /\ segment_ids'[n][1] = segment_ids[a(n)][1]
                    /\ segment_ids'[n][2] = segment_ids[b(n)][2]
  BY <1>2, MergedFacts
<1>4. \A n \in N' : a(n) \in N /\ b(n) \in N /\ a(n) <= b(n)
  BY <1>1, <1>2 DEF N
<1>5. \A m, n \in N' : /\ m <= n => a(m) <= a(n) /\ b(m) <= b(n)
                       /\ m < n => b(m) < b(n)
  BY <1>1, <1>2
<1>6. \A n \in N : segment_ids[n][1] \in Int /\ segment_ids[n][2] \in Int
  BY SegmentTypes
<1> HIDE DEF a, b, L
<1>7. ASSUME NEW n \in N' PROVE segment_ids'[n][1] < segment_ids'[n][2]
  <2>1. segment_ids[a(n)][1] < segment_ids[a(n)][2]
    BY <1>4 DEF Sorted
  <2>2. segment_ids[a(n)][2] <= segment_ids[b(n)][2]
    BY <1>4 DEF Sorted
  <2> QED
    BY <1>3, <1>4, <1>6, <2>1, <2>2
<1>8. ASSUME NEW m \in N', NEW n \in N', m <= n
      PROVE  /\ segment_ids'[m][1] <= segment_ids'[n][1]
             /\ segment_ids'[m][2] <= segment_ids'[n][2]
             /\ rough' /\ m < n => segment_ids'[m][2] + 2 <= segment_ids'[n][2]
  BY <1>3, <1>4, <1>5, <1>8 DEF Sorted
<1> QED
  BY <1>7, <1>8 DEF Sorted

LEMMA ErasedSorted ==
  ASSUME ColsOK, TypeOK, Sorted, k \in N, segment_ids' = Erased, UNCHANGED rough
  PROVE  Sorted'
<1> DEFINE L == Len(segment_ids)
           b(n) == IF n < k THEN n ELSE n + 1
<1>1. L \in Nat /\ k \in 1 .. L
  BY SegmentTypes DEF N
<1>2. N' = 1 .. L - 1
  BY ErasedFacts DEF N
<1>3. \A n \in N' : segment_ids'[n] = segment_ids[b(n)] /\ b(n) \in N
  BY <1>1, <1>2, ErasedFacts DEF N
<1>4. \A m, n \in N' : (m <= n => b(m) <= b(n)) /\ (m < n => b(m) < b(n))
  BY <1>1, <1>2
<1> HIDE DEF b, L
<1> QED
  BY <1>3, <1>4 DEF Sorted

\* Merging uncovers nothing.
LEMMA MergedCovers ==
  ASSUME ColsOK, TypeOK, Sorted, k \in N, k < Len(segment_ids), segment_ids' = Merged,
         UNCHANGED i_end, NEW x \in Int, InCut(x)
  PROVE  InCut(x)'
<1> DEFINE L == Len(segment_ids)
<1>1. L \in Nat /\ k \in 1 .. L - 1
  BY SegmentTypes DEF N
<1>2. N' = 1 .. L - 1 /\ segment_ids' # <<>>
  BY <1>1, MergedFacts DEF N
<1>3. CASE x = i_end - 1
  BY <1>2, <1>3 DEF InCut
<1>4. CASE \E n \in N : x \in segment_ids[n][1] .. segment_ids[n][2] - 1
  <2>1. PICK n \in N : x \in segment_ids[n][1] .. segment_ids[n][2] - 1
    BY <1>4
  <2> DEFINE m == IF n <= k THEN n ELSE n - 1
  <2>2. m \in N' /\ m \in 1 .. L - 1
    BY <1>1, <1>2 DEF N
  <2>3. \A l \in N : segment_ids[l][1] \in Int /\ segment_ids[l][2] \in Int
    BY SegmentTypes
  <2>4. segment_ids'[m][1] <= segment_ids[n][1]
    <3>1. segment_ids'[m][1] = segment_ids[IF m <= k THEN m ELSE m + 1][1]
      BY <2>2, MergedFacts
    <3>2. CASE n # k + 1
      BY <1>1, <2>3, <3>1, <3>2 DEF N
    <3>3. CASE n = k + 1
      <4>1. segment_ids'[m][1] = segment_ids[k][1]
        BY <1>1, <3>1, <3>3
      <4> QED
        BY <1>1, <3>3, <4>1 DEF Sorted, N
    <3> QED
      BY <3>2, <3>3
  <2>5. segment_ids[n][2] <= segment_ids'[m][2]
    <3>1. segment_ids'[m][2] = segment_ids[IF m < k THEN m ELSE m + 1][2]
      BY <2>2, MergedFacts
    <3>2. CASE n # k
      BY <1>1, <2>3, <3>1, <3>2 DEF N
    <3>3. CASE n = k
      <4>1. segment_ids'[m][2] = segment_ids[k + 1][2]
        BY <1>1, <3>1, <3>3
      <4> QED
        BY <1>1, <3>3, <4>1 DEF Sorted, N
    <3> QED
      BY <3>2, <3>3
  <2>6. segment_ids'[m][1] \in Int /\ segment_ids'[m][2] \in Int
    <3>1. segment_ids' \in Seq(Segments)
      BY MergedFacts
    <3> QED
      BY <2>2, <3>1 DEF Segments, N
  <2>7. x \in segment_ids'[m][1] .. segment_ids'[m][2] - 1
    BY <2>1, <2>3, <2>4, <2>5, <2>6
  <2> QED
    BY <2>2, <2>7 DEF InCut
<1> QED
  BY <1>3, <1>4 DEF InCut

\* RoughlyCut point by point.
PastPoints(x) == \E n \in N : x \in Past(segment_ids[n])

LEMMA RoughPoints ==
  RoughlyCut <=> \A x \in left : x \in obstacle \/ PastPoints(x)
<1> DEFINE A == UNION {Past(s) : s \in Ends}
<1>1. \A x : x \in A <=> PastPoints(x)
  BY DEF Ends, N, PastPoints
<1>2. RoughlyCut <=> left \subseteq obstacle \cup A
  BY DEF RoughlyCut
<1> HIDE DEF A
<1> QED
  BY <1>1, <1>2

\* Nor does merging bring back a point the rough check has passed.
LEMMA MergedPasses ==
  ASSUME ColsOK, TypeOK, Sorted, rough, k \in N, k < Len(segment_ids), segment_ids' = Merged,
         NEW x \in Int, PastPoints(x)
  PROVE  PastPoints(x)'
<1> DEFINE L == Len(segment_ids)
<1>1. L \in Nat /\ k \in 1 .. L - 1
  BY SegmentTypes DEF N
<1>2. N' = 1 .. L - 1
  BY <1>1, MergedFacts DEF N
<1>3. \A l \in N : segment_ids[l][1] \in Int /\ segment_ids[l][2] \in Int
  BY SegmentTypes
<1>4. PICK n \in N : x \in Past(segment_ids[n])
  BY DEF PastPoints
<1>5. x \in segment_ids[n][1] + 1 .. segment_ids[n][2] - 1 \/ x = segment_ids[n][2] + 1
  BY <1>4 DEF Past
<1>6. CASE n \in {k, k + 1}
  <2>1. segment_ids'[k][1] = segment_ids[k][1] /\ segment_ids'[k][2] = segment_ids[k + 1][2]
    BY <1>1, MergedFacts
  <2>2. /\ segment_ids[k][1] <= segment_ids[k + 1][1]
        /\ segment_ids[k][2] + 2 <= segment_ids[k + 1][2]
        /\ segment_ids[k][1] < segment_ids[k][2]
    BY <1>1 DEF Sorted, N
  <2>3. k \in N /\ k + 1 \in N /\ k \in N'
    BY <1>1, <1>2 DEF N
  <2>4. \/ x \in segment_ids'[k][1] + 1 .. segment_ids'[k][2] - 1
        \/ x = segment_ids'[k][2] + 1
    <3>1. CASE n = k
      BY <1>3, <1>5, <2>1, <2>2, <2>3, <3>1
    <3>2. CASE n = k + 1
      BY <1>3, <1>5, <2>1, <2>2, <2>3, <3>2
    <3> QED
      BY <1>6, <3>1, <3>2
  <2> QED
    BY <2>3, <2>4 DEF PastPoints, Past
<1>7. CASE n \notin {k, k + 1}
  <2> DEFINE m == IF n < k THEN n ELSE n - 1
  <2>1. m \in 1 .. L - 1 /\ (IF m <= k THEN m ELSE m + 1) = n /\ (IF m < k THEN m ELSE m + 1) = n
    BY <1>1, <1>7 DEF N
  <2>2. segment_ids'[m][1] = segment_ids[n][1] /\ segment_ids'[m][2] = segment_ids[n][2]
    BY <2>1, MergedFacts
  <2>3. x \in Past(segment_ids'[m])
    BY <1>5, <2>2 DEF Past
  <2> QED
    BY <1>2, <2>1, <2>3 DEF PastPoints
<1> QED
  BY <1>6, <1>7

LEMMA SearchErrStep ==
  ASSUME ColsOK, IInv, SearchErr
  PROVE  IInv'
<1>1. TypeOK /\ Sorted /\ k \in N /\ k < Len(segment_ids) /\ pc = "search"
  BY DEF IInv, Started, SearchErr
<1>2. /\ segment_ids' = Merged /\ UNCHANGED <<pc, k, guides, flag_temp, segments, ret, obstacle>>
      /\ UNCHANGED <<rough, i_end, i, sampled, scan, left>>
  BY DEF SearchErr, scanned
<1>3. TypeOK'
  <2>1. TypeFlags'
    BY <1>1, <1>2, TypeParts DEF TypeFlags
  <2>2. TypeCounts'
    BY <1>1, <1>2, TypeParts DEF TypeCounts
  <2>3. TypeSegments'
    BY <1>1, <1>2, TypeParts, MergedFacts DEF TypeSegments
  <2>4. TypeScan'
    BY <1>1, <1>2, TypeParts DEF TypeScan
  <2> QED
    BY <2>1, <2>2, <2>3, <2>4, TypeParts, PTL
<1>4. Sorted'
  BY <1>1, <1>2, MergedSorted
<1>5. Started'
  <2>1. Len(segment_ids) \in Nat /\ k \in 1 .. Len(segment_ids)
    BY <1>1, SegmentTypes DEF N
  <2>2. N' = 1 .. Len(segment_ids) - 1
    BY <1>1, <1>2, MergedFacts DEF N
  <2>3. \A n \in N' : segment_ids'[n][2] < Cols
    <3>1. \A n \in N : segment_ids[n][2] < Cols
      BY <1>1 DEF IInv, Started
    <3>2. \A n \in N' : segment_ids'[n][2] = segment_ids[IF n < k THEN n ELSE n + 1][2]
      BY <1>1, <1>2, <2>2, MergedFacts
    <3>3. \A n \in N' : (IF n < k THEN n ELSE n + 1) \in N
      BY <1>1, <2>1, <2>2 DEF N
    <3> QED
      BY <3>1, <3>2, <3>3
  <2> QED
    BY <1>1, <1>2, <2>1, <2>2, <2>3 DEF IInv, Started
<1>6. (Idle /\ ScanInv /\ Assigned)'
  BY <1>1, <1>2 DEF Idle, ScanInv, Assigned
<1>7. ObstaclesAreCut'
  <2>1. UNCHANGED Out
    BY <1>2 DEF Out
  <2>2. Out \subseteq Int /\ left \subseteq Int
    BY <1>1, TypeParts DEF TypeCounts, Out
  <2>3. CASE ~rough
    <3>1. \A x \in Out : InCut(x)
      BY <1>1, <2>3, CutPoints DEF IInv, ObstaclesAreCut
    <3>2. (\A x \in Out : InCut(x))'
      BY <1>1, <1>2, <2>1, <2>2, <3>1, MergedCovers
    <3>3. FinelyCut'
      BY <1>3, <3>2, CutPoints, PTL
    <3> QED
      BY <1>2, <2>3, <3>3 DEF ObstaclesAreCut
  <2>4. CASE rough
    <3>1. \A x \in left : x \in obstacle \/ PastPoints(x)
      BY <1>1, <2>4, RoughPoints DEF IInv, ObstaclesAreCut
    <3>2. (\A x \in left : x \in obstacle \/ PastPoints(x))'
      BY <1>1, <1>2, <2>2, <2>4, <3>1, MergedPasses
    <3>3. RoughlyCut'
      BY <3>2, RoughPoints, PTL
    <3> QED
      BY <1>2, <2>4, <3>3 DEF ObstaclesAreCut
  <2> QED
    BY <2>3, <2>4
<1>8. SegmentsArePushed'
  BY <1>2 DEF IInv, SegmentsArePushed
<1> QED
  BY <1>3, <1>4, <1>5, <1>6, <1>7, <1>8 DEF IInv

LEMMA ErasesStep ==
  ASSUME ColsOK, IInv, Erases
  PROVE  IInv'
<1> DEFINE L == Len(segment_ids)
<1>1. TypeOK /\ Sorted /\ k \in N /\ pc = "search" /\ rough /\ segments = <<>>
  BY DEF IInv, Started, Erases
<1>2. /\ segment_ids' = Erased /\ obstacle' = obstacle \cup Past(segment_ids[k])
      /\ UNCHANGED <<guides, flag_temp, segments>>
      /\ UNCHANGED <<rough, i_end, i, sampled, scan, left>>
  BY DEF Erases, scanned
<1>3. L \in Nat /\ k \in 1 .. L /\ Len(segment_ids') = L - 1 /\ segment_ids' \in Seq(Segments)
  BY <1>1, <1>2, SegmentTypes, ErasedFacts DEF N
<1>4. \/ k <= L - 1 /\ UNCHANGED <<pc, k, ret>>
      \/ k = L /\ k' = 1 /\ segment_ids' = <<>> /\ pc' = "done" /\ ret' = "STOP_FOR_REBOUND"
      \/ k = L /\ k' = 1 /\ segment_ids' # <<>> /\ pc' = "assign" /\ UNCHANGED ret
  BY <1>3 DEF Erases, Return
<1>5. \A n \in N : segment_ids[n][1] \in Ids /\ segment_ids[n][2] \in 0 .. Cols - 1
  BY <1>1, SegmentTypes DEF IInv, Started
<1>6. TypeOK'
  <2>1. TypeFlags'
    BY <1>1, <1>2, <1>4, TypeParts DEF TypeFlags
  <2>2. TypeCounts'
    <3>1. Past(segment_ids[k]) \subseteq 0 .. Cols
      BY <1>1, <1>5 DEF Past
    <3> QED
      BY <1>1, <1>2, <1>4, <3>1, TypeParts DEF TypeCounts
  <2>3. TypeSegments'
    BY <1>1, <1>2, <1>3, TypeParts DEF TypeSegments
  <2>4. TypeScan'
    BY <1>1, <1>2, TypeParts DEF TypeScan
  <2> QED
    BY <2>1, <2>2, <2>3, <2>4, TypeParts, PTL
<1>7. Sorted'
  BY <1>1, <1>2, ErasedSorted
<1>8. \A n \in N' : segment_ids'[n] = segment_ids[IF n < k THEN n ELSE n + 1]
                  /\ (IF n < k THEN n ELSE n + 1) \in N
  BY <1>1, <1>2, <1>3, ErasedFacts DEF N
<1>9. Started'
  <2>1. \A n \in N' : segment_ids'[n][2] < Cols
    BY <1>5, <1>8
  <2>2. segment_ids' # <<>> => 1 \in N'
    BY <1>3 DEF N
  <2>3. k <= L - 1 => k \in N'
    BY <1>3 DEF N
  <2> QED
    BY <1>1, <1>2, <1>4, <2>1, <2>2, <2>3 DEF IInv, Started
<1>10. (Idle /\ ScanInv /\ Assigned)'
  BY <1>1, <1>2, <1>4 DEF Idle, ScanInv, Assigned
<1>11. ObstaclesAreCut'
  <2>1. \A x \in left : x \in obstacle \/ PastPoints(x)
    BY <1>1, RoughPoints DEF IInv, ObstaclesAreCut
  <2>2. ASSUME NEW x \in left' PROVE x \in obstacle' \/ PastPoints(x)'
    <3>1. CASE x \in obstacle \/ x \in Past(segment_ids[k])
      BY <1>2, <3>1
    <3>2. CASE \E n \in N : n # k /\ x \in Past(segment_ids[n])
      <4>1. PICK n \in N : n # k /\ x \in Past(segment_ids[n])
        BY <3>2
      <4> DEFINE m == IF n < k THEN n ELSE n - 1
      <4>2. m \in N' /\ (IF m < k THEN m ELSE m + 1) = n
        BY <1>3, <4>1 DEF N
      <4>3. segment_ids'[m] = segment_ids[n]
        BY <1>8, <4>2
      <4>4. x \in Past(segment_ids'[m])
        BY <4>1, <4>3 DEF Past
      <4> QED
        BY <4>2, <4>4 DEF PastPoints, Past
    <3> QED
      BY <1>2, <2>1, <3>1, <3>2 DEF PastPoints
  <2>3. (\A x \in left : x \in obstacle \/ PastPoints(x))'
    BY <2>2
  <2>4. RoughlyCut'
    BY <2>3, RoughPoints, PTL
  <2> QED
    BY <1>1, <1>2, <2>4 DEF ObstaclesAreCut
<1>12. SegmentsArePushed'
  BY <1>2 DEF IInv, SegmentsArePushed
<1> QED
  BY <1>6, <1>7, <1>9, <1>10, <1>11, <1>12 DEF IInv

-----------------------------------------------------------------------------
(* The rough check: what the loop finds.                                   *)

LEMMA FoundSegments ==
  ASSUME ColsOK, NEW occ \in SUBSET Ids, NEW unsafe \in SUBSET (occ \cap (1 .. Cols - 1)),
         NEW n \in Nat, NEW at \in [1 .. n -> unsafe], Finds(at, occ, unsafe)
  PROVE  LET segs == RoughSegments(at, occ)
         IN /\ segs \in Seq(Segments) /\ Len(segs) = n
            /\ \A m \in 1 .. n : segs[m][1] < segs[m][2]
            /\ \A l, m \in 1 .. n : l < m =>
                 segs[l][1] <= segs[m][1] /\ segs[l][2] + 2 <= segs[m][2]
            /\ \A x \in unsafe : \E m \in 1 .. n : x \in Past(segs[m])
<1> DEFINE segs == RoughSegments(at, occ)
           low(m) == LastFree(occ, at[m])
           up(m) == NextFree(occ, at[m])
<1>1. \A m \in 1 .. n : at[m] \in unsafe /\ at[m] \in 1 .. Cols - 1
  OBVIOUS
<1>2. \A m \in 1 .. n : low(m) \in 0 .. at[m] - 1
  BY <1>1, LastFreeFacts
<1>3. \A m \in 1 .. n : up(m) \in at[m] + 1 .. Cols /\ up(m) \notin occ
  BY <1>1, NextFreeFacts
<1>4. \A m \in 1 .. n : segs[m] = <<low(m), up(m)>>
  BY DEF RoughSegments
<1>5. segs \in Seq(Segments) /\ Len(segs) = n
  <2>1. segs \in [1 .. n -> Segments]
    BY <1>1, <1>2, <1>3 DEF RoughSegments, Segments
  <2> QED
    BY <2>1, SeqOfFcn
<1>6. \A l, m \in 1 .. n : l < m => up(l) + 2 <= at[m]
  BY DEF Finds
<1>7. \A x \in unsafe : \E m \in 1 .. n : x \in at[m] .. up(m) + 1
  BY DEF Finds
<1>8. \A x \in unsafe : x \in occ /\ x \in Int
  BY DEF Ids
<1> HIDE DEF low, up, segs
<1>9. \A m \in 1 .. n : segs[m][1] = low(m) /\ segs[m][2] = up(m)
  BY <1>4
<1>10. ASSUME NEW l \in 1 .. n, NEW m \in 1 .. n, l < m
       PROVE  segs[l][1] <= segs[m][1] /\ segs[l][2] + 2 <= segs[m][2]
  <2>1. up(l) + 2 <= at[m]
    BY <1>6, <1>10
  <2>2. up(l) \in 0 .. at[m] - 1 /\ up(l) \notin occ
    BY <1>1, <1>3, <2>1
  <2>3. up(l) <= low(m)
    BY <1>1, <2>2, LastFreeFacts DEF low
  <2>4. /\ low(l) \in 0 .. at[l] - 1 /\ at[l] \in Int
        /\ up(l) \in at[l] + 1 .. Cols /\ low(m) \in Int
    BY <1>1, <1>2, <1>3
  <2>5. at[m] \in Int /\ up(m) \in at[m] + 1 .. Cols
    BY <1>1, <1>3
  <2>6. low(l) <= low(m) /\ up(l) + 2 <= up(m)
    BY <2>1, <2>3, <2>4, <2>5
  <2> QED
    BY <1>9, <2>6
<1>11. ASSUME NEW x \in unsafe PROVE \E m \in 1 .. n : x \in Past(segs[m])
  <2>1. PICK m \in 1 .. n : x \in at[m] .. up(m) + 1
    BY <1>7
  <2>2. x # up(m) /\ low(m) + 1 <= x
    BY <1>1, <1>2, <1>3, <1>8, <2>1
  <2>3. x \in Int /\ low(m) \in Int /\ up(m) \in Int /\ x <= up(m) + 1
    BY <1>1, <1>2, <1>3, <1>8, <2>1
  <2>4. x \in low(m) + 1 .. up(m) - 1 \/ x = up(m) + 1
    BY <2>2, <2>3
  <2> QED
    BY <1>9, <2>4 DEF Past
<1>12. \A m \in 1 .. n : segs[m][1] < segs[m][2]
  BY <1>1, <1>2, <1>3, <1>9
<1> QED
  BY <1>5, <1>10, <1>11, <1>12 DEF segs

LEMMA RoughCheckStep ==
  ASSUME ColsOK, IInv, RoughCheck
  PROVE  IInv'
<1>1. PICK touch_goal \in BOOLEAN, occ \in SUBSET Ids :
        \E pushed \in SUBSET occ : Roughly(touch_goal, occ, pushed)
  BY DEF RoughCheck
<1>2. PICK pushed \in SUBSET occ : Roughly(touch_goal, occ, pushed)
  BY <1>1
<1>3. /\ TypeOK /\ pc = "idle" /\ ret = "none" /\ i = 0 /\ ~sampled /\ segment_ids = <<>>
      /\ k = 1 /\ segments = <<>> /\ obstacle = {} /\ scan = NewScan
  BY <1>2 DEF IInv, Idle, Started, RoughCheck
<1>4. /\ rough' = TRUE /\ i_end' = TwoThirdsId(touch_goal) /\ Kept
      /\ left' = {j \in occ \ pushed : 1 <= j /\ j <= i_end'}
      /\ UNCHANGED <<i, sampled, scan, k, segments, obstacle>>
  BY <1>2 DEF Roughly
<1>5. i_end' \in 1 .. Cols - 1
  BY <1>4, TwoThirds
<1>6. left' \in SUBSET (occ \cap (1 .. Cols - 1)) /\ left' \subseteq Ids
  <2>1. ASSUME NEW j \in left' PROVE j \in occ /\ j \in 1 .. Cols - 1 /\ j \in Ids
    <3>1. j \in occ /\ 1 <= j /\ j <= i_end'
      BY <1>4
    <3> QED
      BY <1>5, <3>1
  <2> QED
    BY <2>1
<1>7. CASE left' = {}
  <2>1. pc' = "done" /\ ret' = "DONT_STOP" /\ UNCHANGED segment_ids
    BY <1>2, <1>7 DEF Roughly, Return
  <2>2. TypeOK'
    <3>1. TypeFlags'
      BY <1>3, <1>4, <2>1, TypeParts DEF TypeFlags
    <3>2. (TypeCounts /\ TypeSegments)'
      BY <1>3, <1>4, <1>5, <1>6, <2>1, TypeParts DEF TypeCounts, TypeSegments, Kept
    <3>3. TypeScan'
      BY <1>3, <1>4, TypeParts DEF TypeScan
    <3> QED
      BY <3>1, <3>2, <3>3, TypeParts, PTL
  <2>3. (Idle /\ Started /\ Sorted /\ ScanInv /\ Assigned)'
    BY <1>3, <2>1 DEF Idle, Started, Sorted, ScanInv, Assigned, N
  <2>4. (ObstaclesAreCut /\ SegmentsArePushed)'
    BY <1>3, <1>4, <2>1 DEF ObstaclesAreCut, SegmentsArePushed, Kept
  <2> QED
    BY <2>2, <2>3, <2>4 DEF IInv
<1>8. CASE left' # {}
  <2>1. PICK n \in 1 .. MaxSegments : \E at \in [1 .. n -> left'] :
          Finds(at, occ, left') /\ segment_ids' = RoughSegments(at, occ)
    BY <1>2, <1>8 DEF Roughly
  <2>2. PICK at \in [1 .. n -> left'] :
          Finds(at, occ, left') /\ segment_ids' = RoughSegments(at, occ)
    BY <2>1
  <2>3. /\ segment_ids' \in Seq(Segments) /\ Len(segment_ids') = n /\ n \in Nat \ {0}
        /\ \A m \in 1 .. n : segment_ids'[m][1] < segment_ids'[m][2]
        /\ \A l, m \in 1 .. n : l < m => /\ segment_ids'[l][1] <= segment_ids'[m][1]
                                      /\ segment_ids'[l][2] + 2 <= segment_ids'[m][2]
        /\ \A x \in left' : \E m \in 1 .. n : x \in Past(segment_ids'[m])
    <3>1. n \in Nat \ {0}
      OBVIOUS
    <3> QED
      BY <1>6, <2>2, <3>1, FoundSegments
  <2>4. \/ pc' = "done" /\ ret' = "STOP_FOR_ERROR"
        \/ pc' = "search" /\ ret' = "none" /\ segment_ids'[n][2] # Cols
    BY <1>2, <1>3, <1>8, <2>3 DEF Roughly, Return
  <2>5. TypeOK'
    <3>1. TypeFlags'
      BY <1>3, <1>4, <2>4, TypeParts DEF TypeFlags
    <3>2. (TypeCounts /\ TypeSegments)'
      BY <1>3, <1>4, <1>5, <1>6, <2>3, TypeParts DEF TypeCounts, TypeSegments, Kept
    <3>3. TypeScan'
      BY <1>3, <1>4, TypeParts DEF TypeScan
    <3> QED
      BY <3>1, <3>2, <3>3, TypeParts, PTL
  <2>6. N' = 1 .. n /\ \A m \in N' : segment_ids'[m][1] \in Int /\ segment_ids'[m][2] \in 0 .. Cols
    <3>1. N' = 1 .. n
      BY <2>3 DEF N
    <3>2. \A m \in 1 .. n : segment_ids'[m] \in Segments
      BY <2>3
    <3> QED
      BY <3>1, <3>2 DEF Segments
  <2>7. Sorted'
    <3>1. \A l, m \in N' : l <= m => l < m \/ l = m
      BY <2>3, <2>6
    <3>2. ASSUME NEW l \in N', NEW m \in N', l <= m
          PROVE  /\ segment_ids'[l][1] <= segment_ids'[m][1]
                 /\ segment_ids'[l][2] <= segment_ids'[m][2]
      <4>1. l < m => /\ segment_ids'[l][1] <= segment_ids'[m][1]
                     /\ segment_ids'[l][2] + 2 <= segment_ids'[m][2]
        BY <2>3, <2>6
      <4> QED
        BY <2>6, <3>1, <3>2, <4>1
    <3> QED
      BY <2>3, <2>6, <3>2 DEF Sorted
  <2>8. (Idle /\ ScanInv /\ Assigned)'
    BY <2>4 DEF Idle, ScanInv, Assigned
  <2>9. Started'
    <3>1. segment_ids'[n][2] # Cols => \A m \in N' : segment_ids'[m][2] < Cols
      <4> SUFFICES ASSUME segment_ids'[n][2] # Cols, NEW m \in N' PROVE segment_ids'[m][2] < Cols
        OBVIOUS
      <4>1. n \in N' /\ segment_ids'[n][2] < Cols
        BY <2>3, <2>6
      <4>2. m = n \/ segment_ids'[m][2] + 2 <= segment_ids'[n][2]
        BY <2>3, <2>6
      <4> QED
        BY <2>6, <4>1, <4>2
    <3>2. 1 \in N'
      BY <2>3, <2>6
    <3> QED
      BY <1>3, <1>4, <2>4, <3>1, <3>2 DEF Started
  <2>10. ObstaclesAreCut'
    <3>1. (\A x \in left : x \in obstacle \/ PastPoints(x))'
      BY <2>3, <2>6 DEF PastPoints
    <3>2. RoughlyCut'
      BY <3>1, RoughPoints, PTL
    <3> QED
      BY <1>4, <3>2 DEF ObstaclesAreCut
  <2>11. SegmentsArePushed'
    BY <1>3, <1>4 DEF SegmentsArePushed, Kept
  <2> QED
    BY <2>5, <2>7, <2>8, <2>9, <2>10, <2>11 DEF IInv
<1> QED
  BY <1>7, <1>8

-----------------------------------------------------------------------------
(* The scan: a sample is looked at, judged, and may close a segment.       *)

ScanType ==
  [in_id : Ids \cup {-1}, out_id : Ids \cup {-1}, same : 0 .. 3,
   last_occ : BOOLEAN, got_start : BOOLEAN, got_end : BOOLEAN, maybe : BOOLEAN]

\* In the last piece, once a segment was closed, nothing can go unnoticed.
LastCut == i = i_end - 1 /\ segment_ids # <<>>

\* Between Looked and Judged, with the obstacle O.
Open(s, O) ==
  /\ s.in_id \in 0 .. i
  /\ \A n \in N : segment_ids[n][1] <= s.in_id
  /\ \A x \in O : InCut(x) \/ s.in_id <= x
Closing(s, O) ==
  /\ s.in_id < s.out_id /\ s.out_id <= i + 1
  /\ \A n \in N : segment_ids[n][2] <= s.out_id
  /\ \A x \in O : InCut(x) \/ x < s.out_id
Between(s, occ, O) ==
  /\ s \in ScanType
  /\ IF s.got_start THEN Open(s, O) /\ (occ \/ s.maybe) ELSE \A x \in O : InCut(x)
  /\ s.got_start /\ s.got_end => occ /\ Closing(s, O)
  /\ s.maybe => ~occ /\ (IF s.got_start THEN Closing(s, O) ELSE LastCut /\ s.out_id = i_end)
  /\ s.got_end => LastCut /\ s.out_id = i_end
  /\ ~s.got_start /\ (~Enough(s.same) \/ occ) => LastCut

\* Every assignment to a flag or a counter keeps the types.
LEMMA ScanUpdates ==
  ASSUME NEW s \in ScanType
  PROVE  /\ \A x \in Ids : [s EXCEPT !.in_id = x] \in ScanType
         /\ \A x \in Ids : [s EXCEPT !.out_id = x] \in ScanType
         /\ [s EXCEPT !.same = 0] \in ScanType
         /\ \A n \in 0 .. 3 : [s EXCEPT !.same = n] \in ScanType
         /\ \A b \in BOOLEAN : /\ [s EXCEPT !.last_occ = b] \in ScanType
                            /\ [s EXCEPT !.got_start = b] \in ScanType
                            /\ [s EXCEPT !.got_end = b] \in ScanType
                            /\ [s EXCEPT !.maybe = b] \in ScanType
BY DEF ScanType

LEMMA EnterUpdate ==
  ASSUME NEW s \in ScanType, NEW x \in Ids, NEW b \in BOOLEAN
  PROVE  [s EXCEPT !.same = 0, !.maybe = FALSE, !.in_id = x, !.got_start = b] \in ScanType
<1> DEFINE s1 == [s EXCEPT !.same = 0]
           s2 == [s1 EXCEPT !.maybe = FALSE]
           s3 == [s2 EXCEPT !.in_id = x]
           s4 == [s3 EXCEPT !.got_start = b]
<1>1. s1 \in ScanType
  BY ScanUpdates
<1>2. s2 \in ScanType
  BY <1>1, ScanUpdates
<1>3. s3 \in ScanType
  BY <1>2, ScanUpdates
<1>4. s4 \in ScanType
  BY <1>3, ScanUpdates
<1> QED
  BY <1>4

LEMMA LeaveUpdate ==
  ASSUME NEW s \in ScanType, NEW x \in Ids
  PROVE  [s EXCEPT !.same = 0, !.maybe = TRUE, !.out_id = x] \in ScanType
<1> DEFINE s1 == [s EXCEPT !.same = 0]
           s2 == [s1 EXCEPT !.maybe = TRUE]
           s3 == [s2 EXCEPT !.out_id = x]
<1>1. s1 \in ScanType
  BY ScanUpdates
<1>2. s2 \in ScanType
  BY <1>1, ScanUpdates
<1>3. s3 \in ScanType
  BY <1>2, ScanUpdates
<1> QED
  BY <1>3

LEMMA JudgeUpdate ==
  ASSUME NEW s \in ScanType
  PROVE  [s EXCEPT !.maybe = FALSE, !.got_end = TRUE] \in ScanType
<1> DEFINE s1 == [s EXCEPT !.maybe = FALSE]
           s2 == [s1 EXCEPT !.got_end = TRUE]
<1>1. s1 \in ScanType
  BY ScanUpdates
<1>2. s2 \in ScanType
  BY <1>1, ScanUpdates
<1> QED
  BY <1>2

LEMMA SampleUpdate ==
  ASSUME NEW s \in ScanType, NEW a \in BOOLEAN, NEW b \in BOOLEAN, NEW c \in BOOLEAN
  PROVE  [s EXCEPT !.last_occ = a, !.got_start = b, !.got_end = c] \in ScanType
<1> DEFINE s1 == [s EXCEPT !.last_occ = a]
           s2 == [s1 EXCEPT !.got_start = b]
           s3 == [s2 EXCEPT !.got_end = c]
<1>1. s1 \in ScanType
  BY ScanUpdates
<1>2. s2 \in ScanType
  BY <1>1, ScanUpdates
<1>3. s3 \in ScanType
  BY <1>2, ScanUpdates
<1> QED
  BY <1>3

\* What the invariant says in the scan.
LEMMA ScanFacts ==
  ASSUME ColsOK, IInv, pc = "scan"
  PROVE  /\ Scanned /\ scan \in ScanType /\ ~rough
         /\ i \in Nat /\ i_end \in Ids /\ i < i_end
         /\ \A n \in N : segment_ids[n][1] \in Ids /\ segment_ids[n][2] \in 0 .. Cols
         /\ obstacle \subseteq Nat
BY SegmentTypes, TypeParts
DEF IInv, ScanInv, Started, TypeScan, ScanType, TypeCounts

\* What Between asks for after a sample in an obstacle.
LEMMA InsideBetween ==
  ASSUME NEW s \in ScanType, NEW O, NEW occ \in BOOLEAN, occ, s.maybe = FALSE,
         IF s.got_start THEN Open(s, O) ELSE LastCut /\ \A x \in O : InCut(x),
         s.got_end => LastCut /\ s.out_id = i_end,
         s.got_start /\ s.got_end => Closing(s, O)
  PROVE  Between(s, occ, O)
BY DEF Between

LEMMA LookedBetween ==
  ASSUME ColsOK, IInv, pc = "scan", NEW occ \in BOOLEAN
  PROVE  Between(Looked(occ), occ, IF occ THEN obstacle \cup {i} ELSE obstacle)
<1> DEFINE s == Looked(occ)
           O == IF occ THEN obstacle \cup {i} ELSE obstacle
<1>1. /\ Scanned /\ scan \in ScanType /\ i \in Nat /\ i_end \in Ids /\ i < i_end
      /\ \A n \in N : segment_ids[n][1] \in Ids /\ segment_ids[n][2] \in 0 .. Cols
      /\ obstacle \subseteq Nat
  BY ScanFacts
<1>2. LastCut => InCut(i)
  BY DEF LastCut, InCut
<1>3. CASE occ /\ ~scan.last_occ
  <2>1. s = Enter /\ O = obstacle \cup {i}
    BY <1>3 DEF Looked
  <2>2. /\ s \in ScanType /\ s.same = 0 /\ s.maybe = FALSE
        /\ s.in_id = (IF Opens THEN i ELSE scan.in_id) /\ s.out_id = scan.out_id
        /\ s.got_start = (Opens \/ scan.got_start) /\ s.got_end = scan.got_end
    <3>1. CASE Opens
      <4>1. i \in Ids
        BY <1>1
      <4>2. s = [scan EXCEPT !.same = 0, !.maybe = FALSE, !.in_id = i, !.got_start = TRUE]
        BY <1>1, <2>1, <3>1 DEF Enter, ScanType
      <4>3. s \in ScanType
        BY <1>1, <4>1, <4>2, EnterUpdate
      <4> QED
        BY <1>1, <3>1, <4>2, <4>3 DEF ScanType
    <3>2. CASE ~Opens
      <4>1. s = [scan EXCEPT !.same = 0, !.maybe = FALSE]
        BY <1>1, <2>1, <3>2 DEF Enter, ScanType
      <4>2. [scan EXCEPT !.same = 0] \in ScanType
        BY <1>1, ScanUpdates
      <4>3. [[scan EXCEPT !.same = 0] EXCEPT !.maybe = FALSE] \in ScanType
        BY <4>2, ScanUpdates
      <4>4. s \in ScanType
        BY <4>1, <4>3
      <4> QED
        BY <1>1, <3>2, <4>1, <4>4 DEF ScanType
    <3> QED
      BY <3>1, <3>2
  <2> HIDE DEF s, O
  <2>3. CASE Opens
    <3>1. s.in_id = i /\ s.got_start
      BY <2>2, <2>3
    <3>2. \A x \in obstacle : InCut(x) \/ i <= x
      <4>1. CASE scan.got_start
        <5>1. scan.maybe /\ ~Enough(scan.same)
          BY <1>1, <1>3, <4>1 DEF Scanned
        <5>2. i = 0
          BY <2>3, <5>1 DEF Opens
        <5> QED
          BY <1>1, <5>2
      <4>2. CASE ~scan.got_start
        BY <1>1, <4>2 DEF Scanned
      <4> QED
        BY <4>1, <4>2
    <3>3. Open(s, O)
      BY <1>1, <2>1, <3>1, <3>2 DEF Open, Scanned
    <3>4. s.got_end => LastCut /\ s.out_id = i_end
      BY <1>1, <2>2 DEF Scanned, LastCut
    <3>5. \A x \in O : x <= i
      BY <1>1, <2>1 DEF Scanned
    <3>6. s.got_end => Closing(s, O)
      <4> SUFFICES ASSUME s.got_end PROVE Closing(s, O)
        OBVIOUS
      <4>1. s.out_id = i + 1
        BY <1>1, <3>4 DEF LastCut
      <4> QED
        BY <1>1, <2>1, <3>1, <3>5, <4>1 DEF Closing, Scanned
    <3> QED
      BY <1>3, <2>2, <3>1, <3>3, <3>4, <3>6, InsideBetween DEF s, O
  <2>4. CASE ~Opens
    <3>1. s.in_id = scan.in_id /\ s.got_start = scan.got_start
      BY <1>1, <2>2, <2>4 DEF ScanType
    <3>2. ~Enough(scan.same)
      BY <2>4 DEF Opens
    <3>3. s.got_start => Open(s, O) /\ ~s.got_end
      BY <1>1, <2>1, <2>2, <3>1 DEF Open, Scanned
    <3>4. ~s.got_start => LastCut
      BY <1>1, <3>1, <3>2 DEF Scanned, LastCut
    <3>5. ~s.got_start => \A x \in O : InCut(x)
      BY <1>1, <1>2, <2>1, <3>1, <3>4 DEF Scanned
    <3>6. s.got_end => LastCut /\ s.out_id = i_end
      BY <1>1, <2>2 DEF Scanned, LastCut
    <3> QED
      BY <1>3, <2>2, <3>3, <3>4, <3>5, <3>6, InsideBetween DEF s, O
  <2> QED
    BY <2>3, <2>4 DEF s, O
<1>4. CASE ~occ /\ scan.last_occ
  <2>1. s = Leave /\ O = obstacle
    BY <1>4 DEF Looked
  <2>2. /\ s \in ScanType /\ s.same = 0 /\ s.maybe = TRUE
        /\ s.in_id = scan.in_id /\ s.out_id = i + 1
        /\ s.got_start = scan.got_start /\ s.got_end = scan.got_end
    <3>1. i + 1 \in Ids
      BY <1>1
    <3>2. s \in ScanType
      BY <1>1, <2>1, <3>1, LeaveUpdate DEF Leave
    <3> QED
      BY <1>1, <2>1, <3>2 DEF Leave, ScanType
  <2> HIDE DEF s, O
  <2>3. \A x \in obstacle : x <= i
    BY <1>1 DEF Scanned
  <2>4. s.got_start => Open(s, O) /\ Closing(s, O) /\ ~s.got_end
    BY <1>1, <2>1, <2>2, <2>3 DEF Open, Closing, Scanned
  <2>5. ~s.got_start => LastCut /\ s.out_id = i_end /\ \A x \in O : InCut(x)
    BY <1>1, <1>4, <2>1, <2>2 DEF Scanned, LastCut
  <2>6. s.got_end => LastCut /\ s.out_id = i_end
    BY <2>4, <2>5
  <2> QED
    BY <1>4, <2>2, <2>4, <2>5, <2>6 DEF Between, s, O
<1>5. CASE occ = scan.last_occ
  <2>1. s = Stay /\ O = (IF occ THEN obstacle \cup {i} ELSE obstacle)
    BY <1>5 DEF Looked
  <2>2. /\ s \in ScanType /\ s.same = More(scan.same) /\ s.maybe = scan.maybe
        /\ s.in_id = scan.in_id /\ s.out_id = scan.out_id
        /\ s.got_start = scan.got_start /\ s.got_end = scan.got_end
    BY <1>1, <2>1 DEF Stay, More, Enough, ScanType
  <2> HIDE DEF s, O
  <2>3. ~Enough(s.same) => ~Enough(scan.same)
    BY <1>1, <2>2 DEF More, Enough, ScanType
  <2>4. ~s.got_start /\ (~Enough(s.same) \/ occ) => LastCut
    BY <1>1, <1>5, <2>2, <2>3 DEF Scanned, LastCut
  <2>5. s.got_start => Open(s, O) /\ (occ \/ s.maybe) /\ ~s.got_end
    BY <1>1, <1>5, <2>1, <2>2 DEF Open, Scanned
  <2>6. ~s.got_start => \A x \in O : InCut(x)
    BY <1>1, <1>2, <2>1, <2>2, <2>4 DEF Scanned
  <2>7. s.maybe => ~occ /\ s.got_start /\ Closing(s, O)
    BY <1>1, <1>5, <2>1, <2>2 DEF Closing, Scanned
  <2>8. s.got_end => LastCut /\ s.out_id = i_end
    BY <1>1, <2>2 DEF Scanned, LastCut
  <2> QED
    BY <2>2, <2>4, <2>5, <2>6, <2>7, <2>8 DEF Between, s, O
<1> QED
  BY <1>1, <1>3, <1>4, <1>5 DEF ScanType

\* What Judged makes of it.
Judgement(s, occ, O) ==
  /\ s \in ScanType
  /\ IF s.got_start THEN Open(s, O) ELSE \A x \in O : InCut(x)
  /\ s.got_start /\ s.got_end =>
       /\ Closing(s, O) /\ ~s.maybe
       /\ ~Enough(s.same) \/ occ => i = i_end - 1
  /\ s.got_start /\ ~s.got_end => occ \/ s.maybe
  /\ s.maybe => s.got_start /\ ~occ /\ Closing(s, O) /\ i # i_end - 1 /\ ~Enough(s.same)
  /\ s.got_end /\ ~s.got_start => LastCut /\ s.out_id = i_end
  /\ ~s.got_start /\ (~Enough(s.same) \/ occ) => LastCut

\* Judged closes a segment only around all of the obstacle.
LEMMA JudgedIsRight ==
  ASSUME NEW s, NEW occ \in BOOLEAN, NEW O, Between(s, occ, O)
  PROVE  Judgement(Judged(s), occ, O)
<1>1. CASE SurelyLeft(s)
  <2> DEFINE j == [s EXCEPT !.maybe = FALSE, !.got_end = TRUE]
  <2>1. Judged(s) = j
    BY <1>1 DEF Judged
  <2>2. s \in ScanType /\ s.maybe /\ (Enough(s.same) \/ i = i_end - 1)
    BY <1>1 DEF Between, SurelyLeft
  <2>3. /\ j \in ScanType /\ j.maybe = FALSE /\ j.got_end = TRUE
        /\ j.in_id = s.in_id /\ j.out_id = s.out_id /\ j.same = s.same
        /\ j.got_start = s.got_start /\ s.got_start \in BOOLEAN
    BY <2>2, JudgeUpdate DEF ScanType
  <2> HIDE DEF j
  <2>4. ~occ
    BY <2>2 DEF Between
  <2>5. CASE s.got_start
    <3>1. Open(s, O) /\ Closing(s, O)
      BY <2>2, <2>5 DEF Between
    <3>2. Open(j, O) /\ Closing(j, O)
      BY <2>3, <3>1 DEF Open, Closing
    <3>3. ~Enough(j.same) => i = i_end - 1
      BY <2>2, <2>3
    <3>4. Judgement(j, occ, O)
      BY <2>3, <2>4, <2>5, <3>2, <3>3 DEF Judgement
    <3> QED
      BY <2>1, <3>4
  <2>6. CASE ~s.got_start
    <3>1. LastCut /\ s.out_id = i_end /\ \A x \in O : InCut(x)
      BY <2>2, <2>6 DEF Between
    <3>2. Judgement(j, occ, O)
      BY <2>3, <2>4, <2>6, <3>1 DEF Judgement
    <3> QED
      BY <2>1, <3>2
  <2> QED
    BY <2>5, <2>6
<1>2. CASE ~SurelyLeft(s)
  <2>1. Judged(s) = s
    BY <1>2 DEF Judged
  <2>2. s.maybe => i # i_end - 1 /\ ~Enough(s.same)
    BY <1>2 DEF SurelyLeft
  <2>3. s.maybe => s.got_start /\ ~occ /\ Closing(s, O)
    BY <2>2 DEF Between, LastCut
  <2>4. IF s.got_start THEN Open(s, O) /\ (occ \/ s.maybe) ELSE \A x \in O : InCut(x)
    BY DEF Between
  <2>5. s.got_start /\ s.got_end => occ /\ Closing(s, O) /\ i = i_end - 1
    BY DEF Between, LastCut
  <2>6. /\ s \in ScanType
        /\ s.got_end => LastCut /\ s.out_id = i_end
        /\ ~s.got_start /\ (~Enough(s.same) \/ occ) => LastCut
    BY DEF Between
  <2>7. Judgement(s, occ, O)
    BY <2>2, <2>3, <2>4, <2>5, <2>6 DEF Judgement
  <2> QED
    BY <2>1, <2>7
<1> QED
  BY <1>1, <1>2

\* A segment that is closed covers what was open.
LEMMA AppendCovers ==
  ASSUME ColsOK, TypeOK, NEW s \in Segments, segment_ids' = Append(segment_ids, s),
         UNCHANGED i_end
  PROVE  /\ N' = 1 .. Len(segment_ids) + 1 /\ Len(segment_ids) + 1 \in N'
         /\ Len(segment_ids) \in Nat
         /\ \A n \in N : n \in N' /\ segment_ids'[n] = segment_ids[n]
         /\ \A n \in N' : n \in N \/ n = Len(segment_ids) + 1
         /\ segment_ids'[Len(segment_ids) + 1] = s
         /\ segment_ids' # <<>> /\ segment_ids' \in Seq(Segments)
         /\ \A x : InCut(x) \/ x \in s[1] .. s[2] - 1 => InCut(x)'
<1>1. segment_ids \in Seq(Segments)
  BY TypeParts DEF TypeSegments
<1>2. Len(segment_ids') = Len(segment_ids) + 1 /\ segment_ids' \in Seq(Segments)
  BY <1>1
<1>3. Len(segment_ids) \in Nat /\ N' = 1 .. Len(segment_ids) + 1
  BY <1>1, <1>2 DEF N
<1>4. \A n \in N : n \in N' /\ segment_ids'[n] = segment_ids[n]
  BY <1>1, <1>3 DEF N
<1>5. \A n \in N' : n \in N \/ n = Len(segment_ids) + 1
  BY <1>3 DEF N
<1>6. segment_ids'[Len(segment_ids) + 1] = s /\ Len(segment_ids) + 1 \in N'
  BY <1>1, <1>3
<1>7. segment_ids' # <<>>
  BY <1>2, <1>3
<1>8. ASSUME NEW x, InCut(x) \/ x \in s[1] .. s[2] - 1 PROVE InCut(x)'
  BY <1>4, <1>6, <1>7, <1>8 DEF InCut
<1> QED
  BY <1>2, <1>3, <1>4, <1>5, <1>6, <1>7, <1>8

LEMMA SampleStep ==
  ASSUME ColsOK, IInv, NEW occ \in BOOLEAN, Sample(occ)
  PROVE  IInv'
<1> DEFINE O == IF occ THEN obstacle \cup {i} ELSE obstacle
           s == Judged(Looked(occ))
           closes == s.got_start /\ s.got_end
           past == ~occ /\ Enough(scan'.same)
           r == scan'
<1>1. /\ pc = "scan" /\ sampled'
      /\ scan' = [s EXCEPT !.last_occ = occ, !.got_start = @ /\ ~closes, !.got_end = @ /\ ~closes]
      /\ segment_ids' = IF closes THEN Append(segment_ids, <<s.in_id, s.out_id>>) ELSE segment_ids
      /\ obstacle' = IF occ THEN obstacle \cup {i} ELSE IF past THEN {} ELSE obstacle
      /\ left' = IF past THEN left \cup obstacle ELSE left
      /\ UNCHANGED <<pc, rough, i_end, i, k, guides, flag_temp, segments, ret>>
  BY DEF Sample
<1>2. Judgement(s, occ, O)
  BY <1>1, LookedBetween, JudgedIsRight
<1>3. /\ TypeOK /\ Sorted /\ Scanned /\ ~rough /\ i \in Nat /\ i_end \in Ids /\ i < i_end /\ sampled' = TRUE
      /\ \A n \in N : segment_ids[n][1] \in Ids /\ segment_ids[n][2] \in 0 .. Cols
      /\ obstacle \subseteq Nat /\ ret = "none" /\ k = 1 /\ segments = <<>>
  BY <1>1, ScanFacts DEF IInv, Started, Sample
<1>4. obstacle' = (IF past THEN {} ELSE O) /\ left' \subseteq left \cup O /\ (~past => left' = left)
  BY <1>1
<1>5. O \subseteq 0 .. i
  BY <1>3 DEF Scanned
<1> HIDE DEF O, s
<1>6. s \in ScanType
  BY <1>2 DEF Judgement
<1>7. /\ r \in ScanType /\ r.last_occ = occ /\ r.same = s.same /\ r.maybe = s.maybe
      /\ r.in_id = s.in_id /\ r.out_id = s.out_id
      /\ r.got_start = (s.got_start /\ ~closes) /\ r.got_end = (s.got_end /\ ~closes)
  <2>1. s.got_start \in BOOLEAN /\ s.got_end \in BOOLEAN
    BY <1>6 DEF ScanType
  <2>2. r \in ScanType
    BY <1>1, <1>6, <2>1, SampleUpdate
  <2> QED
    BY <1>1, <1>6, <2>1, <2>2 DEF ScanType
<1> HIDE DEF r, past
<1>8. left' \subseteq Ids /\ obstacle' \subseteq 0 .. Cols
  <2>1. left \subseteq Ids
    BY <1>3, TypeParts DEF TypeCounts
  <2>2. O \subseteq Ids /\ O \subseteq 0 .. Cols
    BY <1>3, <1>5
  <2> QED
    BY <1>4, <2>1, <2>2
<1>9. TypeFlags' /\ TypeCounts' /\ TypeScan'
  <2>1. TypeFlags'
    BY <1>1, <1>3, TypeParts DEF TypeFlags
  <2>2. TypeCounts'
    BY <1>1, <1>3, <1>8, TypeParts DEF TypeCounts
  <2>3. TypeScan'
    BY <1>7 DEF TypeScan, ScanType, r
  <2> QED
    BY <2>1, <2>2, <2>3
<1>10. past => ~r.got_start
  BY <1>1, <1>2, <1>7 DEF past, r, Judgement
<1>11. CASE closes
  <2> DEFINE seg == <<s.in_id, s.out_id>>
             l == Len(segment_ids) + 1
  <2>1. Open(s, O) /\ Closing(s, O) /\ ~s.maybe /\ (~Enough(s.same) \/ occ => i = i_end - 1)
    BY <1>2, <1>11 DEF Judgement
  <2>2. /\ s.in_id \in 0 .. i /\ s.out_id \in Int /\ s.in_id < s.out_id /\ s.out_id <= i + 1
        /\ s.in_id \in Ids /\ s.out_id \in 0 .. Cols
    BY <1>3, <1>6, <2>1 DEF Open, Closing, ScanType
  <2>3. seg \in Segments /\ seg[1] = s.in_id /\ seg[2] = s.out_id
    BY <2>2 DEF Segments
  <2>4. segment_ids' = Append(segment_ids, seg)
    BY <1>1, <1>11
  <2> HIDE DEF seg
  <2>5. /\ N' = 1 .. l /\ l \in N' /\ Len(segment_ids) \in Nat
        /\ \A n \in N : n \in N' /\ segment_ids'[n] = segment_ids[n]
        /\ \A n \in N' : n \in N \/ n = l
        /\ segment_ids'[l] = seg /\ segment_ids' # <<>> /\ segment_ids' \in Seq(Segments)
        /\ \A x : InCut(x) \/ x \in seg[1] .. seg[2] - 1 => InCut(x)'
    BY <1>1, <1>3, <2>3, <2>4, AppendCovers
  <2>6. TypeOK'
    <3>1. TypeSegments'
      BY <1>1, <1>3, <2>5, TypeParts DEF TypeSegments
    <3> QED
      BY <1>9, <3>1, TypeParts, PTL
  <2>7. Started'
    BY <1>1, <1>3 DEF Started
  <2>8. (Idle /\ Assigned /\ ObstaclesAreCut /\ SegmentsArePushed)'
    BY <1>1, <1>3 DEF IInv, Idle, Assigned, ObstaclesAreCut, SegmentsArePushed
  <2>9. \A n \in N : segment_ids[n][1] <= s.in_id /\ segment_ids[n][2] <= s.out_id
    BY <2>1 DEF Open, Closing
  <2>10. Sorted'
    <3>1. \A n \in N' : segment_ids'[n][1] < segment_ids'[n][2]
      BY <1>3, <2>2, <2>3, <2>5 DEF Sorted
    <3>2. ASSUME NEW m \in N', NEW n \in N', m <= n
          PROVE  /\ segment_ids'[m][1] <= segment_ids'[n][1]
                 /\ segment_ids'[m][2] <= segment_ids'[n][2]
      <4>1. CASE m \in N /\ n \in N
        BY <1>3, <2>5, <3>2, <4>1 DEF Sorted
      <4>2. CASE m \in N /\ n = l
        BY <2>3, <2>5, <2>9, <4>2
      <4>3. CASE m = l
        <5>1. n = l
          BY <2>5, <3>2, <4>3 DEF N
        <5> QED
          BY <2>2, <2>3, <2>5, <4>3, <5>1
      <4> QED
        BY <2>5, <4>1, <4>2, <4>3
    <3> QED
      BY <1>1, <1>3, <3>1, <3>2 DEF Sorted
  <2>11. \A x \in O : InCut(x)'
    <3> SUFFICES ASSUME NEW x \in O PROVE InCut(x)'
      OBVIOUS
    <3>1. InCut(x) \/ (s.in_id <= x /\ x < s.out_id)
      BY <2>1 DEF Open, Closing
    <3>2. x \in Int
      BY <1>3, <1>5
    <3>3. InCut(x) \/ x \in seg[1] .. seg[2] - 1
      BY <2>2, <2>3, <3>1, <3>2
    <3> QED
      BY <2>5, <3>3
  <2>12. Scanned'
    <3>1. /\ ~r.got_start /\ ~r.got_end /\ ~r.maybe /\ r.same = s.same /\ r.last_occ = occ
      BY <1>7, <1>11, <2>1
    <3>2. \A x \in left' : InCut(x)'
      BY <1>3, <1>4, <2>5, <2>11 DEF Scanned
    <3>3. \A x \in obstacle' : x <= i /\ InCut(x)'
      <4>1. obstacle' \subseteq O
        BY <1>4
      <4>2. \A x \in O : x <= i
        BY <1>3, <1>5
      <4> QED
        BY <2>11, <4>1, <4>2
    <3>4. \A n \in N' : segment_ids'[n][1] <= i /\ segment_ids'[n][2] <= i + 1
      BY <1>3, <2>2, <2>3, <2>5 DEF Scanned
    <3>5. ~Enough(r.same) \/ r.last_occ => i = i_end - 1
      BY <2>1, <3>1
    <3> QED
      BY <1>1, <2>5, <3>1, <3>2, <3>3, <3>4, <3>5 DEF Scanned, Enough, r
  <2>13. ScanInv'
    BY <2>12 DEF ScanInv
  <2> QED
    BY <2>6, <2>7, <2>8, <2>10, <2>13 DEF IInv
<1>12. CASE ~closes
  <2>1. UNCHANGED <<segment_ids, i_end, i, rough>>
    BY <1>1, <1>12
  <2>2. TypeOK'
    <3>1. TypeSegments'
      BY <1>1, <1>3, <2>1, TypeParts DEF TypeSegments
    <3> QED
      BY <1>9, <3>1, TypeParts, PTL
  <2>3. (Started /\ Sorted)'
    BY <1>1, <1>3, <2>1 DEF Started, Sorted, N
  <2>4. (Idle /\ Assigned /\ ObstaclesAreCut /\ SegmentsArePushed)'
    BY <1>1, <1>3 DEF IInv, Idle, Assigned, ObstaclesAreCut, SegmentsArePushed
  <2>5. /\ \A x : InCut(x)' <=> InCut(x)
        /\ N' = N
    BY <2>1 DEF InCut, N
  <2>6. Scanned'
    <3>1. r.got_start = s.got_start /\ r.got_end = s.got_end
      BY <1>6, <1>7, <1>12 DEF ScanType
    <3>2. IF r.got_start THEN Open(s, O) ELSE \A x \in O : InCut(x)
      BY <1>2, <3>1 DEF Judgement
    <3>3. \A x \in left' : InCut(x)
      BY <1>3, <1>4, <1>10, <3>2 DEF Scanned
    <3>4. \A x \in obstacle' : x <= i /\ x \in O /\ (InCut(x) \/ (r.got_start /\ r.in_id <= x))
      <4>1. obstacle' \subseteq O
        BY <1>4
      <4>2. \A x \in O : x <= i
        BY <1>3, <1>5
      <4>3. \A x \in O : InCut(x) \/ (r.got_start /\ r.in_id <= x)
        BY <1>7, <3>2 DEF Open
      <4> QED
        BY <4>1, <4>2, <4>3
    <3>5. \A n \in N : segment_ids[n][1] <= i /\ segment_ids[n][2] <= i + 1
      BY <1>3 DEF Scanned
    <3>6. r.got_start => /\ r.in_id \in 0 .. i
                         /\ \A n \in N : segment_ids[n][1] <= r.in_id
                         /\ ~r.got_end
                         /\ r.last_occ \/ r.maybe
      BY <1>2, <1>7, <1>12, <3>1, <3>2 DEF Open, Judgement
    <3>7. r.maybe => /\ r.got_start /\ ~r.last_occ
                     /\ r.in_id < r.out_id /\ r.out_id <= i + 1
                     /\ \A x \in obstacle' : InCut(x) \/ x < r.out_id
                     /\ \A n \in N : segment_ids[n][2] <= r.out_id
                     /\ i # i_end - 1 /\ ~Enough(r.same)
      BY <1>2, <1>7, <3>1, <3>4 DEF Closing, Judgement
    <3>8. r.maybe => i < i_end - 1
      BY <1>3, <3>7
    <3>9. r.got_end => LastCut /\ r.out_id = i_end
      BY <1>2, <1>7, <1>12, <3>1 DEF Judgement
    <3>10. ~r.got_start /\ (~Enough(r.same) \/ r.last_occ) => LastCut
      BY <1>2, <1>7, <3>1 DEF Judgement
    <3> QED
      BY <2>1, <2>5, <3>3, <3>4, <3>5, <3>6, <3>7, <3>8, <3>9, <3>10
      DEF Scanned, LastCut, Enough, r
  <2>7. ScanInv'
    BY <2>6 DEF ScanInv
  <2> QED
    BY <2>2, <2>3, <2>4, <2>7 DEF IInv
<1> QED
  BY <1>11, <1>12

-----------------------------------------------------------------------------
(* The assignment: parted segments are disjoint, and none is left unpushed. *)

\* Parted in the middle, segments share no point and keep their order.
LEMMA AdjustedFacts ==
  ASSUME ColsOK, TypeOK, Sorted, \A n \in N : segment_ids[n][2] < Cols, NEW n \in N
  PROVE  /\ Adjusted(n) \in Ids \X Ids
         /\ n + 1 \in N => /\ Adjusted(n)[2] < Adjusted(n + 1)[1]
                          /\ Adjusted(n)[1] <= Adjusted(n + 1)[1]
<1> DEFINE first(m) == segment_ids[m][1]
           second(m) == segment_ids[m][2]
           low(m) == IF m > 1 /\ second(m - 1) >= first(m) THEN (second(m - 1) + first(m)) \div 2 + 1 ELSE first(m)
           up(m) == IF m < Len(segment_ids) /\ second(m) >= first(m + 1)
                      THEN (second(m) + first(m + 1) - 1) \div 2 ELSE second(m)
<1>1. \A m \in N : /\ first(m) \in Ids /\ second(m) \in Ids /\ first(m) < second(m)
                  /\ m \in Nat /\ m >= 1 /\ m <= Len(segment_ids)
  BY SegmentTypes DEF Sorted, N
<1>2. \A l, m \in N : l <= m => first(l) <= first(m) /\ second(l) <= second(m)
  BY DEF Sorted
<1>3. \A m \in N : (m > 1 => m - 1 \in N) /\ (m < Len(segment_ids) => m + 1 \in N)
  BY SegmentTypes DEF N
<1>4. \A m \in N : Adjusted(m) = <<low(m), up(m)>>
  <2> SUFFICES ASSUME NEW m \in N PROVE Adjusted(m) = <<low(m), up(m)>>
    OBVIOUS
  <2>1. \A a, b : Middle(a, b)[1] = (a[2] + b[1] - 1) \div 2 /\ Middle(a, b)[2] = (a[2] + b[1]) \div 2 + 1
    BY DEF Middle
  <2> QED
    BY <2>1 DEF Adjusted, Overlap
<1> HIDE DEF first, second
<1>5. ASSUME NEW m \in N PROVE low(m) \in Ids
  <2>1. CASE m > 1 /\ second(m - 1) >= first(m)
    <3>1. second(m - 1) \in Ids /\ second(m - 1) <= second(m) /\ first(m) < second(m)
          /\ first(m) \in Ids /\ second(m) \in Ids
      BY <1>1, <1>2, <1>3, <2>1
    <3> QED
      BY <2>1, <3>1
  <2> QED
    BY <1>1, <2>1
<1>6. ASSUME NEW m \in N PROVE up(m) \in Ids
  <2>1. CASE m < Len(segment_ids) /\ second(m) >= first(m + 1)
    <3>1. first(m + 1) \in Ids /\ first(m) \in Ids /\ first(m) < second(m) /\ second(m) \in Ids
      BY <1>1, <1>3, <2>1
    <3>2. first(m + 1) <= second(m)
      BY <1>1, <2>1
    <3> QED
      BY <2>1, <3>1, <3>2
  <2> QED
    BY <1>1, <2>1
<1>7. ASSUME n + 1 \in N PROVE up(n) < low(n + 1) /\ low(n) <= low(n + 1)
  <2>1. n < Len(segment_ids) /\ n + 1 > 1 /\ n + 1 - 1 = n /\ n \in Nat
    BY <1>1, <1>7
  <2>2. /\ first(n) \in Int /\ second(n) \in Int /\ first(n + 1) \in Int /\ second(n + 1) \in Int
        /\ first(n) <= first(n + 1) /\ second(n) <= second(n + 1) /\ first(n) < second(n)
    BY <1>1, <1>2, <1>7, <2>1
  <2>3. n > 1 => second(n - 1) <= second(n) /\ second(n - 1) \in Int
    BY <1>1, <1>2, <1>3
  <2>5. low(n + 1) = IF second(n) >= first(n + 1)
                       THEN (second(n) + first(n + 1)) \div 2 + 1 ELSE first(n + 1)
    BY <2>1
  <2>6. up(n) = IF second(n) >= first(n + 1)
                  THEN (second(n) + first(n + 1) - 1) \div 2 ELSE second(n)
    BY <2>1
  <2>7. up(n) < low(n + 1)
    BY <2>2, <2>5, <2>6
  <2>8. low(n) <= low(n + 1)
    <3>1. CASE n > 1 /\ second(n - 1) >= first(n)
      <4>1. second(n - 1) >= first(n) /\ low(n) = (second(n - 1) + first(n)) \div 2 + 1
        BY <3>1
      <4>2. CASE second(n) >= first(n + 1)
        BY <2>2, <2>3, <2>5, <3>1, <4>1, <4>2
      <4>3. CASE second(n) < first(n + 1)
        BY <2>2, <2>3, <2>5, <3>1, <4>1, <4>3
      <4> QED
        BY <2>2, <4>2, <4>3
    <3>2. CASE ~(n > 1 /\ second(n - 1) >= first(n))
      <4>1. low(n) = first(n)
        BY <3>2
      <4> QED
        BY <2>2, <2>5, <4>1
    <3> QED
      BY <3>1, <3>2
  <2> QED
    BY <2>7, <2>8
<1> HIDE DEF low, up
<1> QED
  BY <1>4, <1>5, <1>6, <1>7

\* What GiveGuides leaves behind.
LEMMA GiveGuidesFacts ==
  ASSUME ColsOK, TypeOK, SegmentsArePushed, NEW adj \in Ids \X Ids, NEW own \in SUBSET Ids,
         NEW got \in own \cup {-1}, GiveGuides(adj, own, got),
         segments # <<>> => segments[Len(segments)][2] < adj[1]
  PROVE  /\ guides' \in [Ids -> 0 .. 2] /\ flag_temp' \in [Ids -> BOOLEAN]
         /\ segments' \in Seq(Ids \X Ids)
         /\ segments' = segments \/ segments' = Append(segments, adj)
         /\ SegmentsArePushed'
<1> DEFINE flag == [j \in Ids |-> j \in own \/ (flag_temp[j] /\ j \notin adj[1] .. adj[2])]
           filled == {j \in ToFill(adj, got) : ~flag[j]}
<1>1. /\ flag_temp' = flag
      /\ guides' = [j \in Ids |-> IF j \in own \/ (got >= 0 /\ j \in filled)
                                    THEN Another(guides[j]) ELSE guides[j]]
      /\ segments' = IF got >= 0 THEN Append(segments, adj) ELSE segments
  BY DEF GiveGuides
<1>2. /\ guides \in [Ids -> 0 .. 2] /\ flag_temp \in [Ids -> BOOLEAN] /\ segments \in Seq(Ids \X Ids)
  BY TypeParts DEF TypeSegments
<1>3. \A j \in Ids : flag[j] <=> j \in own \/ (flag_temp[j] /\ j \notin adj[1] .. adj[2])
  OBVIOUS
<1>4. flag \in [Ids -> BOOLEAN]
  OBVIOUS
<1> HIDE DEF flag
<1>5. \A m \in 0 .. 2 : Another(m) \in 1 .. 2
  BY DEF Another
<1>6. \A j \in Ids : guides[j] \in 0 .. 2
  BY <1>2
<1> HIDE DEF filled, Ids
<1>7. guides' \in [Ids -> 0 .. 2]
  BY <1>1, <1>5, <1>6
<1>8. /\ \A j \in Ids : guides[j] > 0 => guides'[j] > 0
      /\ \A j \in Ids : j \in own \/ (got >= 0 /\ j \in filled) => guides'[j] > 0
  BY <1>1, <1>5, <1>6
<1>9. \A j \in Ids : flag_temp'[j] => guides'[j] > 0
  BY <1>1, <1>3, <1>8 DEF SegmentsArePushed
<1>10. segments' \in Seq(Ids \X Ids)
  BY <1>1, <1>2
<1>11. ASSUME got >= 0 PROVE \A j \in adj[1] .. adj[2] : guides'[j] > 0
  <2>1. got \in own /\ got \in Int
    BY <1>11 DEF Ids
  <2>2. adj[1] .. adj[2] \subseteq Ids
    BY DEF Ids
  <2> SUFFICES ASSUME NEW j \in adj[1] .. adj[2], j \notin own PROVE guides'[j] > 0
    BY <1>8, <2>2
  <2>3. j \in ToFill(adj, got)
    BY <2>1 DEF ToFill
  <2>4. ~flag[j]
    BY <1>3, <2>2
  <2>5. j \in filled
    BY <2>3, <2>4 DEF filled
  <2> QED
    BY <1>8, <1>11, <2>2, <2>5
<1>12. /\ Len(segments) \in Nat
       /\ \A n \in 1 .. Len(segments) : segments[n][1] .. segments[n][2] \subseteq Ids
  <2>1. \A n \in 1 .. Len(segments) : segments[n] \in Ids \X Ids
    BY <1>2
  <2>2. \A n \in 1 .. Len(segments) : segments[n][1] \in Ids /\ segments[n][2] \in Ids
    BY <2>1
  <2> QED
    BY <1>2, <2>2 DEF Ids
<1>13. SegmentsArePushed'
  <2>1. CASE got < 0
    <3>1. got \in Int
      BY DEF Ids
    <3>2. segments' = segments
      BY <1>1, <2>1, <3>1
    <3> QED
      BY <1>8, <1>9, <1>12, <3>2 DEF SegmentsArePushed, Ids
  <2>2. CASE got >= 0
    <3>1. segments' = Append(segments, adj)
      BY <1>1, <2>2
    <3>2. Len(segments') = Len(segments) + 1 /\ segments'[Len(segments) + 1] = adj
      BY <1>2, <3>1
    <3>3. \A n \in 1 .. Len(segments) : segments'[n] = segments[n]
      BY <1>2, <3>1
    <3>4. ASSUME NEW n \in 1 .. Len(segments')
          PROVE  /\ segments'[n] \in Ids \X Ids
                 /\ \A j \in segments'[n][1] .. segments'[n][2] : guides'[j] > 0
                 /\ n > 1 => segments'[n - 1][2] < segments'[n][1]
      <4>1. CASE n \in 1 .. Len(segments)
        <5>1. n > 1 => n - 1 \in 1 .. Len(segments)
          BY <1>12, <4>1
        <5> QED
          BY <1>8, <1>12, <3>3, <4>1, <5>1 DEF SegmentsArePushed
      <4>2. CASE n = Len(segments) + 1
        <5>1. n > 1 => segments # <<>> /\ Len(segments) \in 1 .. Len(segments) /\ n - 1 = Len(segments)
          BY <1>2, <1>12, <4>2
        <5> QED
          BY <1>11, <2>2, <3>2, <3>3, <4>2, <5>1
      <4> QED
        BY <1>12, <3>2, <4>1, <4>2
    <3> QED
      BY <1>9, <3>4 DEF SegmentsArePushed, Ids
  <2> QED
    BY <2>1, <2>2 DEF Ids
<1>14. segments' = segments \/ segments' = Append(segments, adj)
  BY <1>1
<1> QED
  BY <1>1, <1>4, <1>7, <1>10, <1>13, <1>14

\* However the points of segment k come out, it is assigned by GiveGuides.
LEMMA AssignedHow ==
  ASSUME ColsOK, IInv, NextSegment
  PROVE  \E own \in SUBSET Ids : \E got \in own \cup {-1} : GiveGuides(Adjusted(k), own, got)
<1>1. TypeOK /\ Sorted /\ k \in N /\ (\A n \in N : segment_ids[n][2] < Cols)
  BY DEF IInv, Started, NextSegment
<1>2. Seg(k) \in Ids \X Ids
  <2>1. Adjusted(k) \in Ids \X Ids
    BY <1>1, AdjustedFacts
  <2>2. segment_ids[k] \in Ids \X Ids
    <3>1. /\ segment_ids[k] \in Ids \X (0 .. Cols) /\ segment_ids[k][2] \in Ids
      BY <1>1, SegmentTypes DEF Segments
    <3> QED
      BY <3>1
  <2> QED
    BY <2>1, <2>2 DEF Seg
<1>3. Inner(Seg(k)) \subseteq Ids /\ Seg(k)[1] \in Ids
  BY <1>2 DEF Inner
<1>4. ASSUME NEW outcome \in [Inner(Seg(k)) -> Outcomes], Assign(outcome)
      PROVE  \E own \in SUBSET Ids : \E got \in own \cup {-1} : GiveGuides(Adjusted(k), own, got)
  <2> DEFINE own == {j \in Inner(Seg(k)) : outcome[j] \in {"hit", "stale"}}
             got == GotIntersection(outcome, Seg(k)[2] - 1)
  <2>1. GiveGuides(Adjusted(k), own, got)
    BY <1>4 DEF Assign
  <2>2. Seg(k)[2] - 1 \in Int
    BY <1>2
  <2>3. got = -1 \/ (got \in Inner(Seg(k)) /\ outcome[got] = "hit")
    BY <1>2, <2>2, GotIntersectionFacts
  <2>4. own \in SUBSET Ids /\ got \in own \cup {-1}
    BY <1>3, <2>3
  <2> QED
    BY <2>1, <2>4
<1>5. ASSUME NEW found \in BOOLEAN, AssignCorner(found)
      PROVE  \E own \in SUBSET Ids : \E got \in own \cup {-1} : GiveGuides(Adjusted(k), own, got)
  <2>1. \/ GiveGuides(Adjusted(k), {Seg(k)[1]}, Seg(k)[1])
        \/ GiveGuides(Adjusted(k), {}, -1)
    BY <1>5 DEF AssignCorner
  <2>2. {Seg(k)[1]} \in SUBSET Ids /\ {} \in SUBSET Ids
    BY <1>3
  <2> QED
    BY <2>1, <2>2
<1> QED
  BY <1>4, <1>5 DEF NextSegment

LEMMA NextSegmentStep ==
  ASSUME ColsOK, IInv, NextSegment
  PROVE  IInv'
<1>1. /\ TypeOK /\ Sorted /\ pc = "assign" /\ k \in N /\ ret = "none"
      /\ \A n \in N : segment_ids[n][2] < Cols
      /\ SegmentsArePushed /\ (segments # <<>> => segments[Len(segments)][2] < Adjusted(k)[1])
  BY DEF IInv, Started, Assigned, NextSegment
<1>2. /\ k' = k + 1 /\ UNCHANGED <<segment_ids, obstacle>>
      /\ UNCHANGED <<rough, i_end, i, sampled, scan, left>>
      /\ IF k < Len(segment_ids) THEN UNCHANGED <<pc, ret>>
         ELSE pc' = "done" /\ ret' = (IF rough THEN "STOP_FOR_REBOUND" ELSE "FINISH")
  BY DEF NextSegment, Return, scanned
<1>3. Adjusted(k) \in Ids \X Ids
  BY <1>1, AdjustedFacts
<1>4. PICK own \in SUBSET Ids : \E got \in own \cup {-1} : GiveGuides(Adjusted(k), own, got)
  BY AssignedHow
<1>5. PICK got \in own \cup {-1} : GiveGuides(Adjusted(k), own, got)
  BY <1>4
<1>6. /\ guides' \in [Ids -> 0 .. 2] /\ flag_temp' \in [Ids -> BOOLEAN]
      /\ segments' \in Seq(Ids \X Ids)
      /\ segments' = segments \/ segments' = Append(segments, Adjusted(k))
      /\ SegmentsArePushed'
  BY <1>1, <1>3, <1>5, GiveGuidesFacts
<1>7. Len(segment_ids) \in Nat /\ k \in 1 .. Len(segment_ids) /\ N' = N
  BY <1>1, <1>2, SegmentTypes DEF N
<1>8. TypeOK'
  <2>1. TypeFlags'
    <3>1. pc' \in {"assign", "done"} /\ ret' \in {"none", "STOP_FOR_REBOUND", "FINISH"}
      BY <1>1, <1>2
    <3> QED
      BY <1>1, <1>2, <3>1, TypeParts DEF TypeFlags
  <2>2. TypeCounts'
    BY <1>1, <1>2, <1>7, TypeParts DEF TypeCounts
  <2>3. TypeSegments'
    BY <1>1, <1>2, <1>6, TypeParts DEF TypeSegments
  <2>4. TypeScan'
    BY <1>1, <1>2, TypeParts DEF TypeScan
  <2> QED
    BY <2>1, <2>2, <2>3, <2>4, TypeParts, PTL
<1>9. (Idle /\ ScanInv /\ Sorted)'
  BY <1>1, <1>2, <1>7 DEF Idle, ScanInv, Sorted
<1>10. k < Len(segment_ids) => k + 1 \in N
  BY <1>7 DEF N
<1>11. Started'
  BY <1>1, <1>2, <1>7, <1>10 DEF Started
<1>12. Assigned'
  <2> SUFFICES ASSUME pc' = "assign", segments' # <<>>
               PROVE  segments'[Len(segments')][2] < Adjusted(k)'[1]
    BY DEF Assigned
  <2>1. k < Len(segment_ids) /\ k + 1 \in N
    BY <1>2, <1>10
  <2>2. Adjusted(k)' = Adjusted(k + 1)
    BY <1>2 DEF Adjusted, Overlap, Middle
  <2>3. /\ Adjusted(k)[2] < Adjusted(k + 1)[1] /\ Adjusted(k)[1] <= Adjusted(k + 1)[1]
        /\ Adjusted(k + 1) \in Ids \X Ids
    BY <1>1, <2>1, AdjustedFacts
  <2>4. segments \in Seq(Ids \X Ids)
    BY <1>1, TypeParts DEF TypeSegments
  <2>5. CASE segments' = segments
    <3>1. segments[Len(segments)] \in Ids \X Ids
      BY <2>4, <2>5
    <3> QED
      BY <1>1, <1>3, <2>2, <2>3, <2>5, <3>1
  <2>6. CASE segments' = Append(segments, Adjusted(k))
    <3>1. segments'[Len(segments')] = Adjusted(k)
      BY <1>3, <2>4, <2>6
    <3> QED
      BY <2>2, <2>3, <3>1
  <2> QED
    BY <1>6, <2>5, <2>6
<1>13. ObstaclesAreCut'
  <2>1. UNCHANGED <<Out, Ends, i_end, obstacle, left, rough>>
    BY <1>2 DEF Out, Ends
  <2>2. (FinelyCut' <=> FinelyCut) /\ (RoughlyCut' <=> RoughlyCut)
    BY <2>1 DEF FinelyCut, RoughlyCut
  <2>3. ret' # "OBS_FREE"
    BY <1>1, <1>2
  <2> QED
    BY <1>1, <2>1, <2>2, <2>3 DEF IInv, ObstaclesAreCut
<1> QED
  BY <1>6, <1>8, <1>9, <1>11, <1>12, <1>13 DEF IInv

-----------------------------------------------------------------------------
LEMMA StutterStep ==
  ASSUME IInv, UNCHANGED vars
  PROVE  IInv'
<1>1. UNCHANGED <<N, Out, Ends>>
  BY DEF vars, N, Out, Ends
<1> QED
  BY <1>1
  DEF vars, IInv, TypeOK, Idle, Started, Sorted, ScanInv, Scanned, InCut, Assigned, Adjusted, Overlap, Middle,
      ObstaclesAreCut, FinelyCut, RoughlyCut, SegmentsArePushed

LEMMA StepInv == ColsOK /\ IInv /\ [Next]_vars => IInv'
<1> SUFFICES ASSUME ColsOK, IInv, [Next]_vars PROVE IInv'
  OBVIOUS
<1>1. CASE \E flag_first_init, touch_goal \in BOOLEAN : Call(flag_first_init, touch_goal)
  BY <1>1, CallStep
<1>2. CASE \E occ \in BOOLEAN : Sample(occ)
  BY <1>2, SampleStep
<1>3. CASE RoughCheck
  BY <1>3, RoughCheckStep
<1>4. CASE NextPiece
  BY <1>4, NextPieceStep
<1>5. CASE Found
  BY <1>5, FoundStep
<1>6. CASE SearchErr
  BY <1>6, SearchErrStep
<1>7. CASE Fails
  BY <1>7, FailsStep
<1>8. CASE Erases
  BY <1>8, ErasesStep
<1>9. CASE NextSegment
  BY <1>9, NextSegmentStep
<1>10. CASE Done
  BY <1>10, DoneStep
<1>11. CASE UNCHANGED vars
  BY <1>11, StutterStep
<1> QED
  BY <1>1, <1>2, <1>3, <1>4, <1>5, <1>6, <1>7, <1>8, <1>9, <1>10, <1>11 DEF Next

\* The inductive invariant.
LEMMA Inductive == Spec => []IInv
<1>1. ColsOK
  BY ColsAssumption
<1>2. Init => IInv
  BY <1>1, InitInv
<1>3. IInv /\ [Next]_vars => IInv'
  BY <1>1, StepInv
<1> QED
  BY <1>2, <1>3, PTL DEF Spec

\* Every variable keeps its type: no segment begins before the first or ends
\* behind the last constraint point, so that the check for "in_id < 0" and
\* "out_id < 0" after the scan ("Should not happen!") never applies.
THEOREM TypeCorrect == Spec => []TypeOK
<1>1. IInv => TypeOK
  BY DEF IInv
<1> QED
  BY <1>1, Inductive, PTL

\* Every obstacle the trajectory comes out of lies in a segment, whatever the
\* pattern of samples and however many segments are merged or erased since; only
\* in the last piece, after another segment, one may be overlooked.
THEOREM AllAreCut == Spec => []ObstaclesAreCut
<1>1. IInv => ObstaclesAreCut
  BY DEF IInv
<1> QED
  BY <1>1, Inductive, PTL

\* The segments the checks report share no constraint point, and all points of
\* theirs have a base point, in particular the one a base point is copied from.
THEOREM AllArePushed == Spec => []SegmentsArePushed
<1>1. IInv => SegmentsArePushed
  BY DEF IInv
<1> QED
  BY <1>1, Inductive, PTL

=============================================================================
