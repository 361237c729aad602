------------------------------- MODULE GridMap -------------------------------
(***************************************************************************)
(* The voxel map that moves with the drone (plan_env/grid_map.h and .cpp): *)
(* two ring buffers of different lengths.  One tells which voxels are      *)
(* occupied; the other, wider by the inflation radius on every side,       *)
(* counts for each voxel the occupied voxels within that radius and flags  *)
(* the occupied ones.  The planner only reads the second.                  *)
(*                                                                         *)
(* Abstractions.  All axes have the same range.  An address in a buffer is *)
(* its vector of residues, not their flattened sum.  Log-odds are above or *)
(* below the threshold of an occupied voxel; what a depth image does to    *)
(* the voxels its rays touch is a choice.  The camera may be anywhere at   *)
(* the next message.  Virtual walls, the ESDF and what is published are    *)
(* left out: they only read.                                               *)
(***************************************************************************)
EXTENDS Integers, FiniteSets

CONSTANTS
  Axes,
  UpdateRange,       \* local_update_range3i_, along every axis
  InfGrid,     \* inf_grid_
  Flag,        \* GRID_MAP_OBS_FLAG
  Word,        \* number of values of a uint16_t
  Error,       \* a count above it has become negative
  Centers,     \* bound: voxels the camera visits
  MaxTouched   \* bound: voxels one message touches

Size == 2 * UpdateRange
InfSize == Size + 2 * InfGrid
Buffer == [Axes -> 0 .. Size - 1]
InfBuffer == [Axes -> 0 .. InfSize - 1]
Voxels == [Axes -> Int]
Near == [Axes -> -InfGrid .. InfGrid]

\* A space of few dimensions; initMap keeps InfGrid so small that no count
\* reaches the flag, and a flag with its count is no error.
ASSUME GridAssumption ==
  /\ UpdateRange \in Nat \ {0} /\ InfGrid \in Nat
  /\ IsFiniteSet([Axes -> 0 .. Size]) /\ IsFiniteSet(Near)
  /\ Flag \in Nat /\ Error \in Nat /\ Word \in Nat
  /\ Cardinality(Near) < Flag /\ Flag + Cardinality(Near) <= Error /\ Error < Word
  /\ Centers \subseteq Voxels

VARIABLES
  have_initialized,
  center,      \* center_last3i_, from which all bounds are computed
  origin,      \* ringbuffer_origin3i_
  inf_origin,  \* ringbuffer_inf_origin3i_
  occupied,    \* addresses with occupancy_buffer_ >= min_occupancy_log_
  inflate,     \* occupancy_buffer_inflate_
  previous,    \* history: center_last3i_ before the last moveRingBuffer
  strayed,     \* history: a message has written to the voxel of another place
  was_reset    \* history: the map was emptied after a negative count

vars == <<have_initialized, center, origin, inf_origin, occupied, inflate, previous, strayed,
          was_reset>>

Plus(v, d) == [a \in Axes |-> v[a] + d[a]]
Shift(v, n) == [a \in Axes |-> v[a] + n]

LowBound(c) == Shift(c, -UpdateRange)
UpBound(c) == Shift(c, UpdateRange - 1)
InfLowBound(c) == Shift(c, -UpdateRange - InfGrid)
InfUpBound(c) == Shift(c, UpdateRange - 1 + InfGrid)
Window(c) == {Plus(LowBound(c), d) : d \in Buffer}
InfWindow(c) == {Plus(InfLowBound(c), d) : d \in InfBuffer}

Init ==
  /\ have_initialized = FALSE
  /\ center = [a \in Axes |-> 0]
  /\ origin = [a \in Axes |-> 0]
  /\ inf_origin = [a \in Axes |-> 0]
  /\ occupied = {}
  /\ inflate = [d \in InfBuffer |-> 0]
  /\ previous = [a \in Axes |-> 0]
  /\ strayed = FALSE
  /\ was_reset = FALSE

-----------------------------------------------------------------------------
(* Indices.                                                                *)

\* globalIdx2BufIdx, globalIdx2InfBufIdx: every voxel has an address.
BufIdx(v) == [a \in Axes |-> (v[a] - origin[a]) % Size]
InfBufIdx(v) == [a \in Axes |-> (v[a] - inf_origin[a]) % InfSize]

\* BufIdx2GlobalIdx, infBufIdx2GlobalIdx: from an address back to a voxel, by
\* at most one length down and none up.
Unwrap(x, up, size) == IF x > up THEN x - size ELSE x
BufIdx2GlobalIdx(d) ==
  [a \in Axes |-> Unwrap(d[a] + origin[a], UpBound(center)[a], Size)]
InfBufIdx2GlobalIdx(d) ==
  [a \in Axes |-> Unwrap(d[a] + inf_origin[a], InfUpBound(center)[a], InfSize)]

\* Where the two while loops of moveRingBuffer bring an origin.
BringIntoMutant(o, low, size) == IF o < low THEN o + size ELSE o
BringIntoAnew(o, low, size) == low
BringInto(o, low, size) == low + ((o - low) % size)

-----------------------------------------------------------------------------
(* changeInfBuf, for the voxels of a set one after the other, on a map     *)
(* [occupied, inflate, reset].                                             *)

Map == [occupied |-> occupied, inflate |-> inflate, reset |-> was_reset]
Occupying(m, X) == [m EXCEPT !.occupied = X]

Inflated(v) == {InfBufIdx(Plus(v, k)) : k \in Near}
Count(V, d) == Cardinality({v \in V : d \in Inflated(v)})
FlagAt(V, d) == IF \E v \in V : d = InfBufIdx(v) THEN Flag ELSE 0

Raise(m, V) ==
  [m EXCEPT !.inflate = [d \in InfBuffer |-> (m.inflate[d] + FlagAt(V, d) + Count(V, d)) % Word]]

\* A count that would become negative empties the whole map.
Unflagged(m, V, d) == (m.inflate[d] - FlagAt(V, d)) % Word
Negative(m, V) ==
  \E d \in InfBuffer :
    Count(V, d) > 0 /\ (Unflagged(m, V, d) < Count(V, d) \/ Unflagged(m, V, d) > Error + 1)
Emptied == [occupied |-> {}, inflate |-> [d \in InfBuffer |-> 0], reset |-> TRUE]
Lower(m, V) ==
  IF Negative(m, V)
    THEN Emptied
    ELSE [m EXCEPT !.inflate = [d \in InfBuffer |-> Unflagged(m, V, d) - Count(V, d)]]

-----------------------------------------------------------------------------
\* clearBuffer, called for every axis along which the centre moves to n: the
\* rows that leave the window and the first one that stays.  (A jump wider than
\* the window visits rows again, which finds them cleared.)
LeavesMutant(v, n) ==
  \E a \in Axes : \/ n[a] < center[a] /\ v[a] > UpBound(n)[a] + 1
                  \/ n[a] > center[a] /\ v[a] < LowBound(n)[a]
Leaves(v, n) ==
  \E a \in Axes : \/ n[a] < center[a] /\ v[a] >= UpBound(n)[a]
                  \/ n[a] > center[a] /\ v[a] <= LowBound(n)[a]

Leaving(n) == {v \in Window(center) : have_initialized /\ Leaves(v, n)}

Cleared(n) ==
  Lower(Occupying(Map, occupied \ {BufIdx(v) : v \in Leaving(n)}),
        {v \in Leaving(n) : inflate[InfBufIdx(v)] > Flag})

\* The rest of moveRingBuffer and, the first time, initMapBoundary.  The origins
\* are brought into the window that is left, not into the new one.
MoveTo(n) ==
  LET c == IF have_initialized THEN center ELSE n
  IN  /\ origin' = [a \in Axes |-> BringInto(origin[a], LowBound(c)[a], Size)]
      /\ inf_origin' = [a \in Axes |-> BringInto(inf_origin[a], InfLowBound(c)[a], InfSize)]
      /\ previous' = c
      /\ center' = n
      /\ have_initialized' = TRUE

Becomes(m) ==
  /\ occupied' = m.occupied
  /\ inflate' = m.inflate
  /\ was_reset' = m.reset

\* isInBuf of a position counts the upper faces of the window as inside, but
\* the voxels there lie one row beyond it.
InBuf(n) == {Plus(LowBound(n), d) : d \in [Axes -> 0 .. Size]}
Touched(n) == {V \in SUBSET InBuf(n) : Cardinality(V) <= MaxTouched}

\* cloudCallback: every point inside is occupied from now on.
CloudCallback(n) ==
  \E V \in Touched(n) :
    LET m == Cleared(n)
        hit == Occupying(m, m.occupied \cup {BufIdx(v) : v \in V})
    IN  /\ Becomes(Raise(hit, {v \in V : m.inflate[InfBufIdx(v)] < Flag}))
        /\ MoveTo(n)
        /\ strayed' = (strayed \/ ~(V \subseteq Window(n)))

\* updateOccupancyCallback with raycastProcess and clearAndInflateLocalMap: of
\* the voxels the rays touch, those in Hit end above the threshold.
Fused(n, V, Hit) ==
  LET m == Cleared(n)
      seen == Occupying(m, (m.occupied \ {BufIdx(v) : v \in V}) \cup {BufIdx(v) : v \in Hit})
      above == {v \in V : BufIdx(v) \in seen.occupied}
      marked == {v \in V : m.inflate[InfBufIdx(v)] >= Flag}
  IN  Lower(Raise(seen, above \ marked), marked \ above)

UpdateOccupancyCallback(n) ==
  \E V \in Touched(n) : \E Hit \in SUBSET V :
    /\ Becomes(Fused(n, V, Hit))
    /\ MoveTo(n)
    /\ strayed' = (strayed \/ ~(V \subseteq Window(n)))

\* fadingCallback: an old obstacle falls below the threshold.  Several in one
\* call are as many calls in a row.
FadingCallback ==
  \E d \in occupied :
    /\ Becomes(Lower(Occupying(Map, occupied \ {d}), {BufIdx2GlobalIdx(d)}))
    /\ strayed' = (strayed \/ BufIdx2GlobalIdx(d) \notin Window(center))
    /\ UNCHANGED <<have_initialized, center, origin, inf_origin, previous>>

Next ==
  \/ \E n \in Centers : CloudCallback(n) \/ UpdateOccupancyCallback(n)
  \/ FadingCallback

Spec == Init /\ [][Next]_vars

-----------------------------------------------------------------------------
(* Properties.                                                             *)

\* Every variable keeps the type its C++ member has.
TypeOK ==
  /\ have_initialized \in BOOLEAN /\ strayed \in BOOLEAN /\ was_reset \in BOOLEAN
  /\ center \in Voxels /\ origin \in Voxels /\ inf_origin \in Voxels /\ previous \in Voxels
  /\ occupied \subseteq Buffer
  /\ inflate \in [InfBuffer -> 0 .. Word - 1]

\* However the window has moved, both buffers describe the same obstacles: what
\* is read for any voxel is the number of occupied voxels of the window around
\* it, plus the flag if it is occupied itself.  Nothing that left the window is
\* counted and no count became negative (changeInfBuf's "error case"), unless a
\* point on the upper face of the window or a fading obstacle was booked on the
\* wrong voxel.
Obstacles == {v \in Window(center) : BufIdx(v) \in occupied}
InflationExact ==
  ~strayed =>
    /\ ~was_reset
    /\ \A w \in InfWindow(center) :
         inflate[InfBufIdx(w)] =
           (IF w \in Obstacles THEN Flag ELSE 0)
           + Cardinality({v \in Obstacles : \E k \in Near : w = Plus(v, k)})

\* getInflatedOccupiedPoints without virtual walls.
InflatedOccupiedPoints ==
  {InfBufIdx2GlobalIdx(d) : d \in {d \in InfBuffer : inflate[d] # 0}} \cap InfWindow(center)

\* The origins lag one update behind, but a drone that has not left its voxel
\* since the update before the last reads right: fading finds the obstacle
\* itself, and the list of inflated voxels handed to the planner is complete.
SettledIsExact ==
  have_initialized /\ previous = center =>
    /\ \A v \in Window(center) : BufIdx2GlobalIdx(BufIdx(v)) = v
    /\ InflatedOccupiedPoints = {w \in InfWindow(center) : inflate[InfBufIdx(w)] # 0}

\* Without rings: an obstacle stays at the place in the world where it was seen until it
\* is seen free, fades, or is left behind by the window, and there is none that no
\* message reported, however the addresses wrap around, until a point or an obstacle is
\* booked on the voxel of another place.
World == INSTANCE ObstacleMap WITH obstacles <- Obstacles, broken <- strayed
ImplementsObstacleMap == World!Spec

\* changeInfBuf calls a negative number of nearby obstacles an error case: it
\* never happens.
NeverNegative == ~was_reset
=============================================================================
