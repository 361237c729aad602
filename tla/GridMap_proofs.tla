---------------------------- MODULE GridMap_proofs ----------------------------
(***************************************************************************)
(* Theorems about GridMap for any number of axes, any range and inflation  *)
(* and any flight.  The map is exact because a residue names a voxel of    *)
(* the window uniquely, moving keeps the residues, and every message adds  *)
(* or removes whole voxels, so that what is stored is always the Exact map *)
(* of the obstacles in the window.                                         *)
(***************************************************************************)
EXTENDS GridMap, FiniteSetTheorems, TLAPS

LEMMA Lengths ==
  /\ Size \in Nat \ {0} /\ InfSize \in Nat \ {0} /\ UpdateRange \in Nat \ {0} /\ InfGrid \in Nat
  /\ Size = 2 * UpdateRange /\ InfSize = Size + 2 * InfGrid
BY GridAssumption DEF Size, InfSize

-----------------------------------------------------------------------------
(* Residues.                                                               *)

LEMMA ModRange ==
  ASSUME NEW n \in Nat \ {0}, NEW a \in Int
  PROVE  a % n \in 0 .. n - 1
OBVIOUS

LEMMA ModSmall ==
  ASSUME NEW n \in Nat \ {0}, NEW a \in 0 .. n - 1
  PROVE  a % n = a
OBVIOUS

LEMMA ModShift ==
  ASSUME NEW n \in Nat \ {0}, NEW q \in Int, NEW r \in 0 .. n - 1
  PROVE  (n * q + r) % n = r
OBVIOUS

LEMMA ModDiv ==
  ASSUME NEW n \in Nat \ {0}, NEW a \in Int
  PROVE  a \div n \in Int /\ a = n * (a \div n) + (a % n)
OBVIOUS

LEMMA ModAdd ==
  ASSUME NEW n \in Nat \ {0}, NEW a \in Int, NEW q \in Int
  PROVE  (a + n * q) % n = a % n
<1> DEFINE p == a \div n
           r == a % n
<1>1. p \in Int /\ r \in 0 .. n - 1 /\ a = n * p + r
  BY ModDiv, ModRange
<1> HIDE DEF p, r
<1>2. n * p + n * q = n * (p + q)
  BY <1>1
<1>3. a + n * q = n * (p + q) + r
  BY <1>1, <1>2
<1>4. (n * (p + q) + r) % n = r
  BY <1>1, ModShift
<1> QED
  BY <1>3, <1>4 DEF r

LEMMA ModUnique ==
  ASSUME NEW n \in Nat \ {0}, NEW a \in Int, NEW b \in Int,
         a % n = b % n, a - b < n, b - a < n
  PROVE  a = b
<1> DEFINE p == a \div n
           q == b \div n
           r == a % n
<1>1. /\ p \in Int /\ q \in Int /\ r \in Int
      /\ a = n * p + r /\ b = n * q + r
  BY ModDiv, ModRange
<1> HIDE DEF p, q, r
<1>2. n * p - n * q = n * (p - q) /\ n * q - n * p = n * (q - p)
  BY <1>1
<1>3. n * (p - q) < n /\ n * (q - p) < n
  BY <1>1, <1>2
<1>4. p - q >= 1 => n * (p - q) >= n
  BY <1>1
<1>5. q - p >= 1 => n * (q - p) >= n
  BY <1>1
<1>6. p = q
  BY <1>1, <1>3, <1>4, <1>5
<1> QED
  BY <1>1, <1>6

\* Two numbers less than a length apart with the same residue relative to an origin.
LEMMA AddressUnique ==
  ASSUME NEW n \in Nat \ {0}, NEW o \in Int, NEW v \in Int, NEW w \in Int,
         (v - o) % n = (w - o) % n, v - w < n, w - v < n
  PROVE  v = w
<1>1. v - o \in Int /\ w - o \in Int /\ (v - o) - (w - o) < n /\ (w - o) - (v - o) < n
  OBVIOUS
<1>2. v - o = w - o
  BY <1>1, ModUnique
<1> QED
  BY <1>2

\* An origin brought into a window lies in it, and gives the addresses it gave before.
LEMMA BroughtInto ==
  ASSUME NEW n \in Nat \ {0}, NEW o \in Int, NEW low \in Int
  PROVE  /\ BringInto(o, low, n) \in low .. low + n - 1
         /\ \A v \in Int : (v - BringInto(o, low, n)) % n = (v - o) % n
<1> DEFINE r == (o - low) % n
           q == (o - low) \div n
<1>1. r \in 0 .. n - 1 /\ q \in Int /\ o - low = n * q + r
  BY ModDiv, ModRange
<1>2. BringInto(o, low, n) = low + r
  BY DEF BringInto
<1> HIDE DEF r, q
<1>3. ASSUME NEW v \in Int
      PROVE  (v - (low + r)) % n = (v - o) % n
  <2> DEFINE x == v - o
  <2>1. x \in Int /\ v - (low + r) = x + n * q
    BY <1>1
  <2> HIDE DEF x
  <2>2. (x + n * q) % n = x % n
    BY <1>1, <2>1, ModAdd
  <2> QED
    BY <2>1, <2>2 DEF x
<1> QED
  BY <1>1, <1>2, <1>3

\* From an address back to the number, when the origin lies in the same window.
LEMMA Unwrapped ==
  ASSUME NEW n \in Nat \ {0}, NEW low \in Int, NEW o \in low .. low + n - 1,
         NEW v \in low .. low + n - 1
  PROVE  Unwrap(((v - o) % n) + o, low + n - 1, n) = v
<1>1. CASE v >= o
  <2>1. (v - o) % n = v - o
    BY <1>1, ModSmall
  <2> QED
    BY <2>1 DEF Unwrap
<1>2. CASE v < o
  <2>1. v - o + n \in 0 .. n - 1
    BY <1>2
  <2> DEFINE x == v - o
             q == 1
  <2>2. x \in Int /\ q \in Int /\ n * q = n
    OBVIOUS
  <2>3. x + n \in 0 .. n - 1
    BY <2>1
  <2> HIDE DEF x, q
  <2>4. (x + n * q) % n = x % n
    BY <2>2, ModAdd
  <2>6. (x + n) % n = x + n
    BY <2>3, ModSmall
  <2>5. (v - o) % n = v - o + n
    BY <2>2, <2>4, <2>6 DEF x
  <2> QED
    BY <2>5, <1>2 DEF Unwrap
<1> QED
  BY <1>1, <1>2

\* Whatever the origin, the number an address is turned into has that address.
LEMMA UnwrapKeepsAddress ==
  ASSUME NEW n \in Nat \ {0}, NEW o \in Int, NEW up \in Int, NEW d \in 0 .. n - 1
  PROVE  /\ Unwrap(d + o, up, n) \in Int
         /\ (Unwrap(d + o, up, n) - o) % n = d
<1> DEFINE q == -1
<1>0. d \in Int /\ q \in Int /\ n * q = -n
  OBVIOUS
<1> HIDE DEF q
<1>1. d % n = d
  BY ModSmall
<1>2. (d + n * q) % n = d % n
  BY <1>0, ModAdd
<1>3. (d + o) - o = d /\ ((d + o) - n) - o = d + n * q
  BY <1>0
<1> QED
  BY <1>1, <1>2, <1>3 DEF Unwrap

-----------------------------------------------------------------------------
(* The window and its addresses.                                           *)

Placed == center \in Voxels /\ origin \in Voxels /\ inf_origin \in Voxels

LEMMA InWindow ==
  ASSUME NEW c \in Voxels, NEW w
  PROVE  w \in Window(c) <=>
           w \in Voxels /\ \A a \in Axes : w[a] \in LowBound(c)[a] .. LowBound(c)[a] + Size - 1
<1>1. ASSUME w \in Window(c)
      PROVE  w \in Voxels /\ \A a \in Axes : w[a] \in LowBound(c)[a] .. LowBound(c)[a] + Size - 1
  <2>1. PICK d \in Buffer : w = Plus(LowBound(c), d)
    BY <1>1 DEF Window
  <2> QED
    BY <2>1, Lengths DEF Buffer, Plus, LowBound, Shift, Voxels
<1>2. ASSUME w \in Voxels, \A a \in Axes : w[a] \in LowBound(c)[a] .. LowBound(c)[a] + Size - 1
      PROVE  w \in Window(c)
  <2> DEFINE d == [a \in Axes |-> w[a] - LowBound(c)[a]]
  <2>1. \A a \in Axes : LowBound(c)[a] \in Int /\ w[a] \in Int
    BY <1>2, Lengths DEF LowBound, Shift, Voxels
  <2>2. d \in Buffer
    BY <1>2, <2>1, Lengths DEF Buffer
  <2>3. w = Plus(LowBound(c), d)
    BY <1>2, <2>1 DEF Plus, Voxels
  <2> QED
    BY <2>2, <2>3 DEF Window
<1> QED
  BY <1>1, <1>2

LEMMA InInfWindow ==
  ASSUME NEW c \in Voxels, NEW w
  PROVE  w \in InfWindow(c) <=>
           w \in Voxels /\ \A a \in Axes :
             w[a] \in InfLowBound(c)[a] .. InfLowBound(c)[a] + InfSize - 1
<1>1. ASSUME w \in InfWindow(c)
      PROVE  w \in Voxels /\ \A a \in Axes :
               w[a] \in InfLowBound(c)[a] .. InfLowBound(c)[a] + InfSize - 1
  <2>1. PICK d \in InfBuffer : w = Plus(InfLowBound(c), d)
    BY <1>1 DEF InfWindow
  <2> QED
    BY <2>1, Lengths DEF InfBuffer, Plus, InfLowBound, Shift, Voxels
<1>2. ASSUME w \in Voxels,
             \A a \in Axes : w[a] \in InfLowBound(c)[a] .. InfLowBound(c)[a] + InfSize - 1
      PROVE  w \in InfWindow(c)
  <2> DEFINE d == [a \in Axes |-> w[a] - InfLowBound(c)[a]]
  <2>1. \A a \in Axes : InfLowBound(c)[a] \in Int /\ w[a] \in Int
    BY <1>2, Lengths DEF InfLowBound, Shift, Voxels
  <2>2. d \in InfBuffer
    BY <1>2, <2>1, Lengths DEF InfBuffer
  <2>3. w = Plus(InfLowBound(c), d)
    BY <1>2, <2>1 DEF Plus, Voxels
  <2> QED
    BY <2>2, <2>3 DEF InfWindow
<1> QED
  BY <1>1, <1>2

LEMMA Bounds ==
  ASSUME NEW c \in Voxels
  PROVE  /\ LowBound(c) \in Voxels /\ InfLowBound(c) \in Voxels
         /\ \A a \in Axes : /\ UpBound(c)[a] = LowBound(c)[a] + Size - 1
                            /\ InfUpBound(c)[a] = InfLowBound(c)[a] + InfSize - 1
                            /\ InfLowBound(c)[a] = LowBound(c)[a] - InfGrid
BY Lengths DEF LowBound, UpBound, InfLowBound, InfUpBound, Shift, Voxels

LEMMA Addresses ==
  ASSUME Placed, NEW v \in Voxels
  PROVE  BufIdx(v) \in Buffer /\ InfBufIdx(v) \in InfBuffer
<1>1. \A a \in Axes : v[a] - origin[a] \in Int /\ v[a] - inf_origin[a] \in Int
  BY DEF Placed, Voxels
<1>2. \A a \in Axes : /\ (v[a] - origin[a]) % Size \in 0 .. Size - 1
                      /\ (v[a] - inf_origin[a]) % InfSize \in 0 .. InfSize - 1
  BY <1>1, ModRange, Lengths
<1> QED
  BY <1>2 DEF BufIdx, InfBufIdx, Buffer, InfBuffer

\* No two voxels of a window share an address.
LEMMA BufIdxUnique ==
  ASSUME Placed, NEW c \in Voxels, NEW v \in Window(c), NEW w \in Window(c),
         BufIdx(v) = BufIdx(w)
  PROVE  v = w
<1>1. v \in Voxels /\ w \in Voxels
  BY InWindow
<1>2. ASSUME NEW a \in Axes PROVE v[a] = w[a]
  <2>1. (v[a] - origin[a]) % Size = (w[a] - origin[a]) % Size
    BY <1>2 DEF BufIdx
  <2>2. /\ v[a] \in Int /\ w[a] \in Int /\ origin[a] \in Int
        /\ v[a] - w[a] < Size /\ w[a] - v[a] < Size
    BY <1>1, <1>2, InWindow, Bounds, Lengths DEF Placed, Voxels
  <2> QED
    BY <2>1, <2>2, AddressUnique, Lengths
<1> QED
  BY <1>1, <1>2 DEF Voxels

LEMMA InfBufIdxUnique ==
  ASSUME Placed, NEW c \in Voxels, NEW v \in InfWindow(c), NEW w \in InfWindow(c),
         InfBufIdx(v) = InfBufIdx(w)
  PROVE  v = w
<1>1. v \in Voxels /\ w \in Voxels
  BY InInfWindow
<1>2. ASSUME NEW a \in Axes PROVE v[a] = w[a]
  <2>1. (v[a] - inf_origin[a]) % InfSize = (w[a] - inf_origin[a]) % InfSize
    BY <1>2 DEF InfBufIdx
  <2>2. /\ v[a] \in Int /\ w[a] \in Int /\ inf_origin[a] \in Int
        /\ v[a] - w[a] < InfSize /\ w[a] - v[a] < InfSize
    BY <1>1, <1>2, InInfWindow, Bounds, Lengths DEF Placed, Voxels
  <2> QED
    BY <2>1, <2>2, AddressUnique, Lengths
<1> QED
  BY <1>1, <1>2 DEF Voxels

\* What is within the inflation radius of the window is within the wider one.
LEMMA NearInside ==
  ASSUME NEW c \in Voxels, NEW v \in Window(c), NEW k \in Near
  PROVE  Plus(v, k) \in InfWindow(c)
<1>1. v \in Voxels /\ \A a \in Axes : v[a] \in LowBound(c)[a] .. LowBound(c)[a] + Size - 1
  BY InWindow
<1>2. Plus(v, k) \in Voxels
  BY <1>1, Lengths DEF Near, Plus, Voxels
<1>3. ASSUME NEW a \in Axes
      PROVE  Plus(v, k)[a] \in InfLowBound(c)[a] .. InfLowBound(c)[a] + InfSize - 1
  <2>1. k[a] \in -InfGrid .. InfGrid /\ Plus(v, k)[a] = v[a] + k[a]
    BY DEF Near, Plus
  <2>2. LowBound(c)[a] \in Int /\ InfLowBound(c)[a] = LowBound(c)[a] - InfGrid
    BY Bounds DEF Voxels
  <2> QED
    BY <1>1, <2>1, <2>2, Lengths
<1> QED
  BY <1>2, <1>3, InInfWindow

\* The voxel itself is one of those around it.
LEMMA NearSelf ==
  ASSUME NEW v \in Voxels
  PROVE  \E k \in Near : v = Plus(v, k)
<1> DEFINE k == [a \in Axes |-> 0]
<1>1. k \in Near
  BY Lengths DEF Near
<1>2. v = Plus(v, k)
  BY DEF Plus, Voxels
<1> QED
  BY <1>1, <1>2

LEMMA WindowInside ==
  ASSUME NEW c \in Voxels
  PROVE  Window(c) \subseteq InfWindow(c) /\ Window(c) \subseteq Voxels
BY NearSelf, NearInside, InWindow

\* Every address belongs to a voxel of every window.
LEMMA Represented ==
  ASSUME Placed, NEW c \in Voxels, NEW v \in Voxels
  PROVE  \E w \in Window(c) : BufIdx(w) = BufIdx(v)
<1> DEFINE low(a) == LowBound(c)[a]
           w == [a \in Axes |-> BringInto(v[a], low(a), Size)]
<1>1. \A a \in Axes : low(a) \in Int /\ v[a] \in Int /\ origin[a] \in Int
  BY Bounds DEF Voxels, Placed
<1>2. ASSUME NEW a \in Axes
      PROVE  /\ BringInto(v[a], low(a), Size) \in low(a) .. low(a) + Size - 1
             /\ (BringInto(v[a], low(a), Size) - origin[a]) % Size = (v[a] - origin[a]) % Size
  <2> DEFINE b == BringInto(v[a], low(a), Size)
             y == v[a] - low(a)
             q == y \div Size
             r == y % Size
  <2>1. b \in low(a) .. low(a) + Size - 1
    BY <1>1, BroughtInto, Lengths
  <2>2. b = low(a) + r
    BY DEF BringInto
  <2>3. y \in Int
    BY <1>1
  <2> HIDE DEF y
  <2>4. q \in Int /\ r \in Int /\ y = Size * q + r
    <3>1. Size \in Nat \ {0}
      BY Lengths
    <3>2. q \in Int /\ y = Size * q + r
      BY <2>3, <3>1, ModDiv
    <3>3. r \in 0 .. Size - 1
      BY <2>3, <3>1, ModRange
    <3> QED
      BY <3>1, <3>2, <3>3
  <2> DEFINE x == b - origin[a]
  <2> HIDE DEF b, q, r, low
  <2>5. x \in Int /\ x + Size * q = v[a] - origin[a]
    BY <1>1, <2>1, <2>2, <2>4, Lengths DEF y
  <2> HIDE DEF x
  <2>6. (x + Size * q) % Size = x % Size
    BY <2>4, <2>5, ModAdd, Lengths
  <2> QED
    BY <2>1, <2>5, <2>6 DEF b, x
<1> HIDE DEF low
<1>3. w \in Voxels /\ \A a \in Axes : w[a] \in LowBound(c)[a] .. LowBound(c)[a] + Size - 1
  BY <1>1, <1>2, Lengths DEF Voxels, low
<1>4. BufIdx(w) = BufIdx(v)
  BY <1>2 DEF BufIdx
<1> HIDE DEF w
<1> QED
  BY <1>3, <1>4, InWindow

\* The voxel an address is turned into has that address.
LEMMA IndexBack ==
  ASSUME Placed
  PROVE  /\ \A d \in Buffer : BufIdx2GlobalIdx(d) \in Voxels /\ BufIdx(BufIdx2GlobalIdx(d)) = d
         /\ \A d \in InfBuffer :
              InfBufIdx2GlobalIdx(d) \in Voxels /\ InfBufIdx(InfBufIdx2GlobalIdx(d)) = d
<1>1. \A a \in Axes : /\ origin[a] \in Int /\ inf_origin[a] \in Int
                      /\ UpBound(center)[a] \in Int /\ InfUpBound(center)[a] \in Int
  BY Lengths DEF Placed, Voxels, UpBound, InfUpBound, Shift
<1>2. ASSUME NEW d \in Buffer
      PROVE  BufIdx2GlobalIdx(d) \in Voxels /\ BufIdx(BufIdx2GlobalIdx(d)) = d
  <2>1. ASSUME NEW a \in Axes
        PROVE  /\ Unwrap(d[a] + origin[a], UpBound(center)[a], Size) \in Int
               /\ (Unwrap(d[a] + origin[a], UpBound(center)[a], Size) - origin[a]) % Size = d[a]
    <3>1. d[a] \in 0 .. Size - 1
      BY DEF Buffer
    <3> QED
      BY <1>1, <3>1, UnwrapKeepsAddress, Lengths
  <2> QED
    BY <2>1 DEF BufIdx2GlobalIdx, BufIdx, Voxels, Buffer
<1>3. ASSUME NEW d \in InfBuffer
      PROVE  InfBufIdx2GlobalIdx(d) \in Voxels /\ InfBufIdx(InfBufIdx2GlobalIdx(d)) = d
  <2>1. ASSUME NEW a \in Axes
        PROVE  /\ Unwrap(d[a] + inf_origin[a], InfUpBound(center)[a], InfSize) \in Int
               /\ (Unwrap(d[a] + inf_origin[a], InfUpBound(center)[a], InfSize) - inf_origin[a]) % InfSize = d[a]
    <3>1. d[a] \in 0 .. InfSize - 1
      BY DEF InfBuffer
    <3> QED
      BY <1>1, <3>1, UnwrapKeepsAddress, Lengths
  <2> QED
    BY <2>1 DEF InfBufIdx2GlobalIdx, InfBufIdx, Voxels, InfBuffer
<1> QED
  BY <1>2, <1>3

-----------------------------------------------------------------------------
(* Counting.                                                               *)

LEMMA InBufFinite ==
  ASSUME NEW c \in Voxels
  PROVE  IsFiniteSet(InBuf(c)) /\ IsFiniteSet(Window(c)) /\ InBuf(c) \subseteq Voxels
<1> DEFINE Box == [Axes -> 0 .. Size]
           f == [w \in InBuf(c) |-> [a \in Axes |-> w[a] - LowBound(c)[a]]]
<1>1. LowBound(c) \in Voxels
  BY Bounds
<1>2. ASSUME NEW d \in Box
      PROVE  /\ Plus(LowBound(c), d) \in Voxels
             /\ d = [a \in Axes |-> Plus(LowBound(c), d)[a] - LowBound(c)[a]]
  BY <1>1, Lengths DEF Plus, Voxels
<1>3. f \in [InBuf(c) -> Box]
  BY <1>2 DEF InBuf
<1>4. \A v, w \in InBuf(c) : f[v] = f[w] => v = w
  BY <1>2 DEF InBuf
<1>5. f \in Injection(InBuf(c), Box)
  BY <1>3, <1>4 DEF Injection, IsInjective
<1>6. IsFiniteSet(Box)
  BY GridAssumption
<1> HIDE DEF f, Box
<1>7. IsFiniteSet(InBuf(c))
  BY <1>5, <1>6, FS_Injection
<1>8. Window(c) \in SUBSET InBuf(c)
  BY Lengths DEF Window, InBuf, Buffer
<1>9. InBuf(c) \subseteq Voxels
  BY <1>2 DEF InBuf, Box
<1> QED
  BY <1>7, <1>8, <1>9, FS_Subset

\* The voxels of V that d is within the inflation radius of.
About(V, d) == {v \in V : d \in Inflated(v)}

LEMMA CountNat ==
  ASSUME NEW V, IsFiniteSet(V), NEW d
  PROVE  /\ IsFiniteSet(About(V, d)) /\ Count(V, d) = Cardinality(About(V, d))
         /\ Count(V, d) \in Nat
         /\ Count(V, d) = 0 <=> About(V, d) = {}
<1>1. About(V, d) \in SUBSET V
  BY DEF About
<1>2. IsFiniteSet(About(V, d))
  BY <1>1, FS_Subset
<1>3. Count(V, d) = Cardinality(About(V, d))
  BY DEF About, Count
<1> QED
  BY <1>2, <1>3, FS_CardinalityType, FS_EmptySet

LEMMA CountJoin ==
  ASSUME NEW V, IsFiniteSet(V), NEW W, IsFiniteSet(W), V \cap W = {}, NEW d
  PROVE  Count(V \cup W, d) = Count(V, d) + Count(W, d)
<1>1. /\ IsFiniteSet(About(V, d)) /\ IsFiniteSet(About(W, d))
      /\ Count(V, d) = Cardinality(About(V, d)) /\ Count(W, d) = Cardinality(About(W, d))
  BY CountNat
<1>2. About(V \cup W, d) = About(V, d) \cup About(W, d) /\ About(V, d) \cap About(W, d) = {}
  BY DEF About
<1>3. Count(V \cup W, d) = Cardinality(About(V \cup W, d))
  BY DEF Count, About
<1>4. Cardinality(About(V, d)) \in Nat /\ Cardinality(About(W, d)) \in Nat
  BY <1>1, FS_CardinalityType
<1>5. Cardinality(About(V, d) \cup About(W, d)) =
        Cardinality(About(V, d)) + Cardinality(About(W, d)) - Cardinality(About(V, d) \cap About(W, d))
  BY <1>1, FS_Union
<1>6. /\ Count(V \cup W, d) = Cardinality(About(V, d) \cup About(W, d))
      /\ Cardinality(About(V, d) \cap About(W, d)) = 0
  BY <1>2, <1>3, FS_EmptySet, Zenon
<1> QED
  BY <1>1, <1>4, <1>5, <1>6

LEMMA CountLess ==
  ASSUME NEW V, IsFiniteSet(V), NEW W, W \subseteq V, NEW d
  PROVE  Count(V \ W, d) = Count(V, d) - Count(W, d) /\ Count(W, d) <= Count(V, d)
<1>1. IsFiniteSet(W) /\ IsFiniteSet(V \ W)
  BY FS_Subset
<1>2. (V \ W) \cup W = V /\ (V \ W) \cap W = {}
  OBVIOUS
<1>3. Count((V \ W) \cup W, d) = Count(V \ W, d) + Count(W, d)
  BY <1>1, <1>2, CountJoin
<1>4. Count(V \ W, d) \in Nat /\ Count(W, d) \in Nat
  BY <1>1, CountNat
<1>5. Count(V, d) = Count(V \ W, d) + Count(W, d)
  BY <1>2, <1>3, Zenon
<1> QED
  BY <1>4, <1>5

\* No voxel is within the radius of more obstacles of a window than its own
\* neighbourhood holds, so that a count never reaches the flag.
LEMMA CountBounded ==
  ASSUME Placed, NEW c \in Voxels, NEW O, O \subseteq Window(c), NEW d
  PROVE  Count(O, d) \in Nat /\ Count(O, d) <= Cardinality(Near)
<1>1. IsFiniteSet(O)
  BY InBufFinite, FS_Subset
<1> DEFINE near(v) == CHOOSE k \in Near : d = InfBufIdx(Plus(v, k))
           f == [v \in About(O, d) |-> near(v)]
<1>2. ASSUME NEW v \in About(O, d)
      PROVE  near(v) \in Near /\ d = InfBufIdx(Plus(v, near(v)))
  BY DEF About, Inflated
<1> HIDE DEF near
<1>3. ASSUME NEW v \in About(O, d), NEW w \in About(O, d), near(v) = near(w)
      PROVE  v = w
  <2>1. v \in Window(c) /\ w \in Window(c)
    BY DEF About
  <2>2. Plus(v, near(v)) \in InfWindow(c) /\ Plus(w, near(v)) \in InfWindow(c)
    BY <1>2, <1>3, <2>1, NearInside
  <2>3. Plus(v, near(v)) = Plus(w, near(v))
    BY <1>2, <1>3, <2>2, InfBufIdxUnique
  <2>4. v \in Voxels /\ w \in Voxels /\ \A a \in Axes : near(v)[a] \in Int
    BY <1>2, <2>1, InWindow, Lengths DEF Near
  <2>5. ASSUME NEW a \in Axes PROVE v[a] = w[a]
    <3>1. Plus(v, near(v))[a] = v[a] + near(v)[a] /\ Plus(w, near(v))[a] = w[a] + near(v)[a]
      BY DEF Plus
    <3>2. v[a] \in Int /\ w[a] \in Int /\ near(v)[a] \in Int
      BY <2>4 DEF Voxels
    <3>3. Plus(v, near(v))[a] = Plus(w, near(v))[a]
      BY <2>3, Zenon
    <3>4. v[a] + near(v)[a] = w[a] + near(v)[a]
      BY <3>1, <3>3, Zenon
    <3> DEFINE i == near(v)[a]
    <3> HIDE DEF i
    <3> QED
      BY <3>2, <3>4 DEF i
  <2> QED
    BY <2>4, <2>5 DEF Voxels
<1>4. f \in Injection(About(O, d), Near)
  BY <1>2, <1>3 DEF Injection, IsInjective
<1> HIDE DEF f
<1>5. Cardinality(About(O, d)) <= Cardinality(Near)
  BY <1>4, FS_Injection, GridAssumption
<1> QED
  BY <1>1, <1>5, CountNat

LEMMA Constants ==
  /\ Flag \in Nat /\ Error \in Nat /\ Word \in Nat /\ Cardinality(Near) \in Nat
  /\ Cardinality(Near) < Flag /\ Flag + Cardinality(Near) <= Error /\ Error < Word
  /\ Word \in Nat \ {0}
<1>1. Cardinality(Near) \in Nat
  BY FS_CardinalityType, GridAssumption
<1> QED
  BY <1>1, GridAssumption

LEMMA FlagType ==
  ASSUME NEW V, NEW d
  PROVE  FlagAt(V, d) \in {0, Flag} /\ FlagAt(V, d) \in Nat
BY Constants DEF FlagAt

\* In a window a flag is the flag of one voxel.
LEMMA FlagSplit ==
  ASSUME Placed, NEW c \in Voxels, NEW V, NEW W, V \subseteq Window(c), W \subseteq Window(c),
         V \cap W = {}, NEW d
  PROVE  FlagAt(V \cup W, d) = FlagAt(V, d) + FlagAt(W, d)
<1>1. ASSUME NEW v \in V, NEW w \in W, d = InfBufIdx(v), d = InfBufIdx(w)
      PROVE  FALSE
  BY <1>1, WindowInside, InfBufIdxUnique
<1> QED
  BY <1>1, Constants DEF FlagAt

LEMMA FlagLess ==
  ASSUME Placed, NEW c \in Voxels, NEW V, NEW W, V \subseteq Window(c), W \subseteq V, NEW d
  PROVE  FlagAt(V \ W, d) = FlagAt(V, d) - FlagAt(W, d)
<1>1. (V \ W) \cup W = V /\ (V \ W) \cap W = {} /\ V \ W \subseteq Window(c) /\ W \subseteq Window(c)
  OBVIOUS
<1>2. FlagAt((V \ W) \cup W, d) = FlagAt(V \ W, d) + FlagAt(W, d)
  BY <1>1, FlagSplit
<1>3. FlagAt(V, d) = FlagAt(V \ W, d) + FlagAt(W, d)
  BY <1>1, <1>2, Zenon
<1> QED
  BY <1>3, FlagType

-----------------------------------------------------------------------------
(* The map of a set of obstacles.                                          *)

Exact(X, O) ==
  [occupied |-> X, inflate |-> [d \in InfBuffer |-> FlagAt(O, d) + Count(O, d)], reset |-> was_reset]

LEMMA OccupyingRecord ==
  ASSUME NEW X, NEW Y, NEW I, NEW R
  PROVE  /\ Occupying([occupied |-> Y, inflate |-> I, reset |-> R], X)
               = [occupied |-> X, inflate |-> I, reset |-> R]
         /\ [occupied |-> Y, inflate |-> I, reset |-> R].occupied = Y
BY SMT DEF Occupying

LEMMA ExactOccupied ==
  ASSUME NEW X, NEW Y, NEW O
  PROVE  Exact(Y, O).occupied = Y /\ Occupying(Exact(Y, O), X) = Exact(X, O)
<1> DEFINE I == [d \in InfBuffer |-> FlagAt(O, d) + Count(O, d)]
<1> HIDE DEF I
<1>1. /\ Exact(Y, O) = [occupied |-> Y, inflate |-> I, reset |-> was_reset]
      /\ Exact(X, O) = [occupied |-> X, inflate |-> I, reset |-> was_reset]
  BY DEF Exact, I
<1> QED
  BY <1>1, OccupyingRecord

LEMMA ExactBounded ==
  ASSUME Placed, NEW c \in Voxels, NEW O, O \subseteq Window(c), NEW d
  PROVE  /\ FlagAt(O, d) + Count(O, d) \in 0 .. Flag + Cardinality(Near)
         /\ FlagAt(O, d) + Count(O, d) \in 0 .. Word - 1
         /\ (FlagAt(O, d) + Count(O, d)) % Word = FlagAt(O, d) + Count(O, d)
<1>1. Count(O, d) \in 0 .. Cardinality(Near) /\ FlagAt(O, d) \in {0, Flag}
  BY CountBounded, FlagType
<1> DEFINE n == FlagAt(O, d) + Count(O, d)
<1>2. n \in 0 .. Flag + Cardinality(Near) /\ n \in 0 .. Word - 1
  BY <1>1, Constants
<1> HIDE DEF n
<1>3. n % Word = n
  BY <1>2, ModSmall, Constants
<1> QED
  BY <1>2, <1>3 DEF n

\* The flag tells the obstacles from what is only near one.
LEMMA FlagTells ==
  ASSUME Placed, NEW c \in Voxels, NEW O, O \subseteq Window(c), NEW v \in Window(c)
  PROVE  LET n == FlagAt(O, InfBufIdx(v)) + Count(O, InfBufIdx(v))
         IN  IF v \in O THEN n > Flag ELSE n < Flag
<1> DEFINE d == InfBufIdx(v)
<1>1. Count(O, d) \in 0 .. Cardinality(Near)
  BY CountBounded
<1>2. IsFiniteSet(O)
  BY InBufFinite, FS_Subset
<1>3. CASE v \in O
  <2>1. FlagAt(O, d) = Flag
    BY <1>3 DEF FlagAt
  <2>2. v \in Voxels
    BY InWindow
  <2>3. PICK k \in Near : v = Plus(v, k)
    BY <2>2, NearSelf
  <2>4. d \in Inflated(v)
    BY <2>3, Zenon DEF Inflated
  <2>5. About(O, d) # {}
    BY <1>3, <2>4 DEF About
  <2>6. Count(O, d) # 0
    BY <1>2, <2>5, CountNat
  <2> QED
    BY <1>1, <1>3, <2>1, <2>6, Constants
<1>4. CASE v \notin O
  <2>1. FlagAt(O, d) = 0
    BY <1>4, WindowInside, InfBufIdxUnique DEF FlagAt
  <2> QED
    BY <1>1, <1>4, <2>1, Constants
<1> QED
  BY <1>3, <1>4

LEMMA RaiseExact ==
  ASSUME Placed, NEW c \in Voxels, NEW X, NEW O, NEW V, O \subseteq Window(c),
         V \subseteq Window(c), O \cap V = {}
  PROVE  Raise(Exact(X, O), V) = Exact(X, O \cup V)
<1>1. IsFiniteSet(O) /\ IsFiniteSet(V) /\ O \cup V \subseteq Window(c)
  BY InBufFinite, FS_Subset
<1>2. ASSUME NEW d \in InfBuffer
      PROVE  (FlagAt(O, d) + Count(O, d) + FlagAt(V, d) + Count(V, d)) % Word
               = FlagAt(O \cup V, d) + Count(O \cup V, d)
  <2>1. FlagAt(O \cup V, d) = FlagAt(O, d) + FlagAt(V, d)
    BY FlagSplit
  <2>2. Count(O \cup V, d) = Count(O, d) + Count(V, d)
    BY <1>1, CountJoin
  <2>3. /\ FlagAt(O, d) \in Nat /\ FlagAt(V, d) \in Nat
        /\ Count(O, d) \in Nat /\ Count(V, d) \in Nat
    BY <1>1, FlagType, CountNat
  <2>4. (FlagAt(O \cup V, d) + Count(O \cup V, d)) % Word = FlagAt(O \cup V, d) + Count(O \cup V, d)
    BY <1>1, ExactBounded
  <2>5. FlagAt(O, d) + Count(O, d) + FlagAt(V, d) + Count(V, d)
          = FlagAt(O \cup V, d) + Count(O \cup V, d)
    BY <2>1, <2>2, <2>3
  <2> QED
    BY <2>4, <2>5, Zenon
<1>3. \A d \in InfBuffer : Exact(X, O).inflate[d] = FlagAt(O, d) + Count(O, d)
  BY DEF Exact
<1>4. ASSUME NEW d \in InfBuffer
      PROVE  (Exact(X, O).inflate[d] + FlagAt(V, d) + Count(V, d)) % Word
               = FlagAt(O \cup V, d) + Count(O \cup V, d)
  BY <1>2, <1>3, Zenon
<1>5. [d \in InfBuffer |-> (Exact(X, O).inflate[d] + FlagAt(V, d) + Count(V, d)) % Word]
        = [d \in InfBuffer |-> FlagAt(O \cup V, d) + Count(O \cup V, d)]
  BY <1>4, Zenon
<1>6. Raise(Exact(X, O), V) =
        [Exact(X, O) EXCEPT !.inflate =
           [d \in InfBuffer |-> FlagAt(O \cup V, d) + Count(O \cup V, d)]]
  BY <1>5, Zenon DEF Raise
<1> QED
  BY <1>6, Zenon DEF Exact

LEMMA LowerExact ==
  ASSUME Placed, NEW c \in Voxels, NEW X, NEW O, NEW V, O \subseteq Window(c), V \subseteq O
  PROVE  Lower(Exact(X, O), V) = Exact(X, O \ V)
<1>1. IsFiniteSet(O) /\ IsFiniteSet(V) /\ IsFiniteSet(O \ V) /\ O \ V \subseteq Window(c)
  BY InBufFinite, FS_Subset
<1>2. ASSUME NEW d \in InfBuffer
      PROVE  /\ Unflagged(Exact(X, O), V, d) = FlagAt(O \ V, d) + Count(O, d)
             /\ Unflagged(Exact(X, O), V, d) - Count(V, d) = FlagAt(O \ V, d) + Count(O \ V, d)
             /\ Unflagged(Exact(X, O), V, d) \in Count(V, d) .. Error
  <2> DEFINE n == FlagAt(O \ V, d) + Count(O, d)
  <2>1. FlagAt(O \ V, d) = FlagAt(O, d) - FlagAt(V, d)
    BY FlagLess
  <2>2. Count(O \ V, d) = Count(O, d) - Count(V, d) /\ Count(V, d) <= Count(O, d)
    BY <1>1, CountLess
  <2>3. /\ FlagAt(O, d) \in Nat /\ FlagAt(V, d) \in Nat /\ FlagAt(O \ V, d) \in {0, Flag}
        /\ Count(O, d) \in 0 .. Cardinality(Near) /\ Count(V, d) \in Nat
    BY <1>1, FlagType, CountNat, CountBounded
  <2>4. n \in 0 .. Flag + Cardinality(Near) /\ n \in 0 .. Word - 1
    BY <2>3, Constants
  <2>5. (FlagAt(O, d) + Count(O, d)) - FlagAt(V, d) = n
    BY <2>1, <2>3
  <2>6. Exact(X, O).inflate[d] = FlagAt(O, d) + Count(O, d)
    BY DEF Exact
  <2> HIDE DEF n
  <2>7. Unflagged(Exact(X, O), V, d) = n % Word
    <3>1. Exact(X, O).inflate[d] - FlagAt(V, d) = n
      BY <2>5, <2>6
    <3> QED
      BY <3>1, Zenon DEF Unflagged
  <2>8. n % Word = n
    BY <2>4, ModSmall, Constants
  <2>9. n - Count(V, d) = FlagAt(O \ V, d) + Count(O \ V, d)
    BY <2>2, <2>3, Constants DEF n
  <2>10. n \in Count(V, d) .. Error
    BY <2>2, <2>3, <2>4, Constants DEF n
  <2> QED
    BY <2>7, <2>8, <2>9, <2>10, Zenon DEF n
<1>3. ~Negative(Exact(X, O), V)
  <2> SUFFICES ASSUME NEW d \in InfBuffer,
                      \/ Unflagged(Exact(X, O), V, d) < Count(V, d)
                      \/ Unflagged(Exact(X, O), V, d) > Error + 1
               PROVE  FALSE
    BY DEF Negative
  <2>1. Unflagged(Exact(X, O), V, d) \in Count(V, d) .. Error /\ Count(V, d) \in Nat
    BY <1>1, <1>2, CountNat
  <2> QED
    BY <2>1, Constants
<1>4. Lower(Exact(X, O), V) =
        [Exact(X, O) EXCEPT !.inflate =
           [d \in InfBuffer |-> Unflagged(Exact(X, O), V, d) - Count(V, d)]]
  BY <1>3, Zenon DEF Lower
<1>5. [d \in InfBuffer |-> Unflagged(Exact(X, O), V, d) - Count(V, d)]
        = [d \in InfBuffer |-> FlagAt(O \ V, d) + Count(O \ V, d)]
  BY <1>2, Zenon
<1> HIDE DEF Unflagged
<1> QED
  BY <1>4, <1>5, Zenon DEF Exact

-----------------------------------------------------------------------------
(* The inductive invariant.                                                *)

\* Once initialised, the origins lie in the window of the update before the last.
Settled ==
  have_initialized =>
    \A a \in Axes :
      /\ origin[a] \in LowBound(previous)[a] .. LowBound(previous)[a] + Size - 1
      /\ inf_origin[a] \in InfLowBound(previous)[a] .. InfLowBound(previous)[a] + InfSize - 1

IsExact == inflate = [d \in InfBuffer |-> FlagAt(Obstacles, d) + Count(Obstacles, d)]

IInv ==
  /\ TypeOK
  /\ Settled
  /\ ~have_initialized => occupied = {}
  /\ ~strayed => ~was_reset /\ IsExact

Maps == [occupied : SUBSET Buffer, inflate : [InfBuffer -> 0 .. Word - 1], reset : BOOLEAN]

LEMMA RaiseType ==
  ASSUME NEW m \in Maps, NEW V, IsFiniteSet(V)
  PROVE  Raise(m, V) \in Maps
<1>1. ASSUME NEW d \in InfBuffer
      PROVE  (m.inflate[d] + FlagAt(V, d) + Count(V, d)) % Word \in 0 .. Word - 1
  <2> DEFINE s == m.inflate[d] + FlagAt(V, d) + Count(V, d)
  <2>1. m.inflate[d] \in Int /\ FlagAt(V, d) \in Int /\ Count(V, d) \in Int
    BY FlagType, CountNat, Constants DEF Maps
  <2>2. s \in Int
    BY <2>1
  <2> HIDE DEF s
  <2>3. s % Word \in 0 .. Word - 1
    BY <2>2, ModRange, Constants
  <2> QED
    BY <2>3 DEF s
<1>2. [d \in InfBuffer |-> (m.inflate[d] + FlagAt(V, d) + Count(V, d)) % Word]
        \in [InfBuffer -> 0 .. Word - 1]
  BY <1>1
<1> QED
  BY <1>2 DEF Raise, Maps

LEMMA LowerType ==
  ASSUME NEW m \in Maps, NEW V, IsFiniteSet(V)
  PROVE  Lower(m, V) \in Maps
<1>1. Emptied \in Maps
  BY Constants DEF Emptied, Maps
<1>2. ASSUME ~Negative(m, V), NEW d \in InfBuffer
      PROVE  Unflagged(m, V, d) - Count(V, d) \in 0 .. Word - 1
  <2> DEFINE s == m.inflate[d] - FlagAt(V, d)
  <2>1. m.inflate[d] \in Int /\ FlagAt(V, d) \in Int /\ Count(V, d) \in Nat
    BY FlagType, CountNat, Constants DEF Maps
  <2>2. s \in Int
    BY <2>1
  <2> HIDE DEF s
  <2>3. s % Word \in 0 .. Word - 1
    BY <2>2, ModRange, Constants
  <2>4. Unflagged(m, V, d) \in 0 .. Word - 1
    BY <2>3 DEF s, Unflagged
  <2>5. Count(V, d) = 0 \/ Unflagged(m, V, d) >= Count(V, d)
    BY <1>2, <2>1, <2>4, Constants DEF Negative
  <2> QED
    BY <2>1, <2>4, <2>5, Constants
<1>3. CASE ~Negative(m, V)
  <2>1. [d \in InfBuffer |-> Unflagged(m, V, d) - Count(V, d)] \in [InfBuffer -> 0 .. Word - 1]
    BY <1>2, <1>3
  <2> QED
    BY <2>1, <1>3 DEF Lower, Maps
<1>4. CASE Negative(m, V)
  BY <1>1, <1>4 DEF Lower
<1> QED
  BY <1>3, <1>4

\* Moving keeps every address and brings the origins into the window that is left.
LEMMA Moved ==
  ASSUME TypeOK, NEW n \in Voxels, MoveTo(n)
  PROVE  /\ center' = n /\ have_initialized' = TRUE /\ previous' \in Voxels
         /\ origin' \in Voxels /\ inf_origin' \in Voxels
         /\ \A v \in Voxels : BufIdx(v)' = BufIdx(v) /\ InfBufIdx(v)' = InfBufIdx(v)
         /\ Settled'
<1> DEFINE c == IF have_initialized THEN center ELSE n
<1>1. c \in Voxels /\ previous' = c
  BY DEF TypeOK, MoveTo
<1>2. /\ origin' = [a \in Axes |-> BringInto(origin[a], LowBound(c)[a], Size)]
      /\ inf_origin' = [a \in Axes |-> BringInto(inf_origin[a], InfLowBound(c)[a], InfSize)]
  BY DEF MoveTo
<1> HIDE DEF c
<1>3. ASSUME NEW a \in Axes
      PROVE  /\ origin'[a] \in LowBound(c)[a] .. LowBound(c)[a] + Size - 1
             /\ inf_origin'[a] \in InfLowBound(c)[a] .. InfLowBound(c)[a] + InfSize - 1
             /\ origin'[a] \in Int /\ inf_origin'[a] \in Int
             /\ \A x \in Int : /\ (x - origin'[a]) % Size = (x - origin[a]) % Size
                               /\ (x - inf_origin'[a]) % InfSize = (x - inf_origin[a]) % InfSize
  <2>1. /\ origin[a] \in Int /\ inf_origin[a] \in Int
        /\ LowBound(c)[a] \in Int /\ InfLowBound(c)[a] \in Int
    BY <1>1, Bounds DEF TypeOK, Voxels
  <2>2. /\ origin'[a] = BringInto(origin[a], LowBound(c)[a], Size)
        /\ inf_origin'[a] = BringInto(inf_origin[a], InfLowBound(c)[a], InfSize)
    BY <1>2
  <2>3. Size \in Nat \ {0} /\ InfSize \in Nat \ {0}
    BY Lengths
  <2>4. /\ BringInto(origin[a], LowBound(c)[a], Size) \in LowBound(c)[a] .. LowBound(c)[a] + Size - 1
        /\ \A x \in Int : (x - BringInto(origin[a], LowBound(c)[a], Size)) % Size
                            = (x - origin[a]) % Size
    BY <2>1, <2>3, BroughtInto
  <2>5. /\ BringInto(inf_origin[a], InfLowBound(c)[a], InfSize)
             \in InfLowBound(c)[a] .. InfLowBound(c)[a] + InfSize - 1
        /\ \A x \in Int : (x - BringInto(inf_origin[a], InfLowBound(c)[a], InfSize)) % InfSize
                            = (x - inf_origin[a]) % InfSize
    BY <2>1, <2>3, BroughtInto
  <2> QED
    BY <2>1, <2>2, <2>4, <2>5
<1>4. origin' \in Voxels /\ inf_origin' \in Voxels
  BY <1>2, <1>3 DEF Voxels
<1>5. ASSUME NEW v \in Voxels
      PROVE  BufIdx(v)' = BufIdx(v) /\ InfBufIdx(v)' = InfBufIdx(v)
  <2>1. \A a \in Axes : /\ (v[a] - origin'[a]) % Size = (v[a] - origin[a]) % Size
                        /\ (v[a] - inf_origin'[a]) % InfSize = (v[a] - inf_origin[a]) % InfSize
    BY <1>3 DEF Voxels
  <2> QED
    BY <2>1 DEF BufIdx, InfBufIdx, Size, InfSize
<1>6. Settled'
  BY <1>1, <1>3 DEF Settled, LowBound, InfLowBound, Shift, Size, InfSize
<1> QED
  BY <1>1, <1>4, <1>5, <1>6 DEF MoveTo

LEMMA TypePlaced == TypeOK => Placed
BY DEF TypeOK, Placed

LEMMA ClearedType ==
  ASSUME TypeOK, NEW n \in Voxels
  PROVE  Cleared(n) \in Maps
<1>1. Occupying(Map, occupied \ {BufIdx(v) : v \in Leaving(n)}) \in Maps
  BY DEF TypeOK, Map, Maps, Occupying
<1>2. {v \in Leaving(n) : inflate[InfBufIdx(v)] > Flag} \subseteq Window(center)
  BY DEF Leaving
<1>3. IsFiniteSet({v \in Leaving(n) : inflate[InfBufIdx(v)] > Flag})
  BY <1>2, InBufFinite, FS_Subset DEF TypeOK
<1> QED
  BY <1>1, <1>3, LowerType DEF Cleared

LEMMA InitInv == Init => IInv
<1> SUFFICES ASSUME Init PROVE IInv
  OBVIOUS
<1>1. TypeOK
  <2>1. 0 \in 0 .. Word - 1
    BY Constants
  <2>2. inflate \in [InfBuffer -> 0 .. Word - 1]
    BY <2>1 DEF Init
  <2>3. [a \in Axes |-> 0] \in Voxels
    BY DEF Voxels
  <2> QED
    BY <2>2, <2>3 DEF Init, TypeOK
<1>2. Obstacles = {}
  BY DEF Init, Obstacles
<1>3. ASSUME NEW d \in InfBuffer PROVE FlagAt(Obstacles, d) + Count(Obstacles, d) = 0
  <2>1. IsFiniteSet({}) /\ About({}, d) = {}
    BY FS_EmptySet DEF About
  <2>2. Count({}, d) = 0
    BY <2>1, CountNat
  <2>3. FlagAt({}, d) = 0
    BY DEF FlagAt
  <2>4. FlagAt(Obstacles, d) = 0 /\ Count(Obstacles, d) = 0
    BY <1>2, <2>2, <2>3, Zenon
  <2> QED
    BY <2>4
<1>4. IsExact
  BY <1>3 DEF Init, IsExact
<1> QED
  BY <1>1, <1>4 DEF Init, IInv, Settled

-----------------------------------------------------------------------------
(* One step per action.                                                    *)

\* What an action leaves in the buffers, for a centre that moves to n.
Arrives(n, m) == MoveTo(n) /\ Becomes(m)

LEMMA ArrivesType ==
  ASSUME TypeOK, NEW n \in Voxels, NEW m \in Maps, Arrives(n, m), strayed' \in BOOLEAN
  PROVE  TypeOK'
<1>1. /\ occupied' \subseteq Buffer /\ inflate' \in [InfBuffer -> 0 .. Word - 1]
      /\ was_reset' \in BOOLEAN
  BY DEF Arrives, Becomes, Maps, TypeOK
<1>2. /\ center' \in Voxels /\ have_initialized' \in BOOLEAN /\ previous' \in Voxels
      /\ origin' \in Voxels /\ inf_origin' \in Voxels
  BY Moved DEF Arrives
<1> QED
  BY <1>1, <1>2 DEF TypeOK, Buffer, InfBuffer, Size, InfSize, Voxels

\* The obstacles that stay, and what the buffers hold after clearBuffer.
LEMMA ClearedExact ==
  ASSUME IInv, ~strayed, NEW n \in Voxels, NEW X, NEW K,
         X = occupied \ {BufIdx(v) : v \in Leaving(n)}, K = Obstacles \ Leaving(n)
  PROVE  /\ Cleared(n) = Exact(X, K)
         /\ X \subseteq Buffer
         /\ K \subseteq Window(n)
         /\ K = {v \in Window(n) : BufIdx(v) \in X}
<1>1. Placed /\ center \in Voxels /\ occupied \subseteq Buffer
  BY TypePlaced DEF IInv, TypeOK
<1>2. Leaving(n) \subseteq Window(center) /\ Obstacles \subseteq Window(center)
  BY DEF Leaving, Obstacles
<1> DEFINE L == {v \in Leaving(n) : inflate[InfBufIdx(v)] > Flag}
<1>3. L \subseteq Obstacles /\ Obstacles \ L = K
  <2>1. ASSUME NEW v \in Leaving(n)
        PROVE  inflate[InfBufIdx(v)] > Flag <=> v \in Obstacles
    <3> DEFINE s == FlagAt(Obstacles, InfBufIdx(v)) + Count(Obstacles, InfBufIdx(v))
    <3>1. v \in Window(center) /\ v \in Voxels
      BY <1>1, <1>2, InWindow
    <3>2. inflate[InfBufIdx(v)] = s
      BY <1>1, <3>1, Addresses DEF IInv, IsExact
    <3>3. IF v \in Obstacles THEN s > Flag ELSE s < Flag
      BY <1>1, <1>2, <3>1, FlagTells
    <3>4. s \in Nat
      BY <1>1, <1>2, ExactBounded, Constants
    <3> HIDE DEF s
    <3> QED
      BY <3>2, <3>3, <3>4, Constants
  <2> QED
    BY <2>1
<1>4. Occupying(Map, X) = Exact(X, Obstacles)
  <2>1. Occupying(Map, X) = [occupied |-> X, inflate |-> inflate, reset |-> was_reset]
    BY OccupyingRecord DEF Map
  <2>2. IsExact
    BY DEF IInv
  <2> QED
    BY <2>1, <2>2, Zenon DEF Exact, IsExact
<1>5. Lower(Exact(X, Obstacles), L) = Exact(X, Obstacles \ L)
  BY <1>1, <1>2, <1>3, LowerExact
<1>6. Cleared(n) = Exact(X, K)
  <2>1. Cleared(n) = Lower(Occupying(Map, X), L)
    BY Zenon DEF Cleared
  <2> HIDE DEF L
  <2> QED
    BY <2>1, <1>3, <1>4, <1>5, Zenon
<1>7. ASSUME NEW w \in K PROVE w \in Window(n)
  <2>1. w \in Window(center) /\ BufIdx(w) \in occupied /\ w \notin Leaving(n)
    BY DEF Obstacles
  <2>2. ~Leaves(w, n)
    BY <2>1 DEF Leaving, IInv
  <2>3. w \in Voxels /\ \A a \in Axes : w[a] \in LowBound(center)[a] .. LowBound(center)[a] + Size - 1
    BY <1>1, <2>1, InWindow
  <2>4. ASSUME NEW a \in Axes PROVE w[a] \in LowBound(n)[a] .. LowBound(n)[a] + Size - 1
    <3>1. /\ w[a] \in Int /\ n[a] \in Int /\ center[a] \in Int
          /\ LowBound(n)[a] = n[a] - UpdateRange /\ UpBound(n)[a] = LowBound(n)[a] + Size - 1
          /\ LowBound(center)[a] = center[a] - UpdateRange
      BY <1>1, <2>3, Bounds, Lengths DEF Voxels, LowBound, Shift
    <3>2. /\ n[a] < center[a] => w[a] < UpBound(n)[a]
          /\ n[a] > center[a] => w[a] > LowBound(n)[a]
      BY <2>2, <3>1, Lengths DEF Leaves
    <3> QED
      BY <2>3, <3>1, <3>2, Lengths
  <2> QED
    BY <2>3, <2>4, InWindow
<1>8. ASSUME NEW w \in K PROVE BufIdx(w) \in X
  <2>1. w \in Window(center) /\ BufIdx(w) \in occupied /\ w \notin Leaving(n)
    BY DEF Obstacles
  <2>2. \A v \in Leaving(n) : BufIdx(v) # BufIdx(w)
    BY <1>1, <1>2, <2>1, BufIdxUnique
  <2> QED
    BY <2>1, <2>2
<1>9. ASSUME NEW v \in Window(n), BufIdx(v) \in X PROVE v \in K
  <2>1. v \in Voxels
    BY InWindow
  <2>2. PICK w \in Window(center) : BufIdx(w) = BufIdx(v)
    BY <1>1, <2>1, Represented
  <2>3. BufIdx(w) \in occupied /\ w \notin Leaving(n)
    BY <1>9, <2>2, Zenon
  <2>4. w \in K
    BY <2>3 DEF Obstacles
  <2>5. w = v
    BY <1>1, <1>7, <2>2, <2>4, BufIdxUnique
  <2> QED
    BY <2>4, <2>5
<1> QED
  BY <1>1, <1>6, <1>7, <1>8, <1>9

\* Arriving with the exact map of the new window's obstacles keeps the map exact.
LEMMA ArrivesExact ==
  ASSUME TypeOK, ~was_reset, NEW n \in Voxels, NEW X, NEW O, Arrives(n, Exact(X, O)),
         O = {v \in Window(n) : BufIdx(v) \in X}
  PROVE  ~was_reset' /\ IsExact' /\ Obstacles' = O
<1>1. /\ center' = n /\ occupied' = X /\ ~was_reset'
      /\ inflate' = [d \in InfBuffer |-> FlagAt(O, d) + Count(O, d)]
  BY DEF Arrives, MoveTo, Becomes, Exact
<1>2. \A v \in Voxels : BufIdx(v)' = BufIdx(v) /\ InfBufIdx(v)' = InfBufIdx(v)
  BY Moved DEF Arrives
<1>3. Window(center)' = Window(n)
  BY <1>1 DEF Window, LowBound, Shift, Plus, Buffer, Size
<1>4. Obstacles' = O
  <2>1. Window(n) \subseteq Voxels
    BY WindowInside
  <2>2. Obstacles' = {v \in Window(center)' : BufIdx(v)' \in occupied'}
    BY DEF Obstacles
  <2> QED
    BY <1>1, <1>2, <1>3, <2>1, <2>2
<1>5. O \subseteq Voxels
  BY WindowInside
<1>6. ASSUME NEW v \in Voxels PROVE Inflated(v)' = Inflated(v)
  <2>1. ASSUME NEW k \in Near PROVE InfBufIdx(Plus(v, k))' = InfBufIdx(Plus(v, k))
    <3>1. Plus(v, k) \in Voxels
      BY Lengths DEF Plus, Voxels, Near
    <3> QED
      BY <1>2, <3>1 DEF Plus
  <2> QED
    BY <2>1 DEF Inflated, Near
<1>7. ASSUME NEW d PROVE FlagAt(O, d)' = FlagAt(O, d) /\ Count(O, d)' = Count(O, d)
  <2>1. FlagAt(O, d)' = FlagAt(O, d)
    BY <1>2, <1>5 DEF FlagAt
  <2>2. {v \in O : d \in Inflated(v)'} = {v \in O : d \in Inflated(v)}
    BY <1>5, <1>6
  <2>3. Count(O, d)' = Count(O, d)
    BY <2>2, Zenon DEF Count
  <2> QED
    BY <2>1, <2>3
<1> QED
  BY <1>1, <1>4, <1>7 DEF IsExact, InfBuffer, InfSize, Size
\* A voxel of the window is marked in an exact map iff it is an obstacle.
LEMMA Marked ==
  ASSUME Placed, NEW n \in Voxels, NEW X, NEW O, O \subseteq Window(n), NEW v \in Window(n)
  PROVE  /\ Exact(X, O).inflate[InfBufIdx(v)] < Flag <=> v \notin O
         /\ Exact(X, O).inflate[InfBufIdx(v)] >= Flag <=> v \in O
<1> DEFINE s == FlagAt(O, InfBufIdx(v)) + Count(O, InfBufIdx(v))
<1>1. InfBufIdx(v) \in InfBuffer
  BY InWindow, Addresses
<1>2. Exact(X, O).inflate[InfBufIdx(v)] = s
  BY <1>1 DEF Exact
<1>3. IF v \in O THEN s > Flag ELSE s < Flag
  BY FlagTells
<1>4. s \in Nat
  BY ExactBounded, Constants
<1> HIDE DEF s
<1> QED
  BY <1>2, <1>3, <1>4, Constants

\* What a message from n does to the obstacles.
Seen(n) ==
  \E V \in SUBSET Window(n) :
    /\ Cardinality(V) <= MaxTouched
    /\ \E Hit \in SUBSET V : Obstacles' = ((Obstacles \ Leaving(n)) \ V) \cup Hit

LEMMA CloudStep ==
  ASSUME IInv, NEW n \in Voxels, CloudCallback(n)
  PROVE  TypeOK' /\ (~strayed' => ~strayed /\ ~was_reset' /\ IsExact' /\ Seen(n))
<1> DEFINE m == Cleared(n)
<1>1. PICK V \in Touched(n) :
        /\ Becomes(Raise(Occupying(m, m.occupied \cup {BufIdx(v) : v \in V}),
                         {v \in V : m.inflate[InfBufIdx(v)] < Flag}))
        /\ MoveTo(n)
        /\ strayed' = (strayed \/ ~(V \subseteq Window(n)))
  BY DEF CloudCallback
<1> DEFINE hit == Occupying(m, m.occupied \cup {BufIdx(v) : v \in V})
           New == {v \in V : m.inflate[InfBufIdx(v)] < Flag}
<1>2. TypeOK /\ Placed /\ strayed' \in BOOLEAN
  BY <1>1, TypePlaced DEF IInv, TypeOK
<1>3. IsFiniteSet(V) /\ IsFiniteSet(New) /\ V \subseteq Voxels
  BY InBufFinite, FS_Subset DEF Touched
<1>4. m \in Maps
  BY <1>2, ClearedType
<1> HIDE DEF m
<1>5. \A v \in V : BufIdx(v) \in Buffer
  BY <1>2, <1>3, Addresses
<1>6. hit \in Maps
  BY <1>4, <1>5 DEF Maps, Occupying
<1>7. Raise(hit, New) \in Maps
  BY <1>3, <1>6, RaiseType
<1>8. TypeOK'
  BY <1>1, <1>2, <1>7, ArrivesType DEF Arrives
<1>9. ASSUME ~strayed' PROVE ~strayed /\ ~was_reset' /\ IsExact' /\ Seen(n)
  <2>1. ~strayed /\ ~was_reset /\ V \subseteq Window(n)
    BY <1>1, <1>9 DEF IInv
  <2>2. PICK X, K : X = occupied \ {BufIdx(v) : v \in Leaving(n)} /\ K = Obstacles \ Leaving(n)
    OBVIOUS
  <2>3. /\ m = Exact(X, K) /\ K \subseteq Window(n)
        /\ K = {v \in Window(n) : BufIdx(v) \in X}
    BY <2>1, <2>2, ClearedExact DEF m
  <2>4. New = V \ K
    BY <1>2, <2>1, <2>3, Marked
  <2>5. PICK Y, O : Y = X \cup {BufIdx(v) : v \in V} /\ O = K \cup V
    OBVIOUS
  <2>6. hit = Exact(Y, K)
    <3>1. hit = Occupying(m, Y)
      BY <2>3, <2>5, ExactOccupied, Zenon
    <3> QED
      BY <2>3, <3>1, ExactOccupied, Zenon
  <2>7. Raise(Exact(Y, K), New) = Exact(Y, O)
    <3>1. New \subseteq Window(n) /\ K \cap New = {} /\ K \cup New = O
      BY <2>1, <2>4, <2>5
    <3> HIDE DEF New
    <3>2. Raise(Exact(Y, K), New) = Exact(Y, K \cup New)
      BY <1>2, <2>3, <3>1, RaiseExact
    <3> QED
      BY <3>1, <3>2, Zenon
  <2>8. O = {v \in Window(n) : BufIdx(v) \in Y}
    <3>1. ASSUME NEW w \in Window(n), NEW v \in V, BufIdx(w) = BufIdx(v)
          PROVE  w \in V
      BY <1>2, <2>1, <3>1, BufIdxUnique
    <3> QED
      BY <2>1, <2>3, <2>5, <3>1
  <2>9. Arrives(n, Exact(Y, O))
    <3> HIDE DEF hit, New
    <3>1. Becomes(Raise(hit, New))
      BY <1>1 DEF hit, New
    <3> QED
      BY <1>1, <2>6, <2>7, <3>1, Zenon DEF Arrives
  <2>10. ~was_reset' /\ IsExact' /\ Obstacles' = O
    BY <1>2, <2>1, <2>8, <2>9, ArrivesExact
  <2>11. Obstacles' = (K \ V) \cup V
    BY <2>5, <2>10
  <2>12. Seen(n)
    <3>1. V \in SUBSET V
      OBVIOUS
    <3> QED
      BY <2>1, <2>2, <2>11, <3>1, Zenon DEF Seen, Touched
  <2> QED
    BY <2>1, <2>10, <2>12
<1> QED
  BY <1>8, <1>9

LEMMA DepthStep ==
  ASSUME IInv, NEW n \in Voxels, UpdateOccupancyCallback(n)
  PROVE  TypeOK' /\ (~strayed' => ~strayed /\ ~was_reset' /\ IsExact' /\ Seen(n))
<1>0. PICK V \in Touched(n) :
        \E H \in SUBSET V : /\ Becomes(Fused(n, V, H))
                            /\ MoveTo(n)
                            /\ strayed' = (strayed \/ ~(V \subseteq Window(n)))
  BY DEF UpdateOccupancyCallback
<1>1. PICK Hit \in SUBSET V :
        /\ Becomes(Fused(n, V, Hit))
        /\ MoveTo(n)
        /\ strayed' = (strayed \/ ~(V \subseteq Window(n)))
  BY <1>0
<1> DEFINE m == Cleared(n)
           seen == Occupying(m, (m.occupied \ {BufIdx(v) : v \in V}) \cup {BufIdx(v) : v \in Hit})
           above == {v \in V : BufIdx(v) \in seen.occupied}
           marked == {v \in V : m.inflate[InfBufIdx(v)] >= Flag}
<1>2. TypeOK /\ Placed /\ strayed' \in BOOLEAN
  BY <1>1, TypePlaced DEF IInv, TypeOK
<1>3. IsFiniteSet(V) /\ V \subseteq Voxels
  BY InBufFinite, FS_Subset DEF Touched
<1>4. IsFiniteSet(above \ marked) /\ IsFiniteSet(marked \ above)
  <2>1. above \ marked \in SUBSET V /\ marked \ above \in SUBSET V
    OBVIOUS
  <2> HIDE DEF above, marked
  <2> QED
    BY <1>3, <2>1, FS_Subset
<1>5. m \in Maps
  BY <1>2, ClearedType
<1>6. Fused(n, V, Hit) = Lower(Raise(seen, above \ marked), marked \ above)
  BY Zenon DEF Fused
<1> HIDE DEF m
<1>7. \A v \in V : BufIdx(v) \in Buffer
  BY <1>2, <1>3, Addresses
<1>8. seen \in Maps
  BY <1>5, <1>7 DEF Maps, Occupying
<1>9. Fused(n, V, Hit) \in Maps
  <2> HIDE DEF seen, above, marked
  <2>1. Raise(seen, above \ marked) \in Maps
    BY <1>4, <1>8, RaiseType
  <2>2. Lower(Raise(seen, above \ marked), marked \ above) \in Maps
    BY <1>4, <2>1, LowerType
  <2> QED
    BY <1>6, <2>2, Zenon
<1>10. TypeOK'
  BY <1>1, <1>2, <1>9, ArrivesType DEF Arrives
<1>11. ASSUME ~strayed' PROVE ~strayed /\ ~was_reset' /\ IsExact' /\ Seen(n)
  <2>1. ~strayed /\ ~was_reset /\ V \subseteq Window(n)
    BY <1>1, <1>11 DEF IInv
  <2>2. PICK X, K : X = occupied \ {BufIdx(v) : v \in Leaving(n)} /\ K = Obstacles \ Leaving(n)
    OBVIOUS
  <2>3. /\ m = Exact(X, K) /\ K \subseteq Window(n)
        /\ K = {v \in Window(n) : BufIdx(v) \in X}
    BY <2>1, <2>2, ClearedExact DEF m
  <2>4. marked = V \cap K
    BY <1>2, <2>1, <2>3, Marked
  <2>5. PICK Y, O : /\ Y = (X \ {BufIdx(v) : v \in V}) \cup {BufIdx(v) : v \in Hit}
                    /\ O = (K \ V) \cup Hit
    OBVIOUS
  <2>6. seen = Exact(Y, K)
    <3>1. seen = Occupying(m, Y)
      BY <2>3, <2>5, ExactOccupied, Zenon
    <3> QED
      BY <2>3, <3>1, ExactOccupied, Zenon
  <2>7. ASSUME NEW w \in Window(n), NEW v \in V, BufIdx(w) = BufIdx(v)
        PROVE  w = v
    BY <1>2, <2>1, <2>7, BufIdxUnique
  <2>8. above = Hit
    <3>1. seen.occupied = Y
      BY <2>6 DEF Exact
    <3> HIDE DEF seen
    <3> QED
      BY <2>1, <2>5, <2>7, <3>1
  <2>9. O = {v \in Window(n) : BufIdx(v) \in Y}
    BY <2>1, <2>3, <2>5, <2>7
  <2>10. PICK A, B, U : A = Hit \ K /\ B = (V \cap K) \ Hit /\ U = K \cup Hit
    OBVIOUS
  <2>11. above \ marked = A /\ marked \ above = B
    BY <2>4, <2>8, <2>10
  <2>12. Raise(Exact(Y, K), A) = Exact(Y, U)
    <3>1. A \subseteq Window(n) /\ K \cap A = {} /\ K \cup A = U
      BY <2>1, <2>10
    <3>2. Raise(Exact(Y, K), A) = Exact(Y, K \cup A)
      BY <1>2, <2>3, <3>1, RaiseExact
    <3> QED
      BY <3>1, <3>2, Zenon
  <2>13. Lower(Exact(Y, U), B) = Exact(Y, O)
    <3>1. U \subseteq Window(n) /\ B \subseteq U /\ U \ B = O
      BY <2>1, <2>3, <2>5, <2>10
    <3>2. Lower(Exact(Y, U), B) = Exact(Y, U \ B)
      BY <1>2, <3>1, LowerExact
    <3> QED
      BY <3>1, <3>2, Zenon
  <2>14. Arrives(n, Exact(Y, O))
    <3> HIDE DEF seen, above, marked
    <3> QED
      BY <1>1, <1>6, <2>6, <2>11, <2>12, <2>13, Zenon DEF Arrives
  <2>15. ~was_reset' /\ IsExact' /\ Obstacles' = O
    BY <1>2, <2>1, <2>9, <2>14, ArrivesExact
  <2>16. Seen(n)
    <3>1. Obstacles' = (K \ V) \cup Hit
      BY <2>5, <2>15
    <3> QED
      BY <2>1, <2>2, <3>1, Zenon DEF Seen, Touched
  <2> QED
    BY <2>1, <2>15, <2>16
<1> QED
  BY <1>10, <1>11

LEMMA FadingStep ==
  ASSUME IInv, FadingCallback
  PROVE  /\ TypeOK'
         /\ ~strayed' => /\ ~strayed /\ ~was_reset' /\ IsExact' /\ center' = center
                        /\ \E v \in Obstacles : Obstacles' = Obstacles \ {v}
<1>1. PICK d \in occupied :
        /\ Becomes(Lower(Occupying(Map, occupied \ {d}), {BufIdx2GlobalIdx(d)}))
        /\ strayed' = (strayed \/ BufIdx2GlobalIdx(d) \notin Window(center))
        /\ UNCHANGED <<have_initialized, center, origin, inf_origin, previous>>
  BY DEF FadingCallback
<1>2. TypeOK /\ Placed /\ d \in Buffer /\ center \in Voxels
  BY <1>1, TypePlaced DEF IInv, TypeOK
<1>3. PICK v : v = BufIdx2GlobalIdx(d)
  OBVIOUS
<1>4. v \in Voxels /\ BufIdx(v) = d
  BY <1>2, <1>3, IndexBack
<1>5. IsFiniteSet({v})
  BY FS_Singleton
<1>6. PICK X : X = occupied \ {d}
  OBVIOUS
<1>7. Becomes(Lower(Occupying(Map, X), {v}))
  BY <1>1, <1>3, <1>6, Zenon
<1>8. Occupying(Map, X) \in Maps
  BY <1>2, <1>6 DEF TypeOK, Map, Maps, Occupying
<1>9. Lower(Occupying(Map, X), {v}) \in Maps
  BY <1>5, <1>8, LowerType
<1>10. TypeOK'
  <2>1. /\ occupied' \subseteq Buffer /\ inflate' \in [InfBuffer -> 0 .. Word - 1]
        /\ was_reset' \in BOOLEAN
    BY <1>7, <1>9 DEF Becomes, Maps
  <2>2. strayed' \in BOOLEAN
    BY <1>1, <1>2 DEF TypeOK
  <2> QED
    BY <1>1, <1>2, <2>1, <2>2 DEF TypeOK, Buffer, InfBuffer, Size, InfSize, Voxels
<1>11. ASSUME ~strayed'
       PROVE  /\ ~strayed /\ ~was_reset' /\ IsExact' /\ center' = center
              /\ \E u \in Obstacles : Obstacles' = Obstacles \ {u}
  <2>1. ~strayed /\ ~was_reset /\ IsExact /\ v \in Window(center)
    BY <1>1, <1>3, <1>11 DEF IInv
  <2>2. PICK K, O : K = Obstacles /\ O = Obstacles \ {v}
    OBVIOUS
  <2>3. K \subseteq Window(center) /\ {v} \subseteq K
    BY <1>1, <1>4, <2>1, <2>2 DEF Obstacles
  <2>4. Occupying(Map, X) = Exact(X, K)
    <3>1. Occupying(Map, X) = [occupied |-> X, inflate |-> inflate, reset |-> was_reset]
      BY OccupyingRecord DEF Map
    <3> QED
      BY <2>1, <2>2, <3>1, Zenon DEF Exact, IsExact
  <2>5. Lower(Exact(X, K), {v}) = Exact(X, O)
    <3>1. Lower(Exact(X, K), {v}) = Exact(X, K \ {v})
      BY <1>2, <2>3, LowerExact
    <3> QED
      BY <2>2, <3>1, Zenon
  <2>6. Becomes(Exact(X, O))
    BY <1>7, <2>4, <2>5, Zenon
  <2>7. /\ occupied' = X /\ was_reset' = was_reset
        /\ inflate' = [e \in InfBuffer |-> FlagAt(O, e) + Count(O, e)]
    BY <2>6 DEF Becomes, Exact
  <2>8. /\ center' = center /\ origin' = origin /\ inf_origin' = inf_origin
        /\ \A w : BufIdx(w)' = BufIdx(w)
        /\ \A w : InfBufIdx(w)' = InfBufIdx(w)
    BY <1>1 DEF BufIdx, InfBufIdx, Size, InfSize
  <2>9. Obstacles' = O
    <3>1. Window(center)' = Window(center)
      BY <2>8 DEF Window, LowBound, Shift, Plus, Buffer, Size
    <3>2. Obstacles' = {w \in Window(center) : BufIdx(w) \in X}
      BY <2>7, <2>8, <3>1 DEF Obstacles
    <3>3. ASSUME NEW w \in Window(center) PROVE BufIdx(w) \in X <=> w \in O
      <4>1. BufIdx(w) = d => w = v
        BY <1>2, <1>4, <2>1, BufIdxUnique
      <4> QED
        BY <1>4, <1>6, <2>2, <4>1 DEF Obstacles
    <3>4. O \subseteq Window(center)
      BY <2>2, <2>3
    <3> QED
      BY <3>2, <3>3, <3>4
  <2>10. ASSUME NEW e PROVE FlagAt(O, e)' = FlagAt(O, e) /\ Count(O, e)' = Count(O, e)
    BY <2>8, Zenon DEF FlagAt, Count, Inflated, Near, Plus
  <2>11. IsExact'
    BY <2>7, <2>9, <2>10 DEF IsExact, InfBuffer, InfSize, Size
  <2> QED
    BY <2>1, <2>2, <2>3, <2>7, <2>8, <2>9, <2>11
<1> QED
  BY <1>10, <1>11

LEMMA InvStep == IInv /\ [Next]_vars => IInv'
<1> SUFFICES ASSUME IInv, [Next]_vars PROVE IInv'
  OBVIOUS
<1>1. ASSUME NEW n \in Centers, CloudCallback(n) PROVE IInv'
  <2>1. n \in Voxels /\ MoveTo(n)
    BY <1>1, GridAssumption DEF CloudCallback
  <2> QED
    BY <1>1, <2>1, CloudStep, Moved DEF IInv
<1>2. ASSUME NEW n \in Centers, UpdateOccupancyCallback(n) PROVE IInv'
  <2>1. n \in Voxels /\ MoveTo(n)
    BY <1>2, GridAssumption DEF UpdateOccupancyCallback
  <2> QED
    BY <1>2, <2>1, DepthStep, Moved DEF IInv
<1>3. CASE FadingCallback
  <2>1. /\ UNCHANGED <<have_initialized, origin, inf_origin, previous>>
        /\ have_initialized
    BY <1>3 DEF FadingCallback, IInv
  <2>2. Settled'
    BY <2>1 DEF IInv, Settled, LowBound, InfLowBound, Shift, Size, InfSize
  <2> QED
    BY <1>3, <2>1, <2>2, FadingStep DEF IInv
<1>4. CASE UNCHANGED vars
  <2>1. IsExact' <=> IsExact
    BY <1>4 DEF vars, IsExact, Obstacles, FlagAt, Count, Inflated, BufIdx, InfBufIdx, Window,
       LowBound, Shift, Plus, Near, Buffer, InfBuffer, Size, InfSize
  <2> QED
    BY <1>4, <2>1 DEF vars, IInv, TypeOK, Settled, LowBound, InfLowBound, Shift, Buffer, InfBuffer,
       Size, InfSize, Voxels
<1> QED
  BY <1>1, <1>2, <1>3, <1>4 DEF Next

LEMMA Inductive == Spec => []IInv
BY InitInv, InvStep, PTL DEF Spec

-----------------------------------------------------------------------------
(* The map implements ObstacleMap.                                         *)

\* Both say which rows a camera that moves to n gives up.
LEMMA KeptIsKept ==
  ASSUME IInv, NEW n \in Voxels
  PROVE  World!Kept(n) = Obstacles \ Leaving(n)
<1>1. CASE ~have_initialized
  <2>1. Obstacles = {}
    BY <1>1 DEF IInv, Obstacles
  <2> QED
    BY <2>1 DEF World!Kept
<1>2. CASE have_initialized
  <2>1. \A a \in Axes : /\ LowBound(n)[a] = n[a] - UpdateRange
                        /\ UpBound(n)[a] = n[a] + UpdateRange - 1
    BY Lengths DEF LowBound, UpBound, Shift, Voxels
  <2>2. ASSUME NEW v \in Obstacles PROVE World!Behind(v, n) <=> v \in Leaving(n)
    <3>1. World!Behind(v, n) <=> Leaves(v, n)
      BY <2>1 DEF World!Behind, Leaves
    <3> QED
      BY <1>2, <3>1 DEF Leaving, Obstacles
  <2> QED
    BY <2>2 DEF World!Kept
<1> QED
  BY <1>1, <1>2

LEMMA WindowIsWindow ==
  ASSUME NEW n \in Voxels
  PROVE  Window(n) \subseteq World!Window(n)
<1> SUFFICES ASSUME NEW w \in Window(n) PROVE w \in World!Window(n)
  OBVIOUS
<1> DEFINE d == [a \in Axes |-> w[a] - n[a]]
<1>1. w \in Voxels /\ \A a \in Axes : w[a] \in LowBound(n)[a] .. LowBound(n)[a] + Size - 1
  BY InWindow
<1>2. ASSUME NEW a \in Axes
      PROVE  w[a] - n[a] \in -UpdateRange .. UpdateRange - 1 /\ w[a] = n[a] + (w[a] - n[a])
  <2>1. w[a] \in Int /\ n[a] \in Int /\ LowBound(n)[a] = n[a] - UpdateRange
    BY <1>1, Lengths DEF LowBound, Shift, Voxels
  <2> QED
    BY <1>1, <2>1, Lengths
<1>3. d \in [Axes -> -UpdateRange .. UpdateRange - 1]
  BY <1>2
<1>4. w = [a \in Axes |-> n[a] + d[a]]
  BY <1>1, <1>2 DEF Voxels
<1> QED
  BY <1>3, <1>4 DEF World!Window

LEMMA SeenIsObserved ==
  ASSUME IInv, NEW n \in Voxels, MoveTo(n), Seen(n), strayed' = strayed
  PROVE  World!Observe(n)
<1>1. PICK V \in SUBSET Window(n) :
        /\ Cardinality(V) <= MaxTouched
        /\ \E Hit \in SUBSET V : Obstacles' = ((Obstacles \ Leaving(n)) \ V) \cup Hit
  BY Zenon DEF Seen
<1>2. PICK Hit \in SUBSET V : Obstacles' = ((Obstacles \ Leaving(n)) \ V) \cup Hit
  BY <1>1
<1>3. Obstacles' = (World!Kept(n) \ V) \cup Hit
  BY <1>2, KeptIsKept, Zenon
<1>4. V \in SUBSET World!Window(n)
  BY WindowIsWindow
<1>5. center' = n
  BY DEF MoveTo
<1> QED
  BY <1>1, <1>3, <1>4, <1>5, Zenon DEF World!Observe

LEMMA StepIsWorldStep == IInv /\ [Next]_vars => [World!Next]_(World!vars)
<1> SUFFICES ASSUME IInv, [Next]_vars PROVE [World!Next]_(World!vars)
  OBVIOUS
<1>1. CASE UNCHANGED vars
  <2>1. center' = center /\ strayed' = strayed /\ Obstacles' = Obstacles
    BY <1>1 DEF vars, Obstacles, Window, LowBound, Shift, Plus, BufIdx, Buffer, Size
  <2> QED
    BY <2>1 DEF World!vars
<1>2. CASE strayed' = TRUE
  BY <1>2 DEF World!Next, World!Break
<1>3. ASSUME NEW n \in Centers, CloudCallback(n), ~strayed' PROVE World!Next
  <2>1. n \in Voxels /\ MoveTo(n)
    BY <1>3, GridAssumption DEF CloudCallback
  <2>2. ~strayed /\ Seen(n)
    BY <1>3, <2>1, CloudStep
  <2>3. strayed' = strayed
    BY <1>3, <2>1, <2>2, CloudStep DEF IInv, TypeOK
  <2>4. World!Observe(n)
    BY <2>1, <2>2, <2>3, SeenIsObserved
  <2> QED
    BY <2>4, Zenon DEF World!Next
<1>4. ASSUME NEW n \in Centers, UpdateOccupancyCallback(n), ~strayed' PROVE World!Next
  <2>1. n \in Voxels /\ MoveTo(n)
    BY <1>4, GridAssumption DEF UpdateOccupancyCallback
  <2>2. ~strayed /\ Seen(n)
    BY <1>4, <2>1, DepthStep
  <2>3. strayed' = strayed
    BY <1>4, <2>1, <2>2, DepthStep DEF IInv, TypeOK
  <2>4. World!Observe(n)
    BY <2>1, <2>2, <2>3, SeenIsObserved
  <2> QED
    BY <2>4, Zenon DEF World!Next
<1>5. ASSUME FadingCallback, ~strayed' PROVE World!Next
  <2>1. /\ ~strayed /\ center' = center
        /\ \E v \in Obstacles : Obstacles' = Obstacles \ {v}
    BY <1>5, FadingStep
  <2>2. strayed' = strayed
    BY <1>5, <2>1, FadingStep DEF IInv, TypeOK
  <2>3. World!Forget
    BY <2>1, <2>2 DEF World!Forget
  <2> QED
    BY <2>3, Zenon DEF World!Next
<1>6. strayed' = TRUE \/ ~strayed' \/ UNCHANGED vars
  <2>1. CASE Next
    <3>1. \A n \in Centers : n \in Voxels
      BY GridAssumption
    <3>2. TypeOK'
      BY <2>1, <3>1, CloudStep, DepthStep, FadingStep DEF Next
    <3> QED
      BY <3>2 DEF TypeOK
  <2> QED
    BY <2>1
<1> QED
  BY <1>1, <1>2, <1>3, <1>4, <1>5, <1>6 DEF Next

-----------------------------------------------------------------------------
(* What follows from the invariant.                                        *)

LEMMA ExactImplies == IInv => InflationExact
<1> SUFFICES ASSUME IInv, ~strayed, NEW w \in InfWindow(center)
             PROVE  inflate[InfBufIdx(w)] =
                      (IF w \in Obstacles THEN Flag ELSE 0)
                      + Cardinality({v \in Obstacles : \E k \in Near : w = Plus(v, k)})
  BY DEF IInv, InflationExact
<1>1. Placed /\ center \in Voxels /\ Obstacles \subseteq Window(center)
  BY TypePlaced DEF IInv, TypeOK, Obstacles
<1>2. InfBufIdx(w) \in InfBuffer
  BY <1>1, InInfWindow, Addresses
<1>3. inflate[InfBufIdx(w)] = FlagAt(Obstacles, InfBufIdx(w)) + Count(Obstacles, InfBufIdx(w))
  BY <1>2 DEF IInv, IsExact
<1>4. FlagAt(Obstacles, InfBufIdx(w)) = IF w \in Obstacles THEN Flag ELSE 0
  BY <1>1, WindowInside, InfBufIdxUnique DEF FlagAt
<1>5. ASSUME NEW v \in Obstacles
      PROVE  InfBufIdx(w) \in Inflated(v) <=> \E k \in Near : w = Plus(v, k)
  <2>1. \A k \in Near : Plus(v, k) \in InfWindow(center)
    BY <1>1, NearInside
  <2>2. \A k \in Near : InfBufIdx(w) = InfBufIdx(Plus(v, k)) <=> w = Plus(v, k)
    BY <1>1, <2>1, InfBufIdxUnique
  <2> QED
    BY <2>2, Zenon DEF Inflated
<1>6. {v \in Obstacles : InfBufIdx(w) \in Inflated(v)}
        = {v \in Obstacles : \E k \in Near : w = Plus(v, k)}
  BY <1>5
<1>7. Count(Obstacles, InfBufIdx(w))
        = Cardinality({v \in Obstacles : \E k \in Near : w = Plus(v, k)})
  BY <1>6, Zenon DEF Count
<1> QED
  BY <1>3, <1>4, <1>7, Zenon

LEMMA SettledImplies == IInv => SettledIsExact
<1> SUFFICES ASSUME IInv, have_initialized, previous = center
             PROVE  /\ \A v \in Window(center) : BufIdx2GlobalIdx(BufIdx(v)) = v
                    /\ InflatedOccupiedPoints
                         = {w \in InfWindow(center) : inflate[InfBufIdx(w)] # 0}
  BY DEF SettledIsExact
<1>1. Placed /\ center \in Voxels /\ Size \in Nat \ {0} /\ InfSize \in Nat \ {0}
  BY TypePlaced, Lengths DEF IInv, TypeOK
<1>2. \A a \in Axes :
        /\ origin[a] \in LowBound(center)[a] .. LowBound(center)[a] + Size - 1
        /\ inf_origin[a] \in InfLowBound(center)[a] .. InfLowBound(center)[a] + InfSize - 1
        /\ LowBound(center)[a] \in Int /\ InfLowBound(center)[a] \in Int
        /\ UpBound(center)[a] = LowBound(center)[a] + Size - 1
        /\ InfUpBound(center)[a] = InfLowBound(center)[a] + InfSize - 1
  BY <1>1, Bounds DEF IInv, Settled, Voxels
<1>3. ASSUME NEW v \in Window(center) PROVE BufIdx2GlobalIdx(BufIdx(v)) = v
  <2>1. v \in Voxels /\ \A a \in Axes : v[a] \in LowBound(center)[a] .. LowBound(center)[a] + Size - 1
    BY <1>1, InWindow
  <2>2. ASSUME NEW a \in Axes
        PROVE  Unwrap(((v[a] - origin[a]) % Size) + origin[a], UpBound(center)[a], Size) = v[a]
    <3>1. /\ LowBound(center)[a] \in Int
          /\ origin[a] \in LowBound(center)[a] .. LowBound(center)[a] + Size - 1
          /\ v[a] \in LowBound(center)[a] .. LowBound(center)[a] + Size - 1
          /\ UpBound(center)[a] = LowBound(center)[a] + Size - 1
      BY <1>2, <2>1
    <3>2. Unwrap(((v[a] - origin[a]) % Size) + origin[a], LowBound(center)[a] + Size - 1, Size) = v[a]
      BY <1>1, <3>1, Unwrapped
    <3> QED
      BY <3>1, <3>2, Zenon
  <2> QED
    BY <2>1, <2>2 DEF BufIdx2GlobalIdx, BufIdx, Voxels
<1>4. ASSUME NEW w \in InfWindow(center) PROVE InfBufIdx2GlobalIdx(InfBufIdx(w)) = w
  <2>1. /\ w \in Voxels
        /\ \A a \in Axes : w[a] \in InfLowBound(center)[a] .. InfLowBound(center)[a] + InfSize - 1
    BY <1>1, InInfWindow
  <2>2. ASSUME NEW a \in Axes
        PROVE  Unwrap(((w[a] - inf_origin[a]) % InfSize) + inf_origin[a], InfUpBound(center)[a], InfSize)
                 = w[a]
    <3>1. /\ InfLowBound(center)[a] \in Int
          /\ inf_origin[a] \in InfLowBound(center)[a] .. InfLowBound(center)[a] + InfSize - 1
          /\ w[a] \in InfLowBound(center)[a] .. InfLowBound(center)[a] + InfSize - 1
          /\ InfUpBound(center)[a] = InfLowBound(center)[a] + InfSize - 1
      BY <1>2, <2>1
    <3>2. Unwrap(((w[a] - inf_origin[a]) % InfSize) + inf_origin[a], InfLowBound(center)[a] + InfSize - 1, InfSize) = w[a]
      BY <1>1, <3>1, Unwrapped
    <3> QED
      BY <3>1, <3>2, Zenon
  <2> QED
    BY <2>1, <2>2 DEF InfBufIdx2GlobalIdx, InfBufIdx, Voxels
<1>5. ASSUME NEW w \in InfWindow(center)
      PROVE  w \in InflatedOccupiedPoints <=> inflate[InfBufIdx(w)] # 0
  <2>1. InfBufIdx(w) \in InfBuffer
    BY <1>1, InInfWindow, Addresses
  <2>2. \A d \in InfBuffer : InfBufIdx2GlobalIdx(d) = w => InfBufIdx(w) = d
    BY <1>1, IndexBack
  <2> QED
    BY <1>4, <2>1, <2>2 DEF InflatedOccupiedPoints
<1>6. InflatedOccupiedPoints \subseteq InfWindow(center)
  BY DEF InflatedOccupiedPoints
<1> QED
  BY <1>3, <1>5, <1>6

\* Every variable keeps its type: no count becomes negative unnoticed.
THEOREM TypeCorrect == Spec => []TypeOK
<1>1. IInv => TypeOK
  BY DEF IInv
<1> QED BY <1>1, Inductive, PTL

\* However the window moves, what the planner reads is the inflation of the obstacles
\* in it, until a point or an obstacle is booked on the voxel of another place.
THEOREM ExactInflation == Spec => []InflationExact
BY ExactImplies, Inductive, PTL

\* Addresses are read back right whenever the drone has stayed in its voxel.
THEOREM SettledReadsRight == Spec => []SettledIsExact
BY SettledImplies, Inductive, PTL

\* The rings implement the map without rings: obstacles stay where they were seen.
THEOREM Implements == Spec => ImplementsObstacleMap
<1>1. Init => World!Init
  <2>1. Init => Obstacles = {}
    BY DEF Init, Obstacles
  <2> QED
    BY <2>1 DEF Init, World!Init
<1>2. IInv /\ [Next]_vars => [World!Next]_(World!vars)
  BY StepIsWorldStep
<1> QED
  BY <1>1, <1>2, Inductive, PTL DEF Spec, ImplementsObstacleMap, World!Spec
=============================================================================
