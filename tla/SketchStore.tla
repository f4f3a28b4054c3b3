---------------------------- MODULE SketchStore ----------------------------
(***************************************************************************)
(* The two stores of the sketch, as values: what each method makes of one. *)
(* A sparse store has its bins in a map, a dense store in an array with an *)
(* offset.  MaxInt32 and MinInt32, the minimum and the maximum of a store  *)
(* without elements, are Top and -Top.  collapsed is not in the code: it    *)
(* tells that collapseBuckets removed a bucket of what is in the store.     *)
(***************************************************************************)
EXTENDS Integers, Sequences, FiniteSets, FiniteSetsExt, Functions

CONSTANTS
  CollapseThreshold,   \* counts up to this are collapsed
  CollapseAbove,       \* bins from which Add collapses (1000 in the code) ...
  MergeAbove,          \* ... and bins merged (100) ...
  CollapseMin,         \* ... unless there are fewer than these (10)
  InitialCapacity,     \* of a dense store
  Top

ASSUME StoreAssumption ==
  {CollapseThreshold, CollapseAbove, MergeAbove, CollapseMin, InitialCapacity, Top}
    \subseteq Nat \ {0}

NewSparseStore ==
  [kind |-> "sparse", bins |-> <<>>, count |-> 0, minIndex |-> Top, maxIndex |-> -Top,
   hasElements |-> FALSE, collapsed |-> FALSE]

NewDenseStore ==
  [kind |-> "dense", bins |-> [k \in 1..InitialCapacity |-> 0], offset |-> 0, count |-> 0,
   minIndex |-> Top, maxIndex |-> -Top, hasElements |-> FALSE, collapsed |-> FALSE]

\* Get of both stores; array index k has the count of index k - 1 + offset.
Get(s, i) ==
  IF s.kind = "sparse" THEN (IF i \in DOMAIN s.bins THEN s.bins[i] ELSE 0)
  ELSE (IF i - s.offset + 1 \in DOMAIN s.bins THEN s.bins[i - s.offset + 1] ELSE 0)

Indices(s) ==
  IF s.kind = "sparse" THEN DOMAIN s.bins
  ELSE {i \in s.offset..(s.offset + Len(s.bins) - 1) : Get(s, i) > 0}

GetNonEmptyBuckets(s) == [i \in Indices(s) |-> Get(s, i)]

Lower(a, b) == IF a < b THEN a ELSE b
Higher(a, b) == IF a > b THEN a ELSE b

\* The minimum and the maximum index when the indices I are added.
LowerOf(a, I) == IF I = {} THEN a ELSE Lower(a, Min(I))
HigherOf(a, I) == IF I = {} THEN a ELSE Higher(a, Max(I))

-----------------------------------------------------------------------------
(* Sparse stores                                                            *)

\* Mutant: the parts are rounded up.
MutRedistributed(bins, i) ==
  LET rest == Restrict(bins, DOMAIN bins \ {i})
      lo == Max({j \in DOMAIN rest : j < i})
      up == Min({j \in DOMAIN rest : j > i})
      n == up - lo
  IN  [j \in DOMAIN rest |-> rest[j] + CASE j = lo -> (bins[i] * (up - i) + n - 1) \div n
                                        [] j = up -> (bins[i] * (i - lo) + n - 1) \div n
                                        [] OTHER -> 0]

\* One bucket goes and its count is split between its neighbours, each part
\* rounded down.
Redistributed(bins, i) ==
  LET rest == Restrict(bins, DOMAIN bins \ {i})
      below == {j \in DOMAIN rest : j < i}
      above == {j \in DOMAIN rest : j > i}
      lo == Max(below)
      up == Min(above)
      part(j) == CASE below # {} /\ above # {} /\ j = lo -> (bins[i] * (up - i)) \div (up - lo)
                   [] below # {} /\ above # {} /\ j = up -> (bins[i] * (i - lo)) \div (up - lo)
                   [] below # {} /\ above = {} /\ j = lo -> bins[i]
                   [] below = {} /\ above # {} /\ j = up -> bins[i]
                   [] OTHER -> 0
  IN  IF below \cup above = {} THEN bins
      ELSE [j \in DOMAIN rest |-> rest[j] + part(j)]

\* collapseBuckets, removing the buckets in the given order.  The portions are
\* computed exactly; the code computes them in floating point.
collapseBuckets(s, order) ==
  LET f[n \in 0..Len(order)] == IF n = 0 THEN s.bins ELSE Redistributed(f[n - 1], order[n])
      b == f[Len(order)]
  IN  [s EXCEPT !.bins = b, !.minIndex = Min(DOMAIN b), !.maxIndex = Max(DOMAIN b),
                !.hasElements = TRUE, !.collapsed = @ \/ order # <<>>]

\* The buckets it removes.
LowCount(s) ==
  IF Cardinality(DOMAIN s.bins) < CollapseMin THEN {}
  ELSE {i \in DOMAIN s.bins : s.bins[i] <= CollapseThreshold /\ i \notin {s.minIndex, s.maxIndex}}

\* The orders in which a loop over a map may meet its keys.
Orders(I) == {q \in [1..Cardinality(I) -> I] : IsInjective(q)}

\* What may come of a store, one for each order.
Collapsed(s, wanted) ==
  IF wanted THEN {collapseBuckets(s, order) : order \in Orders(LowCount(s))} ELSE {s}

SparseAdd(s, i, c) ==
  LET t == [s EXCEPT
              !.bins = [j \in DOMAIN s.bins \cup {i} |-> Get(s, j) + IF j = i THEN c ELSE 0],
              !.count = @ + c, !.minIndex = Lower(@, i), !.maxIndex = Higher(@, i),
              !.hasElements = TRUE]
  IN  Collapsed(t, Cardinality(DOMAIN t.bins) > CollapseAbove)

SparseMerge(s, o) ==
  LET other == GetNonEmptyBuckets(o)
      t == [s EXCEPT
              !.bins = [j \in DOMAIN s.bins \cup DOMAIN other |-> Get(s, j) + Get(o, j)],
              !.minIndex = LowerOf(@, DOMAIN other), !.maxIndex = HigherOf(@, DOMAIN other),
              !.count = @ + o.count, !.hasElements = @ \/ s.count + o.count > 0,
              !.collapsed = @ \/ o.collapsed]
  IN  Collapsed(t, Cardinality(DOMAIN other) > MergeAbove)

-----------------------------------------------------------------------------
(* Dense stores                                                             *)

\* The array grows to the left or to the right; its capacity is never zero.
ensureCapacity(s, i) ==
  LET k == i - s.offset IN
  CASE k < 0 -> [s EXCEPT !.bins = [j \in 1..(0 - k) |-> 0] \o @, !.offset = i]
    [] k >= Len(s.bins) -> [s EXCEPT !.bins = @ \o [j \in 1..(k + 1 - Len(@)) |-> 0]]
    [] OTHER -> s

DenseAdd(s, i, c) ==
  LET t == ensureCapacity(s, i) IN
  [t EXCEPT !.bins[i - t.offset + 1] = @ + c, !.count = @ + c,
            !.minIndex = Lower(@, i), !.maxIndex = Higher(@, i), !.hasElements = TRUE]

DenseMerge(s, o) ==
  LET other == GetNonEmptyBuckets(o)
      t == IF DOMAIN other = {} THEN s
           ELSE ensureCapacity(ensureCapacity(s, Min(DOMAIN other)), Max(DOMAIN other))
  IN  [t EXCEPT
         !.bins = [k \in DOMAIN t.bins |-> t.bins[k] + Get(o, k - 1 + t.offset)],
         !.minIndex = LowerOf(@, DOMAIN other), !.maxIndex = HigherOf(@, DOMAIN other),
         !.count = @ + o.count, !.hasElements = @ \/ s.count + o.count > 0,
         !.collapsed = @ \/ o.collapsed]

-----------------------------------------------------------------------------
(* Both                                                                     *)

\* The stores that Add and Merge may leave.
StoreAdd(s, i, c) == IF s.kind = "sparse" THEN SparseAdd(s, i, c) ELSE {DenseAdd(s, i, c)}
StoreMerge(s, o) == IF s.kind = "sparse" THEN SparseMerge(s, o) ELSE {DenseMerge(s, o)}

\* A dense store keeps its array and its offset.
StoreClear(s) ==
  IF s.kind = "sparse" THEN NewSparseStore
  ELSE [s EXCEPT !.bins = [k \in DOMAIN @ |-> 0], !.count = 0, !.minIndex = Top,
                 !.maxIndex = -Top, !.hasElements = FALSE, !.collapsed = FALSE]

\* Is the density of the store above (below) num / den?  A sparse store with one
\* index has density 0.
DensityAbove(s, num, den) ==
  IF s.kind = "sparse"
    THEN /\ s.hasElements /\ s.maxIndex > s.minIndex
         /\ Cardinality(DOMAIN s.bins) * den > num * (s.maxIndex - s.minIndex + 1)
    ELSE Cardinality(Indices(s)) * den > num * Len(s.bins)

DensityBelow(s, num, den) ==
  IF s.kind = "sparse"
    THEN \/ ~s.hasElements \/ s.maxIndex <= s.minIndex
         \/ Cardinality(DOMAIN s.bins) * den < num * (s.maxIndex - s.minIndex + 1)
    ELSE Cardinality(Indices(s)) * den < num * Len(s.bins)
=============================================================================
