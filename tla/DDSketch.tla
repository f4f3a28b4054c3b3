------------------------------ MODULE DDSketch ------------------------------
(***************************************************************************)
(* Sketches that values are added to, that are merged, copied and reset,   *)
(* and that change their store with its density.  gamma is 1/2, so that    *)
(* the buckets end at the powers of 3/2; a value v stands for v / Unit, so *)
(* that there are indices below 0.  The logarithm is exact where the code  *)
(* computes it in floating point.                                          *)
(* Every method holds the mutex of its sketch throughout.  The settings    *)
(* are the default ones: sketches start sparse, change their store and     *)
(* have the thresholds that Copy also gives new stores.  What was added is *)
(* kept beside each sketch to compare its answers with.                    *)
(***************************************************************************)
EXTENDS SketchStore, Sums

CONSTANTS
  Sketches,
  MinValue, MaxValue,        \* of the configuration
  Unit,                      \* the value 1
  Values,                    \* values added, 0 among them
  MaxCount,                  \* counts added are 0..MaxCount
  MaxOps,                    \* bound: operations
  Den                        \* bound: quantiles asked for are n / Den

\* The indices of the buckets of all values lie between these.
LowIndex == -(2 * Unit)
HighIndex == 2 * (MaxValue \div Unit + 1)

ASSUME SketchAssumption ==
  /\ {MinValue, MaxValue, Unit, Den} \subseteq Nat \ {0} /\ MinValue <= MaxValue
  /\ Values \subseteq Nat /\ MaxCount \in Nat /\ MaxOps \in Nat
  /\ Top > MaxValue /\ Top > HighIndex /\ -Top < LowIndex

VARIABLES
  sketch,        \* each DDSketch
  added,         \* how often each value was added, after it was bounded
  nOps

sketchVars == <<sketch, added, nOps>>

Inf == Top

\* spare is the dense store while it is not in use.
NewDDSketch ==
  [useSparseStore |-> TRUE, store |-> NewSparseStore, spare |-> NewDenseStore,
   min |-> Inf, max |-> -Inf, sum |-> 0, count |-> 0]

Bounds == MinValue..MaxValue

SketchInit ==
  /\ sketch = [s \in Sketches |-> NewDDSketch]
  /\ added = [s \in Sketches |-> [v \in Bounds |-> 0]]
  /\ nOps = 0

\* Bucket i ends at EndNum(i) / EndDen(i).  The end is v or more; it is v times
\* num / den or less.
EndNum(i) == IF i >= 0 THEN Power(3, i) ELSE Power(2, -i)
EndDen(i) == IF i >= 0 THEN Power(2, i) ELSE Power(3, -i)
EndsAbove(i, v) == EndNum(i) * Unit >= v * EndDen(i)
EndsWithin(i, v, num, den) == den * (EndNum(i) * Unit) <= num * (v * EndDen(i))

\* Mutant: the logarithm is rounded down.
MutValueToIndex(v) ==
  CHOOSE i \in LowIndex..HighIndex : EndsWithin(i, v, 1, 1) /\ ~EndsWithin(i + 1, v, 1, 1)

\* The least index whose bucket ends at v or above.
valueToIndex(v) == CHOOSE i \in LowIndex..HighIndex : EndsAbove(i, v) /\ ~EndsAbove(i - 1, v)

Bounded(v) == IF v < MinValue THEN MinValue ELSE IF v > MaxValue THEN MaxValue ELSE v

\* checkAndSwitchStores, when a second has passed; the threshold is 1/2.  The
\* dense store that is left keeps its array and its counts.
Switched(d) ==
  CASE d.useSparseStore /\ DensityAbove(d.store, 1, 2) ->
         {[d EXCEPT !.store = DenseMerge(StoreClear(d.spare), d.store), !.spare = NewDenseStore,
                    !.useSparseStore = FALSE]}
    [] ~d.useSparseStore /\ DensityBelow(d.store, 1, 4) ->
         {[d EXCEPT !.store = n, !.spare = d.store, !.useSparseStore = TRUE] :
            n \in SparseMerge(NewSparseStore, d.store)}
    [] OTHER -> {d}

Checked(d, second) == IF second THEN Switched(d) ELSE {d}

\* AddWithCount; a value that is not positive is an error, a count of 0 nothing.
AddWithCount(s, value, c, second) ==
  LET v == Bounded(value)
      d == sketch[s]
  IN  /\ nOps < MaxOps /\ nOps' = nOps + 1
      /\ value > 0 /\ c > 0
      /\ \E st \in StoreAdd(d.store, valueToIndex(v), c) :
         \E e \in Checked([d EXCEPT !.store = st, !.count = @ + c, !.sum = @ + v * c,
                                    !.min = Lower(@, v), !.max = Higher(@, v)], second) :
           sketch' = [sketch EXCEPT ![s] = e]
      /\ added' = [added EXCEPT ![s][v] = @ + c]

\* Merge of another sketch; with itself it would wait for its own mutex.
MergeSketch(s, o, second) ==
  LET d == sketch[s]
      other == sketch[o]
  IN  /\ nOps < MaxOps /\ nOps' = nOps + 1
      /\ s # o
      /\ \E st \in StoreMerge(d.store, other.store) :
         \E e \in Checked([d EXCEPT !.store = st, !.count = @ + other.count, !.sum = @ + other.sum,
                                    !.min = Lower(@, other.min), !.max = Higher(@, other.max)],
                          second) :
           sketch' = [sketch EXCEPT ![s] = e]
      /\ added' = [added EXCEPT ![s] = [v \in Bounds |-> @[v] + added[o][v]]]

\* o becomes a copy of s; the store that is not in use is made anew.
Copy(s, o) ==
  /\ nOps < MaxOps /\ nOps' = nOps + 1
  /\ s # o
  /\ sketch' = [sketch EXCEPT ![o] =
       [sketch[s] EXCEPT !.spare = NewDenseStore]]
  /\ added' = [added EXCEPT ![o] = added[s]]

ResetSketch(s) ==
  /\ nOps < MaxOps /\ nOps' = nOps + 1
  /\ sketch' = [sketch EXCEPT ![s] =
       [sketch[s] EXCEPT !.store = StoreClear(@), !.spare = StoreClear(@), !.min = Inf, !.max = -Inf,
                         !.sum = 0, !.count = 0]]
  /\ added' = [added EXCEPT ![s] = [v \in Bounds |-> 0]]

SketchNext ==
  \E s \in Sketches, second \in BOOLEAN :
    \/ \E v \in Values, c \in 0..MaxCount : AddWithCount(s, v, c, second)
    \/ \E o \in Sketches : MergeSketch(s, o, second) \/ Copy(s, o)
    \/ ResetSketch(s)

SketchSpec == SketchInit /\ [][SketchNext]_sketchVars

-----------------------------------------------------------------------------
(* Queries                                                                  *)

\* Sum of the counts from the minimum index to i.
CountUpTo(st, i) == Total([j \in st.minIndex..i |-> Get(st, j)], st.minIndex, i)

\* GetValueAtQuantile for the quantile n / den strictly between 0 and 1: the index
\* of the bucket with the rank, or Top when the counts do not reach it (the code
\* then answers max).
QuantileIndex(d, n, den) ==
  LET rank == (n * d.count + den - 1) \div den
      hit == {i \in d.store.minIndex..d.store.maxIndex : CountUpTo(d.store, i) >= rank}
  IN  IF hit = {} THEN Top ELSE Min(hit)

\* GetQuantileAtValue times the count.
RankBelow(d, value) ==
  LET v == Bounded(value) IN
  IF v <= d.min THEN 0 ELSE IF v >= d.max THEN d.count
  ELSE CountUpTo(d.store, valueToIndex(v) - 1)

-----------------------------------------------------------------------------
(* Serialization: Bytes and FromBytes                                       *)

\* What Bytes writes: the flags decide which statistics are there.
Bytes(d) ==
  [sparse |-> d.useSparseStore, count |-> d.count,
   min |-> IF d.min = Inf THEN <<>> ELSE <<d.min>>,
   max |-> IF d.max = -Inf THEN <<>> ELSE <<d.max>>,
   sum |-> IF d.sum > 0 THEN <<d.sum>> ELSE <<>>,
   buckets |-> GetNonEmptyBuckets(d.store)]

\* The stores its loop over the buckets, written in this order, may leave.
ReadBuckets(b, order) ==
  LET f[n \in 0..Len(order)] ==
        IF n = 0 THEN {IF b.sparse THEN NewSparseStore ELSE NewDenseStore}
        ELSE UNION {StoreAdd(st, order[n], b.buckets[order[n]]) : st \in f[n - 1]}
  IN  f[Len(order)]

\* What FromBytes may build in a new sketch, had its Reset returned.
FromBytes(b) ==
  {[NewDDSketch EXCEPT !.useSparseStore = b.sparse, !.count = b.count, !.store = st,
                       !.min = IF b.min = <<>> THEN Inf ELSE b.min[1],
                       !.max = IF b.max = <<>> THEN -Inf ELSE b.max[1],
                       !.sum = IF b.sum = <<>> THEN 0 ELSE b.sum[1]] :
     st \in UNION {ReadBuckets(b, order) : order \in Orders(DOMAIN b.buckets)}}

-----------------------------------------------------------------------------
(* Properties                                                               *)

\* How many of the values added to s are at most v.
Rank(s, v) == Total(added[s], MinValue, v)

\* The least value of s with so many values at most as large.
Nth(s, r) == Min({v \in Bounds : Rank(s, v) >= r})

\* The end of bucket i is x or more, by at most gamma times x.
WithinGamma(i, x) == EndsAbove(i, x) /\ EndsWithin(i, x, 3, 2)

\* A quantile of s is answered within the relative error gamma.
Accurate(s) ==
  sketch[s].count > 0 =>
    \A n \in 1..(Den - 1) :
      WithinGamma(QuantileIndex(sketch[s], n, Den), Nth(s, (n * sketch[s].count + Den - 1) \div Den))

\* Whatever was merged, copied and moved between stores, GetValueAtQuantile is
\* within gamma of the exact quantile, unless buckets were collapsed.
QuantilesAccurate == \A s \in Sketches : sketch[s].store.collapsed \/ Accurate(s)

\* config.go: "The relative error is guaranteed to be less than or equal to
\* gamma", with no exception for buckets that collapseBuckets removed.
AccuracyGuaranteed == \A s \in Sketches : Accurate(s)

\* Collapsing never invents a count and never moves the ends of the store.
CollapseLoses ==
  \A s \in Sketches :
    LET st == sketch[s].store IN
    st.hasElements =>
      /\ Total([i \in LowIndex..HighIndex |-> Get(st, i)], LowIndex, HighIndex) <= st.count
      /\ st.minIndex = valueToIndex(sketch[s].min) /\ st.maxIndex = valueToIndex(sketch[s].max)

=============================================================================
