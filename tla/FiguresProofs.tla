---------------------------- MODULE FiguresProofs ----------------------------
(* Proofs about what the agent computes: the average of a window, and the     *)
(* quantiles of a sketch, for any values and thresholds of the stores.  A     *)
(* recursive function has the values its definition says because it exists    *)
(* (CountsExist, AllSumsIs, Recursion); induction is over the least number of *)
(* a set (Induct).  A fact only one lemma needs is a named step of its proof. *)
EXTENDS UsageMonitor, DDSketch, WellFoundedInduction, TLAPS

USE Zenon

-----------------------------------------------------------------------------
(* Induction                                                                 *)

\* Induction over a set of numbers.
LEMMA Induct ==
  ASSUME NEW S, 0 \in S, \A n \in Nat : n \in S => n + 1 \in S
  PROVE  Nat \subseteq S
<1> SUFFICES ASSUME Nat \ S # {} PROVE FALSE
  OBVIOUS
<1>1. PICK x \in Nat \ S : \A y \in Nat \ S : ~ (<<y, x>> \in OpToRel(<, Nat))
  BY NatLessThanWellFounded, WFMin
<1>2. x # 0 /\ x \in Nat
  BY <1>1
<1>3. x - 1 \in Nat /\ x - 1 < x /\ (x - 1) + 1 = x
  BY <1>2, SMT
<1>4. x - 1 \in S
  BY <1>1, <1>3 DEF OpToRel
<1> QED
  BY <1>1, <1>3, <1>4

\* The least number of a set.
LEMMA Least ==
  ASSUME NEW Q, Q \subseteq Nat, Q # {}
  PROVE  \E k \in Q : \A j \in Q : k <= j
<1>1. PICK k \in Q : \A j \in Q : ~ (<<j, k>> \in OpToRel(<, Nat))
  BY NatLessThanWellFounded, WFMin
<1>2. ASSUME NEW j \in Q PROVE k <= j
  <2>1. j \in Nat /\ k \in Nat
    OBVIOUS
  <2>2. ~(j < k)
    BY <1>1, <2>1 DEF OpToRel
  <2> QED
    BY <2>1, <2>2, SMT
<1> QED
  BY <1>2

-----------------------------------------------------------------------------
(* Counting the elements of a set                                            *)

\* The subsets of S whose elements n places suffice for.
Listed(S, n) == {T \in SUBSET S : \E g \in [1..n -> S] : \A x \in T : \E i \in 1..n : g[i] = x}

Rest(T) == T \ {CHOOSE x : x \in T}

\* f counts as the recursive function of Cardinality does.
CountsAll(f, C) == \A T \in C : f[T] = IF T = {} THEN 0 ELSE 1 + f[Rest(T)]

-----------------------------------------------------------------------------
(* Sums                                                                      *)

\* g has the sums of the first 0 to n values of f from a.
FirstSums(g, f, a, n) == g = [m \in 0..n |-> IF m = 0 THEN 0 ELSE g[m - 1] + f[a + m - 1]]

\* All of them, as Total has them.
AllSums(f, a) == CHOOSE s : s = [n \in Nat |-> IF n = 0 THEN 0 ELSE s[n - 1] + f[a + n - 1]]

LEMMA AllSumsIs ==
  ASSUME NEW f, NEW a
  PROVE  /\ AllSums(f, a)[0] = 0
         /\ \A n \in Nat : n # 0 => AllSums(f, a)[n] = AllSums(f, a)[n - 1] + f[a + n - 1]
<1>SumsUnique. ASSUME NEW j, NEW e, NEW g, NEW h, NEW n \in Nat, NEW k \in Nat, FirstSums(g, j, e, n), FirstSums(h, j, e, k)
               PROVE  \A m \in Nat : m <= n /\ m <= k => g[m] = h[m]
  <2> USE <1>SumsUnique
  <2> DEFINE S == {m \in Nat : m <= n /\ m <= k => g[m] = h[m]}
  <2>0. /\ \A m \in 0..n : g[m] = IF m = 0 THEN 0 ELSE g[m - 1] + j[e + m - 1]
        /\ \A m \in 0..k : h[m] = IF m = 0 THEN 0 ELSE h[m - 1] + j[e + m - 1]
    BY DEF FirstSums
  <2>1. 0 \in S
    <3>1. 0 \in 0..n /\ 0 \in 0..k
      BY SMT
    <3> QED
      BY <2>0, <3>1
  <2>2. ASSUME NEW m \in Nat, m \in S PROVE m + 1 \in S
    <3>1. m + 1 \in Nat /\ m + 1 # 0 /\ (m + 1) - 1 = m
      BY SMT
    <3> SUFFICES ASSUME m + 1 <= n, m + 1 <= k PROVE g[m + 1] = h[m + 1]
      BY <3>1
    <3>2. m + 1 \in 0..n /\ m + 1 \in 0..k /\ m <= n /\ m <= k
      BY SMT
    <3>3. g[m] = h[m]
      BY <2>2, <3>2
    <3> QED
      BY <2>0, <3>1, <3>2, <3>3, ZenonT(60)
  <2> HIDE DEF S
  <2>3. Nat \subseteq S
    BY <2>1, <2>2, Induct
  <2> QED
    BY <2>3 DEF S
<1>SumsExist. ASSUME NEW j, NEW e
              PROVE  \A n \in Nat : \E g : FirstSums(g, j, e, n)
  <2> DEFINE S == {n \in Nat : \E g : FirstSums(g, j, e, n)}
  <2>1. 0 \in S
    <3> DEFINE g == [m \in 0..0 |-> 0]
    <3>1. \A m : m \in 0..0 <=> m = 0
      BY SMT
    <3>2. FirstSums(g, j, e, 0)
      BY <3>1 DEF FirstSums
    <3> QED
      BY <3>2
  <2>2. ASSUME NEW n \in Nat, n \in S PROVE n + 1 \in S
    <3>1. PICK g : FirstSums(g, j, e, n)
      BY <2>2
    <3>2. PICK h : h = [m \in 0..(n + 1) |-> IF m = n + 1 THEN g[n] + j[e + (n + 1) - 1] ELSE g[m]]
      OBVIOUS
    <3>3. \A m \in 0..n : g[m] = IF m = 0 THEN 0 ELSE g[m - 1] + j[e + m - 1]
      BY <3>1 DEF FirstSums
    <3>4. ASSUME NEW m \in 0..(n + 1) PROVE h[m] = IF m = 0 THEN 0 ELSE h[m - 1] + j[e + m - 1]
      <4>1. CASE m = n + 1
        <5>1. m # 0 /\ m - 1 = n /\ n \in 0..(n + 1) /\ n # n + 1
          BY <4>1, SMT
        <5>2. h[m] = g[n] + j[e + m - 1] /\ h[m - 1] = g[n]
          BY <3>2, <4>1, <5>1
        <5> QED
          BY <5>1, <5>2
      <4>2. CASE m # n + 1 /\ m = 0
        <5>1. 0 \in 0..n
          BY SMT
        <5>2. g[0] = 0
          BY <3>3, <5>1
        <5>3. h[m] = g[m]
          BY <3>2, <4>2
        <5> QED
          BY <4>2, <5>2, <5>3
      <4>3. CASE m # n + 1 /\ m # 0
        <5>1. m \in 0..n /\ m - 1 \in 0..(n + 1) /\ m - 1 # n + 1
          BY <4>3, SMT
        <5>2. h[m] = g[m] /\ h[m - 1] = g[m - 1]
          BY <3>2, <4>3, <5>1
        <5> QED
          BY <3>3, <4>3, <5>1, <5>2
      <4> QED
        BY <4>1, <4>2, <4>3
    <3>5. h = [m \in 0..(n + 1) |-> h[m]]
      BY <3>2
    <3>6. FirstSums(h, j, e, n + 1)
      BY <3>4, <3>5 DEF FirstSums
    <3>7. n + 1 \in Nat
      BY SMT
    <3> QED
      BY <3>6, <3>7
  <2> HIDE DEF S
  <2>3. Nat \subseteq S
    BY <2>1, <2>2, Induct
  <2> QED
    BY <2>3 DEF S
<1>1. PICK G : G = [n \in Nat |-> CHOOSE g : FirstSums(g, f, a, n)]
  OBVIOUS
<1>2. \A n \in Nat : FirstSums(G[n], f, a, n)
  BY <1>1, <1>SumsExist
<1>3. PICK s : s = [n \in Nat |-> G[n][n]]
  OBVIOUS
<1>4. ASSUME NEW n \in Nat PROVE s[n] = IF n = 0 THEN 0 ELSE s[n - 1] + f[a + n - 1]
  <2>1. n \in 0..n /\ (n # 0 => n - 1 \in Nat /\ n - 1 <= n - 1 /\ n - 1 <= n)
    BY SMT
  <2>2. \A m \in 0..n : G[n][m] = IF m = 0 THEN 0 ELSE G[n][m - 1] + f[a + m - 1]
    BY <1>2 DEF FirstSums
  <2>3. ASSUME n # 0 PROVE G[n][n - 1] = G[n - 1][n - 1]
    <3>1. FirstSums(G[n], f, a, n) /\ FirstSums(G[n - 1], f, a, n - 1) /\ n - 1 \in Nat
      BY <1>2, <2>1, <2>3
    <3>2. PICK k, g, h : k \in Nat /\ k = n - 1 /\ g = G[n] /\ h = G[n - 1]
      BY <3>1
    <3>3. k \in Nat /\ FirstSums(g, f, a, n) /\ FirstSums(h, f, a, k)
      BY <3>1, <3>2
    <3>4. \A m \in Nat : m <= n /\ m <= k => g[m] = h[m]
      BY <3>3, <1>SumsUnique, SMT
    <3> QED
      BY <2>1, <2>3, <3>2, <3>4
  <2>4. s[n] = G[n][n] /\ (n # 0 => s[n - 1] = G[n - 1][n - 1])
    BY <1>3, <2>1
  <2> QED
    BY <2>1, <2>2, <2>3, <2>4
<1>5. s = [n \in Nat |-> s[n]]
  BY <1>3
<1>6. s = [n \in Nat |-> IF n = 0 THEN 0 ELSE s[n - 1] + f[a + n - 1]]
  BY <1>4, <1>5
<1>7. PICK t : t = AllSums(f, a)
  OBVIOUS
<1>8. t = [n \in Nat |-> IF n = 0 THEN 0 ELSE t[n - 1] + f[a + n - 1]]
  BY <1>6, <1>7 DEF AllSums
<1>9. \A n \in Nat : t[n] = IF n = 0 THEN 0 ELSE t[n - 1] + f[a + n - 1]
  BY <1>8
<1>10. 0 \in Nat
  BY SMT
<1> QED
  BY <1>7, <1>9, <1>10

LEMMA TotalNone ==
  ASSUME NEW f, NEW a, NEW b, b < a
  PROVE  Total(f, a, b) = 0
BY DEF Total

LEMMA TotalStep ==
  ASSUME NEW f, NEW a \in Int, NEW b \in Int, a <= b
  PROVE  Total(f, a, b) = Total(f, a, b - 1) + f[b]
<1>1. /\ b - a + 1 \in Nat /\ b - a + 1 # 0 /\ ~(b < a) /\ a + (b - a + 1) - 1 = b
      /\ (b - a + 1) - 1 = (b - 1) - a + 1 /\ (b - 1 < a => (b - a + 1) - 1 = 0) /\ 0 \in Nat
  BY SMT
<1>2. Total(f, a, b) = AllSums(f, a)[b - a + 1]
  BY <1>1 DEF Total, AllSums
<1>3. Total(f, a, b - 1) = AllSums(f, a)[(b - a + 1) - 1]
  <2>1. CASE b - 1 < a
    <3>1. AllSums(f, a)[0] = 0
      BY <1>1, AllSumsIs
    <3> QED
      BY <1>1, <2>1, <3>1 DEF Total
  <2>2. CASE ~(b - 1 < a)
    BY <1>1, <2>2 DEF Total, AllSums
  <2> QED
    BY <2>1, <2>2
<1>4. AllSums(f, a)[b - a + 1] = AllSums(f, a)[(b - a + 1) - 1] + f[a + (b - a + 1) - 1]
  BY <1>1, AllSumsIs
<1> QED
  BY <1>1, <1>2, <1>3, <1>4

\* Induction upwards from a - 1 to b.
LEMMA Upwards ==
  ASSUME NEW a \in Int, NEW b \in Int, NEW S, a - 1 <= b,
         a - 1 \in S, \A m \in a..b : m - 1 \in S => m \in S
  PROVE  b \in S
<1> DEFINE T == {n \in Nat : a + n - 1 <= b => a + n - 1 \in S}
<1>1. 0 \in T
  <2>1. 0 \in Nat /\ a + 0 - 1 = a - 1
    BY SMT
  <2> QED
    BY <2>1
<1>2. ASSUME NEW n \in Nat, n \in T PROVE n + 1 \in T
  <2>1. n + 1 \in Nat /\ a + (n + 1) - 1 = a + n
    BY SMT
  <2> SUFFICES ASSUME a + n <= b PROVE a + n \in S
    BY <2>1
  <2>2. a + n - 1 <= b /\ a + n \in a..b /\ (a + n) - 1 = a + n - 1
    BY SMT
  <2> QED
    BY <1>2, <2>2
<1> HIDE DEF T
<1>3. Nat \subseteq T
  BY <1>1, <1>2, Induct
<1>4. b - a + 1 \in Nat /\ a + (b - a + 1) - 1 = b /\ b <= b
  BY SMT
<1> QED
  BY <1>3, <1>4 DEF T

LEMMA TotalType ==
  ASSUME NEW f, NEW a \in Int, NEW b \in Int, \A i \in a..b : f[i] \in Int
  PROVE  Total(f, a, b) \in Int
<1>1. \A m \in Int : m < a => Total(f, a, m) = 0 /\ 0 \in Int
  BY TotalNone, SMT
<1>2. CASE b < a
  BY <1>1, <1>2
<1>3. CASE a <= b
  <2> DEFINE S == {m \in Int : Total(f, a, m) \in Int}
  <2>1. a - 1 \in S /\ a - 1 <= b
    BY <1>1, <1>3, SMT
  <2>2. ASSUME NEW m \in a..b, m - 1 \in S PROVE m \in S
    <3>1. m \in Int /\ a <= m /\ f[m] \in Int
      BY SMT
    <3>2. Total(f, a, m) = Total(f, a, m - 1) + f[m]
      BY <3>1, TotalStep
    <3>3. Total(f, a, m - 1) \in Int
      BY <2>2
    <3> QED
      BY <3>1, <3>2, <3>3, SMT
  <2> HIDE DEF S
  <2>3. b \in S
    BY <2>1, <2>2, Upwards
  <2> QED
    BY <2>3 DEF S
<1> QED
  BY <1>2, <1>3, SMT

LEMMA TotalAtMost ==
  ASSUME NEW f, NEW g, NEW a \in Int, NEW b \in Int,
         \A i \in a..b : f[i] \in Int /\ g[i] \in Int /\ f[i] <= g[i]
  PROVE  Total(f, a, b) <= Total(g, a, b)
<1>1. \A m \in Int : m < a => Total(f, a, m) = 0 /\ Total(g, a, m) = 0 /\ 0 <= 0 /\ 0 \in Int
  BY TotalNone, SMT
<1>2. CASE b < a
  BY <1>1, <1>2
<1>3. CASE a <= b
  <2> DEFINE S == {m \in Int : /\ Total(f, a, m) \in Int /\ Total(g, a, m) \in Int
                               /\ Total(f, a, m) <= Total(g, a, m)}
  <2>0. a - 1 \in Int /\ a - 1 < a /\ a - 1 <= b
    BY <1>3, SMT
  <2>1. a - 1 \in S
    BY <1>1, <2>0
  <2>2. ASSUME NEW m \in a..b, m - 1 \in S PROVE m \in S
    <3>1. m \in Int /\ a <= m
      BY SMT
    <3>2. Total(f, a, m) = Total(f, a, m - 1) + f[m] /\ Total(g, a, m) = Total(g, a, m - 1) + g[m]
      BY <3>1, TotalStep
    <3>3. /\ Total(f, a, m - 1) \in Int /\ Total(g, a, m - 1) \in Int
          /\ Total(f, a, m - 1) <= Total(g, a, m - 1)
      BY <2>2
    <3>4. f[m] \in Int /\ g[m] \in Int /\ f[m] <= g[m]
      OBVIOUS
    <3> QED
      BY <3>1, <3>2, <3>3, <3>4, SMT
  <2> HIDE DEF S
  <2>3. b \in S
    BY <2>0, <2>1, <2>2, Upwards
  <2> QED
    BY <2>3 DEF S
<1> QED
  BY <1>2, <1>3, SMT

\* The sum of a function with one value, and of two functions.
LEMMA TotalConstant ==
  ASSUME NEW f, NEW c \in Int, NEW a \in Int, NEW b \in Int, a - 1 <= b, \A i \in a..b : f[i] = c
  PROVE  Total(f, a, b) = c * (b - a + 1)
<1> DEFINE S == {m \in Int : Total(f, a, m) = c * (m - a + 1)}
<1>1. a - 1 \in S
  <2>1. a - 1 \in Int /\ a - 1 < a /\ c * ((a - 1) - a + 1) = 0
    BY SMT
  <2> QED
    BY <2>1, TotalNone
<1>2. ASSUME NEW m \in a..b, m - 1 \in S PROVE m \in S
  <2>1. m \in Int /\ a <= m /\ f[m] = c
    BY SMT
  <2>2. Total(f, a, m) = Total(f, a, m - 1) + f[m]
    BY <2>1, TotalStep
  <2>3. Total(f, a, m - 1) = c * ((m - 1) - a + 1)
    BY <1>2
  <2>4. c * ((m - 1) - a + 1) + c = c * (m - a + 1)
    BY <2>1, SMT
  <2> QED
    BY <2>1, <2>2, <2>3, <2>4
<1> HIDE DEF S
<1>3. b \in S
  BY <1>1, <1>2, Upwards
<1> QED
  BY <1>3 DEF S

LEMMA TotalOfSum ==
  ASSUME NEW f, NEW g, NEW h, NEW a \in Int, NEW b \in Int,
         \A i \in a..b : f[i] \in Int /\ g[i] \in Int /\ h[i] = f[i] + g[i]
  PROVE  Total(h, a, b) = Total(f, a, b) + Total(g, a, b)
<1>1. \A m \in Int : m < a => Total(f, a, m) = 0 /\ Total(g, a, m) = 0 /\ Total(h, a, m) = 0 /\ 0 + 0 = 0 /\ 0 \in Int
  BY TotalNone, SMT
<1>2. CASE b < a
  BY <1>1, <1>2
<1>3. CASE a <= b
  <2> DEFINE S == {m \in Int : /\ Total(f, a, m) \in Int /\ Total(g, a, m) \in Int
                               /\ Total(h, a, m) = Total(f, a, m) + Total(g, a, m)}
  <2>0. a - 1 \in Int /\ a - 1 < a /\ a - 1 <= b
    BY <1>3, SMT
  <2>1. a - 1 \in S
    BY <1>1, <2>0
  <2>2. ASSUME NEW m \in a..b, m - 1 \in S PROVE m \in S
    <3>1. m \in Int /\ a <= m
      BY SMT
    <3>2. /\ Total(f, a, m) = Total(f, a, m - 1) + f[m] /\ Total(g, a, m) = Total(g, a, m - 1) + g[m]
          /\ Total(h, a, m) = Total(h, a, m - 1) + h[m]
      BY <3>1, TotalStep
    <3>3. /\ Total(f, a, m - 1) \in Int /\ Total(g, a, m - 1) \in Int
          /\ Total(h, a, m - 1) = Total(f, a, m - 1) + Total(g, a, m - 1)
      BY <2>2
    <3>4. f[m] \in Int /\ g[m] \in Int /\ h[m] = f[m] + g[m]
      OBVIOUS
    <3> QED
      BY <3>1, <3>2, <3>3, <3>4, SMT
  <2> HIDE DEF S
  <2>3. b \in S
    BY <2>0, <2>1, <2>2, Upwards
  <2> QED
    BY <2>3 DEF S
<1> QED
  BY <1>2, <1>3, SMT

\* A sum in two parts.
LEMMA TotalSplit ==
  ASSUME NEW f, NEW a \in Int, NEW c \in Int, NEW b \in Int, a - 1 <= c, c <= b,
         \A i \in a..b : f[i] \in Int
  PROVE  Total(f, a, b) = Total(f, a, c) + Total(f, c + 1, b)
<1> DEFINE S == {m \in Int : Total(f, c + 1, m) \in Int /\ Total(f, a, m) = Total(f, a, c) + Total(f, c + 1, m)}
<1>0. Total(f, a, c) \in Int
  <2>1. \A i \in a..c : f[i] \in Int
    BY SMT
  <2> QED
    BY <2>1, TotalType
<1>1. (c + 1) - 1 \in S /\ (c + 1) - 1 <= b
  <2>1. (c + 1) - 1 = c /\ c < c + 1 /\ 0 \in Int /\ Total(f, a, c) + 0 = Total(f, a, c)
    BY <1>0, SMT
  <2> QED
    BY <2>1, TotalNone
<1>2. ASSUME NEW m \in (c + 1)..b, m - 1 \in S PROVE m \in S
  <2>1. m \in Int /\ a <= m /\ c + 1 <= m /\ c + 1 \in Int /\ m \in a..b
    BY SMT
  <2>2. Total(f, a, m) = Total(f, a, m - 1) + f[m] /\ Total(f, c + 1, m) = Total(f, c + 1, m - 1) + f[m]
    BY <2>1, TotalStep
  <2>3. Total(f, c + 1, m - 1) \in Int /\ Total(f, a, m - 1) = Total(f, a, c) + Total(f, c + 1, m - 1)
    BY <1>2
  <2>4. f[m] \in Int
    BY <2>1
  <2> QED
    BY <1>0, <2>1, <2>2, <2>3, <2>4, SMT
<1> HIDE DEF S
<1>3. c + 1 \in Int
  BY SMT
<1>4. b \in S
  BY <1>1, <1>2, <1>3, Upwards
<1> QED
  BY <1>4 DEF S

-----------------------------------------------------------------------------
(* The monitor of a component                                                *)

\* A sum that goes on with one value.
GoesOn(f, x, c, n, v) ==
  /\ x \in Int /\ c \in Int /\ n \in Int /\ v \in Int /\ x <= c /\ c <= n
  /\ \A t \in x..(c - 1) : f[t] \in Int
  /\ \A t \in c..(n - 1) : f[t] = v

\* The amount in force is amt[m] from at[m - 1] to at[m], for dur[m] ticks; tr has
\* the amounts of the ticks.
Steps(L, at, dur, amt, tr) ==
  /\ \A m \in 0..L : at[m] \in Nat
  /\ \A m \in 1..L : /\ dur[m] \in Nat /\ amt[m] \in Int /\ at[m] = at[m - 1] + dur[m]
                     /\ \A t \in at[m - 1]..(at[m] - 1) : tr[t] = amt[m]

\* What the sums from k to m have in common with the time between.
Covered(k, m, at, dur, sum, tr) ==
  /\ Total(dur, k, m) = at[m] - at[k - 1] /\ at[k - 1] <= at[m]
  /\ Total(sum, k, m) = Total(tr, at[k - 1], at[m] - 1)
  /\ \A t \in at[k - 1]..(at[m] - 1) : tr[t] \in Int

Samples == [amount : Nat, Timestamp : Nat, Duration : Nat]

UsageTypeOK ==
  /\ now \in Nat \ {0}
  /\ current \in [amount : Nat, above : SUBSET Resources, Timestamp : Nat]
  /\ history \in Seq(Samples)
  /\ trace \in Seq(Nat) /\ Len(trace) = now - 1

\* Each sample of h ends where the next begins, the last one at end, and tr has
\* its amount for every tick of it.
Chained(h, end, tr) ==
  \A k \in 1..Len(h) :
    /\ h[k].Timestamp > 0
    /\ h[k].Timestamp + h[k].Duration = IF k = Len(h) THEN end ELSE h[k + 1].Timestamp
    /\ \A t \in h[k].Timestamp..((h[k].Timestamp + h[k].Duration) - 1) : tr[t] = h[k].amount

\* The current usage has been in force since its timestamp.
InForce(c, n, tr) == c.Timestamp > 0 => \A t \in c.Timestamp..(n - 1) : tr[t] = c.amount

UsageInv ==
  /\ UsageTypeOK
  /\ current.Timestamp <= now /\ (history # <<>> => current.Timestamp > 0)
  /\ Chained(history, current.Timestamp, trace) /\ InForce(current, now, trace)

\* What GetAverageUsage adds up is what was used, whatever the samples and the
\* window.
THEOREM AverageIsWindow == UsageSpec => []AverageOfWindow
<1>UsageInvInit. NewComponentMonitor => UsageInv
  <2> SUFFICES ASSUME NewComponentMonitor PROVE UsageInv
    OBVIOUS
  <2>1. /\ now = 1 /\ history = <<>> /\ trace = <<>>
        /\ current = [amount |-> 0, above |-> {}, Timestamp |-> 0]
    BY DEF NewComponentMonitor
  <2>2. UsageTypeOK
    BY <2>1, SMT DEF UsageTypeOK
  <2>3. Chained(history, current.Timestamp, trace)
    BY <2>1, SMT DEF Chained
  <2>4. InForce(current, now, trace) /\ current.Timestamp <= now
    BY <2>1, SMT DEF InForce
  <2> QED
    BY <2>1, <2>2, <2>3, <2>4 DEF UsageInv
<1>UsageInvStep. UsageInv /\ [UsageNext]_usageVars => UsageInv'
  \* What a history keeps when the trace grows, the oldest sample goes, or one is
  \* added.
  <2>ChainedTrace. ASSUME NEW h \in Seq(Samples), NEW end \in Nat, NEW tr \in Seq(Nat), NEW x \in Nat,
                          Chained(h, end, tr), end <= Len(tr) + 1
                   PROVE  Chained(h, end, Append(tr, x))
    <3> USE <2>ChainedTrace
    <3>0. \A k \in 1..Len(h) : h[k] \in Samples
      BY SMT
    <3>1. \A k \in 1..Len(h) : h[k].Timestamp \in Nat /\ h[k].Duration \in Nat
      BY <3>0 DEF Samples
    <3>2. \A k \in 1..Len(h) : h[k].Timestamp + h[k].Duration <= end
      <4> DEFINE T == {n \in Nat : n < Len(h) => h[Len(h) - n].Timestamp + h[Len(h) - n].Duration <= end}
      <4>1. 0 \in T
        BY <3>1, SMT DEF Chained
      <4>2. ASSUME NEW n \in Nat, n \in T PROVE n + 1 \in T
        <5> SUFFICES ASSUME n + 1 < Len(h)
                     PROVE  h[Len(h) - (n + 1)].Timestamp + h[Len(h) - (n + 1)].Duration <= end
          BY SMT
        <5>1. PICK j : j = Len(h) - (n + 1)
          OBVIOUS
        <5>2. j \in 1..Len(h) /\ j + 1 \in 1..Len(h) /\ j # Len(h) /\ j + 1 = Len(h) - n /\ n < Len(h)
          BY <5>1, SMT
        <5>3. h[j + 1].Timestamp + h[j + 1].Duration <= end
          BY <4>2, <5>2
        <5>4. h[j].Timestamp + h[j].Duration = h[j + 1].Timestamp
          BY <5>2 DEF Chained
        <5>5. h[j + 1].Timestamp \in Nat /\ h[j + 1].Duration \in Nat
          BY <3>1, <5>2
        <5>6. h[j].Timestamp + h[j].Duration <= end
          BY <5>3, <5>4, <5>5, SMT
        <5> QED
          BY <5>1, <5>6
      <4> HIDE DEF T
      <4>3. Nat \subseteq T
        BY <4>1, <4>2, Induct
      <4>4. ASSUME NEW k \in 1..Len(h) PROVE h[k].Timestamp + h[k].Duration <= end
        <5>1. Len(h) - k \in Nat /\ Len(h) - k < Len(h) /\ Len(h) - (Len(h) - k) = k
          BY SMT
        <5> QED
          BY <4>3, <5>1 DEF T
      <4> QED
        BY <4>4
    <3>3. ASSUME NEW k \in 1..Len(h), NEW t \in h[k].Timestamp..((h[k].Timestamp + h[k].Duration) - 1)
          PROVE  Append(tr, x)[t] = h[k].amount
      <4>1. h[k].Timestamp > 0 /\ tr[t] = h[k].amount
        BY DEF Chained
      <4>2. h[k].Timestamp \in Nat /\ h[k].Duration \in Nat /\ h[k].Timestamp + h[k].Duration <= end
        BY <3>1, <3>2
      <4>3. t \in 1..Len(tr)
        <5>1. PICK p \in Nat, d \in Nat : p = h[k].Timestamp /\ d = h[k].Duration
          BY <4>2
        <5>2. p > 0 /\ p + d <= end /\ t \in p..((p + d) - 1)
          BY <4>1, <4>2, <5>1
        <5> QED
          BY <5>2, SMT
      <4>4. Append(tr, x)[t] = tr[t]
        BY <4>3, SMT
      <4> QED
        BY <4>1, <4>4
    <3> QED
      BY <3>3 DEF Chained
  <2>ChainedTail. ASSUME NEW h \in Seq(Samples), NEW end \in Nat, NEW tr, h # <<>>, Chained(h, end, tr)
                  PROVE  Chained(Tail(h), end, tr)
    <3> USE <2>ChainedTail
    <3>1. PICK g : g = Tail(h)
      OBVIOUS
    <3>2. Len(g) = Len(h) - 1 /\ Len(h) \in Nat /\ \A k \in 1..Len(g) : g[k] = h[k + 1]
      BY <3>1, SMT
    <3>3. ASSUME NEW k \in 1..Len(g)
          PROVE  /\ g[k] = h[k + 1] /\ k + 1 \in 1..Len(h) /\ (k = Len(g) <=> k + 1 = Len(h))
                 /\ (k # Len(g) => g[k + 1] = h[(k + 1) + 1])
      <4>1. k + 1 \in 1..Len(h) /\ (k = Len(g) <=> k + 1 = Len(h)) /\ (k # Len(g) => k + 1 \in 1..Len(g))
        BY <3>2, SMT
      <4> QED
        BY <3>2, <4>1
    <3>4. ASSUME NEW k \in 1..Len(g)
          PROVE  /\ g[k].Timestamp > 0
                 /\ g[k].Timestamp + g[k].Duration = IF k = Len(g) THEN end ELSE g[k + 1].Timestamp
                 /\ \A t \in g[k].Timestamp..((g[k].Timestamp + g[k].Duration) - 1) : tr[t] = g[k].amount
      <4>1. PICK j \in 1..Len(h) : j = k + 1
        BY <3>3
      <4>2. /\ h[j].Timestamp > 0
            /\ h[j].Timestamp + h[j].Duration = IF j = Len(h) THEN end ELSE h[j + 1].Timestamp
            /\ \A t \in h[j].Timestamp..((h[j].Timestamp + h[j].Duration) - 1) : tr[t] = h[j].amount
        BY DEF Chained
      <4> QED
        BY <3>3, <4>1, <4>2
    <3> QED
      BY <3>1, <3>4 DEF Chained
  <2>ChainedAppend. ASSUME NEW h \in Seq(Samples), NEW e \in Samples, NEW end \in Nat, NEW tr,
                           Chained(h, e.Timestamp, tr), e.Timestamp > 0, e.Timestamp + e.Duration = end,
                           \A t \in e.Timestamp..((e.Timestamp + e.Duration) - 1) : tr[t] = e.amount
                    PROVE  Chained(Append(h, e), end, tr)
    <3> USE <2>ChainedAppend
    <3>1. PICK g : g = Append(h, e)
      OBVIOUS
    <3>2. /\ Len(g) = Len(h) + 1 /\ Len(h) \in Nat /\ g[Len(g)] = e
          /\ \A k \in 1..Len(h) : g[k] = h[k]
      BY <3>1, SMT
    <3>3. ASSUME NEW k \in 1..Len(g)
          PROVE  \/ k = Len(g)
                 \/ k # Len(g) /\ k \in 1..Len(h) /\ (k = Len(h) => k + 1 = Len(g))
                    /\ (k # Len(h) => k + 1 \in 1..Len(h))
      BY <3>2, SMT
    <3>4. ASSUME NEW k \in 1..Len(g)
          PROVE  /\ g[k].Timestamp > 0
                 /\ g[k].Timestamp + g[k].Duration = IF k = Len(g) THEN end ELSE g[k + 1].Timestamp
                 /\ \A t \in g[k].Timestamp..((g[k].Timestamp + g[k].Duration) - 1) : tr[t] = g[k].amount
      <4>1. CASE k = Len(g)
        BY <3>2, <4>1
      <4>2. CASE k # Len(g)
        <5>1. k \in 1..Len(h) /\ g[k] = h[k]
          BY <3>2, <3>3, <4>2
        <5>2. g[k + 1].Timestamp = IF k = Len(h) THEN e.Timestamp ELSE h[k + 1].Timestamp
          BY <3>2, <3>3, <4>2
        <5> QED
          BY <4>2, <5>1, <5>2 DEF Chained
      <4> QED
        BY <4>1, <4>2
    <3> QED
      BY <3>1, <3>4 DEF Chained
  <2>LongerType. ASSUME NEW S, NEW h \in Seq(S), NEW e \in S
                 PROVE  /\ Append(h, e) \in Seq(S) /\ Append(h, e) # <<>>
                        /\ Tail(Append(h, e)) \in Seq(S)
    <3>0. Append(h, e) \in Seq(S) /\ Len(Append(h, e)) # 0 /\ Len(<<>>) = 0
      BY SMT
    <3>1. Append(h, e) \in Seq(S) /\ Append(h, e) # <<>>
      BY <3>0
    <3> QED
      BY <3>1, SMT
  <2> SUFFICES ASSUME UsageInv, [UsageNext]_usageVars PROVE UsageInv'
    OBVIOUS
  <2>0. /\ now \in Nat \ {0} /\ now \in Nat
        /\ current.amount \in Nat /\ current.Timestamp \in Nat
        /\ history \in Seq(Samples) /\ trace \in Seq(Nat) /\ Len(trace) = now - 1
        /\ current.Timestamp <= now
        /\ Chained(history, current.Timestamp, trace) /\ InForce(current, now, trace)
    BY DEF UsageInv, UsageTypeOK
  <2>1. ASSUME Clock PROVE UsageInv'
    <3>1. /\ now' = now + 1 /\ trace' = Append(trace, current.amount)
          /\ current' = current /\ history' = history
      BY <2>1 DEF Clock
    <3>2. UsageTypeOK'
      <4>1. now' \in Nat \ {0} /\ trace' \in Seq(Nat) /\ Len(trace') = now' - 1
        BY <2>0, <3>1, SMT
      <4> QED
        BY <3>1, <4>1 DEF UsageInv, UsageTypeOK
    <3>3. current.Timestamp <= Len(trace) + 1
      BY <2>0, SMT
    <3>4. Chained(history, current.Timestamp, Append(trace, current.amount))
      BY <2>0, <3>3, <2>ChainedTrace
    <3>5. InForce(current, now + 1, Append(trace, current.amount))
      <4> SUFFICES ASSUME current.Timestamp > 0, NEW t \in current.Timestamp..((now + 1) - 1)
                   PROVE  Append(trace, current.amount)[t] = current.amount
        BY DEF InForce
      <4>1. t = Len(trace) + 1 \/ (t \in 1..Len(trace) /\ t \in current.Timestamp..(now - 1))
        BY <2>0, SMT
      <4>2. \A i \in 1..Len(trace) : Append(trace, current.amount)[i] = trace[i]
        BY <2>0, SMT
      <4>3. Append(trace, current.amount)[Len(trace) + 1] = current.amount
        BY <2>0, SMT
      <4>4. \A i \in current.Timestamp..(now - 1) : trace[i] = current.amount
        BY <2>0 DEF InForce
      <4> QED
        BY <4>1, <4>2, <4>3, <4>4
    <3>6. current.Timestamp <= now + 1
      BY <2>0, SMT
    <3> QED
      BY <3>1, <3>2, <3>4, <3>5, <3>6 DEF UsageInv
  <2>2. ASSUME NEW a \in 0..MaxAmount, NEW above \in SUBSET Resources, UpdateResourceUsage(a, above)
        PROVE  UsageInv'
    <3>0. a \in Nat
      BY SMT
    <3>1. /\ now' = now /\ trace' = trace
          /\ current' = [amount |-> a, above |-> above, Timestamp |-> now]
          /\ history' = IF current.Timestamp > 0 THEN Kept(Append(history, Sample)) ELSE history
      BY <2>2 DEF UpdateResourceUsage
    <3>2. current'.Timestamp = now /\ current'.amount = a
      BY <3>1
    <3>3. history' \in Seq(Samples) /\ Chained(history', now, trace)
      <4>1. CASE current.Timestamp > 0
        <5>1. PICK e : e = Sample
          OBVIOUS
        <5>2. e.amount = current.amount /\ e.Timestamp = current.Timestamp /\ e.Duration = now - current.Timestamp
          BY <5>1 DEF Sample
        <5>3. now - current.Timestamp \in Nat /\ current.Timestamp + (now - current.Timestamp) = now
          BY <2>0, SMT
        <5>4. e \in Samples
          BY <2>0, <5>1, <5>3 DEF Sample, Samples
        <5>5. \A t \in e.Timestamp..((e.Timestamp + e.Duration) - 1) : trace[t] = e.amount
          <6>1. \A t \in current.Timestamp..(now - 1) : trace[t] = current.amount
            BY <2>0, <4>1 DEF InForce
          <6>2. e.Timestamp + e.Duration = now
            BY <5>2, <5>3
          <6> QED
            BY <5>2, <6>1, <6>2
        <5>6. Chained(Append(history, e), now, trace)
          BY <2>0, <4>1, <5>2, <5>3, <5>4, <5>5, <2>ChainedAppend
        <5>7. Append(history, e) \in Seq(Samples) /\ Append(history, e) # <<>> /\ Tail(Append(history, e)) \in Seq(Samples)
          BY <2>0, <5>4, <2>LongerType
        <5>8. Chained(Tail(Append(history, e)), now, trace)
          BY <2>0, <5>6, <5>7, <2>ChainedTail
        <5> QED
          BY <3>1, <4>1, <5>1, <5>6, <5>7, <5>8 DEF Kept
      <4>2. CASE ~(current.Timestamp > 0)
        <5>1. history = <<>> /\ history' = history
          BY <3>1, <4>2 DEF UsageInv
        <5>2. Chained(<<>>, now, trace)
          BY SMT DEF Chained
        <5> QED
          BY <2>0, <5>1, <5>2
      <4> QED
        BY <4>1, <4>2
    <3>4. InForce(current', now, trace)
      <4>1. \A t \in now..(now - 1) : FALSE
        BY <2>0, SMT
      <4> QED
        BY <3>2, <4>1 DEF InForce
    <3>5. UsageTypeOK'
      BY <2>0, <3>0, <3>1, <3>3 DEF UsageTypeOK
    <3>6. now <= now /\ now > 0
      BY <2>0, SMT
    <3> QED
      BY <3>1, <3>2, <3>3, <3>4, <3>5, <3>6 DEF UsageInv
  <2>3. CASE UNCHANGED usageVars
    BY <2>3 DEF usageVars, UsageInv, UsageTypeOK
  <2> QED
    BY <2>1, <2>2, <2>3 DEF UsageNext
<1>UsageInvAverage. UsageInv => AverageOfWindow
  <2>TotalGoesOn. ASSUME NEW f, NEW x, NEW c, NEW n, NEW v, GoesOn(f, x, c, n, v)
                  PROVE  Total(f, x, n - 1) = Total(f, x, c - 1) + v * (n - c)
    <3> USE <2>TotalGoesOn
    <3> USE DEF GoesOn
    <3>1. PICK p \in Int, q \in Int : p = c - 1 /\ q = n - 1
      BY SMT
    <3>2. x - 1 <= p /\ p <= q /\ p + 1 = c /\ c - 1 <= q /\ q - c + 1 = n - c
      BY <3>1, SMT
    <3>3. \A t \in c..q : f[t] = v
      BY <3>1
    <3>4. \A t \in x..q : f[t] \in Int
      BY <3>1, <3>2, <3>3, SMT
    <3>5. Total(f, x, q) = Total(f, x, p) + Total(f, p + 1, q)
      BY <3>2, <3>4, TotalSplit, SMT
    <3>6. Total(f, c, q) = v * (q - c + 1)
      BY <3>2, <3>3, TotalConstant, SMT
    <3> QED
      BY <3>1, <3>2, <3>5, <3>6
  <2>OldestIs. ASSUME UsageInv, NEW d \in Nat
               PROVE  /\ Oldest(d) \in 1..(Len(history) + 1)
                      /\ \A j \in Oldest(d)..Len(history) : history[j].Timestamp >= now - d
    <3> USE <2>OldestIs
    <3> DEFINE Q == {k \in 1..(Len(history) + 1) : \A j \in k..Len(history) : history[j].Timestamp >= now - d}
    <3>0. Len(history) \in Nat /\ now \in Nat
      BY SMT DEF UsageInv, UsageTypeOK
    <3>1. Len(history) + 1 \in Q /\ Q \subseteq Nat
      BY <3>0, SMT
    <3>2. PICK k \in Q : \A j \in Q : k <= j
      BY <3>1, Least
    <3>3. ASSUME k > 1 PROVE history[k - 1].Timestamp < now - d
      <4>1. k - 1 \in 1..(Len(history) + 1) /\ ~(k <= k - 1) /\ k \in Nat
        BY <3>0, <3>3, SMT
      <4>2. PICK j \in (k - 1)..Len(history) : ~(history[j].Timestamp >= now - d)
        BY <3>2, <4>1
      <4>3. j = k - 1 \/ j \in k..Len(history)
        BY <3>0, <4>1, SMT
      <4>4. j = k - 1
        BY <4>2, <4>3
      <4>5. j \in 1..Len(history)
        BY <3>0, <3>3, <4>1, <4>4, SMT
      <4>6. history[j] \in Samples
        BY <4>5, SMT DEF UsageInv, UsageTypeOK
      <4>7. history[j].Timestamp \in Nat
        BY <4>6 DEF Samples
      <4>8. history[j].Timestamp < now - d
        BY <3>0, <4>2, <4>7, SMT
      <4> QED
        BY <4>4, <4>8
    <3> QED
      BY <3>2, <3>3 DEF Oldest
  \* What the loop adds up from the k-th sample on is the time since the sample
  \* began, and what was used in that time.
  <2>SamplesCovered. ASSUME UsageInv, NEW k \in 1..(Len(history) + 1)
                     PROVE  \E x \in Nat : /\ x = IF k = Len(history) + 1 THEN current.Timestamp ELSE history[k].Timestamp
                                           /\ x <= current.Timestamp
                                           /\ Total(Durations, k, Len(history)) = current.Timestamp - x
                                           /\ Total(Amounts, k, Len(history)) = Total(trace, x, current.Timestamp - 1)
                                           /\ \A t \in x..(current.Timestamp - 1) : trace[t] \in Int
    <3> USE <2>SamplesCovered
    <3>StepsCovered. ASSUME NEW L \in Nat, NEW e \in 1..(L + 1), NEW at, NEW dur, NEW amt, NEW tr, NEW sum,
                            Steps(L, at, dur, amt, tr), \A m \in 1..L : sum[m] = amt[m] * dur[m]
                     PROVE  Covered(e, L, at, dur, sum, tr)
      <4> USE <3>StepsCovered
      <4> DEFINE S == {m \in Int : Covered(e, m, at, dur, sum, tr)}
      <4>0. L \in Int /\ e \in Int /\ e - 1 \in Int /\ e - 1 < e /\ e - 1 <= L /\ e - 1 \in 0..L
        BY SMT
      <4>1. e - 1 \in S
        <5>1. PICK x : x = at[e - 1]
          OBVIOUS
        <5>2. x \in Nat /\ x - x = 0 /\ x <= x /\ x - 1 < x /\ \A t \in x..(x - 1) : FALSE
          <6>1. x \in Nat
            BY <4>0, <5>1 DEF Steps
          <6> QED
            BY <6>1, SMT
        <5>3. Total(dur, e, e - 1) = 0 /\ Total(sum, e, e - 1) = 0 /\ Total(tr, x, x - 1) = 0
          BY <4>0, <5>2, TotalNone
        <5> QED
          BY <4>0, <5>1, <5>2, <5>3 DEF Covered
      <4>2. ASSUME NEW m \in e..L, m - 1 \in S PROVE m \in S
        <5>1. m \in Int /\ m - 1 \in 0..L /\ m \in 0..L /\ m \in 1..L /\ e <= m
          BY SMT
        <5>2. PICK x, y, z, d, c : x = at[e - 1] /\ y = at[m - 1] /\ z = at[m] /\ d = dur[m] /\ c = amt[m]
          OBVIOUS
        <5>3. x \in Nat /\ y \in Nat /\ z \in Nat /\ d \in Nat /\ c \in Int /\ z = y + d
          BY <4>0, <5>1, <5>2 DEF Steps
        <5>4. \A t \in y..(z - 1) : tr[t] = c
          BY <5>1, <5>2 DEF Steps
        <5>5. Covered(e, m - 1, at, dur, sum, tr)
          BY <4>2
        <5>6. /\ Total(dur, e, m - 1) = y - x /\ x <= y /\ Total(sum, e, m - 1) = Total(tr, x, y - 1)
              /\ \A t \in x..(y - 1) : tr[t] \in Int
          BY <5>2, <5>5 DEF Covered
        <5>7. Total(dur, e, m) = Total(dur, e, m - 1) + d /\ Total(sum, e, m) = Total(sum, e, m - 1) + c * d
          <6>1. sum[m] = c * d
            BY <5>1, <5>2
          <6>2. Total(dur, e, m) = Total(dur, e, m - 1) + dur[m] /\ Total(sum, e, m) = Total(sum, e, m - 1) + sum[m]
            BY <4>0, <5>1, TotalStep
          <6> QED
            BY <5>2, <6>1, <6>2
        <5>8. \A t \in x..(z - 1) : tr[t] \in Int
          BY <5>3, <5>4, <5>6, SMT
        <5>9. Total(tr, x, z - 1) = Total(tr, x, y - 1) + c * d
          <6>1. x \in Int /\ y \in Int /\ z \in Int /\ y <= z /\ z - y = d
            BY <5>3, SMT
          <6>2. GoesOn(tr, x, y, z, c)
            BY <5>3, <5>4, <5>6, <6>1 DEF GoesOn
          <6>3. Total(tr, x, z - 1) = Total(tr, x, y - 1) + c * (z - y)
            BY <6>2, <2>TotalGoesOn, SMT
          <6> QED
            BY <6>1, <6>3
        <5>10. Total(dur, e, m) = z - x /\ x <= z
          BY <5>3, <5>6, <5>7, SMT
        <5>11. Total(sum, e, m) = Total(tr, x, z - 1)
          BY <5>6, <5>7, <5>9
        <5> QED
          BY <5>1, <5>2, <5>8, <5>10, <5>11 DEF Covered
      <4> HIDE DEF S
      <4>3. L \in S
        BY <4>0, <4>1, <4>2, Upwards
      <4> QED
        BY <4>3 DEF S
    <3>0. /\ Len(history) \in Nat /\ current.Timestamp \in Nat /\ DOMAIN history = 1..Len(history)
          /\ \A j \in 1..Len(history) : history[j] \in Samples
      BY SMT DEF UsageInv, UsageTypeOK
    <3>1. \A j \in 1..Len(history) : /\ history[j].Timestamp \in Nat /\ history[j].Duration \in Nat
                                     /\ history[j].amount \in Nat
      BY <3>0 DEF Samples
    <3>2. PICK L \in Nat : L = Len(history)
      BY <3>0
    <3>3. PICK at : at = [m \in 0..L |-> IF m = L THEN current.Timestamp ELSE history[m + 1].Timestamp]
      OBVIOUS
    <3>4. PICK dur, amt, sum : /\ dur = Durations /\ sum = Amounts
                               /\ amt = [m \in 1..L |-> history[m].amount]
      OBVIOUS
    <3>5. /\ \A m \in 1..L : dur[m] = history[m].Duration /\ amt[m] = history[m].amount
          /\ \A m \in 1..L : sum[m] = amt[m] * dur[m]
      BY <3>0, <3>2, <3>4 DEF Durations, Amounts
    <3>6. ASSUME NEW m \in 0..L PROVE at[m] \in Nat
      <4>1. m # L => m + 1 \in 1..L
        BY SMT
      <4>2. at[m] = IF m = L THEN current.Timestamp ELSE history[m + 1].Timestamp
        BY <3>3
      <4> QED
        BY <3>0, <3>1, <3>2, <4>1, <4>2
    <3>7. ASSUME NEW m \in 1..L PROVE at[m - 1] = history[m].Timestamp /\ at[m] = history[m].Timestamp + history[m].Duration
      <4>1. m - 1 \in 0..L /\ m - 1 # L /\ (m - 1) + 1 = m /\ m \in 0..L
        BY SMT
      <4>2. at[m - 1] = history[m].Timestamp
        BY <3>3, <4>1
      <4>3. at[m] = IF m = L THEN current.Timestamp ELSE history[m + 1].Timestamp
        BY <3>3, <4>1
      <4>4. history[m].Timestamp + history[m].Duration = IF m = L THEN current.Timestamp ELSE history[m + 1].Timestamp
        BY <3>2 DEF UsageInv, Chained
      <4> QED
        BY <4>2, <4>3, <4>4
    <3>8. Steps(L, at, dur, amt, trace)
      <4>1. ASSUME NEW m \in 1..L
            PROVE  /\ dur[m] \in Nat /\ amt[m] \in Int /\ at[m] = at[m - 1] + dur[m]
                   /\ \A t \in at[m - 1]..(at[m] - 1) : trace[t] = amt[m]
        <5>1. dur[m] \in Nat /\ amt[m] \in Int
          <6>1. dur[m] \in Nat /\ amt[m] \in Nat
            BY <3>1, <3>2, <3>5
          <6> QED
            BY <6>1, SMT
        <5>2. \A t \in history[m].Timestamp..((history[m].Timestamp + history[m].Duration) - 1) : trace[t] = history[m].amount
          BY <3>2 DEF UsageInv, Chained
        <5> QED
          BY <3>5, <3>7, <5>1, <5>2
      <4> QED
        BY <3>6, <4>1 DEF Steps
    <3>9. k \in 1..(L + 1) /\ k - 1 \in 0..L /\ L \in 0..L /\ (k - 1 = L <=> k = L + 1) /\ (k # L + 1 => (k - 1) + 1 = k)
      BY <3>2, SMT
    <3>10. Covered(k, L, at, dur, sum, trace)
      BY <3>5, <3>8, <3>9, <3>StepsCovered
    <3>11. PICK x : x = at[k - 1]
      OBVIOUS
    <3>12. at[L] = current.Timestamp /\ x = IF k = L + 1 THEN current.Timestamp ELSE history[k].Timestamp
      BY <3>3, <3>9, <3>11
    <3>13. x \in Nat
      BY <3>6, <3>9, <3>11
    <3> QED
      BY <3>2, <3>4, <3>10, <3>11, <3>12, <3>13 DEF Covered
  <2> SUFFICES ASSUME UsageInv, NEW d \in 1..MaxTime, history # <<>>
               PROVE  /\ TotalDuration(d) <= d
                      /\ GetAverageUsage(d) = Total(trace, now - TotalDuration(d), now - 1)
                                                + current.amount * (d - CurrentDuration(d))
    BY DEF AverageOfWindow
  <2>0. d \in Nat
    BY SMT
  <2>1. PICK k \in 1..(Len(history) + 1) :
          /\ k = Oldest(d) /\ \A j \in k..Len(history) : history[j].Timestamp >= now - d
    BY <2>0, <2>OldestIs
  <2>2. PICK x \in Nat : /\ x = IF k = Len(history) + 1 THEN current.Timestamp ELSE history[k].Timestamp
                         /\ x <= current.Timestamp
                         /\ Total(Durations, k, Len(history)) = current.Timestamp - x
                         /\ Total(Amounts, k, Len(history)) = Total(trace, x, current.Timestamp - 1)
                         /\ \A t \in x..(current.Timestamp - 1) : trace[t] \in Int
    BY <2>SamplesCovered
  <2>3. PICK c \in Nat, n \in Nat, a \in Nat : c = current.Timestamp /\ n = now /\ a = current.amount
    BY DEF UsageInv, UsageTypeOK
  <2>4. c <= n /\ c > 0 /\ \A t \in c..(n - 1) : trace[t] = a
    BY <2>3 DEF UsageInv, InForce
  <2>5. k # Len(history) + 1 => x >= n - d
    <3> SUFFICES ASSUME k # Len(history) + 1 PROVE x >= n - d
      OBVIOUS
    <3>1. Len(history) \in Nat
      BY SMT DEF UsageInv, UsageTypeOK
    <3>2. k \in k..Len(history)
      BY <3>1, SMT
    <3> QED
      BY <2>1, <2>2, <2>3, <3>2
  <2>6. PICK D, T, S : D = CurrentDuration(d) /\ T = TotalDuration(d) /\ S = Total(trace, x, c - 1)
    OBVIOUS
  <2>7. D = (IF n - c > d THEN d ELSE n - c) /\ T = D + (c - x) /\ GetAverageUsage(d) = a * d + S
    BY <2>1, <2>2, <2>3, <2>6 DEF CurrentDuration, TotalDuration, GetAverageUsage
  <2>8. x <= c /\ \A t \in x..(c - 1) : trace[t] \in Int
    BY <2>2, <2>3
  <2>9. S \in Int
    <3>1. PICK p \in Int : p = c - 1
      BY SMT
    <3>2. x \in Int /\ \A t \in x..p : trace[t] \in Int
      BY <2>8, <3>1, SMT
    <3> QED
      BY <2>6, <3>1, <3>2, TotalType
  <2>10. CASE n - c > d
    <3>1. x = c
      <4>1. k = Len(history) + 1
        BY <2>0, <2>5, <2>8, <2>10, SMT
      <4> QED
        BY <2>2, <2>3, <4>1
    <3>2. T = d /\ S = 0 /\ d - D = 0
      <4>1. c - 1 < c /\ c - c = 0 /\ d + 0 = d /\ d - d = 0
        BY <2>0, SMT
      <4> QED
        BY <2>6, <2>7, <2>10, <3>1, <4>1, TotalNone
    <3>3. Total(trace, n - d, n - 1) = a * d
      <4>1. PICK p \in Int, q \in Int : p = n - d /\ q = n - 1
        BY <2>0, SMT
      <4>2. p - 1 <= q /\ a \in Int /\ q - p + 1 = d /\ \A t \in p..q : trace[t] = a
        BY <2>0, <2>4, <2>10, <4>1, SMT
      <4>3. Total(trace, p, q) = a * (q - p + 1)
        BY <4>2, TotalConstant, SMT
      <4> QED
        BY <4>1, <4>2, <4>3
    <3>4. d <= d /\ a * d + 0 = a * d + a * 0
      BY <2>0, SMT
    <3> QED
      BY <2>3, <2>6, <2>7, <3>2, <3>3, <3>4
  <2>11. CASE ~(n - c > d)
    <3>1. D = n - c /\ T = n - x /\ n - T = x
      BY <2>0, <2>7, <2>8, <2>11, SMT
    <3>2. T <= d
      <4>1. CASE k = Len(history) + 1
        <5>1. x = c
          BY <2>2, <2>3, <4>1
        <5> QED
          BY <2>0, <2>11, <3>1, <5>1, SMT
      <4>2. CASE k # Len(history) + 1
        <5>1. x >= n - d
          BY <2>5, <4>2
        <5> QED
          BY <2>0, <3>1, <5>1, SMT
      <4> QED
        BY <4>1, <4>2
    <3>3. Total(trace, x, n - 1) = S + a * (n - c)
      <4>1. x \in Int /\ c \in Int /\ n \in Int /\ a \in Int
        BY SMT
      <4>2. GoesOn(trace, x, c, n, a)
        BY <2>4, <2>8, <4>1 DEF GoesOn
      <4> QED
        BY <2>6, <4>2, <2>TotalGoesOn, SMT
    <3>4. a * d + S = (S + a * (n - c)) + a * (d - (n - c))
      BY <2>0, <2>9, SMT
    <3> QED
      BY <2>3, <2>6, <2>7, <3>1, <3>2, <3>3, <3>4
  <2> QED
    BY <2>10, <2>11
<1>1. UsageSpec => []UsageInv
  BY <1>UsageInvInit, <1>UsageInvStep, PTL DEF UsageSpec
<1> QED
  BY <1>1, <1>UsageInvAverage, PTL

-----------------------------------------------------------------------------
(* Recursion                                                                 *)

\* g has the first values of the function that starts with base and goes on by step.
FirstValues(g, base, step, n) ==
  g[0] = base /\ \A m \in 1..n : g[m] = step[<<m, g[m - 1]>>]

IsStep(step, V) == step \in [Nat \X V -> V]

AllValues(s, base, step) == s[0] = base /\ \A n \in Nat : n # 0 => s[n] = step[<<n, s[n - 1]>>]

LEMMA Recursion ==
  ASSUME NEW V, NEW base, NEW step, base \in V, IsStep(step, V)
  PROVE  \E s \in [Nat -> V] : AllValues(s, base, step)
<1>ValuesUnique. ASSUME NEW b, NEW s, NEW g, NEW h, NEW n \in Nat, NEW k \in Nat,
                        FirstValues(g, b, s, n), FirstValues(h, b, s, k)
                 PROVE  \A m \in Nat : m <= n /\ m <= k => g[m] = h[m]
  <2> USE <1>ValuesUnique
  <2> DEFINE S == {m \in Nat : m <= n /\ m <= k => g[m] = h[m]}
  <2>1. 0 \in S
    BY DEF FirstValues
  <2>2. ASSUME NEW m \in Nat, m \in S PROVE m + 1 \in S
    <3>1. m + 1 \in Nat /\ (m + 1) - 1 = m
      BY SMT
    <3> SUFFICES ASSUME m + 1 <= n, m + 1 <= k PROVE g[m + 1] = h[m + 1]
      BY <3>1
    <3>2. m + 1 \in 1..n /\ m + 1 \in 1..k /\ m <= n /\ m <= k
      BY SMT
    <3>3. g[m] = h[m]
      BY <2>2, <3>2
    <3> QED
      BY <3>1, <3>2, <3>3 DEF FirstValues
  <2> HIDE DEF S
  <2>3. Nat \subseteq S
    BY <2>1, <2>2, Induct
  <2> QED
    BY <2>3 DEF S
<1>ValuesExist. ASSUME NEW T, NEW b \in T, NEW s \in [Nat \X T -> T]
                PROVE  \A n \in Nat : \E g \in [0..n -> T] : FirstValues(g, b, s, n)
  <2> DEFINE S == {n \in Nat : \E g \in [0..n -> T] : FirstValues(g, b, s, n)}
  <2>1. 0 \in S
    <3> DEFINE g == [m \in 0..0 |-> b]
    <3>1. 0 \in 0..0 /\ \A m \in 1..0 : FALSE
      BY SMT
    <3>2. FirstValues(g, b, s, 0)
      BY <3>1 DEF FirstValues
    <3> QED
      BY <3>2
  <2>2. ASSUME NEW n \in Nat, n \in S PROVE n + 1 \in S
    <3>1. PICK g \in [0..n -> T] : FirstValues(g, b, s, n)
      BY <2>2
    <3>2. PICK h : h = [m \in 0..(n + 1) |-> IF m = n + 1 THEN s[<<n + 1, g[n]>>] ELSE g[m]]
      OBVIOUS
    <3>0. /\ n + 1 \in Nat /\ n + 1 \in 0..(n + 1) /\ n \in 0..n /\ 0 \in 0..(n + 1) /\ 0 # n + 1 /\ (n + 1) - 1 = n
          /\ n \in 0..(n + 1) /\ n # n + 1
      BY SMT
    <3>3. ASSUME NEW m \in 0..(n + 1) PROVE h[m] \in T
      <4>1. m # n + 1 => m \in 0..n
        BY SMT
      <4>2. s[<<n + 1, g[n]>>] \in T
        BY <3>0
      <4> QED
        BY <3>2, <4>1, <4>2
    <3>4. h[0] = b
      BY <3>0, <3>1, <3>2 DEF FirstValues
    <3>5. ASSUME NEW m \in 1..(n + 1) PROVE h[m] = s[<<m, h[m - 1]>>]
      <4>1. CASE m = n + 1
        BY <3>0, <3>2, <4>1
      <4>2. CASE m # n + 1
        <5>1. m \in 1..n /\ m \in 0..(n + 1) /\ m - 1 \in 0..(n + 1) /\ m - 1 # n + 1
          BY <4>2, SMT
        <5>2. h[m] = g[m] /\ h[m - 1] = g[m - 1]
          BY <3>2, <4>2, <5>1
        <5> QED
          BY <3>1, <5>1, <5>2 DEF FirstValues
      <4> QED
        BY <4>1, <4>2
    <3>6. h \in [0..(n + 1) -> T] /\ FirstValues(h, b, s, n + 1)
      BY <3>2, <3>3, <3>4, <3>5 DEF FirstValues
    <3> QED
      BY <3>0, <3>6
  <2> HIDE DEF S
  <2>3. Nat \subseteq S
    BY <2>1, <2>2, Induct
  <2> QED
    BY <2>3 DEF S
<1>1. PICK G : G = [n \in Nat |-> CHOOSE g \in [0..n -> V] : FirstValues(g, base, step, n)]
  OBVIOUS
<1>2. \A n \in Nat : G[n] \in [0..n -> V] /\ FirstValues(G[n], base, step, n)
  BY <1>1, <1>ValuesExist DEF IsStep
<1>3. PICK s : s = [n \in Nat |-> G[n][n]]
  OBVIOUS
<1>4. \A n \in Nat : n \in 0..n /\ 0 \in Nat
  BY SMT
<1>5. s \in [Nat -> V]
  BY <1>2, <1>3, <1>4
<1>6. ASSUME NEW n \in Nat, n # 0 PROVE s[n] = step[<<n, s[n - 1]>>]
  <2>1. n \in 1..n /\ n - 1 \in Nat /\ n - 1 <= n - 1 /\ n - 1 <= n
    BY <1>6, SMT
  <2>2. G[n][n] = step[<<n, G[n][n - 1]>>]
    BY <1>2, <2>1 DEF FirstValues
  <2>3. PICK k, g, h : k \in Nat /\ k = n - 1 /\ g = G[n] /\ h = G[n - 1]
    BY <2>1
  <2>4. FirstValues(g, base, step, n) /\ FirstValues(h, base, step, k)
    BY <1>2, <2>3
  <2>5. \A m \in Nat : m <= n /\ m <= k => g[m] = h[m]
    BY <2>3, <2>4, <1>ValuesUnique, SMT
  <2> QED
    BY <1>3, <2>1, <2>2, <2>3, <2>5
<1>7. s[0] = base
  BY <1>2, <1>3, <1>4 DEF FirstValues
<1> QED
  BY <1>5, <1>6, <1>7 DEF AllValues

-----------------------------------------------------------------------------
(* The sketch: its stores                                                    *)

Span == LowIndex..HighIndex

SparseBins == UNION {[D -> Nat \ {0}] : D \in SUBSET Span}

SparseStores ==
  [kind : {"sparse"}, bins : SparseBins, count : Nat, minIndex : Int, maxIndex : Int,
   hasElements : BOOLEAN, collapsed : BOOLEAN]

DenseStores ==
  [kind : {"dense"}, bins : Seq(Nat), offset : Int, count : Nat, minIndex : Int, maxIndex : Int,
   hasElements : BOOLEAN, collapsed : BOOLEAN]

Stores == SparseStores \cup DenseStores

\* The counts of a store, and their sum.
BinsOf(st) == [i \in Span |-> Get(st, i)]
Sum(b) == Total(b, LowIndex, HighIndex)

\* lo and hi are the least and the greatest index of b with a count.
Ends(b, lo, hi) ==
  /\ lo \in Span /\ hi \in Span /\ b[lo] # 0 /\ b[hi] # 0
  /\ \A i \in Span : b[i] # 0 => lo <= i /\ i <= hi

StoreOK(st) ==
  /\ st \in Stores
  /\ \A i \in Int \ Span : Get(st, i) = 0
  /\ IF st.count = 0
       THEN /\ \A i \in Span : Get(st, i) = 0
            /\ st.minIndex = Top /\ st.maxIndex = -Top /\ ~st.hasElements
       ELSE Ends(BinsOf(st), st.minIndex, st.maxIndex) /\ st.hasElements

LEMMA IndexRange ==
  LowIndex \in Int /\ HighIndex \in Int /\ LowIndex <= 0 /\ 0 <= HighIndex
BY SketchAssumption, SMT DEF LowIndex, HighIndex

LEMMA SpanInt == \A i \in Span : i \in Int /\ LowIndex <= i /\ i <= HighIndex /\ -Top < i /\ i < Top
<1>1. Top \in Int /\ Top > HighIndex /\ -Top < LowIndex
  BY SketchAssumption, StoreAssumption, SMT
<1> QED
  BY <1>1, IndexRange, SMT DEF Span

LEMMA SparseBinsIs ==
  ASSUME NEW b
  PROVE  b \in SparseBins <=> /\ b = [i \in DOMAIN b |-> b[i]] /\ DOMAIN b \subseteq Span
                              /\ \A i \in DOMAIN b : b[i] \in Nat \ {0}
<1>1. ASSUME b \in SparseBins
      PROVE  /\ b = [i \in DOMAIN b |-> b[i]] /\ DOMAIN b \subseteq Span
             /\ \A i \in DOMAIN b : b[i] \in Nat \ {0}
  <2>1. PICK D \in SUBSET Span : b \in [D -> Nat \ {0}]
    BY <1>1 DEF SparseBins
  <2> QED
    BY <2>1
<1>2. ASSUME b = [i \in DOMAIN b |-> b[i]], DOMAIN b \subseteq Span, \A i \in DOMAIN b : b[i] \in Nat \ {0}
      PROVE  b \in SparseBins
  <2>1. b \in [DOMAIN b -> Nat \ {0}]
    BY <1>2
  <2>2. DOMAIN b \in SUBSET Span
    BY <1>2
  <2> QED
    BY <2>1, <2>2 DEF SparseBins
<1> QED
  BY <1>1, <1>2

LEMMA StoreKinds ==
  /\ \A st \in SparseStores : st.kind = "sparse" /\ st.bins \in SparseBins
  /\ \A st \in DenseStores : st.kind = "dense" /\ st.kind # "sparse" /\ st.bins \in Seq(Nat) /\ st.offset \in Int
  /\ \A st \in Stores : /\ st.count \in Nat /\ st.minIndex \in Int /\ st.maxIndex \in Int
                        /\ st.hasElements \in BOOLEAN /\ st.collapsed \in BOOLEAN
BY SMT DEF SparseStores, DenseStores, Stores

LEMMA GetType ==
  ASSUME NEW st \in Stores, NEW i \in Int
  PROVE  Get(st, i) \in Nat
<1>0. 0 \in Nat
  BY SMT
<1>1. CASE st \in SparseStores
  <2>1. \A j \in DOMAIN st.bins : st.bins[j] \in Nat
    BY <1>1, StoreKinds, SparseBinsIs
  <2> QED
    BY <1>0, <1>1, <2>1, StoreKinds DEF Get
<1>2. CASE st \in DenseStores
  <2>1. \A j \in DOMAIN st.bins : st.bins[j] \in Nat
    BY <1>2, StoreKinds, SMT
  <2> QED
    BY <1>0, <1>2, <2>1, StoreKinds DEF Get
<1> QED
  BY <1>1, <1>2 DEF Stores

LEMMA BinsOfType ==
  ASSUME NEW st \in Stores
  PROVE  BinsOf(st) \in [Span -> Nat]
BY GetType, SpanInt DEF BinsOf

\* The sum of a function with one value other than 0.
LEMMA TotalPoint ==
  ASSUME NEW f, NEW a \in Int, NEW b \in Int, NEW k \in a..b, NEW c \in Int,
         f[k] = c, \A i \in a..b : i # k => f[i] = 0
  PROVE  Total(f, a, b) = c
<1>1. k \in Int /\ a <= k /\ k <= b /\ a - 1 <= k /\ k - 1 \in Int /\ k + 1 \in Int /\ 0 \in Int
  BY SMT
<1>2. \A i \in a..b : f[i] \in Int
  BY <1>1
<1>3. Total(f, a, b) = Total(f, a, k) + Total(f, k + 1, b)
  BY <1>1, <1>2, TotalSplit, SMT
<1>4. Total(f, a, k) = Total(f, a, k - 1) + f[k]
  BY <1>1, TotalStep
<1>5. Total(f, a, k - 1) = 0
  <2>1. PICK m \in Int : m = k - 1 /\ a - 1 <= m
    BY <1>1, SMT
  <2>2. \A i \in a..m : f[i] = 0
    <3>1. \A i \in a..m : i \in a..b /\ i # k
      BY <1>1, <2>1, SMT
    <3> QED
      BY <3>1
  <2>3. Total(f, a, m) = 0 * (m - a + 1)
    BY <1>1, <2>1, <2>2, TotalConstant, SMT
  <2> QED
    BY <2>1, <2>3, SMT
<1>6. Total(f, k + 1, b) = 0
  <2>1. PICK m \in Int : m = k + 1 /\ m - 1 <= b
    BY <1>1, SMT
  <2>2. \A i \in m..b : f[i] = 0
    <3>1. \A i \in m..b : i \in a..b /\ i # k
      BY <1>1, <2>1, SMT
    <3> QED
      BY <3>1
  <2>3. Total(f, m, b) = 0 * (b - m + 1)
    BY <1>1, <2>1, <2>2, TotalConstant, SMT
  <2> QED
    BY <2>1, <2>3, SMT
<1>7. f[k] = c
  OBVIOUS
<1> QED
  BY <1>3, <1>4, <1>5, <1>6, <1>7, SMT

Point(k, c) == [j \in Span |-> IF j = k THEN c ELSE 0]

LEMMA SumPoint ==
  ASSUME NEW k \in Span, NEW c \in Nat
  PROVE  Point(k, c) \in [Span -> Nat] /\ Sum(Point(k, c)) = c
<1>1. 0 \in Nat /\ c \in Int
  BY SMT
<1>2. /\ Point(k, c) \in [Span -> Nat] /\ Point(k, c)[k] = c
      /\ \A i \in LowIndex..HighIndex : i # k => Point(k, c)[i] = 0
  BY <1>1 DEF Point, Span
<1>3. k \in LowIndex..HighIndex
  BY DEF Span
<1>4. Total(Point(k, c), LowIndex, HighIndex) = c
  <2>1. PICK f, m, n : f = Point(k, c) /\ m = LowIndex /\ n = HighIndex
    OBVIOUS
  <2>2. m \in Int /\ n \in Int /\ k \in m..n /\ f[k] = c /\ \A i \in m..n : i # k => f[i] = 0
    BY <1>2, <1>3, <2>1, IndexRange
  <2>3. Total(f, m, n) = c
    BY <1>1, <2>2, TotalPoint
  <2> QED
    BY <2>1, <2>3
<1> QED
  BY <1>2, <1>4 DEF Sum

LEMMA SumType ==
  ASSUME NEW b \in [Span -> Nat]
  PROVE  Sum(b) \in Nat
<1>1. \A i \in LowIndex..HighIndex : b[i] \in Nat
  BY DEF Span
<1>2. \A i \in LowIndex..HighIndex : b[i] \in Int
  BY <1>1, SMT
<1>3. Sum(b) \in Int
  BY <1>2, IndexRange, TotalType DEF Sum
<1>4. PICK z : z = [i \in Span |-> 0]
  OBVIOUS
<1>5. \A i \in LowIndex..HighIndex : z[i] = 0
  BY <1>4 DEF Span
<1>6. Total(z, LowIndex, HighIndex) = 0 * (HighIndex - LowIndex + 1)
  <2>1. 0 \in Int /\ LowIndex - 1 <= HighIndex
    BY IndexRange, SMT
  <2> QED
    BY <1>5, <2>1, IndexRange, TotalConstant, SMT
<1>7. \A i \in LowIndex..HighIndex : z[i] \in Int /\ b[i] \in Int /\ z[i] <= b[i]
  BY <1>1, <1>5, SMT
<1>8. Total(z, LowIndex, HighIndex) <= Total(b, LowIndex, HighIndex)
  BY <1>7, IndexRange, TotalAtMost
<1> QED
  BY <1>3, <1>6, <1>8, IndexRange, SMT DEF Sum

\* Counts added to counts.
Plus(b, c) == [i \in Span |-> b[i] + c[i]]

-----------------------------------------------------------------------------
(* The sketch: collapsing                                                    *)

\* The counts of a map of bins.
Counts(b) == [i \in Span |-> IF i \in DOMAIN b THEN b[i] ELSE 0]

\* The maps of bins on the way of collapseBuckets, as it has them.
Path(b, order, k) ==
  CHOOSE f : f = [n \in 0..k |-> IF n = 0 THEN b ELSE Redistributed(f[n - 1], order[n])]

\* order has some of the bins of b, and neither the first nor the last.
Order(b, lo, hi, order, k) ==
  /\ b \in SparseBins /\ lo \in DOMAIN b /\ hi \in DOMAIN b /\ \A i \in DOMAIN b : lo <= i /\ i <= hi
  /\ k \in Nat /\ order \in [1..k -> DOMAIN b \ {lo, hi}] /\ IsInjective(order)

\* What is left of b when n of them are gone.
Left(c, b, order, n) ==
  /\ c \in SparseBins /\ DOMAIN c = DOMAIN b \ {order[m] : m \in 1..n}
  /\ Sum(Counts(c)) <= Sum(Counts(b))

\* A store n that was made of t by collapsing buckets.
Retained(n, t) ==
  /\ StoreOK(n) /\ n.kind = t.kind /\ n.count = t.count
  /\ n.minIndex = t.minIndex /\ n.maxIndex = t.maxIndex
  /\ Sum(BinsOf(n)) <= Sum(BinsOf(t))
  /\ n.collapsed \/ (~t.collapsed /\ BinsOf(n) = BinsOf(t))

-----------------------------------------------------------------------------
(* The sketch: adding and merging                                            *)

\* Counts b with sum k that a store may be given, from index lo to hi.
Part(b, k, lo, hi) ==
  /\ b \in [Span -> Nat] /\ k \in Nat
  /\ IF k = 0 THEN (\A i \in Span : b[i] = 0) /\ lo = Top /\ hi = -Top ELSE Ends(b, lo, hi)

\* t has the counts b besides those of st.
Grown(t, st, b, k, lo, hi, col) ==
  /\ t \in Stores /\ t.kind = st.kind /\ t.count = st.count + k
  /\ BinsOf(t) = Plus(BinsOf(st), b) /\ \A i \in Int \ Span : Get(t, i) = 0
  /\ t.minIndex = Lower(st.minIndex, lo) /\ t.maxIndex = Higher(st.maxIndex, hi)
  /\ t.hasElements = (t.count # 0) /\ t.collapsed = (st.collapsed \/ col)

\* n has them after its store may have collapsed buckets.
Joined(n, st, b, k, lo, hi, col) ==
  /\ StoreOK(n) /\ n.kind = st.kind /\ n.count = st.count + k
  /\ n.minIndex = Lower(st.minIndex, lo) /\ n.maxIndex = Higher(st.maxIndex, hi)
  /\ Sum(BinsOf(n)) <= Sum(BinsOf(st)) + Sum(b)
  /\ n.collapsed \/ (~st.collapsed /\ ~col /\ BinsOf(n) = Plus(BinsOf(st), b))

\* A sparse store with the counts b besides, at the indices D.
SparseWith(st, b, D, k, lo, hi, e, col) ==
  [st EXCEPT !.bins = [j \in DOMAIN st.bins \cup D |-> Get(st, j) + b[j]],
             !.count = st.count + k, !.minIndex = Lower(st.minIndex, lo),
             !.maxIndex = Higher(st.maxIndex, hi),
             !.hasElements = e, !.collapsed = (st.collapsed \/ col)]

\* The indices of b.
Keys(b) == {i \in Span : b[i] # 0}

\* Array index j - st.offset + 1 is one of the array of st.
Covers(st, j) == j - st.offset + 1 \in 1..Len(st.bins)

LEMMA DenseFields ==
  ASSUME NEW st \in DenseStores
  PROVE  /\ st.kind = "dense" /\ st.bins \in Seq(Nat) /\ Len(st.bins) \in Nat /\ st.offset \in Int
         /\ st.bins \in [1..Len(st.bins) -> Nat] /\ st.count \in Nat /\ st.minIndex \in Int /\ st.maxIndex \in Int
         /\ st.hasElements \in BOOLEAN /\ st.collapsed \in BOOLEAN /\ st \in Stores
         /\ \A j : Get(st, j) = IF Covers(st, j) THEN st.bins[j - st.offset + 1] ELSE 0
<1>1. /\ st.kind = "dense" /\ st.kind # "sparse" /\ st.bins \in Seq(Nat) /\ st.offset \in Int /\ st \in Stores
      /\ st.count \in Nat /\ st.minIndex \in Int /\ st.maxIndex \in Int
      /\ st.hasElements \in BOOLEAN /\ st.collapsed \in BOOLEAN
  BY StoreKinds DEF Stores
<1>2. Len(st.bins) \in Nat /\ st.bins \in [1..Len(st.bins) -> Nat] /\ DOMAIN st.bins = 1..Len(st.bins)
  BY <1>1, SMT
<1> QED
  BY <1>1, <1>2 DEF Get, Covers

\* An array of counts.
LEMMA ArrayIs ==
  ASSUME NEW n \in Nat, NEW b \in [1..n -> Nat]
  PROVE  b \in Seq(Nat) /\ Len(b) = n
BY SMT

\* t has the array of st with room on either side.
Room(t, st) ==
  /\ t \in DenseStores /\ t.count = st.count /\ t.minIndex = st.minIndex /\ t.maxIndex = st.maxIndex
  /\ t.hasElements = st.hasElements /\ t.collapsed = st.collapsed
  /\ \A j \in Int : Get(t, j) = Get(st, j) /\ (Covers(st, j) => Covers(t, j))

\* t is st with another array.
WithArray(st, b, x) == [st EXCEPT !.bins = b, !.offset = x]

OtherArray(t, st, b, x) ==
  /\ t \in DenseStores /\ t.bins = b /\ t.offset = x
  /\ t.count = st.count /\ t.minIndex = st.minIndex /\ t.maxIndex = st.maxIndex
  /\ t.hasElements = st.hasElements /\ t.collapsed = st.collapsed

\* The counts b at array index k of u.
At(b, u, k) == IF k - 1 + u.offset \in Span THEN b[k - 1 + u.offset] ELSE 0

DenseWith(u, st, b, m, lo, hi, e, col) ==
  [u EXCEPT !.bins = [k \in 1..Len(u.bins) |-> u.bins[k] + At(b, u, k)],
            !.count = st.count + m, !.minIndex = Lower(st.minIndex, lo),
            !.maxIndex = Higher(st.maxIndex, hi),
            !.hasElements = e, !.collapsed = (st.collapsed \/ col)]

\* Adding to a store and merging into it: the store is right again, and has the
\* buckets of both (SparseStore and DenseStore, Add and Merge).
LEMMA StoreOperations ==
  /\ \A st, i, c, n : StoreOK(st) /\ i \in Span /\ c \in Nat /\ c # 0 /\ n \in StoreAdd(st, i, c)
                      => Joined(n, st, Point(i, c), c, i, i, FALSE)
  /\ \A st, o, n : StoreOK(st) /\ StoreOK(o) /\ n \in StoreMerge(st, o)
                   => Joined(n, st, BinsOf(o), o.count, o.minIndex, o.maxIndex, o.collapsed)
\* The keys of the non-empty buckets are the indices with a count.
<1>IndicesAre. ASSUME NEW st \in Stores, \A i \in Int \ Span : Get(st, i) = 0
               PROVE  Indices(st) = {i \in Span : Get(st, i) # 0}
  <2> USE <1>IndicesAre
  <2>1. CASE st \in SparseStores
    <3>1. /\ st.kind = "sparse" /\ DOMAIN st.bins \subseteq Span
          /\ \A i \in DOMAIN st.bins : st.bins[i] \in Nat \ {0}
      BY <2>1, StoreKinds, SparseBinsIs
    <3>2. \A i : Get(st, i) = IF i \in DOMAIN st.bins THEN st.bins[i] ELSE 0
      BY <3>1 DEF Get
    <3> QED
      BY <3>1, <3>2 DEF Indices
  <2>2. CASE st \in DenseStores
    <3>1. st.kind # "sparse" /\ st.bins \in Seq(Nat) /\ st.offset \in Int /\ Len(st.bins) \in Nat
      BY <2>2, StoreKinds, SMT
    <3>2. Indices(st) = {i \in st.offset..(st.offset + Len(st.bins) - 1) : Get(st, i) > 0}
      BY <3>1 DEF Indices
    <3>3. ASSUME NEW i, i \in st.offset..(st.offset + Len(st.bins) - 1), Get(st, i) > 0
          PROVE  i \in Span /\ Get(st, i) # 0
      <4>1. i \in Int /\ ~(0 > 0)
        BY <3>1, <3>3, SMT
      <4> QED
        BY <3>3, <4>1
    <3>4. ASSUME NEW i \in Span, Get(st, i) # 0
          PROVE  i \in st.offset..(st.offset + Len(st.bins) - 1) /\ Get(st, i) > 0
      <4>1. i \in Int
        BY SpanInt
      <4>2. i - st.offset + 1 \in DOMAIN st.bins
        BY <3>1, <3>4 DEF Get
      <4>3. i \in st.offset..(st.offset + Len(st.bins) - 1)
        BY <3>1, <4>1, <4>2, SMT
      <4>4. Get(st, i) \in Nat
        BY <4>1, GetType
      <4> QED
        BY <3>4, <4>3, <4>4, SMT
    <3> QED
      BY <3>2, <3>3, <3>4
  <2> QED
    BY <2>1, <2>2 DEF Stores
\* The least and the greatest of a set of indices.
<1>MinMaxIs. ASSUME NEW S, S \subseteq Span, S # {}
             PROVE  /\ Min(S) \in S /\ \A i \in S : Min(S) <= i
                    /\ Max(S) \in S /\ \A i \in S : i <= Max(S)
  <2> USE <1>MinMaxIs
  <2>0. LowIndex \in Int /\ HighIndex \in Int /\ \A i \in S : i \in Int /\ LowIndex <= i /\ i <= HighIndex
    BY SpanInt, IndexRange
  <2>1. \E m \in S : \A i \in S : m <= i
    <3> DEFINE Q == {i - LowIndex : i \in S}
    <3>1. Q \subseteq Nat /\ Q # {}
      BY <2>0, SMT
    <3>2. PICK k \in Q : \A j \in Q : k <= j
      BY <3>1, Least
    <3>3. PICK m \in S : k = m - LowIndex
      OBVIOUS
    <3>4. \A i \in S : m - LowIndex <= i - LowIndex
      BY <3>2, <3>3
    <3> QED
      BY <2>0, <3>4, SMT
  <2>2. \E m \in S : \A i \in S : i <= m
    <3> DEFINE Q == {HighIndex - i : i \in S}
    <3>1. Q \subseteq Nat /\ Q # {}
      BY <2>0, SMT
    <3>2. PICK k \in Q : \A j \in Q : k <= j
      BY <3>1, Least
    <3>3. PICK m \in S : k = HighIndex - m
      OBVIOUS
    <3>4. \A i \in S : HighIndex - m <= HighIndex - i
      BY <3>2, <3>3
    <3> QED
      BY <2>0, <3>4, SMT
  <2>3. \E m \in S : \A i \in S : m >= i
    BY <2>0, <2>2, SMT
  <2>4. Min(S) \in S /\ \A i \in S : Min(S) <= i
    BY <2>1 DEF Min
  <2>5. Max(S) \in S /\ \A i \in S : Max(S) >= i
    BY <2>3 DEF Max
  <2> QED
    BY <2>0, <2>4, <2>5, SMT
<1>SumPlus. ASSUME NEW b \in [Span -> Nat], NEW c \in [Span -> Nat]
            PROVE  Plus(b, c) \in [Span -> Nat] /\ Sum(Plus(b, c)) = Sum(b) + Sum(c)
  <2>1. \A i \in Span : b[i] \in Nat /\ c[i] \in Nat /\ b[i] + c[i] \in Nat
    BY SMT
  <2>2. Plus(b, c) \in [Span -> Nat]
    BY <2>1 DEF Plus
  <2>3. PICK p : p = Plus(b, c)
    OBVIOUS
  <2>4. \A i \in LowIndex..HighIndex : b[i] \in Int /\ c[i] \in Int /\ p[i] = b[i] + c[i]
    BY <2>1, <2>3, SMT DEF Plus, Span
  <2>5. Total(p, LowIndex, HighIndex) = Total(b, LowIndex, HighIndex) + Total(c, LowIndex, HighIndex)
    BY <2>4, IndexRange, TotalOfSum, SMT
  <2> QED
    BY <2>2, <2>3, <2>5 DEF Sum
<1>SparseBinsOf. ASSUME NEW st \in SparseStores
                 PROVE  BinsOf(st) = Counts(st.bins) /\ \A i \in Int \ Span : Get(st, i) = 0
  <2>1. st.kind = "sparse" /\ DOMAIN st.bins \subseteq Span
    BY StoreKinds, SparseBinsIs
  <2> QED
    BY <2>1 DEF BinsOf, Counts, Get
<1>KeptSame. ASSUME NEW t, StoreOK(t)
             PROVE  Retained(t, t)
  <2> USE <1>KeptSame
  <2>1. t \in Stores
    BY DEF StoreOK
  <2>2. Sum(BinsOf(t)) \in Nat
    BY <2>1, BinsOfType, SumType
  <2>3. Sum(BinsOf(t)) <= Sum(BinsOf(t))
    BY <2>2, SMT
  <2>4. t.collapsed \in BOOLEAN
    BY <2>1, StoreKinds
  <2> QED
    BY <2>3, <2>4 DEF Retained
<1>SpanFinite. ASSUME NEW S, S \subseteq Span
               PROVE  IsFiniteSet(S) /\ Cardinality(S) \in Nat /\ (S = {} => Cardinality(S) = 0)
  <2> USE <1>SpanFinite
  \* The number of elements of a finite set.
  <2>CardinalityNat. ASSUME NEW W, IsFiniteSet(W)
                     PROVE  Cardinality(W) \in Nat /\ (W = {} => Cardinality(W) = 0)
    <3> USE <2>CardinalityNat
    <3>RestListed. ASSUME NEW U, NEW n \in Nat, NEW T \in Listed(U, n + 1), T # {}
                   PROVE  Rest(T) \in Listed(U, n) /\ Rest(T) \in Listed(U, n + 1)
      <4> USE <3>RestListed
      <4>1. PICK g \in [1..(n + 1) -> U] : \A x \in T : \E i \in 1..(n + 1) : g[i] = x
        BY DEF Listed
      <4>2. PICK c : c = (CHOOSE x : x \in T) /\ c \in T /\ Rest(T) = T \ {c}
        BY DEF Rest
      <4>3. PICK i \in 1..(n + 1) : g[i] = c
        BY <4>1, <4>2
      <4>4. PICK h : h = [k \in 1..n |-> IF k < i THEN g[k] ELSE g[k + 1]]
        OBVIOUS
      <4>5. h \in [1..n -> U]
        <5>1. \A k \in 1..n : k \in 1..(n + 1) /\ k + 1 \in 1..(n + 1)
          BY SMT
        <5> QED
          BY <4>1, <4>4, <5>1
      <4>6. ASSUME NEW x \in Rest(T) PROVE \E k \in 1..n : h[k] = x
        <5>1. PICK j \in 1..(n + 1) : g[j] = x
          BY <4>1, <4>2
        <5>2. j # i
          BY <4>2, <4>3, <5>1
        <5>3. CASE j < i
          <6>1. j \in 1..n
            BY <5>3, SMT
          <6> QED
            BY <4>4, <5>1, <5>3, <6>1
        <5>4. CASE ~(j < i)
          <6>1. PICK k : k = j - 1
            OBVIOUS
          <6>2. k \in 1..n /\ ~(k < i) /\ k + 1 = j
            BY <5>2, <5>4, <6>1, SMT
          <6> QED
            BY <4>4, <5>1, <6>2
        <5> QED
          BY <5>3, <5>4
      <4>7. Rest(T) \in SUBSET U
        BY <4>2 DEF Listed
      <4>8. \A x \in Rest(T) : \E k \in 1..(n + 1) : g[k] = x
        BY <4>1, <4>2
      <4> QED
        BY <4>1, <4>5, <4>6, <4>7, <4>8 DEF Listed
    <3>NoneListed. ASSUME NEW U, NEW T \in Listed(U, 0)
                   PROVE  T = {}
      <4> USE <3>NoneListed
      <4>1. \A i \in 1..0 : FALSE
        BY SMT
      <4> QED
        BY <4>1 DEF Listed
    <3>CountsExist. ASSUME NEW V, NEW n \in Nat
                    PROVE  \E f : f \in [Listed(V, n) -> Nat] /\ CountsAll(f, Listed(V, n))
      <4> DEFINE M == {m \in Nat : \E f : f \in [Listed(V, m) -> Nat] /\ CountsAll(f, Listed(V, m))}
      <4>0. 0 \in Nat /\ \A k \in Nat : 1 + k \in Nat
        BY SMT
      <4>1. 0 \in M
        <5>1. PICK f : f = [T \in Listed(V, 0) |-> 0]
          OBVIOUS
        <5>2. f \in [Listed(V, 0) -> Nat] /\ CountsAll(f, Listed(V, 0))
          BY <4>0, <5>1, <3>NoneListed DEF CountsAll
        <5> QED
          BY <4>0, <5>2
      <4>2. ASSUME NEW m \in Nat, m \in M PROVE m + 1 \in M
        <5>1. PICK f : f \in [Listed(V, m) -> Nat] /\ CountsAll(f, Listed(V, m))
          BY <4>2
        <5>2. PICK g : g = [T \in Listed(V, m + 1) |-> IF T = {} THEN 0 ELSE 1 + f[Rest(T)]]
          OBVIOUS
        <5>3. ASSUME NEW T \in Listed(V, m + 1) PROVE g[T] \in Nat /\ g[T] = IF T = {} THEN 0 ELSE 1 + g[Rest(T)]
          <6>1. CASE T = {}
            BY <4>0, <5>2, <6>1
          <6>2. CASE T # {}
            <7>1. PICK U : U = Rest(T) /\ U \in Listed(V, m) /\ U \in Listed(V, m + 1)
              BY <6>2, <3>RestListed
            <7>2. g[U] = f[U]
              BY <5>1, <5>2, <7>1 DEF CountsAll
            <7>3. g[T] = 1 + f[U] /\ f[U] \in Nat
              BY <5>1, <5>2, <6>2, <7>1
            <7> QED
              BY <4>0, <6>2, <7>1, <7>2, <7>3
          <6> QED
            BY <6>1, <6>2
        <5>4. g \in [Listed(V, m + 1) -> Nat] /\ CountsAll(g, Listed(V, m + 1))
          BY <5>2, <5>3 DEF CountsAll
        <5>5. m + 1 \in Nat
          BY SMT
        <5> QED
          BY <5>4, <5>5
      <4> HIDE DEF M
      <4>3. Nat \subseteq M
        BY <4>1, <4>2, Induct
      <4> QED
        BY <4>3 DEF M
    <3>CountsNat. ASSUME NEW U, NEW n \in Nat, NEW f, NEW C, CountsAll(f, C), \A m \in Nat : Listed(U, m) \subseteq C
                  PROVE  \A T \in Listed(U, n) : f[T] \in Nat
      <4> USE <3>CountsNat
      <4> DEFINE M == {m \in Nat : \A T \in Listed(U, m) : f[T] \in Nat}
      <4>0. 0 \in Nat /\ \A k \in Nat : 1 + k \in Nat /\ k + 1 \in Nat
        BY SMT
      <4>1. 0 \in M
        BY <4>0, <3>NoneListed DEF CountsAll
      <4>2. ASSUME NEW m \in Nat, m \in M PROVE m + 1 \in M
        <5>1. ASSUME NEW T \in Listed(U, m + 1) PROVE f[T] \in Nat
          <6>1. f[T] = IF T = {} THEN 0 ELSE 1 + f[Rest(T)]
            BY <4>0 DEF CountsAll
          <6>2. T # {} => f[Rest(T)] \in Nat
            BY <4>2, <3>RestListed
          <6> QED
            BY <4>0, <6>1, <6>2
        <5> QED
          BY <4>0, <5>1
      <4> HIDE DEF M
      <4>3. Nat \subseteq M
        BY <4>1, <4>2, Induct
      <4> QED
        BY <4>3 DEF M
    <3>1. PICK q \in Seq(W) : \A s \in W : \E n \in 1..Len(q) : q[n] = s
      BY DEF IsFiniteSet
    <3>2. PICK n \in Nat : q \in [1..n -> W] /\ \A s \in W : \E i \in 1..n : q[i] = s
      <4>1. Len(q) \in Nat /\ q \in [1..Len(q) -> W]
        BY SMT
      <4> QED
        BY <3>1, <4>1
    <3>3. Listed(W, n) = SUBSET W
      BY <3>2 DEF Listed
    <3>4. \A m \in Nat : Listed(W, m) \subseteq SUBSET W
      BY DEF Listed
    <3> DEFINE Eq(f) == f = [T \in SUBSET W |-> IF T = {} THEN 0 ELSE 1 + f[T \ {CHOOSE x : x \in T}]]
    <3>5. PICK f : f \in [Listed(W, n) -> Nat] /\ CountsAll(f, Listed(W, n))
      BY <3>CountsExist
    <3>6. Eq(f)
      BY <3>3, <3>5 DEF CountsAll, Rest
    <3>7. PICK c : c = (CHOOSE g : Eq(g)) /\ Eq(c)
      <4> HIDE DEF Eq
      <4>1. Eq(CHOOSE g : Eq(g))
        BY <3>6
      <4> QED
        BY <4>1
    <3>8. Cardinality(W) = c[W]
      BY <3>7 DEF Cardinality
    <3>9. CountsAll(c, SUBSET W)
      BY <3>7 DEF CountsAll, Rest
    <3> HIDE DEF Eq
    <3>10. c[W] \in Nat
      BY <3>3, <3>4, <3>9, <3>CountsNat
    <3>11. W = {} => c[W] = 0
      BY <3>9 DEF CountsAll
    <3> QED
      BY <3>8, <3>10, <3>11
  \* A set of integers between two bounds is finite.
  <2>BetweenFinite. ASSUME NEW a \in Int, NEW b \in Int, NEW T, T \subseteq a..b
                    PROVE  IsFiniteSet(T)
    <3> USE <2>BetweenFinite
    <3>1. CASE T = {}
      <4>0. <<>> \in Seq(T)
        BY SMT
      <4>1. PICK q : q = <<>> /\ q \in Seq(T)
        BY <4>0
      <4> QED
        BY <3>1, <4>1 DEF IsFiniteSet
    <3>2. CASE T # {}
      <4>1. PICK z : z \in T
        BY <3>2
      <4>2. PICK n \in Nat : \A x \in a..b : x - a + 1 \in 1..n /\ a + (x - a + 1) - 1 = x
        <5>1. z \in a..b /\ b - a + 1 \in Nat
          BY <4>1, SMT
        <5>2. \A x \in a..b : x - a + 1 \in 1..(b - a + 1) /\ a + (x - a + 1) - 1 = x
          BY SMT
        <5> QED
          BY <5>1, <5>2
      <4>3. PICK q : q = [k \in 1..n |-> IF a + k - 1 \in T THEN a + k - 1 ELSE z]
        OBVIOUS
      <4>4. q \in [1..n -> T]
        BY <4>1, <4>3
      <4>5. q \in Seq(T) /\ Len(q) = n
        BY <4>4, SMT
      <4>6. \A s \in T : \E k \in 1..Len(q) : q[k] = s
        BY <4>2, <4>3, <4>5
      <4> QED
        BY <4>5, <4>6 DEF IsFiniteSet
    <3> QED
      BY <3>1, <3>2
  <2>1. LowIndex \in Int /\ HighIndex \in Int /\ S \subseteq LowIndex..HighIndex
    BY IndexRange DEF Span
  <2>2. IsFiniteSet(S)
    BY <2>1, <2>BetweenFinite
  <2> QED
    BY <2>2, <2>CardinalityNat
<1>CollapsedIs. ASSUME NEW t \in SparseStores, StoreOK(t), NEW wanted, wanted => t.count # 0,
                       NEW n \in Collapsed(t, wanted)
                PROVE  Retained(n, t)
  <2> USE <1>CollapsedIs
  <2>CollapseIs. ASSUME NEW d \in SparseStores, StoreOK(d), d.count # 0, NEW order \in Orders(LowCount(d))
                 PROVE  Retained(collapseBuckets(d, order), d)
    <3> USE <2>CollapseIs
    <3>PathIs. ASSUME NEW b, NEW lo, NEW hi, NEW or, NEW k, Order(b, lo, hi, or, k)
               PROVE  Left(Path(b, or, k)[k], b, or, k) /\ Path(b, or, 0)[0] = b
      <4> USE <3>PathIs
      <4>CountsType. ASSUME NEW e \in SparseBins
                     PROVE  Counts(e) \in [Span -> Nat]
        <5>1. 0 \in Nat /\ \A i \in DOMAIN e : e[i] \in Nat
          BY SparseBinsIs
        <5> QED
          BY <5>1 DEF Counts
      <4>LeftStep. ASSUME NEW u, NEW lo2, NEW hi1, NEW o, NEW v, Order(u, lo2, hi1, o, v),
                          NEW w \in 1..v, NEW c, Left(c, u, o, w - 1)
                   PROVE  Left(Redistributed(c, o[w]), u, o, w)
        <5> USE <4>LeftStep
        <5>RedistributedIs. ASSUME NEW m \in SparseBins, NEW i \in DOMAIN m, NEW x \in DOMAIN m, NEW y \in DOMAIN m, x < i, i < y
                            PROVE  /\ Redistributed(m, i) \in SparseBins /\ DOMAIN Redistributed(m, i) = DOMAIN m \ {i}
                                   /\ Sum(Counts(Redistributed(m, i))) <= Sum(Counts(m))
          <6> USE <5>RedistributedIs
          <6>Portions. ASSUME NEW e \in Nat, NEW l \in Int, NEW f \in Int, NEW up \in Int, l < f, f < up
                       PROVE  /\ (e * (up - f)) \div (up - l) \in Nat /\ (e * (f - l)) \div (up - l) \in Nat
                              /\ (e * (up - f)) \div (up - l) + (e * (f - l)) \div (up - l) <= e
            <7> USE <6>Portions
            <7>1. PICK g \in Nat, h \in Nat, j \in Nat : g = up - l /\ h = e * (up - f) /\ j = e * (f - l) /\ g > 0
              <8>1. e * (up - f) \in Nat /\ e * (f - l) \in Nat
                BY SMT
              <8> QED
                BY <8>1, SMT
            <7>2. h + j = g * e
              BY <7>1, SMT
            <7>3. PICK p \in Int, q \in Int : p = h \div g /\ q = j \div g /\ g * p <= h /\ g * q <= j /\ p >= 0 /\ q >= 0
              BY <7>1, SMT
            <7>4. g * (p + q) <= g * e
              BY <7>2, <7>3, SMT
            <7>5. p + q <= e
              BY <7>1, <7>4, SMT
            <7> QED
              BY <7>1, <7>3, <7>5, SMT
          <6>1. DOMAIN m \subseteq Span /\ \A j \in DOMAIN m : m[j] \in Nat \ {0}
            BY SparseBinsIs
          <6>2. PICK D, below, above :
                  D = DOMAIN m \ {i} /\ below = {j \in D : j < i} /\ above = {j \in D : j > i}
            OBVIOUS
          <6>0. \A j \in DOMAIN m : j \in Int
            BY <6>1, SpanInt
          <6>3. x \in below /\ y \in above
            <7>1. x # i /\ y # i /\ y > i
              BY <6>0, SMT
            <7> QED
              BY <6>2, <7>1
          <6>4. PICK lo1, up : lo1 = Max(below) /\ up = Min(above)
            OBVIOUS
          <6>5. lo1 \in D /\ lo1 < i /\ up \in D /\ i < up /\ lo1 # up
            <7>1. below \subseteq Span /\ above \subseteq Span
              BY <6>1, <6>2
            <7>2. lo1 \in below /\ up \in above
              BY <6>3, <6>4, <7>1, <1>MinMaxIs
            <7>3. lo1 \in D /\ up \in D /\ lo1 < i /\ up > i
              BY <6>2, <7>2
            <7>4. lo1 \in Int /\ up \in Int /\ i \in Int
              BY <6>0, <6>2, <7>3
            <7> QED
              BY <7>3, <7>4, SMT
          <6>6. PICK p, q : p = (m[i] * (up - i)) \div (up - lo1) /\ q = (m[i] * (i - lo1)) \div (up - lo1)
            OBVIOUS
          <6>7. p \in Nat /\ q \in Nat /\ p + q <= m[i]
            <7>1. lo1 \in Int /\ up \in Int /\ i \in Int /\ m[i] \in Nat
              BY <6>0, <6>1, <6>2, <6>5
            <7> QED
              BY <6>5, <6>6, <7>1, <6>Portions, SMT
          <6>8. PICK r : r = [j \in D |-> m[j] + (IF j = lo1 THEN p ELSE IF j = up THEN q ELSE 0)]
            OBVIOUS
          <6>9. Redistributed(m, i) = r
            <7>1. below # {} /\ above # {}
              BY <6>3
            <7> QED
              BY <6>2, <6>4, <6>5, <6>6, <6>8, <7>1 DEF Redistributed, Restrict
          <6>10. r \in SparseBins /\ DOMAIN r = D
            <7>1. \A j \in D : m[j] + (IF j = lo1 THEN p ELSE IF j = up THEN q ELSE 0) \in Nat \ {0}
              BY <6>1, <6>2, <6>7, SMT
            <7>2. r = [j \in DOMAIN r |-> r[j]] /\ DOMAIN r = D /\ \A j \in DOMAIN r : r[j] \in Nat \ {0}
              BY <6>8, <7>1
            <7> QED
              BY <6>1, <6>2, <7>2, SparseBinsIs
          <6>11. i \in Span /\ lo1 \in Span /\ up \in Span /\ m[i] \in Nat
            BY <6>1, <6>2, <6>5
          <6>12. Plus(Counts(r), Point(i, m[i])) = Plus(Plus(Counts(m), Point(lo1, p)), Point(up, q))
            <7>1. ASSUME NEW j \in Span
                  PROVE  Counts(r)[j] + Point(i, m[i])[j] = (Counts(m)[j] + Point(lo1, p)[j]) + Point(up, q)[j]
              <8>1. /\ Counts(r)[j] = (IF j \in D THEN m[j] + (IF j = lo1 THEN p ELSE IF j = up THEN q ELSE 0) ELSE 0)
                    /\ Counts(m)[j] = (IF j \in DOMAIN m THEN m[j] ELSE 0)
                BY <6>8, <6>10 DEF Counts
              <8>2. /\ Point(i, m[i])[j] = (IF j = i THEN m[i] ELSE 0)
                    /\ Point(lo1, p)[j] = (IF j = lo1 THEN p ELSE 0)
                    /\ Point(up, q)[j] = (IF j = up THEN q ELSE 0)
                BY DEF Point
              <8>3. j \in D => m[j] \in Nat
                BY <6>1, <6>2
              <8> QED
                BY <6>2, <6>5, <6>7, <6>11, <8>1, <8>2, <8>3, SMT
            <7> QED
              BY <7>1 DEF Plus
          <6>13. Sum(Counts(r)) + m[i] = (Sum(Counts(m)) + p) + q
            <7>1. Counts(r) \in [Span -> Nat] /\ Counts(m) \in [Span -> Nat]
              BY <6>10, <4>CountsType
            <7>2. /\ Point(i, m[i]) \in [Span -> Nat] /\ Sum(Point(i, m[i])) = m[i]
                  /\ Point(lo1, p) \in [Span -> Nat] /\ Sum(Point(lo1, p)) = p
                  /\ Point(up, q) \in [Span -> Nat] /\ Sum(Point(up, q)) = q
              BY <6>7, <6>11, SumPoint
            <7>3. Sum(Plus(Counts(r), Point(i, m[i]))) = Sum(Counts(r)) + m[i]
              BY <7>1, <7>2, <1>SumPlus, ZenonT(60)
            <7>4. /\ Plus(Counts(m), Point(lo1, p)) \in [Span -> Nat]
                  /\ Sum(Plus(Counts(m), Point(lo1, p))) = Sum(Counts(m)) + p
              BY <7>1, <7>2, <1>SumPlus
            <7>5. Sum(Plus(Plus(Counts(m), Point(lo1, p)), Point(up, q))) = (Sum(Counts(m)) + p) + q
              BY <7>2, <7>4, <1>SumPlus
            <7> QED
              BY <6>12, <7>3, <7>5
          <6>14. Sum(Counts(r)) \in Nat /\ Sum(Counts(m)) \in Nat
            BY <6>10, <4>CountsType, SumType
          <6>15. Sum(Counts(r)) <= Sum(Counts(m))
            BY <6>7, <6>11, <6>13, <6>14, SMT
          <6> QED
            BY <6>2, <6>9, <6>10, <6>15
        <5>0. v \in Nat /\ w \in Int /\ w - 1 \in Int /\ 1 <= w /\ w <= v
          BY SMT DEF Order
        <5>1. \A m \in 1..(w - 1) : m \in 1..v /\ m # w
          BY <5>0, SMT
        <5>2. \A m : m \in 1..w <=> m \in 1..(w - 1) \/ m = w
          BY <5>0, SMT
        <5>3. o[w] \in DOMAIN u /\ o[w] # lo2 /\ o[w] # hi1
          BY DEF Order
        <5>4. \A m \in 1..(w - 1) : o[m] # o[w] /\ o[m] # lo2 /\ o[m] # hi1
          BY <5>1 DEF Order, IsInjective
        <5>5. o[w] \in DOMAIN c /\ lo2 \in DOMAIN c /\ hi1 \in DOMAIN c
          BY <5>3, <5>4 DEF Left, Order
        <5>6. lo2 < o[w] /\ o[w] < hi1
          <6>1. DOMAIN u \subseteq Span
            BY SparseBinsIs DEF Order
          <6>2. lo2 \in Int /\ hi1 \in Int /\ o[w] \in Int
            BY <5>3, <6>1, SpanInt DEF Order
          <6>3. lo2 <= o[w] /\ o[w] <= hi1
            BY <5>3 DEF Order
          <6> QED
            BY <5>3, <6>2, <6>3, SMT
        <5>7. PICK i : i = o[w]
          OBVIOUS
        <5>8. /\ Redistributed(c, i) \in SparseBins /\ DOMAIN Redistributed(c, i) = DOMAIN c \ {i}
              /\ Sum(Counts(Redistributed(c, i))) <= Sum(Counts(c))
          BY <5>5, <5>6, <5>7, <5>RedistributedIs DEF Left
        <5>9. DOMAIN c \ {i} = DOMAIN u \ {o[m] : m \in 1..w}
          BY <5>2, <5>7 DEF Left
        <5>10. Sum(Counts(Redistributed(c, i))) <= Sum(Counts(u))
          <6>1. /\ Sum(Counts(Redistributed(c, i))) \in Nat /\ Sum(Counts(c)) \in Nat /\ Sum(Counts(u)) \in Nat
                /\ Sum(Counts(c)) <= Sum(Counts(u))
            BY <5>8, <4>CountsType, SumType DEF Left, Order
          <6> QED
            BY <5>8, <6>1, SMT
        <5> QED
          BY <5>7, <5>8, <5>9, <5>10 DEF Left
      <4>0. k \in Nat /\ b \in SparseBins /\ 0 \in Nat /\ 0 \in 0..0 /\ 0 - 1 = -1
        BY SMT DEF Order
      <4>1. PICK step : step = [q \in Nat \X SparseBins |->
                                  IF q[1] \in 1..k /\ Left(q[2], b, or, q[1] - 1)
                                    THEN Redistributed(q[2], or[q[1]]) ELSE q[2]]
        OBVIOUS
      <4>2. IsStep(step, SparseBins)
        <5>1. ASSUME NEW z \in Nat, NEW c \in SparseBins, z \in 1..k, Left(c, b, or, z - 1)
              PROVE  Redistributed(c, or[z]) \in SparseBins
          BY <5>1, <4>LeftStep DEF Left
        <5>2. \A q \in Nat \X SparseBins : q[1] \in Nat /\ q[2] \in SparseBins
          OBVIOUS
        <5>3. ASSUME NEW q \in Nat \X SparseBins PROVE step[q] \in SparseBins
          BY <4>1, <5>1, <5>2
        <5> QED
          BY <4>1, <5>3 DEF IsStep
      <4>3. PICK s \in [Nat -> SparseBins] : AllValues(s, b, step)
        BY <4>0, <4>2, Recursion
      <4>4. Left(b, b, or, 0)
        <5>1. \A m \in 1..0 : FALSE
          BY SMT
        <5>2. Sum(Counts(b)) <= Sum(Counts(b))
          <6>1. Sum(Counts(b)) \in Nat
            BY <4>0, <4>CountsType, SumType
          <6> QED
            BY <6>1, SMT
        <5> QED
          BY <4>0, <5>1, <5>2 DEF Left
      <4>5. ASSUME NEW z \in 1..k, Left(s[z - 1], b, or, z - 1)
            PROVE  s[z] = Redistributed(s[z - 1], or[z])
        <5>1. z \in Nat /\ z # 0 /\ z - 1 \in Nat
          BY SMT
        <5>2. s[z] = step[<<z, s[z - 1]>>] /\ s[z - 1] \in SparseBins
          BY <4>3, <5>1 DEF AllValues
        <5>3. PICK c \in SparseBins : c = s[z - 1]
          BY <5>2
        <5>4. step[<<z, c>>] = Redistributed(c, or[z])
          <6>1. <<z, c>> \in Nat \X SparseBins /\ <<z, c>>[1] = z /\ <<z, c>>[2] = c
            BY <5>1
          <6> QED
            BY <4>1, <4>5, <5>3, <6>1
        <5> QED
          BY <5>2, <5>3, <5>4
      <4>6. \A z \in 0..k : Left(s[z], b, or, z)
        <5> SUFFICES ASSUME NEW z \in 0..k PROVE Left(s[z], b, or, z)
          OBVIOUS
        <5> DEFINE S == {m \in Int : Left(s[m], b, or, m)}
        <5>1. 0 \in Int /\ 1 \in Int /\ 1 - 1 = 0 /\ 1 - 1 <= z /\ z \in Int
          BY SMT
        <5>2. 1 - 1 \in S
          BY <4>3, <4>4, <5>1 DEF AllValues
        <5>3. ASSUME NEW m \in 1..z, m - 1 \in S PROVE m \in S
          <6>1. m \in 1..k /\ m \in Int
            BY <4>0, SMT
          <6>2. Left(s[m - 1], b, or, m - 1)
            BY <5>3
          <6>3. PICK c : c = s[m - 1]
            OBVIOUS
          <6>4. Left(Redistributed(c, or[m]), b, or, m)
            BY <6>1, <6>2, <6>3, <4>LeftStep
          <6>5. s[m] = Redistributed(c, or[m])
            BY <4>5, <6>1, <6>2, <6>3
          <6> QED
            BY <6>1, <6>4, <6>5
        <5> HIDE DEF S
        <5>4. z \in S
          BY <5>1, <5>2, <5>3, Upwards
        <5> QED
          BY <5>4 DEF S
      <4>7. ASSUME NEW z \in 0..k
            PROVE  s[z] = IF z = 0 THEN b ELSE Redistributed(s[z - 1], or[z])
        <5>1. z # 0 => z \in 1..k /\ z - 1 \in 0..k
          BY <4>0, SMT
        <5> QED
          BY <4>3, <4>5, <4>6, <5>1 DEF AllValues
      <4>8. PICK g : g = [z \in 0..k |-> s[z]]
        OBVIOUS
      <4>9. g = [z \in 0..k |-> IF z = 0 THEN b ELSE Redistributed(g[z - 1], or[z])]
        <5>1. ASSUME NEW z \in 0..k PROVE s[z] = IF z = 0 THEN b ELSE Redistributed(g[z - 1], or[z])
          <6>1. z # 0 => z - 1 \in 0..k
            BY <4>0, SMT
          <6> QED
            BY <4>7, <4>8, <6>1
        <5> QED
          BY <4>8, <5>1
      <4>10. PICK f : f = Path(b, or, k)
        OBVIOUS
      <4>11. f = [z \in 0..k |-> IF z = 0 THEN b ELSE Redistributed(f[z - 1], or[z])]
        BY <4>9, <4>10 DEF Path
      <4>12. \A z \in 0..k : f[z] = IF z = 0 THEN b ELSE Redistributed(f[z - 1], or[z])
        BY <4>11
      <4>13. f[k] = s[k]
        <5> DEFINE S == {m \in Int : f[m] = s[m]}
        <5>1. 0 \in Int /\ 1 \in Int /\ 1 - 1 = 0 /\ 1 - 1 <= k /\ k \in Int /\ 0 \in 0..k
          BY <4>0, SMT
        <5>2. 1 - 1 \in S
          BY <4>7, <4>12, <5>1
        <5>3. ASSUME NEW m \in 1..k, m - 1 \in S PROVE m \in S
          <6>1. m \in 0..k /\ m # 0 /\ m \in Int
            BY <4>0, SMT
          <6>2. f[m - 1] = s[m - 1]
            BY <5>3
          <6> QED
            BY <4>7, <4>12, <6>1, <6>2
        <5> HIDE DEF S
        <5>4. k \in S
          BY <5>1, <5>2, <5>3, Upwards
        <5> QED
          BY <5>4 DEF S
      <4>14. k \in 0..k
        BY <4>0, SMT
      <4>15. Path(b, or, 0)[0] = b
        <5>1. PICK h : h = [z \in 0..0 |-> b]
          OBVIOUS
        <5>2. \A z : z \in 0..0 <=> z = 0
          BY SMT
        <5>3. h = [z \in 0..0 |-> IF z = 0 THEN b ELSE Redistributed(h[z - 1], or[z])]
          <6>1. \A z \in 0..0 : b = IF z = 0 THEN b ELSE Redistributed(h[z - 1], or[z])
            BY <5>2
          <6> QED
            BY <5>1, <6>1
        <5>4. PICK e : e = Path(b, or, 0)
          OBVIOUS
        <5>5. e = [z \in 0..0 |-> IF z = 0 THEN b ELSE Redistributed(e[z - 1], or[z])]
          BY <5>3, <5>4 DEF Path
        <5> QED
          BY <5>2, <5>4, <5>5
      <4> QED
        BY <4>6, <4>10, <4>13, <4>14, <4>15
    <3>1. PICK b, lo, hi : b = d.bins /\ lo = d.minIndex /\ hi = d.maxIndex
      OBVIOUS
    <3>2. /\ b \in SparseBins /\ DOMAIN b \subseteq Span /\ \A i \in DOMAIN b : b[i] \in Nat \ {0}
          /\ d \in Stores /\ d.kind = "sparse" /\ d.collapsed \in BOOLEAN
      BY <3>1, StoreKinds, SparseBinsIs DEF Stores
    <3>3. BinsOf(d) = Counts(b)
      BY <3>1, <1>SparseBinsOf
    <3>4. lo \in DOMAIN b /\ hi \in DOMAIN b /\ \A i \in DOMAIN b : lo <= i /\ i <= hi
      <4>1. Ends(Counts(b), lo, hi)
        BY <3>1, <3>3 DEF StoreOK
      <4>2. \A i \in Span : Counts(b)[i] # 0 <=> i \in DOMAIN b
        BY <3>2 DEF Counts
      <4> QED
        BY <3>2, <4>1, <4>2 DEF Ends
    <3>5. PICK k \in Nat : order \in [1..k -> DOMAIN b \ {lo, hi}] /\ IsInjective(order)
      <4>1. LowCount(d) \subseteq DOMAIN b \ {lo, hi}
        BY <3>1 DEF LowCount
      <4>2. Cardinality(LowCount(d)) \in Nat
        BY <3>2, <4>1, <1>SpanFinite
      <4>3. order \in [1..Cardinality(LowCount(d)) -> LowCount(d)] /\ IsInjective(order)
        BY DEF Orders
      <4> QED
        BY <4>1, <4>2, <4>3
    <3>6. Order(b, lo, hi, order, k)
      BY <3>2, <3>4, <3>5 DEF Order
    <3>7. Len(order) = k /\ (order = <<>> => k = 0)
      <4>1. Len(order) = k
        BY <3>5, SMT
      <4> QED
        BY <4>1, SMT
    <3>8. PICK c : c = Path(b, order, k)[k]
      OBVIOUS
    <3>9. Left(c, b, order, k) /\ (k = 0 => c = b)
      BY <3>6, <3>8, <3>PathIs
    <3>10. PICK a : a = collapseBuckets(d, order)
      OBVIOUS
    <3>11. a = [d EXCEPT !.bins = c, !.minIndex = Min(DOMAIN c), !.maxIndex = Max(DOMAIN c),
                         !.hasElements = TRUE, !.collapsed = @ \/ order # <<>>]
      BY <3>1, <3>7, <3>8, <3>10 DEF collapseBuckets, Path
    <3>12. c \in SparseBins /\ DOMAIN c \subseteq DOMAIN b /\ lo \in DOMAIN c /\ hi \in DOMAIN c
      <4>1. lo \notin {order[m] : m \in 1..k} /\ hi \notin {order[m] : m \in 1..k}
        BY <3>5
      <4> QED
        BY <3>4, <3>9, <4>1 DEF Left
    <3>13. Min(DOMAIN c) = lo /\ Max(DOMAIN c) = hi
      <4>1. DOMAIN c \subseteq Span /\ DOMAIN c # {}
        BY <3>2, <3>12
      <4>2. PICK x, y : x = Min(DOMAIN c) /\ y = Max(DOMAIN c)
        OBVIOUS
      <4>3. x \in DOMAIN c /\ x <= lo /\ lo <= x /\ y \in DOMAIN c /\ y <= hi /\ hi <= y
        BY <3>4, <3>12, <4>1, <4>2, <1>MinMaxIs
      <4>4. x \in Int /\ y \in Int /\ lo \in Int /\ hi \in Int
        BY <3>12, <4>1, <4>3, SpanInt
      <4> QED
        BY <4>2, <4>3, <4>4, SMT
    <3>14. /\ a \in SparseStores /\ a.kind = "sparse" /\ a.bins = c /\ a.count = d.count /\ a.minIndex = lo /\ a.maxIndex = hi
           /\ a.hasElements /\ a.collapsed = (d.collapsed \/ order # <<>>)
      <4>1. lo \in Int /\ hi \in Int /\ d.count \in Nat
        BY <3>1, <3>2, StoreKinds
      <4>2. PICK e \in BOOLEAN, x \in BOOLEAN : e = TRUE /\ x = (d.collapsed \/ order # <<>>)
        OBVIOUS
      <4>3. a = [d EXCEPT !.bins = c, !.minIndex = lo, !.maxIndex = hi, !.hasElements = e, !.collapsed = x]
        BY <3>11, <3>13, <4>2
      <4>4. /\ a \in SparseStores /\ a.bins = c /\ a.count = d.count /\ a.minIndex = lo /\ a.maxIndex = hi
            /\ a.hasElements = e /\ a.collapsed = x
        BY <3>12, <4>1, <4>3 DEF SparseStores
      <4> QED
        BY <4>2, <4>4, StoreKinds
    <3>15. BinsOf(a) = Counts(c) /\ (\A i \in Int \ Span : Get(a, i) = 0) /\ a \in Stores
      BY <3>14, <1>SparseBinsOf DEF Stores
    <3>16. Ends(BinsOf(a), lo, hi)
      <4>1. DOMAIN c \subseteq Span /\ \A i \in DOMAIN c : c[i] \in Nat \ {0}
        BY <3>12, SparseBinsIs
      <4>2. \A i \in Span : Counts(c)[i] # 0 <=> i \in DOMAIN c
        BY <4>1 DEF Counts
      <4> QED
        BY <3>4, <3>12, <3>15, <4>1, <4>2 DEF Ends
    <3>17. StoreOK(a)
      BY <3>14, <3>15, <3>16 DEF StoreOK
    <3>18. Sum(BinsOf(a)) <= Sum(BinsOf(d))
      BY <3>3, <3>9, <3>15 DEF Left
    <3>19. a.collapsed \/ (~d.collapsed /\ BinsOf(a) = BinsOf(d))
      BY <3>2, <3>3, <3>7, <3>9, <3>14, <3>15
    <3> QED
      BY <3>1, <3>2, <3>10, <3>14, <3>17, <3>18, <3>19 DEF Retained
  <2>1. CASE wanted
    BY <2>1, <2>CollapseIs DEF Collapsed
  <2>2. CASE ~wanted
    BY <2>2, <1>KeptSame DEF Collapsed
  <2> QED
    BY <2>1, <2>2
<1>StorePart. ASSUME NEW st, StoreOK(st)
              PROVE  Part(BinsOf(st), st.count, st.minIndex, st.maxIndex)
  <2> USE <1>StorePart
  <2>1. st \in Stores
    BY DEF StoreOK
  <2>2. BinsOf(st) \in [Span -> Nat] /\ st.count \in Nat
    BY <2>1, BinsOfType, StoreKinds
  <2>3. \A i \in Span : BinsOf(st)[i] = Get(st, i)
    BY DEF BinsOf
  <2> QED
    BY <2>2, <2>3 DEF Part, StoreOK
<1>GrownOK. ASSUME NEW t, NEW st, StoreOK(st), NEW b, NEW k, NEW lo, NEW hi, NEW col \in BOOLEAN,
                   Part(b, k, lo, hi), Grown(t, st, b, k, lo, hi, col)
            PROVE  StoreOK(t)
  <2> USE <1>GrownOK
  \* The ends of two parts together.
  <2>PartsPlus. ASSUME NEW e, NEW f, NEW l, NEW h, Part(e, f, l, h),
                       NEW c, NEW m, NEW u, NEW w, Part(c, m, u, w)
                PROVE  Part(Plus(e, c), f + m, Lower(l, u), Higher(h, w))
    <3> USE <2>PartsPlus
    <3>0. /\ e \in [Span -> Nat] /\ c \in [Span -> Nat] /\ f \in Nat /\ m \in Nat /\ f + m \in Nat
          /\ Plus(e, c) \in [Span -> Nat] /\ (f + m = 0 <=> f = 0 /\ m = 0) /\ Top \in Int
      <4>1. e \in [Span -> Nat] /\ c \in [Span -> Nat] /\ f \in Nat /\ m \in Nat
        BY DEF Part
      <4>2. f + m \in Nat /\ (f + m = 0 <=> f = 0 /\ m = 0)
        BY <4>1, SMT
      <4>3. Top \in Int
        BY StoreAssumption, SMT
      <4> QED
        BY <4>1, <4>2, <4>3, <1>SumPlus
    <3>1. \A i \in Span : e[i] \in Nat /\ c[i] \in Nat /\ Plus(e, c)[i] = e[i] + c[i]
      BY <3>0 DEF Plus
    <3>2. \A i \in Span : Plus(e, c)[i] # 0 <=> e[i] # 0 \/ c[i] # 0
      BY <3>1, SMT
    <3>3. CASE f = 0 /\ m = 0
      <4>1. l = Top /\ u = Top /\ h = -Top /\ w = -Top /\ \A i \in Span : e[i] = 0 /\ c[i] = 0
        BY <3>3 DEF Part
      <4>2. Lower(Top, Top) = Top /\ Higher(-Top, -Top) = -Top
        BY DEF Lower, Higher
      <4> QED
        BY <3>0, <3>2, <3>3, <4>1, <4>2 DEF Part
    <3>4. CASE f # 0 /\ m = 0
      <4>1. Ends(e, l, h) /\ u = Top /\ w = -Top /\ \A i \in Span : c[i] = 0
        BY <3>4 DEF Part
      <4>2. l < Top /\ -Top < h
        BY <4>1, SpanInt DEF Ends
      <4>3. Lower(l, Top) = l /\ Higher(h, -Top) = h
        <5>1. h > -Top
          BY <4>1, <4>2, <3>0, SpanInt, SMT DEF Ends
        <5> QED
          BY <4>2, <5>1 DEF Lower, Higher
      <4>4. Ends(Plus(e, c), l, h)
        BY <3>2, <4>1 DEF Ends
      <4> QED
        BY <3>0, <3>4, <4>1, <4>3, <4>4 DEF Part
    <3>5. CASE f = 0 /\ m # 0
      <4>1. Ends(c, u, w) /\ l = Top /\ h = -Top /\ \A i \in Span : e[i] = 0
        BY <3>5 DEF Part
      <4>2. u \in Int /\ w \in Int /\ u < Top /\ -Top < w
        BY <4>1, SpanInt DEF Ends
      <4>3. Lower(Top, u) = u /\ Higher(-Top, w) = w
        BY <3>0, <4>2, SMT DEF Lower, Higher
      <4>4. Ends(Plus(e, c), u, w)
        BY <3>2, <4>1 DEF Ends
      <4> QED
        BY <3>0, <3>5, <4>1, <4>3, <4>4 DEF Part
    <3>6. CASE f # 0 /\ m # 0
      <4>1. Ends(e, l, h) /\ Ends(c, u, w)
        BY <3>6 DEF Part
      <4>2. l \in Span /\ h \in Span /\ u \in Span /\ w \in Span
        BY <4>1 DEF Ends
      <4>3. l \in Int /\ h \in Int /\ u \in Int /\ w \in Int
        BY <4>2, SpanInt
      <4>4. PICK x, y : x = Lower(l, u) /\ y = Higher(h, w)
        OBVIOUS
      <4>5. (x = l \/ x = u) /\ x <= l /\ x <= u /\ (y = h \/ y = w) /\ h <= y /\ w <= y
        BY <4>3, <4>4, SMT DEF Lower, Higher
      <4>6. x \in Span /\ y \in Span /\ Plus(e, c)[x] # 0 /\ Plus(e, c)[y] # 0
        BY <3>2, <4>1, <4>2, <4>5 DEF Ends
      <4>7. ASSUME NEW i \in Span, Plus(e, c)[i] # 0 PROVE x <= i /\ i <= y
        <5>1. (l <= i /\ i <= h) \/ (u <= i /\ i <= w)
          BY <3>2, <4>1, <4>7 DEF Ends
        <5>2. i \in Int /\ x \in Int /\ y \in Int
          BY <4>6, SpanInt
        <5> QED
          BY <4>3, <4>5, <5>1, <5>2, SMT
      <4>8. Ends(Plus(e, c), x, y)
        BY <4>6, <4>7 DEF Ends
      <4> QED
        BY <3>0, <3>6, <4>4, <4>8 DEF Part
    <3> QED
      BY <3>3, <3>4, <3>5, <3>6
  <2>1. Part(BinsOf(st), st.count, st.minIndex, st.maxIndex)
    BY <1>StorePart
  <2>2. Part(BinsOf(t), t.count, t.minIndex, t.maxIndex)
    BY <2>1, <2>PartsPlus, ZenonT(60) DEF Grown
  <2>3. \A i \in Span : BinsOf(t)[i] = Get(t, i)
    BY DEF BinsOf
  <2> QED
    BY <2>2, <2>3 DEF Part, Grown, StoreOK
<1>GrownJoined. ASSUME NEW t, NEW st, StoreOK(st), NEW b, NEW k, NEW lo, NEW hi, NEW col \in BOOLEAN,
                       Part(b, k, lo, hi), Grown(t, st, b, k, lo, hi, col), NEW n, Retained(n, t)
                PROVE  Joined(n, st, b, k, lo, hi, col)
  <2> USE <1>GrownJoined
  <2>1. BinsOf(st) \in [Span -> Nat] /\ b \in [Span -> Nat]
    BY BinsOfType DEF StoreOK, Part
  <2>2. Sum(BinsOf(t)) = Sum(BinsOf(st)) + Sum(b)
    BY <2>1, <1>SumPlus DEF Grown
  <2>3. Sum(BinsOf(n)) <= Sum(BinsOf(st)) + Sum(b)
    BY <2>2 DEF Retained
  <2>4. n.collapsed \/ (~st.collapsed /\ ~col /\ BinsOf(n) = Plus(BinsOf(st), b))
    BY DEF Retained, Grown
  <2> QED
    BY <2>3, <2>4 DEF Retained, Grown, Joined
\* The ends that a merge computes from the buckets of the other store.
<1>EndsOfOther. ASSUME NEW o, StoreOK(o), NEW st, StoreOK(st)
                PROVE  /\ LowerOf(st.minIndex, Indices(o)) = Lower(st.minIndex, o.minIndex)
                       /\ HigherOf(st.maxIndex, Indices(o)) = Higher(st.maxIndex, o.maxIndex)
  <2> USE <1>EndsOfOther
  <2>1. Indices(o) = {i \in Span : Get(o, i) # 0}
    BY <1>IndicesAre DEF StoreOK
  <2>2. CASE o.count = 0
    <3>1. Indices(o) = {} /\ o.minIndex = Top /\ o.maxIndex = -Top
      BY <2>1, <2>2 DEF StoreOK
    <3>2. Top \in Int /\ st.minIndex \in Int /\ st.maxIndex \in Int /\ st.minIndex <= Top /\ -Top <= st.maxIndex
      <4>1. Top \in Int /\ -Top <= Top /\ Top \in Nat
        BY StoreAssumption, SMT
      <4>2. CASE st.count = 0
        <5>1. st.minIndex = Top /\ st.maxIndex = -Top
          BY <4>2 DEF StoreOK
        <5> QED
          BY <4>1, <5>1, SMT
      <4>3. CASE st.count # 0
        <5>1. st.minIndex \in Span /\ st.maxIndex \in Span
          BY <4>3 DEF StoreOK, Ends
        <5>2. /\ st.minIndex \in Int /\ st.maxIndex \in Int /\ st.minIndex < Top /\ -Top < st.maxIndex
          BY <5>1, SpanInt
        <5> QED
          BY <4>1, <5>2, SMT
      <4> QED
        BY <4>2, <4>3
    <3>3. Lower(st.minIndex, Top) = st.minIndex /\ Higher(st.maxIndex, -Top) = st.maxIndex
      BY <3>2, SMT DEF Lower, Higher
    <3> QED
      BY <3>1, <3>3 DEF LowerOf, HigherOf
  <2>3. CASE o.count # 0
    <3>1. Ends(BinsOf(o), o.minIndex, o.maxIndex)
      BY <2>3 DEF StoreOK
    <3>2. /\ o.minIndex \in Indices(o) /\ o.maxIndex \in Indices(o)
          /\ \A i \in Indices(o) : i \in Span /\ o.minIndex <= i /\ i <= o.maxIndex
      BY <2>1, <3>1 DEF Ends, BinsOf
    <3>3. Min(Indices(o)) = o.minIndex /\ Max(Indices(o)) = o.maxIndex
      <4>1. PICK x, y : x = Min(Indices(o)) /\ y = Max(Indices(o))
        OBVIOUS
      <4>2. /\ x \in Indices(o) /\ x <= o.minIndex /\ y \in Indices(o) /\ o.maxIndex <= y
        BY <3>2, <4>1, <1>MinMaxIs
      <4>3. x \in Int /\ y \in Int /\ o.minIndex \in Int /\ o.maxIndex \in Int /\ o.minIndex <= x /\ y <= o.maxIndex
        BY <3>2, <4>2, SpanInt
      <4> QED
        BY <4>1, <4>2, <4>3, SMT
    <3> QED
      BY <3>2, <3>3 DEF LowerOf, HigherOf
  <2> QED
    BY <2>2, <2>3
<1>SparseGrown. ASSUME NEW st \in SparseStores, StoreOK(st), NEW b, NEW k, NEW lo, NEW hi, NEW col \in BOOLEAN,
                       Part(b, k, lo, hi), NEW D, D = Keys(b), NEW e, e = (st.count + k # 0), NEW t,
                       t = SparseWith(st, b, D, k, lo, hi, e, col)
                PROVE  t \in SparseStores /\ Grown(t, st, b, k, lo, hi, col)
  <2> USE <1>SparseGrown
  <2>1. /\ st.kind = "sparse" /\ st.bins \in SparseBins /\ DOMAIN st.bins \subseteq Span
        /\ \A i \in DOMAIN st.bins : st.bins[i] \in Nat \ {0}
        /\ st.count \in Nat /\ st.minIndex \in Int /\ st.maxIndex \in Int /\ st.collapsed \in BOOLEAN
        /\ st \in Stores
    BY StoreKinds, SparseBinsIs DEF Stores
  <2>2. b \in [Span -> Nat] /\ k \in Nat /\ lo \in Int /\ hi \in Int
    <3>1. Top \in Int /\ -Top \in Int
      BY StoreAssumption, SMT
    <3> QED
      BY <3>1, SpanInt DEF Part, Ends
  <2>3. PICK c : c = [j \in DOMAIN st.bins \cup D |-> Get(st, j) + b[j]]
    OBVIOUS
  <2>4. \A j \in Span : Get(st, j) = (IF j \in DOMAIN st.bins THEN st.bins[j] ELSE 0) /\ Get(st, j) \in Nat /\ b[j] \in Nat
    BY <2>1, <2>2, GetType, SpanInt DEF Get
  <2>5. c \in SparseBins /\ DOMAIN c = DOMAIN st.bins \cup D
    <3>1. ASSUME NEW j \in DOMAIN st.bins \cup D PROVE Get(st, j) + b[j] \in Nat \ {0}
      <4>1. j \in Span
        BY <2>1 DEF Keys
      <4>2. Get(st, j) \in Nat /\ b[j] \in Nat /\ (Get(st, j) # 0 \/ b[j] # 0)
        BY <2>1, <2>4, <4>1 DEF Keys
      <4> QED
        BY <4>2, SMT
    <3>2. DOMAIN c = DOMAIN st.bins \cup D /\ c = [j \in DOMAIN c |-> c[j]] /\ \A j \in DOMAIN c : c[j] \in Nat \ {0}
      BY <2>3, <3>1
    <3>3. DOMAIN c \subseteq Span
      BY <2>1, <3>2 DEF Keys
    <3> QED
      BY <3>2, <3>3, SparseBinsIs
  <2>6. PICK m \in Nat, x \in Int, y \in Int, z \in BOOLEAN :
          /\ m = st.count + k /\ x = Lower(st.minIndex, lo) /\ y = Higher(st.maxIndex, hi)
          /\ z = (st.collapsed \/ col)
    <3>1. st.count + k \in Nat
      BY <2>1, <2>2, SMT
    <3> QED
      BY <2>1, <2>2, <3>1 DEF Lower, Higher
  <2>7. e \in BOOLEAN
    OBVIOUS
  <2>8. t = [st EXCEPT !.bins = c, !.count = m, !.minIndex = x, !.maxIndex = y, !.hasElements = e, !.collapsed = z]
    BY <2>3, <2>6 DEF SparseWith
  <2>9. /\ t \in SparseStores /\ t.bins = c /\ t.count = m /\ t.minIndex = x /\ t.maxIndex = y
        /\ t.hasElements = e /\ t.collapsed = z
    BY <2>5, <2>6, <2>7, <2>8 DEF SparseStores
  <2>10. BinsOf(t) = Counts(c) /\ (\A i \in Int \ Span : Get(t, i) = 0) /\ t.kind = "sparse" /\ t \in Stores
    BY <2>9, <1>SparseBinsOf, StoreKinds DEF Stores
  <2>11. Counts(c) = Plus(BinsOf(st), b)
    <3>1. ASSUME NEW j \in Span PROVE (IF j \in DOMAIN c THEN c[j] ELSE 0) = Get(st, j) + b[j]
      <4>1. CASE j \in DOMAIN c
        BY <2>3, <2>5, <4>1
      <4>2. CASE j \notin DOMAIN c
        <5>1. Get(st, j) = 0 /\ b[j] = 0
          BY <2>4, <2>5, <4>2 DEF Keys
        <5> QED
          BY <4>2, <5>1, SMTT(60)
      <4> QED
        BY <4>1, <4>2
    <3> QED
      BY <3>1 DEF Counts, Plus, BinsOf
  <2>12. t.count = st.count + k /\ t.hasElements = (t.count # 0) /\ t.collapsed = (st.collapsed \/ col)
    BY <2>6, <2>9
  <2> QED
    BY <2>1, <2>6, <2>9, <2>10, <2>11, <2>12 DEF Grown
<1>EnsureIs. ASSUME NEW st \in DenseStores, NEW i \in Int
             PROVE  Room(ensureCapacity(st, i), st) /\ Covers(ensureCapacity(st, i), i)
  <2>DenseWithArray. ASSUME NEW s \in DenseStores, NEW b \in Seq(Nat), NEW x \in Int
                     PROVE  OtherArray(WithArray(s, b, x), s, b, x)
    BY DEF DenseStores, WithArray, OtherArray
  <2>ArrayConcat. ASSUME NEW b \in Seq(Nat), NEW c \in Seq(Nat)
                  PROVE  /\ b \o c \in Seq(Nat) /\ Len(b \o c) = Len(b) + Len(c)
                         /\ \A j \in 1..(Len(b) + Len(c)) : (b \o c)[j] = IF j <= Len(b) THEN b[j] ELSE c[j - Len(b)]
    BY SMT
  <2>1. PICK t : t = ensureCapacity(st, i)
    OBVIOUS
  <2>2. PICK b, x, n : b = st.bins /\ x = st.offset /\ n = Len(b)
    OBVIOUS
  <2>3. /\ b \in Seq(Nat) /\ n \in Nat /\ x \in Int /\ b \in [1..n -> Nat] /\ Len(b) = n
        /\ \A j : Get(st, j) = IF Covers(st, j) THEN b[j - x + 1] ELSE 0
        /\ \A j : Covers(st, j) <=> j - x + 1 \in 1..n
    BY <2>2, DenseFields DEF Covers
  <2>4. PICK k \in Int : k = i - x
    BY <2>3, SMT
  <2>5. CASE k < 0
    <3>1. PICK m \in Nat : m = 0 - k /\ m = x - i /\ m >= 1
      BY <2>3, <2>4, <2>5, SMT
    <3>2. PICK z : z = [j \in 1..m |-> 0]
      OBVIOUS
    <3>3. z \in Seq(Nat) /\ Len(z) = m
      BY <3>1, <3>2, SMT
    <3>4. PICK c : c = z \o b
      OBVIOUS
    <3>5. c \in Seq(Nat) /\ Len(c) = m + n /\ \A j \in 1..(m + n) : c[j] = IF j <= m THEN z[j] ELSE b[j - m]
      BY <2>3, <3>3, <3>4, <2>ArrayConcat
    <3>6. t = WithArray(st, c, i)
      <4>1. ~(k >= n)
        BY <2>3, <2>5, SMT
      <4> QED
        BY <2>1, <2>2, <2>4, <2>5, <3>1, <3>2, <3>4, <4>1 DEF ensureCapacity, WithArray
    <3>7. OtherArray(t, st, c, i)
      BY <3>5, <3>6, <2>DenseWithArray
    <3>8. \A j : Get(t, j) = IF Covers(t, j) THEN c[j - i + 1] ELSE 0
      BY <3>7, DenseFields DEF OtherArray
    <3>9. \A j : Covers(t, j) <=> j - i + 1 \in 1..(m + n)
      BY <3>5, <3>7 DEF Covers, OtherArray
    <3>10. ASSUME NEW j \in Int PROVE Get(t, j) = Get(st, j) /\ (Covers(st, j) => Covers(t, j))
      <4>1. CASE j - x + 1 \in 1..n
        <5>1. j - i + 1 \in 1..(m + n) /\ ~(j - i + 1 <= m) /\ (j - i + 1) - m = j - x + 1
          BY <2>3, <3>1, <4>1, SMT
        <5>2. c[j - i + 1] = b[j - x + 1]
          <6>1. PICK y : y = j - i + 1
            OBVIOUS
          <6>2. y \in 1..(m + n) /\ ~(y <= m) /\ y - m = j - x + 1
            BY <5>1, <6>1
          <6>3. c[y] = b[y - m]
            BY <3>5, <6>2
          <6> QED
            BY <6>1, <6>2, <6>3
        <5> QED
          BY <2>3, <3>8, <3>9, <4>1, <5>1, <5>2
      <4>2. CASE ~(j - x + 1 \in 1..n)
        <5>1. Get(st, j) = 0 /\ ~Covers(st, j)
          BY <2>3, <4>2
        <5>2. CASE j - i + 1 \in 1..(m + n)
          <6>1. j - i + 1 <= m /\ j - i + 1 \in 1..m
            BY <2>3, <3>1, <4>2, <5>2, SMT
          <6>2. c[j - i + 1] = 0
            BY <3>2, <3>5, <5>2, <6>1
          <6> QED
            BY <3>8, <3>9, <5>1, <5>2, <6>2
        <5>3. CASE ~(j - i + 1 \in 1..(m + n))
          BY <3>8, <3>9, <5>1, <5>3
        <5> QED
          BY <5>2, <5>3
      <4> QED
        BY <4>1, <4>2
    <3>11. Covers(t, i)
      <4>1. i - i + 1 \in 1..(m + n)
        BY <2>3, <3>1, SMT
      <4> QED
        BY <3>9, <4>1
    <3> QED
      BY <2>1, <3>7, <3>10, <3>11 DEF Room, OtherArray
  <2>6. CASE ~(k < 0) /\ k >= n
    <3>1. PICK m \in Nat : m = k + 1 - n
      BY <2>3, <2>4, <2>6, SMT
    <3>2. PICK z : z = [j \in 1..m |-> 0]
      OBVIOUS
    <3>3. z \in Seq(Nat) /\ Len(z) = m
      BY <3>1, <3>2, SMT
    <3>4. PICK c : c = b \o z
      OBVIOUS
    <3>5. c \in Seq(Nat) /\ Len(c) = n + m /\ \A j \in 1..(n + m) : c[j] = IF j <= n THEN b[j] ELSE z[j - n]
      BY <2>3, <3>3, <3>4, <2>ArrayConcat
    <3>6. t = WithArray(st, c, x)
      <4>1. t = [st EXCEPT !.bins = c]
        BY <2>1, <2>2, <2>4, <2>6, <3>1, <3>2, <3>4 DEF ensureCapacity
      <4> QED
        BY <2>2, <4>1 DEF DenseStores, WithArray
    <3>7. OtherArray(t, st, c, x)
      BY <2>3, <3>5, <3>6, <2>DenseWithArray
    <3>8. \A j : Get(t, j) = IF Covers(t, j) THEN c[j - x + 1] ELSE 0
      BY <3>7, DenseFields DEF OtherArray
    <3>9. \A j : Covers(t, j) <=> j - x + 1 \in 1..(n + m)
      BY <3>5, <3>7 DEF Covers, OtherArray
    <3>10. ASSUME NEW j \in Int PROVE Get(t, j) = Get(st, j) /\ (Covers(st, j) => Covers(t, j))
      <4>1. CASE j - x + 1 \in 1..n
        <5>1. j - x + 1 \in 1..(n + m) /\ j - x + 1 <= n
          BY <2>3, <3>1, <4>1, SMT
        <5> QED
          BY <2>3, <3>5, <3>8, <3>9, <4>1, <5>1
      <4>2. CASE ~(j - x + 1 \in 1..n)
        <5>1. Get(st, j) = 0 /\ ~Covers(st, j)
          BY <2>3, <4>2
        <5>2. CASE j - x + 1 \in 1..(n + m)
          <6>1. ~(j - x + 1 <= n) /\ (j - x + 1) - n \in 1..m
            BY <2>3, <3>1, <4>2, <5>2, SMT
          <6>2. c[j - x + 1] = 0
            BY <3>2, <3>5, <5>2, <6>1
          <6> QED
            BY <3>8, <3>9, <5>1, <5>2, <6>2
        <5>3. CASE ~(j - x + 1 \in 1..(n + m))
          BY <3>8, <3>9, <5>1, <5>3
        <5> QED
          BY <5>2, <5>3
      <4> QED
        BY <4>1, <4>2
    <3>11. Covers(t, i)
      <4>1. i - x + 1 \in 1..(n + m)
        BY <2>3, <2>4, <2>6, <3>1, SMT
      <4> QED
        BY <3>9, <4>1
    <3> QED
      BY <2>1, <3>7, <3>10, <3>11 DEF Room, OtherArray
  <2>7. CASE ~(k < 0) /\ ~(k >= n)
    <3>1. t = st
      BY <2>1, <2>2, <2>4, <2>7 DEF ensureCapacity
    <3>2. i - x + 1 \in 1..n
      BY <2>3, <2>4, <2>7, SMT
    <3> QED
      BY <2>1, <2>3, <3>1, <3>2 DEF Room
  <2> QED
    BY <2>5, <2>6, <2>7
<1>DenseGrown. ASSUME NEW st \in DenseStores, StoreOK(st), NEW u, Room(u, st),
                      NEW b, NEW m, NEW lo, NEW hi, NEW col \in BOOLEAN, Part(b, m, lo, hi),
                      \A j \in Keys(b) : Covers(u, j), NEW e, e = (st.count + m # 0), NEW t,
                      t = DenseWith(u, st, b, m, lo, hi, e, col)
               PROVE  Grown(t, st, b, m, lo, hi, col)
  <2> USE <1>DenseGrown
  <2>1. /\ u \in DenseStores /\ st.count \in Nat /\ st.minIndex \in Int /\ st.maxIndex \in Int
        /\ st.collapsed \in BOOLEAN /\ st.kind = "dense"
    BY DenseFields DEF Room
  <2>2. b \in [Span -> Nat] /\ m \in Nat /\ lo \in Int /\ hi \in Int
    <3>1. Top \in Int /\ -Top \in Int
      BY StoreAssumption, SMTT(60)
    <3> QED
      BY <3>1, SpanInt DEF Part, Ends
  <2>3. PICK x, n : x = u.offset /\ n = Len(u.bins)
    OBVIOUS
  <2>4. /\ x \in Int /\ n \in Nat /\ u.bins \in [1..n -> Nat]
        /\ \A j : Covers(u, j) <=> j - x + 1 \in 1..n
        /\ \A j : Get(u, j) = IF Covers(u, j) THEN u.bins[j - x + 1] ELSE 0
    BY <2>1, <2>3, DenseFields DEF Covers
  <2>5. PICK a : a = [k \in 1..n |-> u.bins[k] + At(b, u, k)]
    OBVIOUS
  <2>6. a \in Seq(Nat) /\ Len(a) = n
    <3>1. ASSUME NEW k \in 1..n PROVE u.bins[k] + At(b, u, k) \in Nat
      <4>1. At(b, u, k) \in Nat
        <5>1. 0 \in Nat
          BY SMT
        <5> QED
          BY <2>2, <5>1 DEF At
      <4>2. u.bins[k] \in Nat
        BY <2>4
      <4> QED
        BY <4>1, <4>2, SMTT(60)
    <3>2. a \in [1..n -> Nat]
      BY <2>5, <3>1
    <3> QED
      BY <2>4, <3>2, ArrayIs
  <2>7. PICK c \in Nat, y \in Int, w \in Int, z \in BOOLEAN :
          /\ c = st.count + m /\ y = Lower(st.minIndex, lo) /\ w = Higher(st.maxIndex, hi)
          /\ z = (st.collapsed \/ col)
    <3>1. st.count + m \in Nat
      BY <2>1, <2>2, SMT
    <3> QED
      BY <2>1, <2>2, <3>1 DEF Lower, Higher
  <2>8. e \in BOOLEAN
    OBVIOUS
  <2>9. t = [u EXCEPT !.bins = a, !.count = c, !.minIndex = y, !.maxIndex = w, !.hasElements = e, !.collapsed = z]
    BY <2>3, <2>5, <2>7 DEF DenseWith
  <2>10. /\ t \in DenseStores /\ t.bins = a /\ t.offset = x /\ t.count = c /\ t.minIndex = y /\ t.maxIndex = w
         /\ t.hasElements = e /\ t.collapsed = z
    BY <2>1, <2>3, <2>6, <2>7, <2>8, <2>9, ZenonT(60) DEF DenseStores
  <2>11. /\ t.kind = "dense" /\ t \in Stores /\ \A j : Covers(t, j) <=> Covers(u, j)
         /\ \A j : Get(t, j) = IF Covers(t, j) THEN a[j - x + 1] ELSE 0
    <3>1. /\ t.kind = "dense" /\ t \in Stores /\ \A j : Get(t, j) = IF Covers(t, j) THEN a[j - x + 1] ELSE 0
      BY <2>10, DenseFields
    <3>2. \A j : Covers(t, j) <=> j - x + 1 \in 1..n
      BY <2>6, <2>10 DEF Covers
    <3> QED
      BY <2>4, <3>1, <3>2
  <2>12. ASSUME NEW j \in Int
         PROVE  Get(t, j) = Get(st, j) + (IF j \in Span THEN b[j] ELSE 0)
    <3>0. Get(u, j) = Get(st, j) /\ Get(st, j) \in Nat
      <4>1. st \in Stores
        BY DEF Stores
      <4> QED
        BY <4>1, GetType DEF Room
    <3>1. CASE Covers(u, j)
      <4>1. PICK k : k = j - x + 1
        OBVIOUS
      <4>2. k \in 1..n /\ k - 1 + x = j
        <5>1. k \in 1..n
          BY <2>4, <3>1, <4>1
        <5> QED
          BY <2>4, <4>1, <5>1, SMTT(60)
      <4>3. a[k] = u.bins[k] + (IF j \in Span THEN b[j] ELSE 0)
        BY <2>3, <2>5, <4>2 DEF At
      <4>4. Get(t, j) = a[k] /\ Get(u, j) = u.bins[k]
        BY <2>4, <2>11, <3>1, <4>1
      <4> QED
        BY <3>0, <4>3, <4>4
    <3>2. CASE ~Covers(u, j)
      <4>1. Get(t, j) = 0 /\ Get(u, j) = 0
        BY <2>4, <2>11, <3>2
      <4>2. (IF j \in Span THEN b[j] ELSE 0) = 0
        BY <3>2 DEF Keys
      <4>3. 0 + 0 = 0
        BY SMT
      <4> QED
        BY <3>0, <4>1, <4>2, <4>3
    <3> QED
      BY <3>1, <3>2
  <2>13. BinsOf(t) = Plus(BinsOf(st), b)
    <3>1. \A j \in Span : Get(t, j) = Get(st, j) + b[j]
      BY <2>12, SpanInt
    <3> QED
      BY <3>1 DEF BinsOf, Plus
  <2>14. \A j \in Int \ Span : Get(t, j) = 0
    <3> SUFFICES ASSUME NEW j \in Int \ Span PROVE Get(t, j) = 0
      OBVIOUS
    <3>1. Get(st, j) = 0 /\ 0 + 0 = 0
      BY SMT DEF StoreOK
    <3> QED
      BY <2>12, <3>1
  <2>15. t.count = st.count + m /\ t.hasElements = (t.count # 0) /\ t.collapsed = (st.collapsed \/ col)
    BY <2>7, <2>10
  <2> QED
    BY <2>1, <2>7, <2>10, <2>11, <2>13, <2>14, <2>15 DEF Grown
<1>StoreAddIs. ASSUME NEW st, StoreOK(st), NEW i \in Span, NEW c \in Nat, c # 0, NEW n \in StoreAdd(st, i, c)
               PROVE  Joined(n, st, Point(i, c), c, i, i, FALSE)
  <2> USE <1>StoreAddIs
  <2>PointPart. ASSUME NEW f \in Span, NEW e \in Nat, e # 0
                PROVE  Part(Point(f, e), e, f, f)
    <3> USE <2>PointPart
    <3>1. Point(f, e) \in [Span -> Nat]
      BY SumPoint
    <3>2. Point(f, e)[f] = e /\ \A j \in Span : Point(f, e)[j] # 0 => j = f
      BY DEF Point
    <3>3. \A j \in Span : j = f => f <= j /\ j <= f
      BY SpanInt, SMT
    <3> QED
      BY <3>1, <3>2, <3>3 DEF Part, Ends
  <2>SparseAddIs. ASSUME NEW s \in SparseStores, StoreOK(s), NEW g \in Span, NEW f \in Nat, f # 0, NEW h \in SparseAdd(s, g, f)
                  PROVE  Joined(h, s, Point(g, f), f, g, g, FALSE)
    <3> USE <2>SparseAddIs
    <3>1. Part(Point(g, f), f, g, g)
      BY <2>PointPart
    <3>2. PICK b, D, e, col : b = Point(g, f) /\ D = Keys(b) /\ e = (s.count + f # 0) /\ col = FALSE
      OBVIOUS
    <3>3. D = {g} /\ \A j \in Span : b[j] = IF j = g THEN f ELSE 0
      BY <3>2 DEF Point, Keys
    <3>4. e = TRUE /\ s.count \in Nat /\ s.count + f # 0 /\ s.collapsed \in BOOLEAN
      <4>1. s.count \in Nat /\ s.collapsed \in BOOLEAN
        BY StoreKinds DEF Stores
      <4>2. s.count + f # 0
        BY <4>1, SMT
      <4> QED
        BY <3>2, <4>1, <4>2
    <3>5. PICK t : t = SparseWith(s, b, D, f, g, g, e, col)
      OBVIOUS
    <3>6. t \in SparseStores /\ Grown(t, s, b, f, g, g, col)
      BY <3>1, <3>2, <3>5, <1>SparseGrown
    <3>7. [j \in DOMAIN s.bins \cup D |-> Get(s, j) + b[j]]
            = [j \in DOMAIN s.bins \cup {g} |-> Get(s, j) + IF j = g THEN f ELSE 0]
      <4>1. DOMAIN s.bins \subseteq Span
        BY StoreKinds, SparseBinsIs
      <4> QED
        BY <3>3, <4>1
    <3>8. t = [s EXCEPT !.bins = [j \in DOMAIN s.bins \cup {g} |-> Get(s, j) + IF j = g THEN f ELSE 0],
                         !.count = @ + f, !.minIndex = Lower(@, g), !.maxIndex = Higher(@, g),
                         !.hasElements = TRUE]
      <4>1. (s.collapsed \/ col) = s.collapsed
        BY <3>2, <3>4
      <4>2. t = [s EXCEPT !.bins = [j \in DOMAIN s.bins \cup {g} |-> Get(s, j) + IF j = g THEN f ELSE 0],
                           !.count = s.count + f, !.minIndex = Lower(s.minIndex, g),
                           !.maxIndex = Higher(s.maxIndex, g),
                           !.hasElements = TRUE, !.collapsed = s.collapsed]
        BY <3>4, <3>5, <3>7, <4>1 DEF SparseWith
      <4> QED
        BY <4>2 DEF SparseStores
    <3>9. h \in Collapsed(t, Cardinality(DOMAIN t.bins) > CollapseAbove)
      BY <3>8 DEF SparseAdd
    <3>10. StoreOK(t) /\ t.count # 0
      <4>1. StoreOK(t)
        BY <3>1, <3>2, <3>6, <1>GrownOK
      <4> QED
        BY <3>4, <3>6, <4>1 DEF Grown
    <3>11. Retained(h, t)
      BY <3>6, <3>9, <3>10, <1>CollapsedIs
    <3> QED
      BY <3>1, <3>2, <3>6, <3>11, <1>GrownJoined
  <2>DenseAddIs. ASSUME NEW s \in DenseStores, StoreOK(s), NEW g \in Span, NEW f \in Nat, f # 0
                 PROVE  Joined(DenseAdd(s, g, f), s, Point(g, f), f, g, g, FALSE)
    <3> USE <2>DenseAddIs
    <3>1. Part(Point(g, f), f, g, g) /\ g \in Int
      BY <2>PointPart, SpanInt
    <3>2. PICK b, e, col, u : b = Point(g, f) /\ e = (s.count + f # 0) /\ col = FALSE /\ u = ensureCapacity(s, g)
      OBVIOUS
    <3>3. Room(u, s) /\ Covers(u, g)
      BY <3>1, <3>2, <1>EnsureIs
    <3>4. e = TRUE /\ s.collapsed \in BOOLEAN
      <4>1. s.count \in Nat /\ s.collapsed \in BOOLEAN
        BY DenseFields
      <4>2. s.count + f # 0
        BY <4>1, SMT
      <4> QED
        BY <3>2, <4>1, <4>2
    <3>5. \A j \in Span : b[j] = IF j = g THEN f ELSE 0
      BY <3>2 DEF Point
    <3>6. \A j \in Keys(b) : Covers(u, j)
      BY <3>3, <3>5 DEF Keys
    <3>7. PICK t : t = DenseWith(u, s, b, f, g, g, e, col)
      OBVIOUS
    <3>8. Grown(t, s, b, f, g, g, col)
      BY <3>1, <3>2, <3>3, <3>6, <3>7, <1>DenseGrown
    <3>9. /\ u \in DenseStores /\ u.offset \in Int /\ Len(u.bins) \in Nat /\ u.bins \in [1..Len(u.bins) -> Nat]
          /\ u.count = s.count /\ u.minIndex = s.minIndex /\ u.maxIndex = s.maxIndex /\ u.collapsed = s.collapsed
      BY <3>3, DenseFields DEF Room
    <3>10. [k \in 1..Len(u.bins) |-> u.bins[k] + At(b, u, k)] = [u.bins EXCEPT ![g - u.offset + 1] = u.bins[g - u.offset + 1] + f]
      <4>1. PICK x \in 1..Len(u.bins) : x = g - u.offset + 1
        BY <3>3 DEF Covers
      <4>2. ASSUME NEW k \in 1..Len(u.bins) PROVE u.bins[k] + At(b, u, k) = [u.bins EXCEPT ![x] = u.bins[x] + f][k]
        <5>0. g \in Int /\ u.offset \in Int /\ x = g - u.offset + 1
          BY <3>1, <3>9, <4>1
        <5>1. k - 1 + u.offset = g <=> k = x
          BY <5>0, SMTT(60)
        <5>2. CASE k = x
          <6>1. At(b, u, k) = f
            BY <3>5, <5>1, <5>2 DEF At
          <6> QED
            BY <3>9, <5>2, <6>1
        <5>3. CASE k # x
          <6>1. At(b, u, k) = 0
            BY <3>5, <5>1, <5>3 DEF At
          <6>2. u.bins[k] + 0 = u.bins[k]
            BY <3>9, SMT
          <6> QED
            BY <3>9, <5>3, <6>1, <6>2
        <5> QED
          BY <5>2, <5>3
      <4>3. [u.bins EXCEPT ![x] = u.bins[x] + f] = [k \in 1..Len(u.bins) |-> [u.bins EXCEPT ![x] = u.bins[x] + f][k]]
        BY <3>9
      <4> QED
        BY <4>1, <4>2, <4>3
    <3>11. DenseAdd(s, g, f) = t
      <4>1. DenseAdd(s, g, f) = [u EXCEPT !.bins[g - u.offset + 1] = @ + f, !.count = @ + f,
                                           !.minIndex = Lower(@, g), !.maxIndex = Higher(@, g), !.hasElements = TRUE]
        BY <3>2 DEF DenseAdd
      <4>2. DenseAdd(s, g, f) = [u EXCEPT !.bins = [u.bins EXCEPT ![g - u.offset + 1] = u.bins[g - u.offset + 1] + f],
                                           !.count = u.count + f, !.minIndex = Lower(u.minIndex, g),
                                           !.maxIndex = Higher(u.maxIndex, g), !.hasElements = TRUE]
        BY <4>1
      <4>3. (s.collapsed \/ col) = u.collapsed
        BY <3>2, <3>4, <3>9
      <4>4. t = [u EXCEPT !.bins = [u.bins EXCEPT ![g - u.offset + 1] = u.bins[g - u.offset + 1] + f],
                          !.count = u.count + f, !.minIndex = Lower(u.minIndex, g),
                          !.maxIndex = Higher(u.maxIndex, g), !.hasElements = TRUE, !.collapsed = u.collapsed]
        BY <3>4, <3>7, <3>9, <3>10, <4>3 DEF DenseWith
      <4> QED
        BY <3>9, <4>2, <4>4, ZenonT(60) DEF DenseStores
    <3>12. Retained(t, t)
      BY <3>1, <3>2, <3>8, <1>GrownOK, <1>KeptSame
    <3> QED
      BY <3>1, <3>2, <3>8, <3>11, <3>12, <1>GrownJoined
  <2>1. CASE st \in SparseStores
    BY <2>1, <2>SparseAddIs, StoreKinds DEF StoreAdd
  <2>2. CASE st \in DenseStores
    BY <2>2, <2>DenseAddIs, StoreKinds DEF StoreAdd
  <2> QED
    BY <2>1, <2>2 DEF StoreOK, Stores
<1>StoreMergeIs. ASSUME NEW st, StoreOK(st), NEW o, StoreOK(o), NEW n \in StoreMerge(st, o)
                 PROVE  Joined(n, st, BinsOf(o), o.count, o.minIndex, o.maxIndex, o.collapsed)
  <2> USE <1>StoreMergeIs
  <2>SparseMergeIs. ASSUME NEW s \in SparseStores, StoreOK(s), NEW g, StoreOK(g), NEW f \in SparseMerge(s, g)
                    PROVE  Joined(f, s, BinsOf(g), g.count, g.minIndex, g.maxIndex, g.collapsed)
    <3> USE <2>SparseMergeIs
    <3>1. Part(BinsOf(g), g.count, g.minIndex, g.maxIndex) /\ g.collapsed \in BOOLEAN /\ g.count \in Nat
      BY <1>StorePart, StoreKinds DEF StoreOK
    <3>2. PICK b, D, e, k : b = BinsOf(g) /\ k = g.count /\ D = Keys(b) /\ e = (s.count + k # 0)
      OBVIOUS
    <3>3. D = Indices(g) /\ D = DOMAIN GetNonEmptyBuckets(g) /\ \A j \in Span : b[j] = Get(g, j)
      BY <3>2, <1>IndicesAre DEF BinsOf, StoreOK, GetNonEmptyBuckets, Keys
    <3>4. /\ e = (s.hasElements \/ s.count + g.count > 0)
          /\ s.count \in Nat /\ s.hasElements \in BOOLEAN
      <4>1. s.count \in Nat /\ s.hasElements \in BOOLEAN
        BY StoreKinds DEF Stores
      <4>2. s.hasElements => s.count # 0
        BY DEF StoreOK
      <4>3. (s.count + g.count # 0) <=> (s.count # 0 \/ s.count + g.count > 0)
        BY <3>1, <4>1, SMT
      <4>4. (s.count # 0 => s.count + g.count > 0) /\ (s.count + g.count > 0 => s.count + g.count # 0)
        BY <3>1, <4>1, SMT
      <4> QED
        BY <3>2, <4>1, <4>2, <4>3, <4>4
    <3>5. PICK t : t = SparseWith(s, b, D, k, g.minIndex, g.maxIndex, e, g.collapsed)
      OBVIOUS
    <3>6. t \in SparseStores /\ Grown(t, s, b, k, g.minIndex, g.maxIndex, g.collapsed)
      BY <3>1, <3>2, <3>5, <1>SparseGrown
    <3>7. [j \in DOMAIN s.bins \cup D |-> Get(s, j) + b[j]]
            = [j \in DOMAIN s.bins \cup DOMAIN GetNonEmptyBuckets(g) |-> Get(s, j) + Get(g, j)]
      <4>1. DOMAIN s.bins \subseteq Span
        BY StoreKinds, SparseBinsIs
      <4>2. ASSUME NEW j \in DOMAIN s.bins \cup D PROVE b[j] = Get(g, j)
        BY <3>2, <3>3, <4>1 DEF Keys
      <4> QED
        BY <3>3, <4>2
    <3>8. t = [s EXCEPT !.bins = [j \in DOMAIN s.bins \cup DOMAIN GetNonEmptyBuckets(g) |-> Get(s, j) + Get(g, j)],
                         !.minIndex = LowerOf(@, DOMAIN GetNonEmptyBuckets(g)),
                         !.maxIndex = HigherOf(@, DOMAIN GetNonEmptyBuckets(g)),
                         !.count = @ + g.count, !.hasElements = @ \/ s.count + g.count > 0,
                         !.collapsed = @ \/ g.collapsed]
      <4>1. /\ LowerOf(s.minIndex, DOMAIN GetNonEmptyBuckets(g)) = Lower(s.minIndex, g.minIndex)
            /\ HigherOf(s.maxIndex, DOMAIN GetNonEmptyBuckets(g)) = Higher(s.maxIndex, g.maxIndex)
        BY <3>3, <1>EndsOfOther
      <4> QED
        BY <3>2, <3>4, <3>5, <3>7, <4>1 DEF SparseStores, SparseWith
    <3>9. f \in Collapsed(t, Cardinality(DOMAIN GetNonEmptyBuckets(g)) > MergeAbove)
      BY <3>8 DEF SparseMerge
    <3>10. StoreOK(t)
      BY <3>1, <3>2, <3>6, <1>GrownOK
    <3>11. Cardinality(DOMAIN GetNonEmptyBuckets(g)) > MergeAbove => t.count # 0
      <4> SUFFICES ASSUME t.count = 0 PROVE ~(Cardinality(DOMAIN GetNonEmptyBuckets(g)) > MergeAbove)
        OBVIOUS
      <4>1. g.count = 0
        <5>1. s.count + g.count = 0
          BY <3>2, <3>6 DEF Grown
        <5> QED
          BY <3>1, <3>4, <5>1, SMT
      <4>2. D = {}
        BY <3>1, <3>2, <4>1 DEF Part, Keys
      <4>3. Cardinality(D) = 0
        BY <4>2, <1>SpanFinite
      <4>4. ~(0 > MergeAbove)
        BY StoreAssumption, SMT
      <4> QED
        BY <3>3, <4>3, <4>4
    <3>12. Retained(f, t)
      BY <3>6, <3>9, <3>10, <3>11, <1>CollapsedIs
    <3> QED
      BY <3>1, <3>2, <3>6, <3>12, <1>GrownJoined
  <2>DenseMergeIs. ASSUME NEW st2 \in DenseStores, StoreOK(st2), NEW g, StoreOK(g)
                   PROVE  Joined(DenseMerge(st2, g), st2, BinsOf(g), g.count, g.minIndex, g.maxIndex, g.collapsed)
    <3> USE <2>DenseMergeIs
    \* The room for the buckets of another store.
    <3>RoomForOther. ASSUME NEW st1 \in DenseStores, NEW f, StoreOK(f), NEW u,
                            u = (IF Indices(f) = {} THEN st1
                                 ELSE ensureCapacity(ensureCapacity(st1, Min(Indices(f))), Max(Indices(f))))
                     PROVE  Room(u, st1) /\ \A j \in Indices(f) : Covers(u, j)
      <4> USE <3>RoomForOther
      <4>RoomTwice. ASSUME NEW s, NEW e, NEW v, Room(e, s), Room(v, e)
                    PROVE  Room(v, s)
        BY <4>RoomTwice DEF Room
      <4>BetweenPlaces. ASSUME NEW x \in Int, NEW j \in Int, NEW y \in Int, NEW p \in Int, NEW e \in Int, x <= j, j <= y,
                               x - p + 1 \in 1..e, y - p + 1 \in 1..e
                        PROVE  j - p + 1 \in 1..e
        BY <4>BetweenPlaces, SMT
      <4>1. Indices(f) \subseteq Span
        BY <1>IndicesAre DEF StoreOK
      <4>2. CASE Indices(f) = {}
        BY <4>2 DEF Room
      <4>3. CASE Indices(f) # {}
        <5>1. PICK x, y, v : x = Min(Indices(f)) /\ y = Max(Indices(f)) /\ v = ensureCapacity(st1, x)
          OBVIOUS
        <5>2. x \in Indices(f) /\ y \in Indices(f) /\ \A j \in Indices(f) : x <= j /\ j <= y
          BY <4>1, <4>3, <5>1, <1>MinMaxIs
        <5>3. x \in Int /\ y \in Int /\ \A j \in Indices(f) : j \in Int
          BY <4>1, <5>2, SpanInt
        <5>4. Room(v, st1) /\ Covers(v, x) /\ v \in DenseStores
          BY <5>1, <5>3, <1>EnsureIs, ZenonT(60) DEF Room
        <5>5. u = ensureCapacity(v, y)
          BY <4>3, <5>1
        <5>6. Room(u, v) /\ Covers(u, y)
          BY <5>3, <5>4, <5>5, <1>EnsureIs
        <5>7. Room(u, st1) /\ Covers(u, x) /\ u \in DenseStores
          BY <5>3, <5>4, <5>6, <4>RoomTwice DEF Room
        <5>8. ASSUME NEW j \in Indices(f) PROVE Covers(u, j)
          <6>1. u.offset \in Int /\ Len(u.bins) \in Int
            <7>1. u.offset \in Int /\ Len(u.bins) \in Nat
              BY <5>7, DenseFields
            <7> QED
              BY <7>1, SMT
          <6>2. x - u.offset + 1 \in 1..Len(u.bins) /\ y - u.offset + 1 \in 1..Len(u.bins)
            BY <5>6, <5>7 DEF Covers
          <6>3. j \in Int /\ x <= j /\ j <= y
            BY <5>2, <5>3
          <6>4. j - u.offset + 1 \in 1..Len(u.bins)
            BY <5>3, <6>1, <6>2, <6>3, <4>BetweenPlaces
          <6> QED
            BY <6>4 DEF Covers
        <5> QED
          BY <5>7, <5>8
      <4> QED
        BY <4>2, <4>3
    <3>HasElements. ASSUME NEW s, StoreOK(s), NEW m \in Nat
                    PROVE  (s.hasElements \/ s.count + m > 0) = (s.count + m # 0)
      <4> USE <3>HasElements
      <4>1. s.count \in Nat /\ s.hasElements \in BOOLEAN
        BY StoreKinds DEF StoreOK
      <4>2. s.hasElements => s.count # 0
        BY DEF StoreOK
      <4>3. (s.count # 0 => s.count + m > 0) /\ (s.count + m > 0 <=> s.count + m # 0)
        BY <4>1, SMT
      <4> QED
        BY <4>1, <4>2, <4>3
    <3>1. Part(BinsOf(g), g.count, g.minIndex, g.maxIndex) /\ g.collapsed \in BOOLEAN /\ g.count \in Nat
      BY <1>StorePart, StoreKinds DEF StoreOK
    <3>2. PICK b, e, m, u : /\ b = BinsOf(g) /\ m = g.count /\ e = (st2.count + m # 0)
                            /\ u = (IF Indices(g) = {} THEN st2
                                    ELSE ensureCapacity(ensureCapacity(st2, Min(Indices(g))), Max(Indices(g))))
      OBVIOUS
    <3>3. Room(u, st2) /\ \A j \in Indices(g) : Covers(u, j)
      BY <3>2, <3>RoomForOther
    <3>4. Keys(b) = Indices(g) /\ \A j \in Span : b[j] = Get(g, j)
      BY <3>2, <1>IndicesAre DEF BinsOf, StoreOK, Keys
    <3>5. PICK t : t = DenseWith(u, st2, b, m, g.minIndex, g.maxIndex, e, g.collapsed)
      OBVIOUS
    <3>6. Grown(t, st2, b, m, g.minIndex, g.maxIndex, g.collapsed)
      <4>1. \A j \in Keys(b) : Covers(u, j)
        BY <3>3, <3>4
      <4> QED
        BY <3>1, <3>2, <3>3, <3>5, <4>1, <1>DenseGrown
    <3>7. /\ u \in DenseStores /\ u.offset \in Int /\ Len(u.bins) \in Nat /\ u.bins \in [1..Len(u.bins) -> Nat]
          /\ u.count = st2.count /\ u.minIndex = st2.minIndex /\ u.maxIndex = st2.maxIndex
          /\ u.collapsed = st2.collapsed /\ u.hasElements = st2.hasElements
      BY <3>3, DenseFields DEF Room
    <3>8. [k \in 1..Len(u.bins) |-> u.bins[k] + At(b, u, k)]
            = [k \in DOMAIN u.bins |-> u.bins[k] + Get(g, k - 1 + u.offset)]
      <4>1. DOMAIN u.bins = 1..Len(u.bins)
        BY <3>7
      <4>2. ASSUME NEW k \in 1..Len(u.bins) PROVE At(b, u, k) = Get(g, k - 1 + u.offset)
        <5>1. PICK j \in Int : j = k - 1 + u.offset
          BY <3>7, SMT
        <5>2. At(b, u, k) = IF j \in Span THEN b[j] ELSE 0
          BY <5>1 DEF At
        <5>3. j \notin Span => Get(g, j) = 0
          BY DEF StoreOK
        <5> QED
          BY <3>4, <5>1, <5>2, <5>3
      <4> QED
        BY <4>1, <4>2
    <3>9. DenseMerge(st2, g) = t
      <4>1. DOMAIN GetNonEmptyBuckets(g) = Indices(g)
        BY DEF GetNonEmptyBuckets
      <4>2. DenseMerge(st2, g) = [u EXCEPT !.bins = [k \in DOMAIN u.bins |-> u.bins[k] + Get(g, k - 1 + u.offset)],
                                          !.minIndex = LowerOf(@, Indices(g)), !.maxIndex = HigherOf(@, Indices(g)),
                                          !.count = @ + g.count, !.hasElements = @ \/ st2.count + g.count > 0,
                                          !.collapsed = @ \/ g.collapsed]
        BY <3>2, <4>1, ZenonT(60) DEF DenseMerge
      <4>3. /\ LowerOf(u.minIndex, Indices(g)) = Lower(st2.minIndex, g.minIndex)
            /\ HigherOf(u.maxIndex, Indices(g)) = Higher(st2.maxIndex, g.maxIndex)
        BY <3>7, <1>EndsOfOther
      <4>4. (u.hasElements \/ st2.count + g.count > 0) = e
        BY <3>1, <3>2, <3>7, <3>HasElements
      <4>5. DenseMerge(st2, g) = [u EXCEPT !.bins = [k \in 1..Len(u.bins) |-> u.bins[k] + At(b, u, k)],
                                          !.minIndex = Lower(st2.minIndex, g.minIndex),
                                          !.maxIndex = Higher(st2.maxIndex, g.maxIndex),
                                          !.count = st2.count + m, !.hasElements = e,
                                          !.collapsed = (st2.collapsed \/ g.collapsed)]
        BY <3>2, <3>7, <3>8, <4>2, <4>3, <4>4
      <4> QED
        BY <3>5, <3>7, <4>5 DEF DenseWith, DenseStores
    <3>10. Retained(t, t)
      BY <3>1, <3>2, <3>6, <1>GrownOK, <1>KeptSame
    <3> QED
      BY <3>1, <3>2, <3>6, <3>9, <3>10, <1>GrownJoined
  <2>1. CASE st \in SparseStores
    BY <2>1, <2>SparseMergeIs, StoreKinds DEF StoreMerge
  <2>2. CASE st \in DenseStores
    BY <2>2, <2>DenseMergeIs, StoreKinds DEF StoreMerge
  <2> QED
    BY <2>1, <2>2 DEF StoreOK, Stores
<1> QED
  BY <1>StoreAddIs, <1>StoreMergeIs

-----------------------------------------------------------------------------
(* The sketch: empty stores                                                  *)

Empty(st) == StoreOK(st) /\ st.count = 0 /\ ~st.collapsed

LEMMA NewSparseEmpty == NewSparseStore \in SparseStores /\ Empty(NewSparseStore)
<1>1. PICK b, x, y : b = <<>> /\ x = Top /\ y = -Top
  OBVIOUS
<1>2. b \in SparseBins
  <2>1. DOMAIN b = {} /\ b = [i \in {} |-> b[i]]
    BY <1>1, SMT
  <2> QED
    BY <2>1, SparseBinsIs
<1>3. x \in Int /\ y \in Int /\ 0 \in Nat
  BY <1>1, StoreAssumption, SMT
<1>4. NewSparseStore = [kind |-> "sparse", bins |-> b, count |-> 0, minIndex |-> x, maxIndex |-> y,
                        hasElements |-> FALSE, collapsed |-> FALSE]
  BY <1>1 DEF NewSparseStore
<1>5. PICK st : st = NewSparseStore
  OBVIOUS
<1>6. /\ st \in SparseStores /\ st.kind = "sparse" /\ st.bins = b /\ st.count = 0 /\ st.minIndex = x /\ st.maxIndex = y
      /\ ~st.hasElements /\ ~st.collapsed
  BY <1>2, <1>3, <1>4, <1>5 DEF SparseStores
<1>7. \A i : Get(st, i) = 0
  <2>1. DOMAIN b = {}
    BY <1>1, SMT
  <2> QED
    BY <1>6, <2>1 DEF Get
<1> QED
  BY <1>1, <1>5, <1>6, <1>7 DEF Empty, StoreOK, Stores

LEMMA DenseEmpty ==
  ASSUME NEW st \in DenseStores, NEW n \in Nat, st.bins = [k \in 1..n |-> 0], st.count = 0,
         st.minIndex = Top, st.maxIndex = -Top, ~st.hasElements, ~st.collapsed
  PROVE  Empty(st)
<1>1. /\ st \in Stores /\ st.bins \in [1..Len(st.bins) -> Nat]
      /\ \A j : Get(st, j) = IF Covers(st, j) THEN st.bins[j - st.offset + 1] ELSE 0
  BY DenseFields
<1>2. \A k \in 1..Len(st.bins) : st.bins[k] = 0
  <2>1. 1..n = 1..Len(st.bins)
    BY <1>1
  <2> QED
    BY <2>1
<1>3. \A i : Get(st, i) = 0
  BY <1>1, <1>2 DEF Covers
<1> QED
  BY <1>1, <1>3 DEF Empty, StoreOK

LEMMA NewDenseEmpty == NewDenseStore \in DenseStores /\ Empty(NewDenseStore)
<1>1. PICK b, x, y : b = [k \in 1..InitialCapacity |-> 0] /\ x = Top /\ y = -Top
  OBVIOUS
<1>2. x \in Int /\ y \in Int /\ 0 \in Nat /\ 0 \in Int /\ InitialCapacity \in Nat
  BY <1>1, StoreAssumption, SMT
<1>3. b \in Seq(Nat)
  BY <1>1, <1>2, ArrayIs
<1>4. NewDenseStore = [kind |-> "dense", bins |-> b, offset |-> 0, count |-> 0, minIndex |-> x, maxIndex |-> y,
                       hasElements |-> FALSE, collapsed |-> FALSE]
  BY <1>1 DEF NewDenseStore
<1>5. PICK st : st = NewDenseStore
  OBVIOUS
<1>6. /\ st \in DenseStores /\ st.bins = b /\ st.count = 0 /\ st.minIndex = x /\ st.maxIndex = y
      /\ ~st.hasElements /\ ~st.collapsed
  BY <1>2, <1>3, <1>4, <1>5 DEF DenseStores
<1> QED
  BY <1>1, <1>2, <1>5, <1>6, DenseEmpty

LEMMA ClearEmpty ==
  ASSUME NEW st \in Stores
  PROVE  StoreClear(st).kind = st.kind /\ Empty(StoreClear(st)) /\ (st \in DenseStores => StoreClear(st) \in DenseStores)
<1>1. CASE st \in SparseStores
  <2>1. st.kind = "sparse" /\ NewSparseStore.kind = "sparse"
    BY <1>1, NewSparseEmpty, StoreKinds
  <2> QED
    BY <2>1, NewSparseEmpty, StoreKinds DEF StoreClear
<1>2. CASE st \in DenseStores
  <2>1. PICK n, b, x, y, f : /\ n = Len(st.bins) /\ b = [k \in DOMAIN st.bins |-> 0] /\ x = Top /\ y = -Top
                             /\ f = FALSE
    OBVIOUS
  <2>2. st.kind # "sparse" /\ n \in Nat /\ b = [k \in 1..n |-> 0]
    <3>1. st.kind # "sparse" /\ n \in Nat /\ st.bins \in [1..n -> Nat]
      BY <1>2, <2>1, DenseFields, StoreKinds
    <3> QED
      BY <2>1, <3>1
  <2>3. b \in Seq(Nat) /\ x \in Int /\ y \in Int /\ 0 \in Nat
    <3>1. x \in Int /\ y \in Int /\ 0 \in Nat
      BY <2>1, StoreAssumption, SMT
    <3> QED
      BY <2>2, <3>1, ArrayIs
  <2>4. StoreClear(st) = [st EXCEPT !.bins = b, !.count = 0, !.minIndex = x, !.maxIndex = y,
                                    !.hasElements = f, !.collapsed = f]
    BY <2>1, <2>2 DEF StoreClear
  <2>5. PICK t : t = StoreClear(st)
    OBVIOUS
  <2>6. /\ t \in DenseStores /\ t.bins = b /\ t.count = 0 /\ t.minIndex = x /\ t.maxIndex = y
        /\ ~t.hasElements /\ ~t.collapsed
    BY <1>2, <2>1, <2>3, <2>4, <2>5 DEF DenseStores
  <2>7. Empty(t)
    BY <2>1, <2>2, <2>6, DenseEmpty
  <2>8. t.kind = st.kind
    BY <1>2, <2>6, StoreKinds
  <2> QED
    BY <2>5, <2>6, <2>7, <2>8
<1> QED
  BY <1>1, <1>2 DEF Stores

-----------------------------------------------------------------------------
(* Powers                                                                    *)

LEMMA PowerIs ==
  ASSUME NEW b \in Nat
  PROVE  Power(b, 0) = 1 /\ \A n \in Nat : Power(b, n) \in Nat /\ Power(b, n + 1) = b * Power(b, n)
<1>1. PICK step : step = [q \in Nat \X Nat |-> b * q[2]]
  OBVIOUS
<1>2. step \in [Nat \X Nat -> Nat]
  <2>1. \A q \in Nat \X Nat : b * q[2] \in Nat
    BY SMT
  <2> QED
    BY <1>1, <2>1
<1>3. 1 \in Nat
  BY SMT
<1>4. PICK s \in [Nat -> Nat] : s[0] = 1 /\ \A n \in Nat : n # 0 => s[n] = step[<<n, s[n - 1]>>]
  <2>1. PICK V, base : V = Nat /\ base = 1
    OBVIOUS
  <2>2. base \in V /\ IsStep(step, V)
    BY <1>2, <1>3, <2>1 DEF IsStep
  <2>3. \E s \in [Nat -> V] : AllValues(s, base, step)
    BY <2>2, Recursion
  <2> QED
    BY <2>1, <2>3 DEF AllValues
<1>5. ASSUME NEW n \in Nat PROVE s[n] = IF n = 0 THEN 1 ELSE b * s[n - 1]
  <2>1. n # 0 => n - 1 \in Nat
    BY SMT
  <2>2. n # 0 => s[n - 1] \in Nat
    BY <2>1
  <2>3. n # 0 => step[<<n, s[n - 1]>>] = b * s[n - 1]
    BY <1>1, <2>2, SMT
  <2> QED
    BY <1>4, <2>3
<1>6. s = [n \in Nat |-> s[n]]
  OBVIOUS
<1>7. s = [n \in Nat |-> IF n = 0 THEN 1 ELSE b * s[n - 1]]
  BY <1>5, <1>6
<1>8. PICK p : p = CHOOSE t : t = [n \in Nat |-> IF n = 0 THEN 1 ELSE b * t[n - 1]]
  OBVIOUS
<1>9. p = [n \in Nat |-> IF n = 0 THEN 1 ELSE b * p[n - 1]]
  BY <1>7, <1>8
<1>10. \A n \in Nat : p[n] = IF n = 0 THEN 1 ELSE b * p[n - 1]
  BY <1>9
<1>11. \A n : Power(b, n) = p[n]
  BY <1>8 DEF Power
<1>12. \A n \in Nat : n + 1 \in Nat /\ n + 1 # 0 /\ (n + 1) - 1 = n /\ 0 \in Nat
  BY SMT
<1>13. p[0] = 1 /\ \A n \in Nat : p[n + 1] = b * p[n]
  BY <1>10, <1>12
<1> DEFINE S == {n \in Nat : p[n] \in Nat}
<1>14. 0 \in S
  BY <1>3, <1>12, <1>13
<1>15. ASSUME NEW n \in Nat, n \in S PROVE n + 1 \in S
  <2>1. p[n] \in Nat
    BY <1>15
  <2>2. b * p[n] \in Nat
    BY <2>1, SMT
  <2> QED
    BY <1>12, <1>13, <2>2
<1> HIDE DEF S
<1>16. Nat \subseteq S
  BY <1>14, <1>15, Induct
<1> QED
  BY <1>11, <1>13, <1>16 DEF S

\* How far the powers of 3 and of 2 are apart.
LEMMA PowersApart ==
  \A n \in Nat : /\ Power(2, n) \in Nat /\ Power(3, n) \in Nat
                 /\ 1 <= Power(2, n) /\ 1 <= Power(3, n)
                 /\ (2 + n) * Power(2, n) <= 2 * Power(3, n)
<1> DEFINE S == {n \in Nat : 1 <= Power(2, n) /\ 1 <= Power(3, n)
                               /\ (2 + n) * Power(2, n) <= 2 * Power(3, n)}
<1>0. 2 \in Nat /\ 3 \in Nat
  BY SMT
<1>1. /\ Power(2, 0) = 1 /\ \A n \in Nat : Power(2, n) \in Nat /\ Power(2, n + 1) = 2 * Power(2, n)
      /\ Power(3, 0) = 1 /\ \A n \in Nat : Power(3, n) \in Nat /\ Power(3, n + 1) = 3 * Power(3, n)
  BY <1>0, PowerIs
<1>2. 0 \in S
  BY <1>1, SMT
<1>3. ASSUME NEW n \in Nat, n \in S PROVE n + 1 \in S
  <2>1. PICK p \in Nat, q \in Nat : p = Power(2, n) /\ q = Power(3, n)
    BY <1>1
  <2>2. 1 <= p /\ 1 <= q /\ (2 + n) * p <= 2 * q
    BY <1>3, <2>1
  <2>3. 1 <= 2 * p /\ 1 <= 3 * q /\ (2 + (n + 1)) * (2 * p) <= 2 * (3 * q)
    <3>1. PICK r \in Nat : r = n * p
      BY SMT
    <3>2. (2 + n) * p = 2 * p + r /\ (2 + (n + 1)) * (2 * p) = 6 * p + 2 * r
      BY <3>1, SMT
    <3> QED
      BY <2>2, <3>2, SMT
  <2>4. n + 1 \in Nat
    BY SMT
  <2> QED
    BY <1>1, <2>1, <2>3, <2>4
<1> HIDE DEF S
<1>4. Nat \subseteq S
  BY <1>2, <1>3, Induct
<1> QED
  BY <1>1, <1>4 DEF S

-----------------------------------------------------------------------------
(* The sketch: the index of a value                                          *)

\* An end is half as far again as the end before.
LEMMA EndsApart ==
  ASSUME NEW i \in Int
  PROVE  /\ EndNum(i) \in Nat /\ EndDen(i) \in Nat /\ 1 <= EndNum(i) /\ 1 <= EndDen(i)
         /\ \/ EndNum(i + 1) = 3 * EndNum(i) /\ EndDen(i + 1) = 2 * EndDen(i)
            \/ EndNum(i) = 2 * EndNum(i + 1) /\ EndDen(i) = 3 * EndDen(i + 1)
\* A power is the one before times the base.
<1>PowersStep. \A n \in Nat : Power(2, n + 1) = 2 * Power(2, n) /\ Power(3, n + 1) = 3 * Power(3, n)
  <2>1. 2 \in Nat /\ 3 \in Nat
    BY SMT
  <2> QED
    BY <2>1, PowerIs
<1>1. CASE i >= 0
  <2>1. i \in Nat /\ i + 1 >= 0
    BY <1>1, SMT
  <2> QED
    BY <1>1, <2>1, PowersApart, <1>PowersStep DEF EndNum, EndDen
<1>2. CASE ~(i >= 0)
  <2>1. PICK n \in Nat : n = -(i + 1)
    BY <1>2, SMT
  <2>2. -i = n + 1 /\ n + 1 \in Nat /\ (i + 1 >= 0 => i + 1 = 0 /\ n = 0)
    BY <1>2, <2>1, SMT
  <2>3. EndNum(i) = Power(2, n + 1) /\ EndDen(i) = Power(3, n + 1)
    BY <1>2, <2>2 DEF EndNum, EndDen
  <2>4. EndNum(i + 1) = Power(2, n) /\ EndDen(i + 1) = Power(3, n)
    <3>1. CASE i + 1 >= 0
      <4>1. Power(2, 0) = 1 /\ Power(3, 0) = 1
        <5>1. 2 \in Nat /\ 3 \in Nat
          BY SMT
        <5> QED
          BY <5>1, PowerIs
      <4> QED
        BY <2>2, <3>1, <4>1 DEF EndNum, EndDen
    <3>2. CASE ~(i + 1 >= 0)
      BY <2>1, <3>2 DEF EndNum, EndDen
    <3> QED
      BY <3>1, <3>2
  <2> QED
    BY <2>2, <2>3, <2>4, PowersApart, <1>PowersStep
<1> QED
  BY <1>1, <1>2

LEMMA IndexIs ==
  ASSUME NEW v \in Bounds
  PROVE  /\ valueToIndex(v) \in LowIndex..HighIndex
         /\ EndsAbove(valueToIndex(v), v) /\ ~EndsAbove(valueToIndex(v) - 1, v)
\* All that the index of a value may be lies between LowIndex and HighIndex.
<1>EndsLow. ASSUME NEW f \in Bounds
            PROVE  ~EndsAbove(LowIndex, f)
  <2>1. Unit \in Nat /\ Unit >= 1 /\ f \in Nat /\ f >= 1
    BY SketchAssumption, SMT DEF Bounds
  <2>2. PICK n \in Nat : n = 2 * Unit
    BY <2>1, SMT
  <2>3. LowIndex = -n /\ -LowIndex = n /\ ~(LowIndex >= 0)
    BY <2>1, <2>2, SMT DEF LowIndex
  <2>4. EndNum(LowIndex) = Power(2, n) /\ EndDen(LowIndex) = Power(3, n)
    BY <2>3 DEF EndNum, EndDen
  <2>5. PICK p \in Nat, q \in Nat : p = Power(2, n) /\ q = Power(3, n)
    BY PowersApart
  <2>6. 1 <= p /\ 1 <= q /\ (2 + n) * p <= 2 * q
    BY <2>5, PowersApart
  <2>7. p * Unit < f * q
    <3>1. PICK a \in Nat : a = p * Unit
      BY <2>1, SMT
    <3>2. (2 + n) * p = 2 * p + 2 * a
      BY <2>1, <2>2, <3>1, SMT
    <3>3. a < q
      BY <2>6, <3>2, SMT
    <3>4. q <= f * q
      <4>1. PICK d \in Nat : f = 1 + d
        BY <2>1, SMT
      <4>2. PICK e \in Nat : e = d * q
        BY SMT
      <4>3. f * q = q + e
        BY <4>1, <4>2, SMT
      <4> QED
        BY <4>2, <4>3, SMT
    <3>5. f * q \in Nat
      BY <2>1, SMT
    <3> QED
      BY <3>1, <3>3, <3>4, <3>5, SMT
  <2>8. p * Unit \in Nat /\ f * q \in Nat
    BY <2>1, SMT
  <2>9. ~(p * Unit >= f * q)
    BY <2>7, <2>8, SMT
  <2> QED
    BY <2>4, <2>5, <2>9 DEF EndsAbove
<1>EndsHigh. ASSUME NEW e \in Bounds
             PROVE  EndsAbove(HighIndex, e)
  <2>1. Unit \in Nat /\ Unit >= 1 /\ e \in Nat /\ e <= MaxValue /\ MaxValue \in Nat
    BY SketchAssumption, SMT DEF Bounds
  <2>2. PICK k \in Nat : k = MaxValue \div Unit /\ MaxValue < (k + 1) * Unit
    <3>1. MaxValue \div Unit \in Nat /\ MaxValue < (MaxValue \div Unit + 1) * Unit
      BY <2>1, SMT
    <3> QED
      BY <3>1
  <2>3. PICK n \in Nat : n = 2 * (k + 1)
    BY SMT
  <2>4. HighIndex = n /\ HighIndex >= 0
    BY <2>2, <2>3, SMT DEF HighIndex
  <2>5. EndNum(HighIndex) = Power(3, n) /\ EndDen(HighIndex) = Power(2, n)
    BY <2>4 DEF EndNum, EndDen
  <2>6. PICK p \in Nat, q \in Nat : p = Power(2, n) /\ q = Power(3, n)
    BY PowersApart
  <2>7. 1 <= p /\ 1 <= q /\ (2 + n) * p <= 2 * q
    BY <2>6, PowersApart
  <2>8. (k + 2) * p <= q
    BY <2>3, <2>7, SMT
  <2>9. q * Unit >= e * p
    <3>1. PICK m \in Nat : m = (k + 1) * Unit
      BY <2>1, SMT
    <3>2. e <= m
      BY <2>1, <2>2, <3>1, SMT
    <3>3. e * p <= m * p
      BY <2>1, <3>2, SMT
    <3>4. PICK d \in Nat : q = (k + 2) * p + d
      <4>1. (k + 2) * p \in Nat
        BY SMT
      <4> QED
        BY <2>8, <4>1, SMT
    <3>5. PICK x \in Nat, y \in Nat : x = p * Unit /\ y = d * Unit
      BY <2>1, SMT
    <3>6. q * Unit = m * p + x + y
      BY <2>1, <3>1, <3>4, <3>5, SMT
    <3>7. e * p \in Nat /\ m * p \in Nat
      BY <2>1, SMT
    <3> QED
      BY <3>3, <3>5, <3>6, <3>7, SMT
  <2> QED
    BY <2>5, <2>6, <2>9 DEF EndsAbove
<1>1. \E i \in LowIndex..HighIndex : EndsAbove(i, v) /\ ~EndsAbove(i - 1, v)
  <2> SUFFICES ASSUME \A i \in LowIndex..HighIndex : EndsAbove(i, v) => EndsAbove(i - 1, v)
               PROVE  FALSE
    OBVIOUS
  <2> DEFINE S == {i \in Int : ~EndsAbove(i, v)}
  <2>1. PICK a \in Int, b \in Int : a - 1 = LowIndex /\ b = HighIndex /\ a - 1 <= b
    BY IndexRange, SMT
  <2>2. a - 1 \in S
    BY <2>1, <1>EndsLow, IndexRange
  <2>3. ASSUME NEW m \in a..b, m - 1 \in S PROVE m \in S
    <3>1. m \in LowIndex..HighIndex /\ m \in Int
      BY <2>1, IndexRange, SMT
    <3>2. ~EndsAbove(m - 1, v)
      BY <2>3
    <3> QED
      BY <3>1, <3>2
  <2> HIDE DEF S
  <2>4. b \in S
    BY <2>1, <2>2, <2>3, Upwards
  <2> QED
    BY <2>1, <2>4, <1>EndsHigh DEF S
<1> QED
  BY <1>1 DEF valueToIndex

LEMMA IndexMonotone ==
  ASSUME NEW v \in Bounds, NEW w \in Bounds, w <= v
  PROVE  valueToIndex(w) <= valueToIndex(v)
<1>EndsAboveLess. ASSUME NEW i \in Int, NEW e \in Nat, NEW f \in Nat, f <= e, EndsAbove(i, e)
                  PROVE  EndsAbove(i, f)
  <2> USE <1>EndsAboveLess
  <2>1. Unit \in Nat
    BY SketchAssumption, SMT
  <2>2. PICK p \in Nat, q \in Nat : p = EndNum(i) /\ q = EndDen(i)
    BY EndsApart
  <2>3. p * Unit >= e * q
    BY <2>2 DEF EndsAbove
  <2>4. p * Unit >= f * q
    <3>1. PICK d \in Nat : e = f + d
      BY SMT
    <3>2. PICK x \in Nat, y \in Nat : x = f * q /\ y = d * q
      BY SMT
    <3>3. e * q = x + y
      BY <3>1, <3>2, SMT
    <3>4. p * Unit \in Nat
      BY <2>1, SMT
    <3> QED
      BY <2>3, <3>2, <3>3, <3>4, SMT
  <2> QED
    BY <2>2, <2>4 DEF EndsAbove
\* A bucket ends at v or above from the index of v on.
<1>IndexLeast. ASSUME NEW g \in Bounds, NEW i \in Int
               PROVE  EndsAbove(i, g) <=> valueToIndex(g) <= i
  <2>EndsAboveNext. ASSUME NEW e \in Int, NEW f \in Nat, EndsAbove(e, f)
                    PROVE  EndsAbove(e + 1, f)
    <3> USE <2>EndsAboveNext
    <3>1. e + 1 \in Int /\ Unit \in Nat
      BY SketchAssumption, SMT
    <3>2. PICK p \in Nat, q \in Nat, r \in Nat, s \in Nat :
            p = EndNum(e) /\ q = EndDen(e) /\ r = EndNum(e + 1) /\ s = EndDen(e + 1)
      BY <3>1, EndsApart
    <3>3. (r = 3 * p /\ s = 2 * q) \/ (p = 2 * r /\ q = 3 * s)
      BY <3>2, EndsApart
    <3>4. p * Unit >= f * q
      BY <3>2 DEF EndsAbove
    <3>5. r * Unit >= f * s
      <4>1. PICK a \in Nat, b \in Nat : a = p * Unit /\ b = f * q
        BY <3>1, SMT
      <4>2. CASE r = 3 * p /\ s = 2 * q
        <5>1. r * Unit = 3 * a /\ f * s = 2 * b
          BY <3>1, <4>1, <4>2, SMT
        <5> QED
          BY <3>4, <4>1, <5>1, SMT
      <4>3. CASE p = 2 * r /\ q = 3 * s
        <5>1. PICK c \in Nat, d \in Nat : c = r * Unit /\ d = f * s
          BY <3>1, SMT
        <5>2. a = 2 * c /\ b = 3 * d
          BY <3>1, <4>1, <4>3, <5>1, SMT
        <5> QED
          BY <3>4, <4>1, <5>1, <5>2, SMT
      <4> QED
        BY <3>3, <4>2, <4>3
    <3> QED
      BY <3>2, <3>5 DEF EndsAbove
  <2>1. PICK x \in Int : x = valueToIndex(g) /\ EndsAbove(x, g) /\ ~EndsAbove(x - 1, g)
    <3>1. \A y \in LowIndex..HighIndex : y \in Int
      BY SMT
    <3> QED
      BY <3>1, IndexIs
  <2>0. g \in Nat
    BY SketchAssumption, SMT DEF Bounds
  <2>2. ASSUME NEW y \in Int, NEW z \in Int, y <= z, EndsAbove(y, g) PROVE EndsAbove(z, g)
    <3> DEFINE S == {m \in Int : EndsAbove(m, g)}
    <3>1. PICK a \in Int : a - 1 = y
      BY SMT
    <3>2. a - 1 \in S /\ a - 1 <= z
      BY <2>2, <3>1
    <3>3. ASSUME NEW m \in a..z, m - 1 \in S PROVE m \in S
      <4>1. m - 1 \in Int /\ m \in Int /\ (m - 1) + 1 = m
        BY SMT
      <4>2. EndsAbove(m - 1, g)
        BY <3>3
      <4>3. EndsAbove((m - 1) + 1, g)
        BY <2>0, <4>1, <4>2, <2>EndsAboveNext
      <4> QED
        BY <4>1, <4>3
    <3> HIDE DEF S
    <3>4. z \in S
      BY <3>2, <3>3, Upwards
    <3> QED
      BY <3>4 DEF S
  <2>3. CASE x <= i
    BY <2>1, <2>2, <2>3
  <2>4. CASE ~(x <= i)
    <3>1. i <= x - 1 /\ x - 1 \in Int
      BY <2>4, SMT
    <3> QED
      BY <2>1, <2>2, <2>4, <3>1
  <2> QED
    BY <2>3, <2>4
<1>1. valueToIndex(v) \in Int /\ EndsAbove(valueToIndex(v), v)
  <2>1. \A y \in LowIndex..HighIndex : y \in Int
    BY SMT
  <2> QED
    BY <2>1, IndexIs
<1>2. v \in Nat /\ w \in Nat
  BY SketchAssumption, SMT DEF Bounds
<1>3. EndsAbove(valueToIndex(v), w)
  BY <1>1, <1>2, <1>EndsAboveLess
<1> QED
  BY <1>1, <1>3, <1>IndexLeast

-----------------------------------------------------------------------------
(* The sketch: the values added and their buckets                            *)

\* The values added that have bucket i, and those that have bucket i or one below.
In(A, i) == [v \in Bounds |-> IF valueToIndex(v) = i THEN A[v] ELSE 0]
UpTo(A, i) == [v \in Bounds |-> IF valueToIndex(v) <= i THEN A[v] ELSE 0]

\* The buckets of the values added.
Binned(A) == [i \in Span |-> Total(In(A, i), MinValue, MaxValue)]

\* Values added to others, one value added c times.
Both(A, B) == [v \in Bounds |-> A[v] + B[v]]
Only(x, c) == [v \in Bounds |-> IF v = x THEN c ELSE 0]

LEMMA BoundsInt ==
  /\ MinValue \in Int /\ MaxValue \in Int /\ MinValue <= MaxValue /\ Bounds = MinValue..MaxValue
  /\ \A v \in Bounds : v \in Int /\ v \in Nat /\ MinValue <= v /\ v <= MaxValue /\ -Inf < v /\ v < Inf
<1>1. MinValue \in Int /\ MaxValue \in Int /\ MinValue <= MaxValue /\ 0 < MinValue /\ MaxValue < Top /\ Top \in Int
  BY SketchAssumption, StoreAssumption, SMT
<1> QED
  BY <1>1, SMT DEF Bounds, Inf

LEMMA IndexInt ==
  ASSUME NEW v \in Bounds
  PROVE  valueToIndex(v) \in Span /\ valueToIndex(v) \in Int
BY IndexIs, SpanInt DEF Span

LEMMA TotalZero ==
  ASSUME NEW f, NEW a \in Int, NEW b \in Int, a - 1 <= b, \A i \in a..b : f[i] = 0
  PROVE  Total(f, a, b) = 0
<1>1. Total(f, a, b) = 0 * (b - a + 1)
  <2>1. 0 \in Int
    BY SMT
  <2> QED
    BY <2>1, TotalConstant, SMT
<1> QED
  BY <1>1, SMT

LEMMA TotalNat ==
  ASSUME NEW f, NEW a \in Int, NEW b \in Int, a - 1 <= b, \A i \in a..b : f[i] \in Nat
  PROVE  Total(f, a, b) \in Nat
<1>1. PICK z : z = [i \in a..b |-> 0]
  OBVIOUS
<1>2. \A i \in a..b : z[i] = 0
  BY <1>1
<1>3. Total(z, a, b) = 0
  BY <1>2, TotalZero
<1>4. \A i \in a..b : f[i] \in Nat
  OBVIOUS
<1>5. \A i \in a..b : z[i] \in Int /\ f[i] \in Int /\ z[i] <= f[i]
  BY <1>2, <1>4, SMT
<1>6. Total(z, a, b) <= Total(f, a, b)
  BY <1>5, TotalAtMost
<1>7. Total(f, a, b) \in Int
  BY <1>5, TotalType
<1> QED
  BY <1>3, <1>6, <1>7, SMT

LEMMA InType ==
  ASSUME NEW A \in [Bounds -> Nat], NEW i
  PROVE  In(A, i) \in [Bounds -> Nat] /\ UpTo(A, i) \in [Bounds -> Nat]
<1>1. 0 \in Nat
  BY SMT
<1> QED
  BY <1>1 DEF In, UpTo

LEMMA BoundsTotal ==
  ASSUME NEW A \in [Bounds -> Nat]
  PROVE  Total(A, MinValue, MaxValue) \in Nat
<1>1. MinValue - 1 <= MaxValue
  BY BoundsInt, SMT
<1>2. \A v \in MinValue..MaxValue : A[v] \in Nat
  BY BoundsInt
<1> QED
  BY <1>1, <1>2, BoundsInt, TotalNat

LEMMA BothTotal ==
  ASSUME NEW A \in [Bounds -> Nat], NEW B \in [Bounds -> Nat]
  PROVE  /\ Both(A, B) \in [Bounds -> Nat]
         /\ Total(Both(A, B), MinValue, MaxValue) = Total(A, MinValue, MaxValue) + Total(B, MinValue, MaxValue)
<1>1. PICK h : h = Both(A, B)
  OBVIOUS
<1>2. \A v \in Bounds : h[v] = A[v] + B[v] /\ A[v] \in Nat /\ B[v] \in Nat
  BY <1>1 DEF Both
<1>3. \A v \in Bounds : A[v] + B[v] \in Nat
  BY <1>2, SMT
<1>4. \A v \in MinValue..MaxValue : A[v] \in Int /\ B[v] \in Int /\ h[v] = A[v] + B[v]
  <2>1. \A n \in Nat : n \in Int
    BY SMT
  <2> QED
    BY <1>2, <2>1, BoundsInt
<1>5. Total(h, MinValue, MaxValue) = Total(A, MinValue, MaxValue) + Total(B, MinValue, MaxValue)
  BY <1>4, BoundsInt, TotalOfSum, SMT
<1> QED
  BY <1>1, <1>3, <1>5 DEF Both

LEMMA OnlyTotal ==
  ASSUME NEW x \in Bounds, NEW c \in Nat
  PROVE  Only(x, c) \in [Bounds -> Nat] /\ Total(Only(x, c), MinValue, MaxValue) = c
<1>1. 0 \in Nat /\ c \in Int
  BY SMT
<1>2. PICK f : f = Only(x, c)
  OBVIOUS
<1>3. x \in MinValue..MaxValue /\ f[x] = c /\ \A v \in MinValue..MaxValue : v # x => f[v] = 0
  BY <1>2, BoundsInt DEF Only
<1>4. Total(f, MinValue, MaxValue) = c
  BY <1>1, <1>3, BoundsInt, TotalPoint
<1> QED
  BY <1>1, <1>2, <1>4 DEF Only

-----------------------------------------------------------------------------
(* The sketch: its invariant                                                 *)

\* The buckets b, their count, the indices from lo to hi and the values x to y
\* show the values A, but for what was collapsed.
Shows(b, k, lo, hi, col, x, y, A) ==
  /\ A \in [Bounds -> Nat] /\ k = Total(A, MinValue, MaxValue) /\ Sum(b) <= k
  /\ IF k = 0 THEN lo = Top /\ hi = -Top /\ x = Inf /\ y = -Inf
     ELSE x \in Bounds /\ lo = valueToIndex(x) /\ y \in Bounds /\ hi = valueToIndex(y)
  /\ col \/ b = Binned(A)

Holds(st, x, y, A) ==
  StoreOK(st) /\ Shows(BinsOf(st), st.count, st.minIndex, st.maxIndex, st.collapsed, x, y, A)

DDSketches ==
  [useSparseStore : BOOLEAN, store : Stores, spare : DenseStores, min : Int, max : Int, sum : Nat, count : Nat]

SketchOK(d, A) ==
  /\ d \in DDSketches /\ d.useSparseStore = (d.store.kind = "sparse") /\ d.count = d.store.count
  /\ Holds(d.store, d.min, d.max, A)

\* Every sketch shows what was added to it.
SketchInv ==
  /\ DOMAIN sketch = Sketches /\ DOMAIN added = Sketches
  /\ \A s \in Sketches : SketchOK(sketch[s], added[s])

LEMMA SketchFields ==
  ASSUME NEW d \in DDSketches
  PROVE  /\ d.useSparseStore \in BOOLEAN /\ d.store \in Stores /\ d.spare \in DenseStores /\ d.min \in Int
         /\ d.max \in Int /\ d.sum \in Nat /\ d.count \in Nat
         /\ d = [useSparseStore |-> d.useSparseStore, store |-> d.store, spare |-> d.spare, min |-> d.min,
                 max |-> d.max, sum |-> d.sum, count |-> d.count]
BY DEF DDSketches

-----------------------------------------------------------------------------
(* The sketch: its quantiles                                                 *)

\* The values up to which there are r values or more, and the buckets.
Ranked(A, r) == {v \in Bounds : Total(A, MinValue, v) >= r}
Hit(st, r) == {i \in st.minIndex..st.maxIndex : CountUpTo(st, i) >= r}

RankOf(d, A, r) ==
  /\ SketchOK(d, A) /\ ~d.store.collapsed /\ d.count # 0
  /\ r \in Nat /\ r # 0 /\ r <= d.count

LEMMA SketchAccurate ==
  ASSUME SketchInv, NEW s \in Sketches, ~sketch[s].store.collapsed
  PROVE  Accurate(s)
\* The end of the bucket of a value is within gamma of the value.
<1>IndexWithin. ASSUME NEW v \in Bounds
                PROVE  WithinGamma(valueToIndex(v), v)
  <2>1. PICK i \in Int : i = valueToIndex(v) /\ EndsAbove(i, v) /\ ~EndsAbove(i - 1, v)
    <3>1. \A y \in LowIndex..HighIndex : y \in Int
      BY SMT
    <3> QED
      BY <3>1, IndexIs
  <2>2. Unit \in Nat /\ v \in Nat
    BY SketchAssumption, SMT DEF Bounds
  <2>3. PICK k \in Int : k = i - 1 /\ i = k + 1
    BY SMT
  <2>4. PICK p \in Nat, q \in Nat, r \in Nat, e \in Nat :
          p = EndNum(k) /\ q = EndDen(k) /\ r = EndNum(i) /\ e = EndDen(i)
    BY EndsApart
  <2>5. (r = 3 * p /\ e = 2 * q) \/ (p = 2 * r /\ q = 3 * e)
    BY <2>3, <2>4, EndsApart
  <2>6. ~(p * Unit >= v * q)
    BY <2>1, <2>3, <2>4 DEF EndsAbove
  <2>7. 2 * (r * Unit) <= 3 * (v * e)
    <3>1. PICK a \in Nat, b \in Nat, c \in Nat, d \in Nat : a = p * Unit /\ b = v * q /\ c = r * Unit /\ d = v * e
      BY <2>2, SMT
    <3>2. a < b
      BY <2>6, <3>1, SMT
    <3>3. CASE r = 3 * p /\ e = 2 * q
      <4>1. c = 3 * a /\ d = 2 * b
        BY <2>2, <3>1, <3>3, SMT
      <4> QED
        BY <3>1, <3>2, <4>1, SMT
    <3>4. CASE p = 2 * r /\ q = 3 * e
      <4>1. a = 2 * c /\ b = 3 * d
        BY <2>2, <3>1, <3>4, SMT
      <4> QED
        BY <3>1, <3>2, <4>1, SMT
    <3> QED
      BY <2>5, <3>3, <3>4
  <2> QED
    BY <2>1, <2>4, <2>7 DEF WithinGamma, EndsWithin
\* The bucket found for a rank is that of the value with the rank.
<1>RankFound. ASSUME NEW d, NEW A, NEW r, RankOf(d, A, r)
              PROVE  /\ Min(Ranked(A, r)) \in Bounds
                     /\ Hit(d.store, r) # {} /\ Min(Hit(d.store, r)) = valueToIndex(Min(Ranked(A, r)))
  <2> USE <1>RankFound
  \* Sums of functions that agree, and of functions one of which is the larger.
  <2>TotalSame. ASSUME NEW f, NEW g, NEW a \in Int, NEW b \in Int, \A i \in a..b : f[i] = g[i]
                PROVE  Total(f, a, b) = Total(g, a, b)
    <3> USE <2>TotalSame
    <3>1. \A m \in Int : m < a => Total(f, a, m) = 0 /\ Total(g, a, m) = 0
      BY TotalNone
    <3>2. CASE b < a
      BY <3>1, <3>2
    <3>3. CASE a <= b
      <4> DEFINE S == {m \in Int : Total(f, a, m) = Total(g, a, m)}
      <4>0. a - 1 \in Int /\ a - 1 < a /\ a - 1 <= b
        BY <3>3, SMT
      <4>1. a - 1 \in S
        BY <3>1, <4>0
      <4>2. ASSUME NEW m \in a..b, m - 1 \in S PROVE m \in S
        <5>1. m \in Int /\ a <= m /\ f[m] = g[m]
          BY SMT
        <5>2. Total(f, a, m) = Total(f, a, m - 1) + f[m] /\ Total(g, a, m) = Total(g, a, m - 1) + g[m]
          BY <5>1, TotalStep
        <5>3. Total(f, a, m - 1) = Total(g, a, m - 1)
          BY <4>2
        <5> QED
          BY <5>1, <5>2, <5>3
      <4> HIDE DEF S
      <4>3. b \in S
        BY <4>0, <4>1, <4>2, Upwards
      <4> QED
        BY <4>3 DEF S
    <3> QED
      BY <3>2, <3>3, SMT
  \* The counts of the buckets up to i are those of the values in them.
  <2>BinnedUpTo. ASSUME NEW T \in [Bounds -> Nat], NEW i \in Int, LowIndex - 1 <= i, i <= HighIndex
                 PROVE  Total(Binned(T), LowIndex, i) = Total(UpTo(T, i), MinValue, MaxValue)
    <3> USE <2>BinnedUpTo
    <3> DEFINE S == {m \in Int : Total(Binned(T), LowIndex, m) = Total(UpTo(T, m), MinValue, MaxValue)}
    <3>1. LowIndex - 1 \in S
      <4>1. PICK m : m = LowIndex - 1
        OBVIOUS
      <4>2. m \in Int /\ m < LowIndex /\ \A k \in Span : ~(k <= m)
        BY <4>1, IndexRange, SMT DEF Span
      <4>3. Total(Binned(T), LowIndex, m) = 0
        BY <4>2, TotalNone
      <4>4. \A v \in MinValue..MaxValue : UpTo(T, m)[v] = 0
        BY <4>2, BoundsInt, IndexInt DEF UpTo
      <4>5. MinValue - 1 <= MaxValue
        BY BoundsInt, SMT
      <4>6. Total(UpTo(T, m), MinValue, MaxValue) = 0
        BY <4>4, <4>5, BoundsInt, TotalZero
      <4> QED
        BY <4>1, <4>2, <4>3, <4>6
    <3>2. ASSUME NEW m \in LowIndex..i, m - 1 \in S PROVE m \in S
      <4>1. m \in Int /\ LowIndex <= m /\ m \in Span
        BY IndexRange, SMT DEF Span
      <4>2. Total(Binned(T), LowIndex, m) = Total(Binned(T), LowIndex, m - 1) + Binned(T)[m]
        BY <4>1, IndexRange, TotalStep
      <4>3. Binned(T)[m] = Total(In(T, m), MinValue, MaxValue)
        BY <4>1 DEF Binned
      <4>4. UpTo(T, m) = Both(UpTo(T, m - 1), In(T, m))
        <5>1. \A k \in Int : (k <= m <=> k <= m - 1 \/ k = m) /\ ~(k <= m - 1 /\ k = m)
          BY <4>1, SMT
        <5>2. \A a \in Nat : a + 0 = a /\ 0 + a = a
          BY SMT
        <5>3. 0 + 0 = 0
          BY SMT
        <5>4. ASSUME NEW v \in Bounds PROVE UpTo(T, m)[v] = UpTo(T, m - 1)[v] + In(T, m)[v]
          <6>1. PICK k \in Int : k = valueToIndex(v)
            BY IndexInt
          <6>2. T[v] \in Nat
            OBVIOUS
          <6>3. /\ UpTo(T, m)[v] = (IF k <= m THEN T[v] ELSE 0)
                /\ UpTo(T, m - 1)[v] = (IF k <= m - 1 THEN T[v] ELSE 0)
                /\ In(T, m)[v] = (IF k = m THEN T[v] ELSE 0)
            BY <6>1 DEF UpTo, In
          <6>4. CASE k = m
            <7>1. k <= m /\ ~(k <= m - 1)
              BY <5>1, <6>4
            <7> QED
              BY <5>2, <6>2, <6>3, <6>4, <7>1
          <6>5. CASE k # m /\ k <= m
            <7>1. k <= m - 1
              BY <5>1, <6>5
            <7> QED
              BY <5>2, <6>2, <6>3, <6>5, <7>1
          <6>6. CASE k # m /\ ~(k <= m)
            <7>1. ~(k <= m - 1)
              BY <5>1, <6>1, <6>6
            <7> QED
              BY <5>3, <6>3, <6>6, <7>1
          <6> QED
            BY <6>4, <6>5, <6>6
        <5> QED
          BY <5>4 DEF UpTo, Both
      <4>5. Total(UpTo(T, m), MinValue, MaxValue)
              = Total(UpTo(T, m - 1), MinValue, MaxValue) + Total(In(T, m), MinValue, MaxValue)
        <5>1. UpTo(T, m - 1) \in [Bounds -> Nat] /\ In(T, m) \in [Bounds -> Nat]
          BY InType
        <5> QED
          BY <4>4, <5>1, BothTotal
      <4>6. Total(Binned(T), LowIndex, m - 1) = Total(UpTo(T, m - 1), MinValue, MaxValue)
        BY <3>2
      <4> QED
        BY <4>1, <4>2, <4>3, <4>5, <4>6
    <3> HIDE DEF S
    <3>3. i \in S
      BY <3>1, <3>2, IndexRange, Upwards
    <3> QED
      BY <3>3 DEF S
  <2>CountUpToIs. ASSUME NEW st, StoreOK(st), st.count # 0, NEW T \in [Bounds -> Nat], BinsOf(st) = Binned(T),
                         NEW i \in st.minIndex..st.maxIndex
                  PROVE  CountUpTo(st, i) = Total(UpTo(T, i), MinValue, MaxValue)
    <3> USE <2>CountUpToIs
    <3>1. PICK a, z, b : a = st.minIndex /\ z = st.maxIndex /\ b = BinsOf(st) /\ Ends(b, a, z)
      BY DEF StoreOK
    <3>2. a \in Int /\ z \in Int /\ LowIndex <= a /\ z <= HighIndex
      BY <3>1, SpanInt DEF Ends
    <3>3. i \in Int /\ a <= i /\ i <= z
      BY <3>1, <3>2, SMT
    <3>4. LowIndex - 1 <= i /\ i <= HighIndex /\ LowIndex - 1 <= a - 1 /\ a - 1 <= i /\ a - 1 \in Int
      BY <3>2, <3>3, IndexRange, SMT
    <3>5. b \in [Span -> Nat]
      BY <3>1, BinsOfType DEF StoreOK
    <3>6. \A j \in LowIndex..i : j \in Span /\ b[j] \in Int
      <4>1. \A j \in LowIndex..i : j \in Span
        BY <3>4, IndexRange, SMT DEF Span
      <4>2. \A n \in Nat : n \in Int
        BY SMT
      <4> QED
        BY <3>5, <4>1, <4>2
    <3>7. Total(b, LowIndex, i) = Total(b, LowIndex, a - 1) + Total(b, a - 1 + 1, i)
      BY <3>3, <3>4, <3>6, IndexRange, TotalSplit, SMT
    <3>8. a - 1 + 1 = a
      BY <3>2, SMT
    <3>9. Total(b, LowIndex, a - 1) = 0
      <4>1. \A j \in LowIndex..(a - 1) : j \in LowIndex..i /\ ~(a <= j)
        BY <3>2, <3>3, <3>4, IndexRange, SMT
      <4>2. \A j \in LowIndex..(a - 1) : b[j] = 0
        BY <3>1, <3>6, <4>1 DEF Ends
      <4> QED
        BY <3>4, <4>2, IndexRange, TotalZero
    <3>10. CountUpTo(st, i) = Total(b, a, i)
      <4>1. PICK f : f = [j \in a..i |-> Get(st, j)]
        OBVIOUS
      <4>2. \A j \in a..i : j \in LowIndex..i
        BY <3>2, <3>3, IndexRange, SMT
      <4>3. \A j \in a..i : f[j] = b[j]
        BY <3>1, <3>6, <4>1, <4>2 DEF BinsOf
      <4>4. Total(f, a, i) = Total(b, a, i)
        BY <3>2, <3>3, <4>3, <2>TotalSame
      <4> QED
        BY <3>1, <4>1, <4>4 DEF CountUpTo
    <3>11. Total(b, a, i) \in Int
      <4>1. \A j \in a..i : j \in LowIndex..i
        BY <3>2, <3>3, IndexRange, SMT
      <4> QED
        BY <3>2, <3>3, <3>6, <4>1, TotalType
    <3>12. Total(b, LowIndex, i) = Total(b, a, i)
      BY <3>7, <3>8, <3>9, <3>11, SMT
    <3> QED
      BY <3>1, <3>3, <3>4, <3>10, <3>12, <2>BinnedUpTo
  <2>MinIs. ASSUME NEW S, S \subseteq Nat, S # {}
            PROVE  Min(S) \in S /\ \A y \in S : Min(S) <= y
    <3> USE <2>MinIs
    <3>1. \E k \in S : \A y \in S : k <= y
      BY Least
    <3> QED
      BY <3>1 DEF Min
  \* The values of the buckets up to i number r or more exactly when the r-th
  \* value x has a bucket up to i.
  <2>BucketOfNth. ASSUME NEW T \in [Bounds -> Nat], NEW e \in Nat, e # 0, NEW x \in Bounds, NEW i \in Int,
                         Total(T, MinValue, x) >= e,
                         \A v \in Bounds : Total(T, MinValue, v) >= e => x <= v
                  PROVE  Total(UpTo(T, i), MinValue, MaxValue) >= e <=> valueToIndex(x) <= i
    <3> USE <2>BucketOfNth
    <3>1. PICK f : f = UpTo(T, i)
      OBVIOUS
    <3>2. x \in Int /\ MinValue \in Int /\ MaxValue \in Int /\ MinValue <= x /\ x <= MaxValue
      BY BoundsInt
    <3>3. \A v \in MinValue..MaxValue : v \in Bounds /\ f[v] \in Nat /\ f[v] \in Int /\ T[v] \in Nat /\ T[v] \in Int
      <4>1. f \in [Bounds -> Nat]
        BY <3>1, InType
      <4>2. \A n \in Nat : n \in Int
        BY SMT
      <4> QED
        BY <4>1, <4>2, BoundsInt
    <3>4. \A v \in Bounds : f[v] = IF valueToIndex(v) <= i THEN T[v] ELSE 0
      BY <3>1 DEF UpTo
    <3>5. PICK y : y = valueToIndex(x) /\ y \in Int
      BY IndexInt
    <3>6. CASE y <= i
      <4>1. Total(f, MinValue, MaxValue) = Total(f, MinValue, x) + Total(f, x + 1, MaxValue)
        <5>1. MinValue - 1 <= x
          BY <3>2, SMT
        <5> QED
          BY <3>2, <3>3, <5>1, TotalSplit, SMT
      <4>2. Total(f, MinValue, x) = Total(T, MinValue, x)
        <5>1. \A v \in MinValue..x : v \in MinValue..MaxValue /\ v <= x
          BY <3>2, SMT
        <5>2. ASSUME NEW v \in MinValue..x PROVE f[v] = T[v]
          <6>1. v \in Bounds /\ valueToIndex(v) <= y
            BY <3>3, <3>5, <5>1, IndexMonotone
          <6>2. valueToIndex(v) \in Int
            BY <6>1, IndexInt
          <6>3. valueToIndex(v) <= i
            BY <3>5, <3>6, <6>1, <6>2, SMT
          <6> QED
            BY <3>4, <6>1, <6>3
        <5> QED
          BY <3>2, <5>2, <2>TotalSame
      <4>3. Total(f, x + 1, MaxValue) \in Nat
        <5>1. PICK u : u = x + 1 /\ u \in Int /\ u - 1 <= MaxValue /\ \A v \in u..MaxValue : v \in MinValue..MaxValue
          BY <3>2, SMT
        <5>2. \A v \in u..MaxValue : f[v] \in Nat
          BY <3>3, <5>1
        <5>3. Total(f, u, MaxValue) \in Nat
          BY <3>2, <5>1, <5>2, TotalNat
        <5> QED
          BY <5>1, <5>3
      <4>4. Total(T, MinValue, x) \in Int
        <5>1. \A v \in MinValue..x : v \in MinValue..MaxValue
          BY <3>2, SMT
        <5> QED
          BY <3>2, <3>3, <5>1, TotalType
      <4>5. Total(f, MinValue, MaxValue) >= e
        BY <4>1, <4>2, <4>3, <4>4, SMT
      <4> QED
        BY <3>1, <3>5, <3>6, <4>5
    <3>7. CASE ~(y <= i)
      <4>1. PICK u : u = x - 1 /\ u \in Int /\ MinValue - 1 <= u /\ u <= MaxValue /\ u + 1 = x
        BY <3>2, SMT
      <4>2. Total(f, MinValue, MaxValue) = Total(f, MinValue, u) + Total(f, x, MaxValue)
        <5>1. Total(f, MinValue, MaxValue) = Total(f, MinValue, u) + Total(f, u + 1, MaxValue)
          BY <3>2, <3>3, <4>1, TotalSplit, SMT
        <5> QED
          BY <4>1, <5>1
      <4>3. Total(f, x, MaxValue) = 0
        <5>1. \A v \in x..MaxValue : v \in MinValue..MaxValue /\ x <= v
          BY <3>2, SMT
        <5>2. ASSUME NEW v \in x..MaxValue PROVE f[v] = 0
          <6>1. v \in Bounds /\ y <= valueToIndex(v)
            BY <3>3, <3>5, <5>1, IndexMonotone
          <6>2. valueToIndex(v) \in Int
            BY <6>1, IndexInt
          <6>3. ~(valueToIndex(v) <= i)
            BY <3>5, <3>7, <6>1, <6>2, SMT
          <6> QED
            BY <3>4, <6>1, <6>3
        <5>3. x - 1 <= MaxValue
          BY <3>2, SMT
        <5> QED
          BY <3>2, <5>2, <5>3, TotalZero
      <4>4. \A v \in MinValue..u : v \in MinValue..MaxValue
        BY <3>2, <4>1, SMT
      <4>5. Total(f, MinValue, u) <= Total(T, MinValue, u) /\ Total(f, MinValue, u) \in Int /\ Total(T, MinValue, u) \in Int
        <5>1. \A v \in MinValue..MaxValue : f[v] <= T[v]
          <6>1. \A a \in Nat : a <= a /\ 0 <= a
            BY SMT
          <6> QED
            BY <3>3, <3>4, <6>1
        <5>2. \A v \in MinValue..u : f[v] \in Int /\ T[v] \in Int /\ f[v] <= T[v]
          BY <3>3, <4>4, <5>1
        <5> QED
          BY <3>2, <4>1, <5>2, TotalAtMost, TotalType
      <4>6. ~(Total(T, MinValue, u) >= e)
        <5>1. CASE u < MinValue
          <6>1. Total(T, MinValue, u) = 0
            BY <5>1, TotalNone
          <6> QED
            BY <6>1, SMT
        <5>2. CASE ~(u < MinValue)
          <6>1. u \in MinValue..MaxValue /\ ~(x <= u)
            BY <3>2, <4>1, <5>2, SMT
          <6> QED
            BY <3>3, <6>1
        <5> QED
          BY <5>1, <5>2
      <4>7. ~(Total(f, MinValue, MaxValue) >= e)
        BY <4>2, <4>3, <4>5, <4>6, SMT
      <4> QED
        BY <3>1, <3>5, <3>7, <4>7
    <3> QED
      BY <3>6, <3>7
  <2>1. PICK st, x, hit : st = d.store /\ x = Min(Ranked(A, r)) /\ hit = Hit(d.store, r)
    OBVIOUS
  <2>0. /\ SketchOK(d, A) /\ ~d.store.collapsed /\ d.count # 0
        /\ r \in Nat /\ r # 0 /\ r <= d.count
    BY DEF RankOf
  <2>2. /\ StoreOK(st) /\ st.count # 0 /\ A \in [Bounds -> Nat] /\ BinsOf(st) = Binned(A)
        /\ d.count = Total(A, MinValue, MaxValue) /\ d.count \in Nat
    BY <2>0, <2>1, BoundsTotal DEF SketchOK, Holds, Shows
  <2>3. PICK a, z : a = st.minIndex /\ z = st.maxIndex /\ Ends(Binned(A), a, z)
    BY <2>2 DEF StoreOK
  <2>4. a \in Int /\ z \in Int /\ LowIndex <= a /\ z <= HighIndex /\ a \in Span /\ z \in Span
    BY <2>3, SpanInt DEF Ends
  <2>5. /\ x \in Bounds /\ Total(A, MinValue, x) >= r
        /\ \A v \in Bounds : Total(A, MinValue, v) >= r => x <= v
    <3>1. PICK T : T = {v \in Bounds : Total(A, MinValue, v) >= r} /\ T = Ranked(A, r)
      BY DEF Ranked
    <3>2. T \subseteq Nat
      BY <3>1, BoundsInt
    <3>3. MaxValue \in T
      <4>1. MaxValue \in Bounds
        BY BoundsInt, SMT
      <4>2. Total(A, MinValue, MaxValue) >= r
        BY <2>0, <2>2, SMT
      <4> QED
        BY <3>1, <4>1, <4>2
    <3>4. x \in T /\ \A v \in T : x <= v
      BY <2>1, <3>1, <3>2, <3>3, <2>MinIs
    <3> QED
      BY <3>1, <3>4
  <2>6. PICK y : y = valueToIndex(x) /\ y \in Int /\ y \in Span
    BY <2>5, IndexInt
  <2>7. ASSUME NEW i \in Int PROVE Total(UpTo(A, i), MinValue, MaxValue) >= r <=> y <= i
    BY <2>0, <2>2, <2>5, <2>6, <2>BucketOfNth
  <2>8. y <= z
    <3>1. UpTo(A, z) = A
      <4>1. ASSUME NEW v \in Bounds, A[v] # 0 PROVE valueToIndex(v) <= z
        <5>1. PICK k : k = valueToIndex(v) /\ k \in Span
          BY IndexInt
        <5>2. Binned(A)[k] # 0
          <6>1. Total(In(A, k), MinValue, MaxValue) >= A[v]
            <7>1. \A w \in MinValue..MaxValue : Only(v, A[v])[w] \in Int /\ In(A, k)[w] \in Int /\ Only(v, A[v])[w] <= In(A, k)[w]
              <8>1. \A n \in Nat : n \in Int /\ 0 <= n /\ n <= n
                BY SMT
              <8>2. Only(v, A[v]) \in [Bounds -> Nat] /\ In(A, k) \in [Bounds -> Nat]
                BY <2>2, OnlyTotal, InType
              <8>3. In(A, k)[v] = A[v]
                BY <5>1 DEF In
              <8> QED
                BY <8>1, <8>2, <8>3, BoundsInt DEF Only
            <7>2. Total(Only(v, A[v]), MinValue, MaxValue) <= Total(In(A, k), MinValue, MaxValue)
              BY <7>1, BoundsInt, TotalAtMost
            <7>3. Total(Only(v, A[v]), MinValue, MaxValue) = A[v]
              BY <2>2, OnlyTotal
            <7>4. Total(In(A, k), MinValue, MaxValue) \in Nat /\ A[v] \in Nat
              BY <2>2, InType, BoundsTotal
            <7> QED
              BY <7>2, <7>3, <7>4, SMT
          <6>2. A[v] \in Nat /\ A[v] # 0
            BY <2>2, <4>1
          <6>3. ~(0 >= A[v])
            BY <6>2, SMT
          <6> QED
            BY <5>1, <6>1, <6>3 DEF Binned
        <5> QED
          BY <2>3, <5>1, <5>2 DEF Ends
      <4>2. \A v \in Bounds : UpTo(A, z)[v] = A[v]
        BY <4>1 DEF UpTo
      <4> QED
        BY <2>2, <4>2 DEF UpTo
    <3>2. Total(UpTo(A, z), MinValue, MaxValue) >= r
      BY <2>0, <2>2, <3>1, SMT
    <3> QED
      BY <2>4, <2>7, <3>2
  <2>9. a <= y
    <3>1. CASE ~(a <= y)
      <4>1. LowIndex - 1 <= y /\ y <= HighIndex /\ LowIndex <= y
        BY <2>6, IndexRange, SMT DEF Span
      <4>2. Total(Binned(A), LowIndex, y) = Total(UpTo(A, y), MinValue, MaxValue)
        BY <2>2, <2>6, <4>1, <2>BinnedUpTo
      <4>3. \A j \in LowIndex..y : j \in Span /\ ~(a <= j)
        BY <2>4, <2>6, <3>1, <4>1, IndexRange, SMT DEF Span
      <4>4. \A j \in LowIndex..y : Binned(A)[j] = 0
        BY <2>3, <4>3 DEF Ends
      <4>5. Total(Binned(A), LowIndex, y) = 0
        BY <2>6, <4>1, <4>4, IndexRange, TotalZero
      <4>6. y <= y /\ ~(0 >= r)
        BY <2>0, <2>6, SMT
      <4> QED
        BY <2>6, <2>7, <4>2, <4>5, <4>6
    <3> QED
      BY <3>1
  <2>10. \A i \in a..z : i \in Int /\ (CountUpTo(st, i) >= r <=> y <= i)
    <3>1. \A i \in a..z : i \in Int
      BY <2>4, SMT
    <3>2. \A i \in a..z : CountUpTo(st, i) = Total(UpTo(A, i), MinValue, MaxValue)
      BY <2>2, <2>3, <2>CountUpToIs
    <3> QED
      BY <2>7, <3>1, <3>2
  <2>11. hit = {i \in a..z : y <= i}
    BY <2>1, <2>3, <2>10 DEF Hit
  <2>12. y \in hit /\ \A i \in hit : i \in Int /\ y <= i
    <3>1. y \in a..z /\ y <= y
      BY <2>4, <2>6, <2>8, <2>9, SMT
    <3> QED
      BY <2>10, <2>11, <3>1
  <2>13. Min(hit) = y
    <3>1. PICK m : m = Min(hit)
      OBVIOUS
    <3>2. m \in hit /\ \A i \in hit : m <= i
      BY <2>12, <3>1 DEF Min
    <3>3. m \in Int /\ m <= y /\ y <= m
      BY <2>12, <3>2
    <3> QED
      BY <2>6, <3>1, <3>3, SMT
  <2> QED
    BY <2>1, <2>5, <2>6, <2>12, <2>13
<1>RankIn. ASSUME NEW n \in Nat, NEW c \in Nat, NEW e \in Nat, n # 0, c # 0, n < e
           PROVE  (n * c + e - 1) \div e \in Nat /\ (n * c + e - 1) \div e # 0 /\ (n * c + e - 1) \div e <= c
  <2> USE <1>RankIn
  <2>1. PICK q : q = (n * c + e - 1) \div e /\ q \in Int
    BY SMT
  <2>2. PICK p : p = n * c + e - 1 /\ p \in Int /\ e <= p
    <3>1. n * c >= 1
      BY SMT
    <3> QED
      BY <3>1, SMT
  <2>3. e * q <= p /\ p < e * q + e
    BY <2>1, <2>2, SMT
  <2>4. p <= e * c + e - 1
    <3>1. n * c <= e * c
      BY SMT
    <3> QED
      BY <2>2, <3>1, SMT
  <2>5. q >= 1
    BY <2>1, <2>2, <2>3, SMT
  <2>6. q <= c
    <3>1. CASE q >= c + 1
      <4>1. e * q >= e * (c + 1)
        BY <2>1, <3>1, SMT
      <4>2. e * (c + 1) = e * c + e
        BY SMT
      <4> QED
        BY <2>1, <2>2, <2>3, <2>4, <4>1, <4>2, SMT
    <3> QED
      BY <2>1, <3>1, SMT
  <2> QED
    BY <2>1, <2>5, <2>6, SMT
<1>1. PICK d, A : d = sketch[s] /\ A = added[s] /\ SketchOK(d, A)
  BY DEF SketchInv
<1>2. SUFFICES ASSUME d.count > 0, NEW n \in 1..(Den - 1)
               PROVE  WithinGamma(QuantileIndex(d, n, Den), Nth(s, (n * d.count + Den - 1) \div Den))
  BY <1>1 DEF Accurate
<1>3. d.count \in Nat /\ d.count # 0
  <2>1. d.count \in Nat
    BY <1>1, SketchFields DEF SketchOK
  <2> QED
    BY <1>2, <2>1, SMT
<1>4. PICK r : r = (n * d.count + Den - 1) \div Den
  OBVIOUS
<1>5. r \in Nat /\ r # 0 /\ r <= d.count
  <2>1. Den \in Nat /\ n \in Nat /\ n # 0 /\ n < Den
    BY SketchAssumption, SMT
  <2> QED
    BY <1>3, <1>4, <2>1, <1>RankIn
<1>6. PICK x, hit : x = Min(Ranked(A, r)) /\ hit = Hit(d.store, r)
  OBVIOUS
<1>7. x \in Bounds /\ hit # {} /\ Min(hit) = valueToIndex(x)
  <2>1. RankOf(d, A, r)
    BY <1>1, <1>3, <1>5 DEF RankOf
  <2> QED
    BY <1>6, <2>1, <1>RankFound
<1>8. QuantileIndex(d, n, Den) = valueToIndex(x)
  BY <1>4, <1>6, <1>7 DEF QuantileIndex, Hit
<1>9. Nth(s, r) = x
  BY <1>1, <1>6 DEF Nth, Rank, Ranked
<1> QED
  BY <1>4, <1>7, <1>8, <1>9, <1>IndexWithin

-----------------------------------------------------------------------------
(* The sketch: its changes                                                   *)

\* The end of no values is the other end.
LEMMA LowerNone ==
  ASSUME NEW v \in Int, -Top < v, v < Top
  PROVE  Lower(Top, v) = v /\ Lower(v, Top) = v /\ Higher(-Top, v) = v /\ Higher(v, -Top) = v
<1>1. Top \in Int
  BY StoreAssumption, SMT
<1> QED
  BY <1>1, SMT DEF Lower, Higher

LEMMA JoinedHolds ==
  ASSUME NEW st, NEW x, NEW y, NEW A, Holds(st, x, y, A),
         NEW b \in [Span -> Nat], NEW k, NEW lo, NEW hi, NEW col, NEW v, NEW w, NEW B, Shows(b, k, lo, hi, col, v, w, B),
         NEW n, Joined(n, st, b, k, lo, hi, col)
  PROVE  Holds(n, Lower(x, v), Higher(y, w), Both(A, B))
<1>BinnedBoth. ASSUME NEW T \in [Bounds -> Nat], NEW U \in [Bounds -> Nat]
               PROVE  Binned(Both(T, U)) = Plus(Binned(T), Binned(U))
  <2>1. ASSUME NEW i \in Span
        PROVE  Total(In(Both(T, U), i), MinValue, MaxValue)
                 = Total(In(T, i), MinValue, MaxValue) + Total(In(U, i), MinValue, MaxValue)
    <3>1. In(Both(T, U), i) = Both(In(T, i), In(U, i))
      <4>1. 0 + 0 = 0
        BY SMT
      <4>2. ASSUME NEW e \in Bounds PROVE In(Both(T, U), i)[e] = In(T, i)[e] + In(U, i)[e]
        BY <4>1 DEF In, Both
      <4> QED
        BY <4>2 DEF In, Both
    <3>2. In(T, i) \in [Bounds -> Nat] /\ In(U, i) \in [Bounds -> Nat]
      BY InType
    <3> QED
      BY <3>1, <3>2, BothTotal
  <2> QED
    BY <2>1 DEF Binned, Plus
<1>LowerIndex. ASSUME NEW e \in Bounds, NEW f \in Bounds
               PROVE  /\ Lower(e, f) \in Bounds /\ valueToIndex(Lower(e, f)) = Lower(valueToIndex(e), valueToIndex(f))
                      /\ Higher(e, f) \in Bounds /\ valueToIndex(Higher(e, f)) = Higher(valueToIndex(e), valueToIndex(f))
  <2>1. PICK i, j : i = valueToIndex(e) /\ j = valueToIndex(f) /\ i \in Int /\ j \in Int
    BY IndexInt
  <2>2. (e <= f => i <= j) /\ (f <= e => j <= i) /\ e \in Int /\ f \in Int
    BY <2>1, IndexMonotone, BoundsInt
  <2>3. /\ (e < f => Lower(i, j) = i) /\ (~(e < f) => Lower(i, j) = j)
        /\ (e > f => Higher(i, j) = i) /\ (~(e > f) => Higher(i, j) = j)
    BY <2>1, <2>2, SMT DEF Lower, Higher
  <2> QED
    BY <2>1, <2>3 DEF Lower, Higher
<1>1. /\ A \in [Bounds -> Nat] /\ B \in [Bounds -> Nat]
      /\ st.count = Total(A, MinValue, MaxValue) /\ k = Total(B, MinValue, MaxValue)
      /\ st.count \in Nat /\ k \in Nat /\ Sum(BinsOf(st)) <= st.count /\ Sum(b) <= k
  BY BoundsTotal DEF Holds, Shows
<1>2. Both(A, B) \in [Bounds -> Nat] /\ n.count = Total(Both(A, B), MinValue, MaxValue) /\ n.count = st.count + k
  BY <1>1, BothTotal DEF Joined
<1>3. Sum(BinsOf(n)) <= n.count
  <2>1. BinsOf(st) \in [Span -> Nat] /\ BinsOf(n) \in [Span -> Nat]
    BY BinsOfType DEF Joined, Holds, StoreOK
  <2>2. Sum(BinsOf(st)) \in Nat /\ Sum(b) \in Nat /\ Sum(BinsOf(n)) \in Nat
    BY <2>1, SumType
  <2>3. Sum(BinsOf(n)) <= Sum(BinsOf(st)) + Sum(b)
    BY DEF Joined
  <2> QED
    BY <1>1, <1>2, <2>2, <2>3, SMT
<1>4. n.collapsed \/ BinsOf(n) = Binned(Both(A, B))
  BY <1>1, <1>BinnedBoth DEF Joined, Holds, Shows
<1>5. IF n.count = 0 THEN n.minIndex = Top /\ n.maxIndex = -Top /\ Lower(x, v) = Inf /\ Higher(y, w) = -Inf
      ELSE /\ Lower(x, v) \in Bounds /\ n.minIndex = valueToIndex(Lower(x, v))
           /\ Higher(y, w) \in Bounds /\ n.maxIndex = valueToIndex(Higher(y, w))
  <2>1. n.minIndex = Lower(st.minIndex, lo) /\ n.maxIndex = Higher(st.maxIndex, hi)
    BY DEF Joined
  <2>2. n.count = 0 <=> st.count = 0 /\ k = 0
    BY <1>1, <1>2, SMT
  <2>3. /\ st.count = 0 => st.minIndex = Top /\ st.maxIndex = -Top /\ x = Top /\ y = -Top
        /\ st.count # 0 => x \in Bounds /\ st.minIndex = valueToIndex(x) /\ y \in Bounds /\ st.maxIndex = valueToIndex(y)
        /\ k = 0 => lo = Top /\ hi = -Top /\ v = Top /\ w = -Top
        /\ k # 0 => v \in Bounds /\ lo = valueToIndex(v) /\ w \in Bounds /\ hi = valueToIndex(w)
    BY DEF Holds, Shows, Inf
  <2>4. \A u \in Bounds : /\ u \in Int /\ -Top < u /\ u < Top
                          /\ valueToIndex(u) \in Int /\ -Top < valueToIndex(u) /\ valueToIndex(u) < Top
    BY BoundsInt, IndexInt, SpanInt DEF Inf
  <2>5. CASE st.count = 0 /\ k = 0
    <3>1. Lower(Top, Top) = Top /\ Higher(-Top, -Top) = -Top
      BY DEF Lower, Higher
    <3> QED
      BY <2>1, <2>2, <2>3, <2>5, <3>1 DEF Inf
  <2>6. CASE st.count = 0 /\ k # 0
    <3>1. Lower(x, v) = v /\ Higher(y, w) = w /\ n.minIndex = lo /\ n.maxIndex = hi
      BY <2>1, <2>3, <2>4, <2>6, LowerNone
    <3> QED
      BY <2>2, <2>3, <2>6, <3>1
  <2>7. CASE st.count # 0 /\ k = 0
    <3>1. Lower(x, v) = x /\ Higher(y, w) = y /\ n.minIndex = st.minIndex /\ n.maxIndex = st.maxIndex
      BY <2>1, <2>3, <2>4, <2>7, LowerNone
    <3> QED
      BY <2>2, <2>3, <2>7, <3>1
  <2>8. CASE st.count # 0 /\ k # 0
    <3>1. /\ x \in Bounds /\ v \in Bounds /\ y \in Bounds /\ w \in Bounds
          /\ n.minIndex = Lower(valueToIndex(x), valueToIndex(v))
          /\ n.maxIndex = Higher(valueToIndex(y), valueToIndex(w))
      BY <2>1, <2>3, <2>8
    <3>2. Lower(x, v) \in Bounds /\ valueToIndex(Lower(x, v)) = n.minIndex
      BY <3>1, <1>LowerIndex
    <3>3. Higher(y, w) \in Bounds /\ valueToIndex(Higher(y, w)) = n.maxIndex
      BY <3>1, <1>LowerIndex
    <3> QED
      BY <2>2, <2>8, <3>2, <3>3
  <2> QED
    BY <2>5, <2>6, <2>7, <2>8
<1>6. StoreOK(n)
  BY DEF Joined
<1> QED
  BY <1>2, <1>3, <1>4, <1>5, <1>6 DEF Holds, Shows

NoValues == [v \in Bounds |-> 0]

LEMMA EmptyHolds ==
  ASSUME NEW st, Empty(st)
  PROVE  Holds(st, Inf, -Inf, NoValues) /\ st.minIndex = Top /\ st.maxIndex = -Top
<1>BinnedNone. /\ [v \in Bounds |-> 0] \in [Bounds -> Nat]
               /\ Total([v \in Bounds |-> 0], MinValue, MaxValue) = 0
               /\ \A i \in Span : Binned([v \in Bounds |-> 0])[i] = 0
  <2>1. PICK z : z = [v \in Bounds |-> 0]
    OBVIOUS
  <2>2. 0 \in Nat /\ MinValue - 1 <= MaxValue
    BY BoundsInt, SMT
  <2>3. Total(z, MinValue, MaxValue) = 0
    <3>1. \A v \in MinValue..MaxValue : z[v] = 0
      BY <2>1, BoundsInt
    <3> QED
      BY <2>2, <3>1, BoundsInt, TotalZero
  <2>4. ASSUME NEW i \in Span PROVE Binned(z)[i] = 0
    <3>1. In(z, i) = z
      BY <2>1 DEF In
    <3> QED
      BY <2>3, <3>1 DEF Binned
  <2> QED
    BY <2>1, <2>2, <2>3, <2>4
<1>1. /\ StoreOK(st) /\ st.count = 0 /\ st.minIndex = Top /\ st.maxIndex = -Top
      /\ \A i \in Span : Get(st, i) = 0
  BY DEF Empty, StoreOK
<1>2. NoValues \in [Bounds -> Nat] /\ Total(NoValues, MinValue, MaxValue) = 0 /\ \A i \in Span : Binned(NoValues)[i] = 0
  BY <1>BinnedNone DEF NoValues
<1>3. BinsOf(st) = Binned(NoValues)
  <2>1. \A i \in Span : BinsOf(st)[i] = Binned(NoValues)[i]
    BY <1>1, <1>2 DEF BinsOf
  <2> QED
    BY <2>1 DEF BinsOf, Binned
<1>4. Sum(BinsOf(st)) = 0
  <2>1. \A i \in LowIndex..HighIndex : BinsOf(st)[i] = 0
    BY <1>1 DEF BinsOf, Span
  <2>2. LowIndex - 1 <= HighIndex
    BY IndexRange, SMT
  <2> QED
    BY <2>1, <2>2, IndexRange, TotalZero DEF Sum
<1>5. 0 <= 0
  BY SMT
<1> QED
  BY <1>1, <1>2, <1>3, <1>4, <1>5 DEF Holds, Shows

\* A store cleared and merged with st holds what st held.
Merged(n, e, st) == Joined(n, e, BinsOf(st), st.count, st.minIndex, st.maxIndex, st.collapsed)

\* The invariant of a sketch from that of its store.
SketchWith(d, u, n, p, x, y, m, k) ==
  [d EXCEPT !.useSparseStore = u, !.store = n, !.spare = p, !.min = x, !.max = y, !.sum = m, !.count = k]

LEMMA SketchOKIs ==
  ASSUME NEW d \in DDSketches, NEW n, NEW p \in DenseStores, NEW u \in BOOLEAN, NEW x \in Int, NEW y \in Int,
         NEW m \in Nat, NEW k \in Nat, NEW A, Holds(n, x, y, A), u = (n.kind = "sparse"), k = n.count
  PROVE  SketchOK(SketchWith(d, u, n, p, x, y, m, k), A)
<1>1. n \in Stores
  BY DEF Holds, StoreOK
<1>3. PICK e : e = SketchWith(d, u, n, p, x, y, m, k)
  OBVIOUS
<1>2. /\ e \in DDSketches /\ e.useSparseStore = u /\ e.store = n /\ e.spare = p /\ e.min = x /\ e.max = y
      /\ e.sum = m /\ e.count = k
  BY <1>1, <1>3 DEF DDSketches, SketchWith
<1> QED
  BY <1>2, <1>3 DEF SketchOK

LEMMA CheckedOK ==
  ASSUME NEW d, NEW A, SketchOK(d, A), NEW second, NEW e \in Checked(d, second)
  PROVE  SketchOK(e, A)
<1>SwitchedOK. ASSUME NEW g, NEW U, SketchOK(g, U), NEW h \in Switched(g)
               PROVE  SketchOK(h, U)
  <2> USE <1>SwitchedOK
  <2>MovedHolds. ASSUME NEW f, Empty(f), NEW st, NEW x \in Int, NEW y \in Int, NEW T, Holds(st, x, y, T), NEW n, Merged(n, f, st)
                 PROVE  Holds(n, x, y, T) /\ n.count = st.count
    <3> USE <2>MovedHolds
    <3>1. BinsOf(st) \in [Span -> Nat] /\ st.count \in Nat
      BY BinsOfType, StoreKinds DEF Holds, StoreOK
    <3>2. Holds(n, Lower(Inf, x), Higher(-Inf, y), Both(NoValues, T))
      BY <3>1, EmptyHolds, JoinedHolds DEF Holds, Merged
    <3>3. Lower(Inf, x) = x /\ Higher(-Inf, y) = y
      <4>1. CASE st.count = 0
        BY <4>1 DEF Holds, Shows, Lower, Higher
      <4>2. CASE st.count # 0
        <5>1. x \in Bounds /\ y \in Bounds
          BY <4>2 DEF Holds, Shows
        <5>2. -Top < x /\ x < Top /\ -Top < y /\ y < Top
          BY <5>1, BoundsInt DEF Inf
        <5> QED
          BY <5>2, LowerNone DEF Inf
      <4> QED
        BY <4>1, <4>2
    <3>4. Both(NoValues, T) = T
      <4>1. T \in [Bounds -> Nat]
        BY DEF Holds, Shows
      <4>2. \A k \in Nat : 0 + k = k
        BY SMT
      <4>3. \A v \in Bounds : Both(NoValues, T)[v] = T[v]
        BY <4>1, <4>2 DEF Both, NoValues
      <4> QED
        BY <4>1, <4>3 DEF Both
    <3>5. n.count = st.count
      <4>1. n.count = f.count + st.count /\ f.count = 0
        BY DEF Joined, Empty, Merged
      <4> QED
        BY <3>1, <4>1, SMT
    <3> QED
      BY <3>2, <3>3, <3>4, <3>5
  <2>1. /\ g \in DDSketches /\ g.useSparseStore = (g.store.kind = "sparse") /\ g.count = g.store.count
        /\ Holds(g.store, g.min, g.max, U)
    BY DEF SketchOK
  <2>2. /\ g.store \in Stores /\ StoreOK(g.store) /\ g.spare \in DenseStores /\ g.spare \in Stores
        /\ g.min \in Int /\ g.max \in Int /\ g.sum \in Nat /\ g.count \in Nat
    BY <2>1, SketchFields DEF Holds, Stores
  <2>3. CASE g.useSparseStore /\ DensityAbove(g.store, 1, 2)
    <3>1. PICK c, n, p, f : c = StoreClear(g.spare) /\ n = DenseMerge(c, g.store) /\ p = NewDenseStore /\ f = FALSE
      OBVIOUS
    <3>2. Empty(c) /\ c \in DenseStores
      BY <2>2, <3>1, ClearEmpty
    <3>3. Merged(n, c, g.store)
      BY <2>2, <3>1, <3>2, StoreOperations, StoreKinds DEF Empty, Merged, StoreMerge
    <3>4. Holds(n, g.min, g.max, U) /\ n.count = g.count
      <4>1. PICK x, y, st : x = g.min /\ y = g.max /\ st = g.store
        OBVIOUS
      <4>2. x \in Int /\ y \in Int /\ Holds(st, x, y, U) /\ Empty(c) /\ Merged(n, c, st)
        BY <2>1, <2>2, <3>2, <3>3, <4>1
      <4>3. Holds(n, x, y, U) /\ n.count = st.count
        BY <4>2, <2>MovedHolds
      <4> QED
        BY <2>1, <4>1, <4>3
    <3>5. f \in BOOLEAN /\ f = (n.kind = "sparse")
      BY <3>1, <3>2, <3>3, StoreKinds DEF Joined, Merged
    <3>6. h = [g EXCEPT !.store = n, !.spare = p, !.useSparseStore = f]
      BY <2>3, <3>1 DEF Switched
    <3>7. h = SketchWith(g, f, n, p, g.min, g.max, g.sum, g.count)
      BY <2>1, <3>6 DEF DDSketches, SketchWith
    <3>8. p \in DenseStores
      BY <3>1, NewDenseEmpty
    <3>9. SketchOK(SketchWith(g, f, n, p, g.min, g.max, g.sum, g.count), U)
      BY <2>1, <2>2, <3>4, <3>5, <3>8, SketchOKIs
    <3> QED
      BY <3>7, <3>9
  <2>4. CASE ~g.useSparseStore /\ DensityBelow(g.store, 1, 4)
    <3>1. PICK n, p, f : /\ n \in SparseMerge(NewSparseStore, g.store) /\ p = g.store /\ f = TRUE
                         /\ h = [g EXCEPT !.store = n, !.spare = p, !.useSparseStore = f]
      BY <2>4 DEF Switched
    <3>2. PICK c : c = NewSparseStore /\ c \in SparseStores /\ Empty(c) /\ c.kind = "sparse"
      BY NewSparseEmpty, StoreKinds
    <3>3. Merged(n, c, g.store)
      BY <2>2, <3>1, <3>2, StoreOperations DEF Empty, Merged, StoreMerge
    <3>4. Holds(n, g.min, g.max, U) /\ n.count = g.count
      <4>1. PICK x, y, st : x = g.min /\ y = g.max /\ st = g.store
        OBVIOUS
      <4>2. x \in Int /\ y \in Int /\ Holds(st, x, y, U) /\ Empty(c) /\ Merged(n, c, st)
        BY <2>1, <2>2, <3>2, <3>3, <4>1
      <4>3. Holds(n, x, y, U) /\ n.count = st.count
        BY <4>2, <2>MovedHolds
      <4> QED
        BY <2>1, <4>1, <4>3
    <3>5. f \in BOOLEAN /\ f = (n.kind = "sparse")
      BY <3>1, <3>2, <3>3 DEF Joined, Merged
    <3>6. p \in DenseStores
      BY <2>1, <2>2, <2>4, <3>1, StoreKinds DEF Stores
    <3>7. h = SketchWith(g, f, n, p, g.min, g.max, g.sum, g.count)
      BY <2>1, <3>1 DEF DDSketches, SketchWith
    <3>8. SketchOK(SketchWith(g, f, n, p, g.min, g.max, g.sum, g.count), U)
      BY <2>1, <2>2, <3>4, <3>5, <3>6, SketchOKIs
    <3> QED
      BY <3>7, <3>8
  <2>5. CASE ~(g.useSparseStore /\ DensityAbove(g.store, 1, 2)) /\ ~(~g.useSparseStore /\ DensityBelow(g.store, 1, 4))
    <3>1. h = g
      BY <2>5 DEF Switched
    <3> QED
      BY <3>1
  <2> QED
    BY <2>3, <2>4, <2>5
<1> QED
  BY <1>SwitchedOK DEF Checked

-----------------------------------------------------------------------------
(* The sketch: its steps                                                     *)

\* A sketch whose store was given counts.
LEMMA GivenOK ==
  ASSUME NEW d, NEW A, SketchOK(d, A),
         NEW b \in [Span -> Nat], NEW k \in Nat, NEW lo, NEW hi, NEW col, NEW v \in Int, NEW w \in Int, NEW B,
         Shows(b, k, lo, hi, col, v, w, B), NEW m \in Nat,
         NEW n, Joined(n, d.store, b, k, lo, hi, col)
  PROVE  SketchOK([d EXCEPT !.store = n, !.count = @ + k, !.sum = @ + m, !.min = Lower(@, v), !.max = Higher(@, w)],
                  Both(A, B))
<1>1. /\ d \in DDSketches /\ d.useSparseStore = (d.store.kind = "sparse") /\ d.count = d.store.count
      /\ Holds(d.store, d.min, d.max, A)
  BY DEF SketchOK
<1>2. /\ d.spare \in DenseStores /\ d.useSparseStore \in BOOLEAN
      /\ d.min \in Int /\ d.max \in Int /\ d.sum \in Nat /\ d.count \in Nat
  BY <1>1, SketchFields
<1>3. Holds(n, Lower(d.min, v), Higher(d.max, w), Both(A, B))
  BY <1>1, JoinedHolds
<1>4. n.kind = d.store.kind /\ n.count = d.store.count + k
  BY DEF Joined
<1>5. Lower(d.min, v) \in Int /\ Higher(d.max, w) \in Int
  BY <1>2 DEF Lower, Higher
<1>6. d.count + k \in Nat /\ d.sum + m \in Nat
  BY <1>2, SMT
<1>7. PICK e : e = [d EXCEPT !.store = n, !.count = @ + k, !.sum = @ + m, !.min = Lower(@, v), !.max = Higher(@, w)]
  OBVIOUS
<1>8. PICK x, y, a, r : x = Lower(d.min, v) /\ y = Higher(d.max, w) /\ a = d.sum + m /\ r = d.count + k
  OBVIOUS
<1>9. e = SketchWith(d, d.useSparseStore, n, d.spare, x, y, a, r)
  BY <1>1, <1>7, <1>8 DEF DDSketches, SketchWith
<1>10. SketchOK(SketchWith(d, d.useSparseStore, n, d.spare, x, y, a, r), Both(A, B))
  <2>1. Holds(n, x, y, Both(A, B)) /\ d.useSparseStore = (n.kind = "sparse") /\ r = n.count
    BY <1>1, <1>3, <1>4, <1>8
  <2>2. x \in Int /\ y \in Int /\ a \in Nat /\ r \in Nat
    BY <1>5, <1>6, <1>8
  <2> QED
    BY <1>1, <1>2, <2>1, <2>2, SketchOKIs
<1> QED
  BY <1>7, <1>9, <1>10

LEMMA AddOK ==
  ASSUME SketchInv, NEW s \in Sketches, NEW value \in Values, NEW c \in 0..MaxCount, NEW second,
         AddWithCount(s, value, c, second)
  PROVE  SketchInv'
<1>BoundedIs. ASSUME NEW v \in Nat
              PROVE  Bounded(v) \in Bounds
  <2>1. MinValue \in Int /\ MaxValue \in Int /\ MinValue <= MaxValue
    BY BoundsInt
  <2> QED
    BY <2>1, SMT DEF Bounded, Bounds
<1>PointShows. ASSUME NEW v \in Bounds, NEW g \in Nat, g # 0
               PROVE  Shows(Point(valueToIndex(v), g), g, valueToIndex(v), valueToIndex(v), FALSE, v, v, Only(v, g))
  <2> USE <1>PointShows
  <2>BinnedOnly. ASSUME NEW x \in Bounds, NEW e \in Nat
                 PROVE  Binned(Only(x, e)) = Point(valueToIndex(x), e)
    <3>1. ASSUME NEW i \in Span
          PROVE  Total(In(Only(x, e), i), MinValue, MaxValue) = IF i = valueToIndex(x) THEN e ELSE 0
      <4>1. CASE i = valueToIndex(x)
        <5>1. In(Only(x, e), i) = Only(x, e)
          <6>1. \A f \in Bounds : In(Only(x, e), i)[f] = Only(x, e)[f]
            BY <4>1 DEF In, Only
          <6> QED
            BY <6>1 DEF In, Only
        <5> QED
          BY <4>1, <5>1, OnlyTotal
      <4>2. CASE i # valueToIndex(x)
        <5>1. \A f \in MinValue..MaxValue : In(Only(x, e), i)[f] = 0
          BY <4>2, BoundsInt DEF In, Only
        <5>2. MinValue - 1 <= MaxValue
          BY BoundsInt, SMT
        <5>3. Total(In(Only(x, e), i), MinValue, MaxValue) = 0
          BY <5>1, <5>2, BoundsInt, TotalZero
        <5> QED
          BY <4>2, <5>3
      <4> QED
        BY <4>1, <4>2
    <3> QED
      BY <3>1 DEF Binned, Point
  <2>1. Sum(Point(valueToIndex(v), g)) = g /\ valueToIndex(v) \in Span
    BY IndexInt, SumPoint
  <2>2. g <= g
    BY SMT
  <2> QED
    BY <2>1, <2>2, OnlyTotal, <2>BinnedOnly DEF Shows
<1>1. PICK v, d, A : v = Bounded(value) /\ d = sketch[s] /\ A = added[s]
  OBVIOUS
<1>2. c \in Nat /\ c # 0 /\ value \in Nat
  BY SketchAssumption, SMT DEF AddWithCount
<1>3. v \in Bounds /\ v \in Int /\ v \in Nat
  BY <1>1, <1>2, <1>BoundedIs, BoundsInt
<1>4. v * c \in Nat
  BY <1>2, <1>3, SMT
<1>5. PICK n \in StoreAdd(d.store, valueToIndex(v), c) :
      \E e \in Checked([d EXCEPT !.store = n, !.count = @ + c, !.sum = @ + v * c,
                                 !.min = Lower(@, v), !.max = Higher(@, v)], second) :
        sketch' = [sketch EXCEPT ![s] = e]
  BY <1>1 DEF AddWithCount
<1>6. PICK f : f = [d EXCEPT !.store = n, !.count = @ + c, !.sum = @ + v * c, !.min = Lower(@, v), !.max = Higher(@, v)]
  OBVIOUS
<1>7. PICK e \in Checked(f, second) : sketch' = [sketch EXCEPT ![s] = e]
  BY <1>5, <1>6
<1>8. SketchOK(d, A) /\ StoreOK(d.store)
  BY <1>1 DEF SketchInv, SketchOK, Holds
<1>9. valueToIndex(v) \in Span /\ Point(valueToIndex(v), c) \in [Span -> Nat]
  BY <1>2, <1>3, IndexInt, SumPoint
<1>10. Joined(n, d.store, Point(valueToIndex(v), c), c, valueToIndex(v), valueToIndex(v), FALSE)
  BY <1>2, <1>5, <1>8, <1>9, StoreOperations
<1>11. SketchOK(f, Both(A, Only(v, c)))
  <2>1. Shows(Point(valueToIndex(v), c), c, valueToIndex(v), valueToIndex(v), FALSE, v, v, Only(v, c))
    BY <1>2, <1>3, <1>PointShows
  <2> QED
    BY <1>2, <1>3, <1>4, <1>6, <1>8, <1>9, <1>10, <2>1, GivenOK
<1>12. SketchOK(e, Both(A, Only(v, c)))
  BY <1>7, <1>11, CheckedOK
<1>13. added' = [added EXCEPT ![s] = Both(A, Only(v, c))]
  <2>1. A \in [Bounds -> Nat]
    BY <1>8 DEF SketchOK, Holds, Shows
  <2>2. [A EXCEPT ![v] = @ + c] = Both(A, Only(v, c))
    <3>1. \A k \in Nat : k + 0 = k
      BY SMT
    <3>2. \A w \in Bounds : [A EXCEPT ![v] = @ + c][w] = A[w] + Only(v, c)[w]
      BY <2>1, <3>1 DEF Only
    <3> QED
      BY <2>1, <3>2 DEF Both
  <2>3. added' = [added EXCEPT ![s] = [A EXCEPT ![v] = @ + c]]
    BY <1>1 DEF AddWithCount
  <2> QED
    BY <2>2, <2>3
<1> QED
  BY <1>7, <1>12, <1>13 DEF SketchInv

LEMMA MergeOK ==
  ASSUME SketchInv, NEW s \in Sketches, NEW o \in Sketches, NEW second, MergeSketch(s, o, second)
  PROVE  SketchInv'
<1>1. PICK d, g, A, B : d = sketch[s] /\ g = sketch[o] /\ A = added[s] /\ B = added[o]
  OBVIOUS
<1>2. PICK n \in StoreMerge(d.store, g.store) :
      \E e \in Checked([d EXCEPT !.store = n, !.count = @ + g.count, !.sum = @ + g.sum,
                                 !.min = Lower(@, g.min), !.max = Higher(@, g.max)], second) :
        sketch' = [sketch EXCEPT ![s] = e]
  BY <1>1 DEF MergeSketch
<1>3. PICK f : f = [d EXCEPT !.store = n, !.count = @ + g.count, !.sum = @ + g.sum,
                             !.min = Lower(@, g.min), !.max = Higher(@, g.max)]
  OBVIOUS
<1>4. PICK e \in Checked(f, second) : sketch' = [sketch EXCEPT ![s] = e]
  BY <1>2, <1>3
<1>5. SketchOK(d, A) /\ StoreOK(d.store) /\ SketchOK(g, B) /\ StoreOK(g.store)
  BY <1>1 DEF SketchInv, SketchOK, Holds
<1>6. Joined(n, d.store, BinsOf(g.store), g.store.count, g.store.minIndex, g.store.maxIndex, g.store.collapsed)
  BY <1>2, <1>5, StoreOperations
<1>7. SketchOK(f, Both(A, B))
  <2>1. /\ Shows(BinsOf(g.store), g.store.count, g.store.minIndex, g.store.maxIndex, g.store.collapsed, g.min, g.max, B)
        /\ g \in DDSketches /\ g.count = g.store.count /\ g.store \in Stores
    BY <1>5 DEF SketchOK, Holds, StoreOK
  <2>2. BinsOf(g.store) \in [Span -> Nat] /\ g.min \in Int /\ g.max \in Int /\ g.sum \in Nat /\ g.count \in Nat
    BY <2>1, BinsOfType, SketchFields
  <2> QED
    BY <1>3, <1>5, <1>6, <2>1, <2>2, GivenOK
<1>8. SketchOK(e, Both(A, B))
  BY <1>4, <1>7, CheckedOK
<1>9. added' = [added EXCEPT ![s] = Both(A, B)]
  BY <1>1 DEF MergeSketch, Both
<1> QED
  BY <1>4, <1>8, <1>9 DEF SketchInv

LEMMA CopyOK ==
  ASSUME SketchInv, NEW s \in Sketches, NEW o \in Sketches, Copy(s, o)
  PROVE  SketchInv'
<1>1. PICK d, e, A : d = sketch[s] /\ e = [d EXCEPT !.spare = NewDenseStore] /\ A = added[s]
  OBVIOUS
<1>2. sketch' = [sketch EXCEPT ![o] = e] /\ added' = [added EXCEPT ![o] = A]
  BY <1>1 DEF Copy
<1>3. SketchOK(d, A)
  BY <1>1 DEF SketchInv
<1>4. SketchOK(e, A)
  <2>1. d \in DDSketches /\ NewDenseStore \in DenseStores
    BY <1>3, NewDenseEmpty DEF SketchOK
  <2>2. /\ e \in DDSketches /\ e.useSparseStore = d.useSparseStore /\ e.store = d.store /\ e.min = d.min
        /\ e.max = d.max /\ e.count = d.count
    BY <1>1, <2>1 DEF DDSketches
  <2> QED
    BY <1>3, <2>2 DEF SketchOK
<1> QED
  BY <1>2, <1>4 DEF SketchInv

LEMMA ResetOK ==
  ASSUME SketchInv, NEW s \in Sketches, ResetSketch(s)
  PROVE  SketchInv'
<1>1. PICK d, n, p, x, y : /\ d = sketch[s] /\ n = StoreClear(d.store) /\ p = StoreClear(d.spare)
                           /\ x = Inf /\ y = -Inf
  OBVIOUS
<1>2. PICK e : /\ sketch' = [sketch EXCEPT ![s] = e]
               /\ e = [sketch[s] EXCEPT !.store = StoreClear(sketch[s].store), !.spare = StoreClear(sketch[s].spare),
                                        !.min = Inf, !.max = -Inf, !.sum = 0, !.count = 0]
  BY DEF ResetSketch
<1>3. added' = [added EXCEPT ![s] = NoValues]
  BY DEF ResetSketch, NoValues
<1>4. SketchOK(d, added[s])
  BY <1>1 DEF SketchInv
<1>5. /\ d \in DDSketches /\ d.store \in Stores /\ d.spare \in DenseStores /\ d.spare \in Stores
      /\ d.useSparseStore \in BOOLEAN /\ d.useSparseStore = (d.store.kind = "sparse")
  BY <1>4, SketchFields DEF SketchOK, Stores
<1>6. n.kind = d.store.kind /\ Empty(n) /\ p \in DenseStores
  BY <1>1, <1>5, ClearEmpty
<1>7. Holds(n, x, y, NoValues) /\ n.count = 0
  BY <1>1, <1>6, EmptyHolds DEF Empty
<1>8. x \in Int /\ y \in Int /\ 0 \in Nat
  BY <1>1, StoreAssumption, SMT DEF Inf
<1>9. e = SketchWith(d, d.useSparseStore, n, p, x, y, 0, 0)
  <2>1. e = [d EXCEPT !.store = n, !.spare = p, !.min = x, !.max = y, !.sum = 0, !.count = 0]
    BY <1>1, <1>2
  <2> QED
    BY <1>5, <2>1 DEF DDSketches, SketchWith
<1>10. SketchOK(SketchWith(d, d.useSparseStore, n, p, x, y, 0, 0), NoValues)
  <2>1. d.useSparseStore = (n.kind = "sparse") /\ 0 = n.count
    BY <1>5, <1>6, <1>7
  <2> QED
    BY <1>5, <1>6, <1>7, <1>8, <2>1, SketchOKIs
<1> QED
  BY <1>2, <1>3, <1>9, <1>10 DEF SketchInv

LEMMA SketchInitOK == SketchInit => SketchInv
<1> SUFFICES ASSUME SketchInit PROVE SketchInv
  OBVIOUS
<1>1. PICK d, n, p, x, y : /\ d = NewDDSketch /\ n = NewSparseStore /\ p = NewDenseStore
                           /\ x = Inf /\ y = -Inf
  OBVIOUS
<1>2. /\ n \in SparseStores /\ n \in Stores /\ Empty(n) /\ n.kind = "sparse" /\ n.count = 0 /\ p \in DenseStores
      /\ Holds(n, x, y, NoValues)
  BY <1>1, NewSparseEmpty, NewDenseEmpty, StoreKinds, EmptyHolds DEF Empty, Stores
<1>3. x \in Int /\ y \in Int /\ 0 \in Nat
  BY <1>1, StoreAssumption, SMT DEF Inf
<1>4. d = [useSparseStore |-> TRUE, store |-> n, spare |-> p, min |-> x, max |-> y, sum |-> 0, count |-> 0]
  BY <1>1 DEF NewDDSketch
<1>5. /\ d \in DDSketches /\ d.useSparseStore = TRUE /\ d.store = n /\ d.min = x /\ d.max = y /\ d.count = 0
  BY <1>2, <1>3, <1>4 DEF DDSketches
<1>6. SketchOK(d, NoValues)
  BY <1>2, <1>5 DEF SketchOK
<1> QED
  BY <1>1, <1>6 DEF SketchInit, SketchInv, NoValues

LEMMA SketchStepOK == SketchInv /\ [SketchNext]_sketchVars => SketchInv'
<1> SUFFICES ASSUME SketchInv, [SketchNext]_sketchVars PROVE SketchInv'
  OBVIOUS
<1>1. CASE SketchNext
  <2>1. PICK s \in Sketches, second \in BOOLEAN :
          \/ \E v \in Values, c \in 0..MaxCount : AddWithCount(s, v, c, second)
          \/ \E o \in Sketches : MergeSketch(s, o, second) \/ Copy(s, o)
          \/ ResetSketch(s)
    BY <1>1 DEF SketchNext
  <2> QED
    BY <2>1, AddOK, MergeOK, CopyOK, ResetOK
<1>2. CASE UNCHANGED sketchVars
  BY <1>2 DEF sketchVars, SketchInv
<1> QED
  BY <1>1, <1>2

LEMMA SketchInvariant == SketchSpec => []SketchInv
BY SketchInitOK, SketchStepOK, PTL DEF SketchSpec

-----------------------------------------------------------------------------
(* The sketch: what holds                                                    *)

\* Whatever values are added, however often, to any sketches that are merged,
\* copied, reset and that move their counts between a sparse and a dense store,
\* with any thresholds: GetValueAtQuantile is within gamma of the exact quantile
\* as long as no bucket was collapsed.
THEOREM SketchQuantiles == SketchSpec => []QuantilesAccurate
<1>1. SketchInv => QuantilesAccurate
  BY SketchAccurate DEF QuantilesAccurate
<1> QED
  BY <1>1, SketchInvariant, PTL

\* The counts that a store keeps never exceed what was added, and its ends stay
\* those of the least and the greatest value added, whichever buckets
\* collapseBuckets removes and in which order.
THEOREM CollapsingLoses == SketchSpec => []CollapseLoses
<1>1. SketchInv => CollapseLoses
  <2> SUFFICES ASSUME SketchInv, NEW s \in Sketches, sketch[s].store.hasElements
               PROVE  /\ Total([i \in LowIndex..HighIndex |-> Get(sketch[s].store, i)], LowIndex, HighIndex)
                           <= sketch[s].store.count
                      /\ sketch[s].store.minIndex = valueToIndex(sketch[s].min)
                      /\ sketch[s].store.maxIndex = valueToIndex(sketch[s].max)
    BY DEF CollapseLoses
  <2>1. Holds(sketch[s].store, sketch[s].min, sketch[s].max, added[s])
    BY DEF SketchInv, SketchOK
  <2>2. sketch[s].store.count # 0
    BY <2>1 DEF Holds, StoreOK
  <2> QED
    BY <2>1, <2>2 DEF Holds, Shows, Sum, BinsOf, Span
<1> QED
  BY <1>1, SketchInvariant, PTL
=============================================================================
