---------------------------- MODULE StagesProofs ----------------------------
(* Lemmas about sequences without repetitions and families of them, for the  *)
(* proofs about queues, batches and channels.  Arithmetic and sequences go   *)
(* to SMT, the rest to Zenon.                                                *)
EXTENDS Stages, TLAPS

USE Zenon

-----------------------------------------------------------------------------
(* Sequences and what is in them                                             *)

LEMMA RangeEmpty == Range(<<>>) = {}
BY SMT DEF Range

LEMMA RangeAppend ==
  ASSUME NEW S, NEW s \in Seq(S), NEW e
  PROVE  Range(Append(s, e)) = Range(s) \cup {e}
<1>1. /\ DOMAIN Append(s, e) = 1..(Len(s) + 1) /\ DOMAIN s = 1..Len(s) /\ Len(s) \in Nat
      /\ Append(s, e)[Len(s) + 1] = e /\ \A i \in 1..Len(s) : Append(s, e)[i] = s[i]
  BY SMT
<1>2. 1..(Len(s) + 1) = 1..Len(s) \cup {Len(s) + 1}
  BY <1>1, SMT
<1>3. ASSUME NEW x \in Range(Append(s, e)) PROVE x \in Range(s) \cup {e}
  BY <1>1, <1>2 DEF Range
<1>4. ASSUME NEW x \in Range(s) \cup {e} PROVE x \in Range(Append(s, e))
  BY <1>1, <1>2 DEF Range
<1> QED
  BY <1>3, <1>4

LEMMA RangeTail ==
  ASSUME NEW S, NEW s \in Seq(S), s # <<>>
  PROVE  /\ Head(s) \in S /\ Tail(s) \in Seq(S)
         /\ Range(s) = {Head(s)} \cup Range(Tail(s))
         /\ Len(Tail(s)) = Len(s) - 1 /\ Len(s) \in Nat
<1>1. /\ DOMAIN Tail(s) = 1..(Len(s) - 1) /\ DOMAIN s = 1..Len(s) /\ Len(s) \in Nat /\ Len(s) >= 1
      /\ Head(s) = s[1] /\ \A i \in 1..(Len(s) - 1) : Tail(s)[i] = s[i + 1]
      /\ Head(s) \in S /\ Tail(s) \in Seq(S) /\ Len(Tail(s)) = Len(s) - 1
  BY SMT
<1>2. ASSUME NEW x \in Range(s) PROVE x \in {Head(s)} \cup Range(Tail(s))
  <2>1. PICK i \in 1..Len(s) : x = s[i]
    BY <1>1, <1>2 DEF Range
  <2>2. CASE i = 1
    BY <1>1, <2>1, <2>2
  <2>3. CASE i # 1
    <3>1. i - 1 \in 1..(Len(s) - 1) /\ (i - 1) + 1 = i
      BY <1>1, <2>3, SMT
    <3>2. Tail(s)[i - 1] = x
      BY <1>1, <2>1, <3>1
    <3> QED
      BY <1>1, <3>1, <3>2 DEF Range
  <2> QED
    BY <2>2, <2>3
<1>3. ASSUME NEW x \in {Head(s)} \cup Range(Tail(s)) PROVE x \in Range(s)
  <2>1. 1 \in 1..Len(s) /\ \A i \in 1..(Len(s) - 1) : i + 1 \in 1..Len(s)
    BY <1>1, SMT
  <2>2. CASE x = Head(s)
    BY <1>1, <2>1, <2>2 DEF Range
  <2>3. CASE x \in Range(Tail(s))
    <3>1. PICK i \in 1..(Len(s) - 1) : x = Tail(s)[i]
      BY <1>1, <2>3 DEF Range
    <3>2. x = s[i + 1] /\ i + 1 \in DOMAIN s
      BY <1>1, <2>1, <3>1
    <3> QED
      BY <3>2 DEF Range
  <2> QED
    BY <1>3, <2>2, <2>3
<1> QED
  BY <1>1, <1>2, <1>3

LEMMA RangeConcat ==
  ASSUME NEW S, NEW s \in Seq(S), NEW t \in Seq(S)
  PROVE  Range(s \o t) = Range(s) \cup Range(t) /\ s \o t \in Seq(S)
<1>1. /\ DOMAIN (s \o t) = 1..(Len(s) + Len(t)) /\ DOMAIN s = 1..Len(s) /\ DOMAIN t = 1..Len(t)
      /\ Len(s) \in Nat /\ Len(t) \in Nat /\ s \o t \in Seq(S)
      /\ \A i \in 1..Len(s) : (s \o t)[i] = s[i]
      /\ \A i \in 1..Len(t) : (s \o t)[Len(s) + i] = t[i]
  BY SMT
<1>2. ASSUME NEW x \in Range(s \o t) PROVE x \in Range(s) \cup Range(t)
  <2>1. PICK i \in 1..(Len(s) + Len(t)) : x = (s \o t)[i]
    BY <1>1, <1>2 DEF Range
  <2>2. i \in 1..Len(s) \/ (i - Len(s) \in 1..Len(t) /\ Len(s) + (i - Len(s)) = i)
    BY <1>1, SMT
  <2>3. CASE i \in 1..Len(s)
    BY <1>1, <2>1, <2>3 DEF Range
  <2>4. CASE i - Len(s) \in 1..Len(t) /\ Len(s) + (i - Len(s)) = i
    <3>1. t[i - Len(s)] = x
      BY <1>1, <2>1, <2>4
    <3> QED
      BY <1>1, <2>4, <3>1 DEF Range
  <2> QED
    BY <2>2, <2>3, <2>4
<1>3. ASSUME NEW x \in Range(s) \cup Range(t) PROVE x \in Range(s \o t)
  <2>1. /\ \A i \in 1..Len(s) : i \in 1..(Len(s) + Len(t))
        /\ \A i \in 1..Len(t) : Len(s) + i \in 1..(Len(s) + Len(t))
    BY <1>1, SMT
  <2> QED
    BY <1>1, <1>3, <2>1 DEF Range
<1> QED
  BY <1>1, <1>2, <1>3

LEMMA AllIn ==
  ASSUME NEW f, NEW x
  PROVE  /\ x \in AllOf(f) <=> \E i \in DOMAIN f : x \in Range(f[i])
         /\ x \in AllOf(f) <=> \E c \in Range(f) : x \in Range(c)
<1>1. x \in AllOf(f) <=> \E i \in DOMAIN f : x \in Range(f[i])
  BY DEF AllOf
<1>2. \A c : c \in Range(f) <=> \E i \in DOMAIN f : c = f[i]
  BY DEF Range
<1> QED
  BY <1>1, <1>2

LEMMA AllAppend ==
  ASSUME NEW S, NEW q \in Seq(S), NEW b
  PROVE  AllOf(Append(q, b)) = AllOf(q) \cup Range(b)
<1>1. Range(Append(q, b)) = Range(q) \cup {b}
  BY RangeAppend
<1>2. ASSUME NEW x PROVE x \in AllOf(Append(q, b)) <=> x \in AllOf(q) \/ x \in Range(b)
  <2>1. x \in AllOf(Append(q, b)) <=> \E c \in Range(q) \cup {b} : x \in Range(c)
    BY <1>1, AllIn
  <2> QED
    BY <2>1, AllIn
<1> QED
  BY <1>2

LEMMA AllTail ==
  ASSUME NEW S, NEW q \in Seq(S), q # <<>>
  PROVE  AllOf(q) = Range(Head(q)) \cup AllOf(Tail(q))
<1>1. Range(q) = {Head(q)} \cup Range(Tail(q))
  BY RangeTail
<1>2. ASSUME NEW x PROVE x \in AllOf(q) <=> x \in Range(Head(q)) \/ x \in AllOf(Tail(q))
  <2>1. x \in AllOf(q) <=> \E c \in {Head(q)} \cup Range(Tail(q)) : x \in Range(c)
    BY <1>1, AllIn
  <2> QED
    BY <2>1, AllIn
<1> QED
  BY <1>2

\* One member of the family changes.
LEMMA AllExcept ==
  ASSUME NEW f, NEW i \in DOMAIN f, NEW s, NEW g, g = [f EXCEPT ![i] = s]
  PROVE  /\ AllOf(g) \subseteq AllOf(f) \cup Range(s) /\ Range(s) \subseteq AllOf(g)
         /\ AllOf(f) \subseteq AllOf(g) \cup Range(f[i])
<1>1. DOMAIN g = DOMAIN f /\ g[i] = s /\ \A j \in DOMAIN f : j # i => g[j] = f[j]
  OBVIOUS
<1>2. ASSUME NEW x \in AllOf(g) PROVE x \in AllOf(f) \cup Range(s)
  BY <1>1, AllIn
<1>3. ASSUME NEW x \in Range(s) PROVE x \in AllOf(g)
  BY <1>1, AllIn
<1>4. ASSUME NEW x \in AllOf(f) PROVE x \in AllOf(g) \cup Range(f[i])
  BY <1>1, AllIn
<1> QED
  BY <1>2, <1>3, <1>4

LEMMA IncreasingAppend ==
  ASSUME NEW S, NEW s \in Seq(S), NEW e, Increasing(s), Before(Range(s), {e})
  PROVE  Increasing(Append(s, e))
<1>1. /\ DOMAIN Append(s, e) = 1..(Len(s) + 1) /\ DOMAIN s = 1..Len(s) /\ Len(s) \in Nat
      /\ Append(s, e)[Len(s) + 1] = e /\ \A i \in 1..Len(s) : Append(s, e)[i] = s[i]
  BY SMT
<1>2. \A i, j \in 1..(Len(s) + 1) : i < j => i \in 1..Len(s) /\ (j \in 1..Len(s) \/ j = Len(s) + 1)
  BY <1>1, SMT
<1>3. \A i \in 1..Len(s) : s[i] < e
  BY <1>1 DEF Before, Range
<1> SUFFICES ASSUME NEW i \in 1..(Len(s) + 1), NEW j \in 1..(Len(s) + 1), i < j
             PROVE  Append(s, e)[i] < Append(s, e)[j]
  BY <1>1 DEF Increasing
<1>4. CASE j = Len(s) + 1
  BY <1>1, <1>2, <1>3, <1>4
<1>5. CASE j \in 1..Len(s)
  BY <1>1, <1>2, <1>5 DEF Increasing
<1> QED
  BY <1>2, <1>4, <1>5

LEMMA IncreasingTail ==
  ASSUME NEW S, NEW s \in Seq(S), s # <<>>, Increasing(s)
  PROVE  Increasing(Tail(s)) /\ Before({Head(s)}, Range(Tail(s)))
<1>1. /\ DOMAIN Tail(s) = 1..(Len(s) - 1) /\ DOMAIN s = 1..Len(s) /\ Len(s) \in Nat /\ Len(s) >= 1
      /\ Head(s) = s[1] /\ \A i \in 1..(Len(s) - 1) : Tail(s)[i] = s[i + 1]
  BY SMT
<1>2. /\ 1 \in 1..Len(s) /\ \A i \in 1..(Len(s) - 1) : i + 1 \in 1..Len(s) /\ 1 < i + 1
      /\ \A i, j \in 1..(Len(s) - 1) : i < j => i + 1 < j + 1
  BY <1>1, SMT
<1>3. \A i \in 1..(Len(s) - 1) : Head(s) < Tail(s)[i]
  BY <1>1, <1>2 DEF Increasing
<1>4. \A i, j \in 1..(Len(s) - 1) : i < j => Tail(s)[i] < Tail(s)[j]
  BY <1>1, <1>2 DEF Increasing
<1> QED
  BY <1>1, <1>3, <1>4 DEF Increasing, Before, Range

LEMMA IncreasingConcat ==
  ASSUME NEW S, NEW s \in Seq(S), NEW t \in Seq(S), Increasing(s), Increasing(t), Before(Range(s), Range(t))
  PROVE  Increasing(s \o t)
<1>1. /\ DOMAIN (s \o t) = 1..(Len(s) + Len(t)) /\ DOMAIN s = 1..Len(s) /\ DOMAIN t = 1..Len(t)
      /\ Len(s) \in Nat /\ Len(t) \in Nat
      /\ \A i \in 1..Len(s) : (s \o t)[i] = s[i]
      /\ \A i \in 1..(Len(s) + Len(t)) : i > Len(s) => i - Len(s) \in 1..Len(t) /\ (s \o t)[i] = t[i - Len(s)]
  BY SMT
<1> SUFFICES ASSUME NEW i \in 1..(Len(s) + Len(t)), NEW j \in 1..(Len(s) + Len(t)), i < j
             PROVE  (s \o t)[i] < (s \o t)[j]
  BY <1>1 DEF Increasing
<1>2. CASE j \in 1..Len(s)
  <2>1. i \in 1..Len(s)
    BY <1>1, <1>2, SMT
  <2> QED
    BY <1>1, <1>2, <2>1 DEF Increasing
<1>3. CASE i \in 1..Len(s) /\ j > Len(s)
  BY <1>1, <1>3 DEF Before, Range
<1>4. CASE i > Len(s)
  <2>1. j > Len(s) /\ i - Len(s) < j - Len(s)
    BY <1>1, <1>4, SMT
  <2> QED
    BY <1>1, <1>4, <2>1 DEF Increasing
<1>5. j \in 1..Len(s) \/ (i \in 1..Len(s) /\ j > Len(s)) \/ i > Len(s)
  BY <1>1, SMT
<1> QED
  BY <1>2, <1>3, <1>4, <1>5

LEMMA InjectiveEmpty == IsInjective(<<>>) /\ Apart(<<>>)
<1>1. DOMAIN <<>> = {}
  BY SMT
<1> QED
  BY <1>1 DEF IsInjective, Apart

LEMMA InjectiveAppend ==
  ASSUME NEW S, NEW s \in Seq(S), NEW e, IsInjective(s), e \notin Range(s)
  PROVE  IsInjective(Append(s, e))
<1>1. /\ DOMAIN Append(s, e) = 1..(Len(s) + 1) /\ DOMAIN s = 1..Len(s) /\ Len(s) \in Nat
      /\ Append(s, e)[Len(s) + 1] = e /\ \A i \in 1..Len(s) : Append(s, e)[i] = s[i]
  BY SMT
<1>2. 1..(Len(s) + 1) = 1..Len(s) \cup {Len(s) + 1}
  BY <1>1, SMT
<1>3. \A i \in 1..Len(s) : s[i] # e
  BY <1>1 DEF Range
<1> SUFFICES ASSUME NEW i \in 1..(Len(s) + 1), NEW j \in 1..(Len(s) + 1), Append(s, e)[i] = Append(s, e)[j]
             PROVE  i = j
  BY <1>1 DEF IsInjective
<1>4. CASE i \in 1..Len(s) /\ j \in 1..Len(s)
  BY <1>1, <1>4 DEF IsInjective
<1>5. CASE i = Len(s) + 1 \/ j = Len(s) + 1
  BY <1>1, <1>2, <1>3, <1>5
<1> QED
  BY <1>2, <1>4, <1>5

LEMMA InjectiveTail ==
  ASSUME NEW S, NEW s \in Seq(S), s # <<>>, IsInjective(s)
  PROVE  IsInjective(Tail(s)) /\ Head(s) \notin Range(Tail(s))
<1>1. /\ DOMAIN Tail(s) = 1..(Len(s) - 1) /\ DOMAIN s = 1..Len(s) /\ Len(s) \in Nat /\ Len(s) >= 1
      /\ Head(s) = s[1] /\ \A i \in 1..(Len(s) - 1) : Tail(s)[i] = s[i + 1]
  BY SMT
<1>2. /\ 1 \in 1..Len(s) /\ \A i \in 1..(Len(s) - 1) : i + 1 \in 1..Len(s) /\ 1 # i + 1
      /\ \A i, j \in 1..(Len(s) - 1) : i + 1 = j + 1 => i = j
  BY <1>1, SMT
<1>3. \A i \in 1..(Len(s) - 1) : Head(s) # Tail(s)[i]
  BY <1>1, <1>2 DEF IsInjective
<1>4. ASSUME NEW i \in 1..(Len(s) - 1), NEW j \in 1..(Len(s) - 1), Tail(s)[i] = Tail(s)[j] PROVE i = j
  <2>1. s[i + 1] = s[j + 1] /\ i + 1 \in DOMAIN s /\ j + 1 \in DOMAIN s
    BY <1>1, <1>2, <1>4
  <2>2. i + 1 = j + 1
    BY <2>1 DEF IsInjective
  <2> QED
    BY <1>2, <2>2
<1> QED
  BY <1>1, <1>3, <1>4 DEF IsInjective, Range

LEMMA InjectiveConcat ==
  ASSUME NEW S, NEW s \in Seq(S), NEW t \in Seq(S), IsInjective(s), IsInjective(t), Range(s) \cap Range(t) = {}
  PROVE  IsInjective(s \o t)
<1>1. /\ DOMAIN (s \o t) = 1..(Len(s) + Len(t)) /\ DOMAIN s = 1..Len(s) /\ DOMAIN t = 1..Len(t)
      /\ Len(s) \in Nat /\ Len(t) \in Nat
      /\ \A i \in 1..Len(s) : (s \o t)[i] = s[i]
      /\ \A i \in 1..(Len(s) + Len(t)) : i \in 1..Len(s) \/ (i - Len(s) \in 1..Len(t) /\ (s \o t)[i] = t[i - Len(s)])
  BY SMT
<1>2. \A i \in 1..Len(s), j \in 1..Len(t) : s[i] # t[j]
  BY <1>1 DEF Range
<1>3. \A i, j \in 1..(Len(s) + Len(t)) : i - Len(s) = j - Len(s) => i = j
  BY <1>1, SMT
<1> SUFFICES ASSUME NEW i \in 1..(Len(s) + Len(t)), NEW j \in 1..(Len(s) + Len(t)), (s \o t)[i] = (s \o t)[j]
             PROVE  i = j
  BY <1>1 DEF IsInjective
<1>4. CASE i \in 1..Len(s) /\ j \in 1..Len(s)
  BY <1>1, <1>4 DEF IsInjective
<1>5. CASE i \in 1..Len(s) /\ j \notin 1..Len(s)
  BY <1>1, <1>2, <1>5
<1>6. CASE i \notin 1..Len(s) /\ j \in 1..Len(s)
  BY <1>1, <1>2, <1>6
<1>7. CASE i \notin 1..Len(s) /\ j \notin 1..Len(s)
  <2>1. t[i - Len(s)] = t[j - Len(s)] /\ i - Len(s) \in DOMAIN t /\ j - Len(s) \in DOMAIN t
    BY <1>1, <1>7
  <2>2. i - Len(s) = j - Len(s)
    BY <2>1 DEF IsInjective
  <2> QED
    BY <1>3, <2>2
<1> QED
  BY <1>4, <1>5, <1>6, <1>7

LEMMA ApartAppend ==
  ASSUME NEW S, NEW q \in Seq(S), NEW b, Apart(q), IsInjective(b), AllOf(q) \cap Range(b) = {}
  PROVE  Apart(Append(q, b))
<1>1. /\ DOMAIN Append(q, b) = 1..(Len(q) + 1) /\ DOMAIN q = 1..Len(q) /\ Len(q) \in Nat
      /\ Append(q, b)[Len(q) + 1] = b /\ \A i \in 1..Len(q) : Append(q, b)[i] = q[i]
  BY SMT
<1>2. 1..(Len(q) + 1) = 1..Len(q) \cup {Len(q) + 1}
  BY <1>1, SMT
<1>3. \A i \in 1..Len(q) : Range(q[i]) \cap Range(b) = {}
  BY <1>1, AllIn
<1>4. \A i \in 1..(Len(q) + 1) : IsInjective(Append(q, b)[i])
  BY <1>1, <1>2 DEF Apart
<1>5. ASSUME NEW i \in 1..(Len(q) + 1), NEW j \in 1..(Len(q) + 1), i # j
      PROVE  Range(Append(q, b)[i]) \cap Range(Append(q, b)[j]) = {}
  <2>1. CASE i \in 1..Len(q) /\ j \in 1..Len(q)
    BY <1>1, <1>5, <2>1 DEF Apart
  <2>2. CASE i = Len(q) + 1 /\ j \in 1..Len(q)
    BY <1>1, <1>3, <2>2
  <2>3. CASE i \in 1..Len(q) /\ j = Len(q) + 1
    BY <1>1, <1>3, <2>3
  <2> QED
    BY <1>2, <1>5, <2>1, <2>2, <2>3
<1> QED
  BY <1>1, <1>4, <1>5 DEF Apart

LEMMA ApartTail ==
  ASSUME NEW S, NEW q \in Seq(S), q # <<>>, Apart(q)
  PROVE  Apart(Tail(q)) /\ IsInjective(Head(q)) /\ Range(Head(q)) \cap AllOf(Tail(q)) = {}
<1>1. /\ DOMAIN Tail(q) = 1..(Len(q) - 1) /\ DOMAIN q = 1..Len(q) /\ Len(q) \in Nat /\ Len(q) >= 1
      /\ Head(q) = q[1] /\ \A i \in 1..(Len(q) - 1) : Tail(q)[i] = q[i + 1]
  BY SMT
<1>2. /\ 1 \in 1..Len(q) /\ \A i \in 1..(Len(q) - 1) : i + 1 \in 1..Len(q) /\ 1 # i + 1
      /\ \A i, j \in 1..(Len(q) - 1) : i + 1 = j + 1 => i = j
  BY <1>1, SMT
<1>3. IsInjective(Head(q)) /\ \A i \in 1..(Len(q) - 1) : IsInjective(Tail(q)[i])
  BY <1>1, <1>2 DEF Apart
<1>4. \A i \in 1..(Len(q) - 1) : Range(Head(q)) \cap Range(Tail(q)[i]) = {}
  BY <1>1, <1>2 DEF Apart
<1>5. ASSUME NEW i \in 1..(Len(q) - 1), NEW j \in 1..(Len(q) - 1), i # j
      PROVE  Range(Tail(q)[i]) \cap Range(Tail(q)[j]) = {}
  <2>1. i + 1 \in DOMAIN q /\ j + 1 \in DOMAIN q /\ i + 1 # j + 1
    BY <1>1, <1>2, <1>5
  <2>2. Range(q[i + 1]) \cap Range(q[j + 1]) = {}
    BY <2>1 DEF Apart
  <2> QED
    BY <1>1, <2>2
<1>6. ASSUME NEW x \in Range(Head(q)), x \in AllOf(Tail(q)) PROVE FALSE
  BY <1>1, <1>4, <1>6, AllIn
<1> QED
  BY <1>1, <1>3, <1>5, <1>6 DEF Apart

LEMMA BeforeApart ==
  ASSUME NEW S, NEW T, S \subseteq Nat, Before(S, T)
  PROVE  S \cap T = {}
<1>1. \A x \in Nat : ~(x < x)
  BY SMT
<1> QED
  BY <1>1 DEF Before

LEMMA EmptySequence ==
  Range(<<>>) = {} /\ Increasing(<<>>) /\ AllOf(<<>>) = {} /\ <<>> \in Seq(Nat) /\ Len(<<>>) = 0
<1>1. DOMAIN <<>> = {} /\ <<>> \in Seq(Nat) /\ Len(<<>>) = 0
  BY SMT
<1> QED
  BY <1>1, RangeEmpty DEF Increasing, AllOf

LEMMA OneElement ==
  ASSUME NEW e \in Nat
  PROVE  Range(<<e>>) = {e} /\ Increasing(<<e>>) /\ <<e>> \in Seq(Nat) /\ Len(<<e>>) = 1
<1>1. DOMAIN <<e>> = {1} /\ <<e>>[1] = e /\ <<e>> \in Seq(Nat) /\ Len(<<e>>) = 1 /\ ~(1 < 1)
  BY SMT
<1> QED
  BY <1>1 DEF Range, Increasing

LEMMA OneInjective ==
  ASSUME NEW e
  PROVE  IsInjective(<<e>>)
<1>1. DOMAIN <<e>> = {1}
  BY SMT
<1> QED
  BY <1>1 DEF IsInjective

\* A family of empty sequences.
LEMMA AllEmpty ==
  ASSUME NEW D, NEW f, f = [i \in D |-> <<>>]
  PROVE  Apart(f) /\ AllOf(f) = {} /\ f \in [D -> Seq(Nat)] /\ \A i \in D : f[i] = <<>>
<1>1. DOMAIN f = D /\ f \in [D -> Seq(Nat)] /\ \A i \in D : f[i] = <<>>
  BY EmptySequence
<1>2. Apart(f)
  BY <1>1, EmptySequence, InjectiveEmpty DEF Apart
<1>3. ASSUME NEW x PROVE x \notin AllOf(f)
  BY <1>1, EmptySequence, AllIn
<1> QED
  BY <1>1, <1>2, <1>3

-----------------------------------------------------------------------------
(* Sequences and families give and take                                      *)

\* A sequence of a family without repetitions is replaced.
Replaced(f, g, i, s) ==
  /\ i \in DOMAIN f /\ g = [f EXCEPT ![i] = s]
  /\ Apart(f) /\ IsInjective(s) /\ Range(s) \cap (AllOf(f) \ Range(f[i])) = {}

StillApart(f, g, i, s) == Apart(g) /\ AllOf(g) = (AllOf(f) \ Range(f[i])) \cup Range(s)

LEMMA ApartExcept ==
  ASSUME NEW f, NEW g, NEW i, NEW s, Replaced(f, g, i, s)
  PROVE  StillApart(f, g, i, s)
<1> USE DEF Replaced
<1>1. i \in DOMAIN f /\ DOMAIN g = DOMAIN f /\ g[i] = s /\ \A j \in DOMAIN f : j # i => g[j] = f[j]
  OBVIOUS
<1>2. ASSUME NEW j \in DOMAIN f, j # i PROVE Range(f[j]) \subseteq AllOf(f) \ Range(f[i])
  BY <1>2, AllIn DEF Apart
<1>3. \A j \in DOMAIN g : IsInjective(g[j])
  BY <1>1 DEF Apart
<1>4. ASSUME NEW j \in DOMAIN g, NEW k \in DOMAIN g, j # k PROVE Range(g[j]) \cap Range(g[k]) = {}
  <2>1. CASE j = i
    BY <1>1, <1>2, <1>4, <2>1
  <2>2. CASE k = i
    BY <1>1, <1>2, <1>4, <2>2
  <2>3. CASE j # i /\ k # i
    BY <1>1, <1>4, <2>3 DEF Apart
  <2> QED
    BY <2>1, <2>2, <2>3
<1>5. ASSUME NEW x PROVE x \in AllOf(g) <=> x \in (AllOf(f) \ Range(f[i])) \cup Range(s)
  <2>1. ASSUME x \in AllOf(g) PROVE x \in (AllOf(f) \ Range(f[i])) \cup Range(s)
    <3>1. PICK j \in DOMAIN g : x \in Range(g[j])
      BY <2>1, AllIn
    <3> QED
      BY <1>1, <1>2, <3>1
  <2>2. ASSUME x \in AllOf(f), x \notin Range(f[i]) PROVE x \in AllOf(g)
    <3>1. PICK j \in DOMAIN f : x \in Range(f[j])
      BY <2>2, AllIn
    <3> QED
      BY <1>1, <2>2, <3>1, AllIn
  <2>3. ASSUME x \in Range(s) PROVE x \in AllOf(g)
    BY <1>1, <2>3, AllIn
  <2> QED
    BY <2>1, <2>2, <2>3
<1> QED
  BY <1>3, <1>4, <1>5 DEF Apart, StillApart

Shifted(c, d) == c \in Seq(Nat) /\ c # <<>> /\ IsInjective(c) /\ d = Tail(c)
Shorter(c, d) ==
  /\ Head(c) \in Nat /\ d \in Seq(Nat) /\ IsInjective(d)
  /\ Range(c) = {Head(c)} \cup Range(d) /\ Head(c) \notin Range(d)

LEMMA ShiftedIs == ASSUME NEW c, NEW d, Shifted(c, d) PROVE Shorter(c, d)
BY RangeTail, InjectiveTail DEF Shifted, Shorter

Joined(c, d, s) ==
  /\ c \in Seq(Nat) /\ s \in Seq(Nat) /\ IsInjective(c) /\ IsInjective(s)
  /\ Range(c) \cap Range(s) = {} /\ d = c \o s
Longer(c, d, s) == d \in Seq(Nat) /\ IsInjective(d) /\ Range(d) = Range(c) \cup Range(s)

LEMMA JoinedIs == ASSUME NEW c, NEW d, NEW s, Joined(c, d, s) PROVE Longer(c, d, s)
<1>1. Range(c \o s) = Range(c) \cup Range(s) /\ c \o s \in Seq(Nat)
  BY RangeConcat DEF Joined
<1>2. IsInjective(c \o s)
  BY InjectiveConcat DEF Joined
<1> QED
  BY <1>1, <1>2 DEF Joined, Longer

Emptied(f, g, i, D) == f \in [D -> Seq(Nat)] /\ i \in D /\ Apart(f) /\ g = [f EXCEPT ![i] = <<>>]
NowEmpty(f, g, i, D) ==
  /\ g \in [D -> Seq(Nat)] /\ Apart(g) /\ AllOf(g) = AllOf(f) \ Range(f[i])
  /\ f[i] \in Seq(Nat) /\ IsInjective(f[i]) /\ Range(f[i]) \subseteq AllOf(f)

LEMMA EmptiedIs == ASSUME NEW f, NEW g, NEW i, NEW D, Emptied(f, g, i, D) PROVE NowEmpty(f, g, i, D)
<1>1. f \in [D -> Seq(Nat)] /\ i \in D /\ i \in DOMAIN f /\ Apart(f) /\ g = [f EXCEPT ![i] = <<>>]
  BY DEF Emptied
<1>2. Replaced(f, g, i, <<>>)
  BY <1>1, EmptySequence, InjectiveEmpty DEF Replaced
<1>3. StillApart(f, g, i, <<>>)
  BY <1>2, ApartExcept
<1>4. Apart(g) /\ AllOf(g) = AllOf(f) \ Range(f[i])
  BY <1>3, EmptySequence DEF StillApart
<1>5. Range(f[i]) \subseteq AllOf(f)
  BY <1>1, AllIn
<1>6. f[i] \in Seq(Nat) /\ IsInjective(f[i]) /\ g \in [D -> Seq(Nat)]
  BY <1>1, EmptySequence DEF Apart
<1> QED
  BY <1>4, <1>5, <1>6 DEF NowEmpty

Filled(f, g, i, s, D) ==
  /\ f \in [D -> Seq(Nat)] /\ i \in D /\ Apart(f) /\ f[i] = <<>> /\ g = [f EXCEPT ![i] = s]
  /\ s \in Seq(Nat) /\ IsInjective(s) /\ Range(s) \cap AllOf(f) = {}
NowHas(f, g, i, s, D) == g \in [D -> Seq(Nat)] /\ Apart(g) /\ AllOf(g) = AllOf(f) \cup Range(s)

LEMMA FilledIs == ASSUME NEW f, NEW g, NEW i, NEW s, NEW D, Filled(f, g, i, s, D) PROVE NowHas(f, g, i, s, D)
<1>1. i \in DOMAIN f /\ g \in [D -> Seq(Nat)]
  BY DEF Filled
<1>2. Replaced(f, g, i, s)
  BY <1>1 DEF Filled, Replaced
<1>3. StillApart(f, g, i, s)
  BY <1>2, ApartExcept
<1>4. Range(f[i]) = {}
  BY EmptySequence DEF Filled
<1> QED
  BY <1>1, <1>3, <1>4 DEF StillApart, NowHas

=============================================================================
