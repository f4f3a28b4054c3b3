------------------------------- MODULE Stages -------------------------------
(* Sequences through which numbered items pass, and families of them.        *)
EXTENDS Integers, Sequences, Functions

\* Everything in the sequences of the family f.
AllOf(f) == UNION {Range(f[i]) : i \in DOMAIN f}

\* No item twice in the sequences of the family f.
Apart(f) ==
  /\ \A i \in DOMAIN f : IsInjective(f[i])
  /\ \A i, j \in DOMAIN f : i # j => Range(f[i]) \cap Range(f[j]) = {}

Increasing(s) == \A i, j \in DOMAIN s : i < j => s[i] < s[j]

Before(S, T) == \A x \in S, y \in T : x < y
=============================================================================
