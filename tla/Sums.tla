-------------------------------- MODULE Sums --------------------------------
(* Sums of the values of a function at consecutive integers, and powers.     *)
EXTENDS Integers

\* f[a] + f[a + 1] + ... + f[b], and 0 when b < a.
Total(f, a, b) ==
  LET s[n \in Nat] == IF n = 0 THEN 0 ELSE s[n - 1] + f[a + n - 1]
  IN  IF b < a THEN 0 ELSE s[b - a + 1]
\* b to the n.
Power(b, n) == LET p[k \in Nat] == IF k = 0 THEN 1 ELSE b * p[k - 1] IN p[n]
=============================================================================
