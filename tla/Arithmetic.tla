------------------------------ MODULE Arithmetic ------------------------------
(***************************************************************************)
(* Numbers as the services compute them, with fractions for floats: what   *)
(* the scores promise does not depend on the last bit of a float.          *)
(***************************************************************************)
EXTENDS Integers, Sequences

\* round(n / d) of Python: halves go to the even neighbour.
Round(n, d) ==
  LET q == n \div d
      r == n % d
  IN IF 2 * r < d \/ (2 * r = d /\ q % 2 = 0) THEN q ELSE q + 1

Least(a, b) == IF a <= b THEN a ELSE b
Greatest(a, b) == IF a >= b THEN a ELSE b

\* max(low, min(high, n))
Clamp(n, low, high) == Greatest(low, Least(high, n))

\* The sum of a sequence of numbers, and that of F over the elements of a sequence.
SumOf(f) ==
  LET sum[n \in 0..Len(f)] == IF n = 0 THEN 0 ELSE sum[n - 1] + f[n]
  IN sum[Len(f)]

SumOver(s, F(_)) == SumOf([i \in DOMAIN s |-> F(s[i])])

CountIn(s, P(_)) == SumOver(s, LAMBDA x : IF P(x) THEN 1 ELSE 0)
=============================================================================
