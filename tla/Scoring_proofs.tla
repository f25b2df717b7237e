---------------------------- MODULE Scoring_proofs ----------------------------
(***************************************************************************)
(* The arithmetic of the scores, for all numbers, lists and skills: what a *)
(* candidate learns, a scenario that is reported as unchanged, the two     *)
(* reports of changes, better answers of an assessment, more evidence in a *)
(* resume, and what the analysis of a simulation says of its rankings.     *)
(***************************************************************************)
EXTENDS ChangeReports, AssessmentScoring, FitEngine, RankingImpact,
        FiniteSetTheorems, WellFoundedInduction, TLAPS

\* Induction, and sums of sequences of numbers.

LEMMA LeastOf ==
  ASSUME NEW S \in SUBSET Nat, S # {}
  PROVE  \E m \in S : \A n \in S : m <= n
<1>1. \E m \in S : \A n \in S : ~ (<<n, m>> \in OpToRel(<, Nat))
  BY NatLessThanWellFounded, WFMin
<1>2. ASSUME NEW m \in Nat, NEW n \in Nat, n < m PROVE <<n, m>> \in OpToRel(<, Nat)
  BY <1>2, Zenon DEF OpToRel
<1>3. \E m \in S : \A n \in S : ~ (n < m)
  BY <1>1, <1>2, Zenon
<1> QED BY <1>3

\* Induction, of a set of numbers.
LEMMA Inductive ==
  ASSUME NEW S \in SUBSET Nat, 0 \in S, \A n \in S : n + 1 \in S
  PROVE  S = Nat
<1> SUFFICES ASSUME Nat \ S # {} PROVE FALSE
  OBVIOUS
<1>1. PICK m \in Nat \ S : \A n \in Nat \ S : m <= n
  BY LeastOf
<1>2. m # 0 /\ m - 1 \in Nat /\ m - 1 \in S
  BY <1>1
<1>3. m = (m - 1) + 1
  BY <1>1
<1> QED BY <1>1, <1>2, <1>3

\* All but the last.
LEMMA FrontOf ==
  ASSUME NEW S, NEW n \in Nat, NEW f \in Seq(S), Len(f) = n + 1
  PROVE  \E g \in Seq(S) : Len(g) = n /\ \A i \in 1..n : g[i] = f[i]
<1> DEFINE g == [i \in 1..n |-> f[i]]
<1>1. \A i \in 1..n : f[i] \in S
  OBVIOUS
<1>2. g \in Seq(S) /\ Len(g) = n /\ \A i \in 1..n : g[i] = f[i]
  BY <1>1
<1> QED BY <1>2

LEMMA IntFront ==
  \A n \in Nat, f \in Seq(Int) :
    Len(f) = n + 1 => \E g \in Seq(Int) : Len(g) = n /\ \A i \in 1..n : g[i] = f[i]
<1> SUFFICES ASSUME NEW n \in Nat, NEW f \in Seq(Int), Len(f) = n + 1
             PROVE  \E g \in Seq(Int) : Len(g) = n /\ \A i \in 1..n : g[i] = f[i]
  OBVIOUS
<1> QED BY FrontOf

\* The partial sums of f.
Sums(f, h) == h = [n \in 0..Len(f) |-> IF n = 0 THEN 0 ELSE h[n - 1] + f[n]]

LEMMA SumsStep ==
  ASSUME NEW f \in Seq(Int), NEW h, Sums(f, h)
  PROVE  h[0] = 0 /\ \A n \in 1..Len(f) : h[n] = h[n - 1] + f[n]
<1>1. Len(f) \in Nat
  OBVIOUS
<1>2. \A n \in 0..Len(f) : h[n] = IF n = 0 THEN 0 ELSE h[n - 1] + f[n]
  BY Zenon DEF Sums
<1> QED BY <1>1, <1>2

LEMMA SumsExist == \A f \in Seq(Int) : \E h : Sums(f, h)
<1> DEFINE S == {n \in Nat : \A f \in Seq(Int) : Len(f) = n => \E h : Sums(f, h)}
<1>1. 0 \in S
  <2> SUFFICES ASSUME NEW f \in Seq(Int), Len(f) = 0 PROVE \E h : Sums(f, h)
    OBVIOUS
  <2> DEFINE h == [n \in 0..Len(f) |-> 0]
  <2>1. \A n \in 0..Len(f) : n = 0
    OBVIOUS
  <2>2. h = [n \in 0..Len(f) |-> IF n = 0 THEN 0 ELSE h[n - 1] + f[n]]
    BY <2>1
  <2> QED BY <2>2 DEF Sums
<1>2. ASSUME NEW n \in S PROVE n + 1 \in S
  <2> SUFFICES ASSUME NEW f \in Seq(Int), Len(f) = n + 1 PROVE \E h : Sums(f, h)
    OBVIOUS
  <2>1. PICK g \in Seq(Int) : Len(g) = n /\ \A i \in 1..n : g[i] = f[i]
    BY FrontOf
  <2>2. PICK k : Sums(g, k)
    BY <1>2, <2>1
  <2> DEFINE h == [i \in 0..Len(f) |-> IF i = n + 1 THEN k[n] + f[n + 1] ELSE k[i]]
             F(i) == IF i = 0 THEN 0 ELSE h[i - 1] + f[i]
  <2>3. ASSUME NEW i \in 0..Len(f) PROVE h[i] = F(i)
    <3>1. CASE i = n + 1
      BY <3>1
    <3>2. CASE i # n + 1
      <4>1. i \in 0..n /\ h[i] = k[i]
        BY <3>2
      <4>2. CASE i = 0
        BY <2>1, <2>2, <4>1, <4>2, SumsStep
      <4>3. CASE i # 0
        <5>1. i \in 1..n /\ i - 1 \in 0..Len(f) /\ i - 1 # n + 1
          BY <4>1, <4>3
        <5>2. k[i] = k[i - 1] + g[i] /\ g[i] = f[i] /\ h[i - 1] = k[i - 1]
          BY <2>1, <2>2, <5>1, SumsStep
        <5> QED BY <4>1, <4>3, <5>2
      <4> QED BY <4>2, <4>3
    <3> QED BY <3>1, <3>2
  <2>4. h = [i \in 0..Len(f) |-> h[i]]
    OBVIOUS
  <2> HIDE DEF h
  <2>5. h = [i \in 0..Len(f) |-> F(i)]
    BY <2>3, <2>4, Zenon
  <2> QED BY <2>5 DEF Sums
<1>3. S = Nat
  <2> HIDE DEF S
  <2>1. S \subseteq Nat
    BY DEF S
  <2> QED BY <1>1, <1>2, <2>1, Inductive
<1> QED BY <1>3

\* The sum is the last of the partial sums.
LEMMA SumOfIs ==
  ASSUME NEW f \in Seq(Int)
  PROVE  \E h : Sums(f, h) /\ SumOf(f) = h[Len(f)]
<1>1. PICK h : Sums(f, h)
  BY SumsExist
<1> DEFINE chosen == CHOOSE sum : sum = [n \in 0..Len(f) |-> IF n = 0 THEN 0 ELSE sum[n - 1] + f[n]]
<1>2. Sums(f, chosen)
  BY <1>1, Zenon DEF Sums
<1>3. SumOf(f) = chosen[Len(f)]
  BY DEF SumOf
<1> HIDE DEF chosen
<1> QED BY <1>2, <1>3

\* Sequences that agree on their first n numbers have the same partial sums there.
LEMMA SumsAgree ==
  ASSUME NEW f \in Seq(Int), NEW g \in Seq(Int), NEW h, NEW k, Sums(f, h), Sums(g, k),
         NEW m \in Nat, m <= Len(f), m <= Len(g), \A i \in 1..m : f[i] = g[i]
  PROVE  \A n \in 0..m : h[n] = k[n] /\ h[n] \in Int
<1> DEFINE S == {n \in Nat : n <= m => h[n] = k[n] /\ h[n] \in Int}
<1>1. 0 \in S
  BY SumsStep
<1>2. ASSUME NEW n \in S PROVE n + 1 \in S
  <2> SUFFICES ASSUME n + 1 <= m PROVE h[n + 1] = k[n + 1] /\ h[n + 1] \in Int
    OBVIOUS
  <2>1. n + 1 \in 1..Len(f) /\ n + 1 \in 1..Len(g) /\ n + 1 \in 1..m /\ (n + 1) - 1 = n
    OBVIOUS
  <2>2. h[n + 1] = h[n] + f[n + 1] /\ k[n + 1] = k[n] + g[n + 1] /\ f[n + 1] = g[n + 1]
    BY <2>1, SumsStep
  <2>3. f[n + 1] \in Int /\ h[n] = k[n] /\ h[n] \in Int
    BY <2>1
  <2> QED BY <2>2, <2>3
<1>3. S = Nat
  <2> HIDE DEF S
  <2>1. S \subseteq Nat
    BY DEF S
  <2> QED BY <1>1, <1>2, <2>1, Inductive
<1>4. \A n \in 0..m : n \in Nat /\ n <= m
  OBVIOUS
<1> QED BY <1>3, <1>4, Zenon

LEMMA SumInt ==
  ASSUME NEW f \in Seq(Int)
  PROVE  SumOf(f) \in Int /\ (Len(f) = 0 => SumOf(f) = 0)
<1>1. PICK h : Sums(f, h) /\ SumOf(f) = h[Len(f)]
  BY SumOfIs
<1>2. Len(f) \in Nat /\ Len(f) <= Len(f) /\ Len(f) \in 0..Len(f)
  OBVIOUS
<1>3. h[Len(f)] \in Int
  BY <1>1, <1>2, SumsAgree
<1> QED BY <1>1, <1>3, SumsStep

LEMMA SumStep ==
  ASSUME NEW f \in Seq(Int), NEW g \in Seq(Int), Len(f) = Len(g) + 1,
         \A i \in 1..Len(g) : f[i] = g[i]
  PROVE  SumOf(f) = SumOf(g) + f[Len(f)]
<1>1. PICK h : Sums(f, h) /\ SumOf(f) = h[Len(f)]
  BY SumOfIs
<1>2. PICK k : Sums(g, k) /\ SumOf(g) = k[Len(g)]
  BY SumOfIs
<1>3. /\ Len(g) \in Nat /\ Len(g) <= Len(f) /\ Len(g) <= Len(g) /\ Len(g) \in 0..Len(g)
      /\ Len(f) \in 1..Len(f) /\ Len(f) - 1 = Len(g)
  OBVIOUS
<1>4. h[Len(g)] = k[Len(g)]
  <2>1. \A n \in 0..Len(g) : h[n] = k[n] /\ h[n] \in Int
    BY <1>1, <1>2, <1>3, SumsAgree, Zenon
  <2> QED BY <1>3, <2>1
<1> QED BY <1>1, <1>2, <1>3, <1>4, SumsStep

\* Sums keep the order of their numbers.
LEMMA SumsInOrder ==
  \A f, g \in Seq(Int) :
    Len(f) = Len(g) /\ (\A i \in 1..Len(f) : f[i] <= g[i]) => SumOf(f) <= SumOf(g)
<1> DEFINE S == {n \in Nat : \A f, g \in Seq(Int) :
                   Len(f) = n /\ Len(g) = n /\ (\A i \in 1..n : f[i] <= g[i])
                     => SumOf(f) <= SumOf(g)}
<1>1. 0 \in S
  <2> SUFFICES ASSUME NEW f \in Seq(Int), NEW g \in Seq(Int), Len(f) = 0, Len(g) = 0
               PROVE  SumOf(f) <= SumOf(g)
    OBVIOUS
  <2>1. SumOf(f) = 0 /\ SumOf(g) = 0
    BY SumInt
  <2> QED BY <2>1
<1>2. ASSUME NEW n \in S PROVE n + 1 \in S
  <2> SUFFICES ASSUME NEW f \in Seq(Int), NEW g \in Seq(Int), Len(f) = n + 1, Len(g) = n + 1,
                      \A i \in 1..n + 1 : f[i] <= g[i]
               PROVE  SumOf(f) <= SumOf(g)
    OBVIOUS
  <2>1. n \in Nat
    OBVIOUS
  <2> HIDE DEF S
  <2>2. PICK h \in Seq(Int) : Len(h) = n /\ \A i \in 1..n : h[i] = f[i]
    BY <2>1, IntFront, Zenon
  <2>3. PICK k \in Seq(Int) : Len(k) = n /\ \A i \in 1..n : k[i] = g[i]
    BY <2>1, IntFront, Zenon
  <2>4. \A i \in 1..n : h[i] <= k[i]
    BY <2>1, <2>2, <2>3
  <2>5. SumOf(h) <= SumOf(k)
    BY <1>2, <2>2, <2>3, <2>4 DEF S
  <2>6. SumOf(f) = SumOf(h) + f[n + 1] /\ SumOf(g) = SumOf(k) + g[n + 1]
    BY <2>2, <2>3, SumStep
  <2>7. /\ SumOf(h) \in Int /\ SumOf(k) \in Int /\ f[n + 1] \in Int /\ g[n + 1] \in Int
        /\ f[n + 1] <= g[n + 1]
    <3>1. n + 1 \in 1..Len(f) /\ n + 1 \in 1..Len(g)
      BY <2>1
    <3> QED BY <2>2, <2>3, <3>1, SumInt
  <2> QED BY <2>5, <2>6, <2>7
<1>3. S = Nat
  <2> HIDE DEF S
  <2>1. S \subseteq Nat
    BY DEF S
  <2> QED BY <1>1, <1>2, <2>1, Inductive
<1>4. \A f \in Seq(Int) : Len(f) \in Nat
  OBVIOUS
<1> QED BY <1>3, <1>4

LEMMA SumMono ==
  ASSUME NEW f \in Seq(Int), NEW g \in Seq(Int), Len(f) = Len(g),
         \A i \in 1..Len(f) : f[i] <= g[i]
  PROVE  SumOf(f) <= SumOf(g)
BY SumsInOrder

\* A factor of all the numbers is one of their sum.
LEMMA SumsScaled ==
  ASSUME NEW c \in Int
  PROVE  \A f, g \in Seq(Int) :
           Len(f) = Len(g) /\ (\A i \in 1..Len(f) : f[i] = c * g[i]) => SumOf(f) = c * SumOf(g)
<1> DEFINE S == {n \in Nat : \A f, g \in Seq(Int) :
                   Len(f) = n /\ Len(g) = n /\ (\A i \in 1..n : f[i] = c * g[i])
                     => SumOf(f) = c * SumOf(g)}
<1>1. 0 \in S
  <2> SUFFICES ASSUME NEW f \in Seq(Int), NEW g \in Seq(Int), Len(f) = 0, Len(g) = 0
               PROVE  SumOf(f) = c * SumOf(g)
    OBVIOUS
  <2>1. SumOf(f) = 0 /\ SumOf(g) = 0
    BY SumInt
  <2> QED BY <2>1
<1>2. ASSUME NEW n \in S PROVE n + 1 \in S
  <2> SUFFICES ASSUME NEW f \in Seq(Int), NEW g \in Seq(Int), Len(f) = n + 1, Len(g) = n + 1,
                      \A i \in 1..n + 1 : f[i] = c * g[i]
               PROVE  SumOf(f) = c * SumOf(g)
    OBVIOUS
  <2>1. n \in Nat
    OBVIOUS
  <2> HIDE DEF S
  <2>2. PICK h \in Seq(Int) : Len(h) = n /\ \A i \in 1..n : h[i] = f[i]
    BY <2>1, IntFront, Zenon
  <2>3. PICK k \in Seq(Int) : Len(k) = n /\ \A i \in 1..n : k[i] = g[i]
    BY <2>1, IntFront, Zenon
  <2>4. \A i \in 1..n : h[i] = c * k[i]
    BY <2>1, <2>2, <2>3
  <2>5. SumOf(h) = c * SumOf(k)
    BY <1>2, <2>2, <2>3, <2>4 DEF S
  <2>6. SumOf(f) = SumOf(h) + f[n + 1] /\ SumOf(g) = SumOf(k) + g[n + 1]
    BY <2>2, <2>3, SumStep
  <2>7. /\ SumOf(k) \in Int /\ g[n + 1] \in Int /\ f[n + 1] = c * g[n + 1]
    <3>1. n + 1 \in 1..Len(f) /\ n + 1 \in 1..Len(g)
      BY <2>1
    <3> QED BY <2>3, <3>1, SumInt
  <2>8. c * (SumOf(k) + g[n + 1]) = c * SumOf(k) + c * g[n + 1]
    BY <2>7
  <2> QED BY <2>5, <2>6, <2>7, <2>8, Zenon
<1>3. S = Nat
  <2> HIDE DEF S
  <2>1. S \subseteq Nat
    BY DEF S
  <2> QED BY <1>1, <1>2, <2>1, Inductive
<1>4. \A f \in Seq(Int) : Len(f) \in Nat
  OBVIOUS
<1> QED BY <1>3, <1>4

LEMMA SumScaled ==
  ASSUME NEW c \in Int, NEW f \in Seq(Int), NEW g \in Seq(Int), Len(f) = Len(g),
         \A i \in 1..Len(f) : f[i] = c * g[i]
  PROVE  SumOf(f) = c * SumOf(g)
BY SumsScaled

\* Bounds of a sum by a multiple of another.
LEMMA SumBounds ==
  ASSUME NEW c \in Int, NEW f \in Seq(Int), NEW g \in Seq(Int), Len(f) = Len(g)
  PROVE  /\ (\A i \in 1..Len(f) : f[i] <= c * g[i]) => SumOf(f) <= c * SumOf(g)
         /\ (\A i \in 1..Len(f) : c * g[i] <= f[i]) => c * SumOf(g) <= SumOf(f)
<1> DEFINE h == [i \in 1..Len(g) |-> c * g[i]]
<1>1. \A i \in 1..Len(g) : g[i] \in Int /\ h[i] = c * g[i] /\ h[i] \in Int
  OBVIOUS
<1>2. h \in Seq(Int) /\ Len(h) = Len(g)
  BY <1>1
<1> HIDE DEF h
<1>3. SumOf(h) = c * SumOf(g)
  <2>1. \A i \in 1..Len(h) : h[i] = c * g[i]
    BY <1>1, <1>2, Zenon
  <2> QED BY <1>2, <2>1, SumScaled, Zenon
<1>4. (\A i \in 1..Len(f) : f[i] <= c * g[i]) => SumOf(f) <= SumOf(h)
  BY <1>1, <1>2, SumMono, Zenon
<1>5. (\A i \in 1..Len(f) : c * g[i] <= f[i]) => SumOf(h) <= SumOf(f)
  BY <1>1, <1>2, SumMono, Zenon
<1> QED BY <1>3, <1>4, <1>5, Zenon

LEMMA SumNat ==
  ASSUME NEW f \in Seq(Int), \A i \in 1..Len(f) : f[i] >= 0
  PROVE  SumOf(f) \in Nat
<1>1. \A i \in 1..Len(f) : 0 * f[i] <= f[i]
  OBVIOUS
<1>2. 0 \in Int
  OBVIOUS
<1>3. 0 * SumOf(f) <= SumOf(f)
  BY <1>1, <1>2, SumBounds, Zenon
<1> QED BY <1>3, SumInt

\* Ones count.
LEMMA SumsOfOnes == \A f \in Seq(Int) : (\A i \in 1..Len(f) : f[i] = 1) => SumOf(f) = Len(f)
<1> DEFINE S == {n \in Nat : \A f \in Seq(Int) : Len(f) = n /\ (\A i \in 1..n : f[i] = 1) => SumOf(f) = n}
<1>1. 0 \in S
  BY SumInt
<1>2. ASSUME NEW n \in S PROVE n + 1 \in S
  <2> SUFFICES ASSUME NEW f \in Seq(Int), Len(f) = n + 1, \A i \in 1..n + 1 : f[i] = 1
               PROVE  SumOf(f) = n + 1
    OBVIOUS
  <2>1. n \in Nat
    OBVIOUS
  <2> HIDE DEF S
  <2>2. PICK h \in Seq(Int) : Len(h) = n /\ \A i \in 1..n : h[i] = f[i]
    BY <2>1, IntFront, Zenon
  <2>3. \A i \in 1..n : h[i] = 1
    BY <2>1, <2>2
  <2>4. SumOf(h) = n
    BY <1>2, <2>2, <2>3 DEF S
  <2>5. SumOf(f) = SumOf(h) + f[n + 1] /\ f[n + 1] = 1
    BY <2>1, <2>2, SumStep
  <2> QED BY <2>4, <2>5
<1>3. S = Nat
  <2> HIDE DEF S
  <2>1. S \subseteq Nat
    BY DEF S
  <2> QED BY <1>1, <1>2, <2>1, Inductive
<1>4. \A f \in Seq(Int) : Len(f) \in Nat
  OBVIOUS
<1> QED BY <1>3, <1>4

LEMMA SumOnes ==
  ASSUME NEW f \in Seq(Int), \A i \in 1..Len(f) : f[i] = 1
  PROVE  SumOf(f) = Len(f)
BY SumsOfOnes

----------------------------------------------------------------------------
\* Products, quotients and rounding.

LEMMA MulMono ==
  ASSUME NEW a \in Int, NEW b \in Int, NEW c \in Nat, a <= b
  PROVE  a * c <= b * c /\ c * a <= c * b /\ a * c \in Int /\ b * c \in Int
<1>1. b - a \in Nat
  OBVIOUS
<1>2. (b - a) * c >= 0
  BY <1>1
<1> QED BY <1>1, <1>2

LEMMA MulNat ==
  ASSUME NEW a \in Nat, NEW b \in Nat
  PROVE  a * b \in Nat
OBVIOUS

\* The quotient and the rest of a division.
LEMMA Division ==
  ASSUME NEW n \in Int, NEW d \in Nat \ {0}
  PROVE  /\ n \div d \in Int /\ n % d \in Int
         /\ n = (d * (n \div d)) + (n % d)
         /\ 0 <= n % d /\ n % d < d
OBVIOUS

\* A quotient is the only number with such a rest.
LEMMA QuotientIs ==
  ASSUME NEW n \in Int, NEW d \in Nat \ {0}, NEW q \in Int, d * q <= n
  PROVE  q <= n \div d
<1>1. SUFFICES ASSUME q > n \div d PROVE FALSE
  BY Division
<1>2. q >= n \div d + 1
  BY <1>1, Division
<1>3. d * q >= d * (n \div d + 1)
  BY <1>2, MulMono, Division
<1>4. d * (n \div d + 1) = d * (n \div d) + d
  BY Division
<1> QED BY <1>3, <1>4, Division

LEMMA DivMono ==
  ASSUME NEW m \in Int, NEW n \in Int, NEW d \in Nat \ {0}, m <= n
  PROVE  m \div d <= n \div d
<1>1. d * (m \div d) <= n
  BY Division
<1> QED BY <1>1, QuotientIs, Division

LEMMA MulStrict ==
  ASSUME NEW a \in Int, NEW b \in Int, NEW c \in Nat \ {0}
  PROVE  a * c <= b * c <=> a <= b
<1>1. ASSUME b < a PROVE b * c < a * c
  <2>1. (b + 1) * c <= a * c
    BY <1>1, MulMono
  <2>2. (b + 1) * c = b * c + c
    OBVIOUS
  <2> QED BY <2>1, <2>2
<1>2. a <= b => a * c <= b * c
  BY MulMono
<1> QED BY <1>1, <1>2

\* A fraction that is no greater has no greater quotient, and with the same quotient no
\* greater rest.
LEMMA Fractions ==
  ASSUME NEW m \in Int, NEW c \in Nat \ {0}, NEW n \in Int, NEW d \in Nat \ {0}, m * d <= n * c
  PROVE  /\ m \div c <= n \div d
         /\ m \div c = n \div d => (m % c) * d <= (n % d) * c
<1> DEFINE p == m \div c
           r == m % c
           q == n \div d
           s == n % d
<1>1. /\ p \in Int /\ r \in Int /\ m = (c * p) + r /\ 0 <= r /\ r < c
      /\ q \in Int /\ s \in Int /\ n = (d * q) + s /\ 0 <= s /\ s < d
  BY Division
<1> HIDE DEF p, q, r, s
<1>2. c * d \in Nat \ {0}
  <2>1. 1 * d <= c * d
    BY MulMono
  <2> QED BY <2>1
<1> DEFINE e == c * d
<1>3. m * d = (p * e) + (r * d) /\ n * c = (q * e) + (s * c)
  BY <1>1
<1>4. 0 <= r * d /\ s * c < e
  <2>1. 0 * d <= r * d
    BY <1>1, MulMono
  <2>2. (s + 1) * c <= d * c
    BY <1>1, MulMono
  <2> QED BY <1>1, <2>1, <2>2
<1> HIDE DEF e
<1>5. p <= q
  <2> SUFFICES ASSUME q + 1 <= p PROVE FALSE
    BY <1>1
  <2>1. (q + 1) * e <= p * e
    BY <1>1, <1>2, MulMono DEF e
  <2>2. (q + 1) * e = (q * e) + e
    BY <1>1, <1>2 DEF e
  <2>3. q * e \in Int /\ p * e \in Int /\ r * d \in Int /\ s * c \in Int /\ e \in Int
    BY <1>1, <1>2 DEF e
  <2> QED BY <1>3, <1>4, <2>1, <2>2, <2>3
<1>6. p = q => r * d <= s * c
  <2>1. q * e \in Int /\ p * e \in Int /\ r * d \in Int /\ s * c \in Int
    BY <1>1, <1>2 DEF e
  <2> QED BY <1>3, <2>1
<1> QED BY <1>5, <1>6 DEF p, q, r, s

\* Rounding keeps the order of fractions.
LEMMA RoundMono ==
  ASSUME NEW m \in Int, NEW c \in Nat \ {0}, NEW n \in Int, NEW d \in Nat \ {0}, m * d <= n * c
  PROVE  Round(m, c) <= Round(n, d)
<1> DEFINE p == m \div c
           r == m % c
           q == n \div d
           s == n % d
           Up(k, of, by) == ~ (2 * of < by \/ (2 * of = by /\ k % 2 = 0))
<1>1. p \in Int /\ r \in Int /\ q \in Int /\ s \in Int /\ 0 <= r /\ 0 <= s /\ r < c /\ s < d
  BY Division
<1>2. /\ Round(m, c) = IF Up(p, r, c) THEN p + 1 ELSE p
      /\ Round(n, d) = IF Up(q, s, d) THEN q + 1 ELSE q
  BY DEF Round
<1>3. p <= q /\ (p = q => r * d <= s * c)
  BY Fractions
<1> HIDE DEF p, q, r, s, Up
<1>4. CASE p < q
  BY <1>1, <1>2, <1>4
<1>5. CASE p = q
  <2>1. Up(p, r, c) => Up(q, s, d)
    <3>1. r * d <= s * c
      BY <1>3, <1>5
    <3>2. 2 * r > c => 2 * s > d
      <4> SUFFICES ASSUME 2 * r >= c + 1, 2 * s <= d PROVE FALSE
        BY <1>1
      <4>1. (c + 1) * d <= (2 * r) * d /\ (2 * s) * c <= d * c
        BY <1>1, MulMono
      <4>2. (2 * r) * d = 2 * (r * d) /\ (2 * s) * c = 2 * (s * c) /\ (c + 1) * d = (d * c) + d
        BY <1>1
      <4>3. r * d \in Int /\ s * c \in Int /\ d * c \in Int
        BY <1>1
      <4> QED BY <3>1, <4>1, <4>2, <4>3
    <3>3. 2 * r = c => 2 * s >= d
      <4> SUFFICES ASSUME 2 * r = c, 2 * s + 1 <= d PROVE FALSE
        BY <1>1
      <4>1. (2 * s + 1) * c <= d * c
        BY <1>1, MulMono
      <4>2. c * d = 2 * (r * d) /\ (2 * s + 1) * c = (2 * (s * c)) + c /\ c * d = d * c
        BY <1>1
      <4>3. r * d \in Int /\ s * c \in Int /\ d * c \in Int
        BY <1>1
      <4> QED BY <3>1, <4>1, <4>2, <4>3
    <3> QED BY <1>1, <1>5, <3>2, <3>3 DEF Up
  <2> QED BY <1>1, <1>2, <1>5, <2>1
<1> QED BY <1>1, <1>3, <1>4, <1>5

LEMMA RoundInt ==
  ASSUME NEW n \in Int, NEW d \in Nat \ {0}
  PROVE  Round(n, d) \in Int
BY Division DEF Round

\* With one denominator, and against a whole number.
LEMMA RoundUpward ==
  ASSUME NEW m \in Int, NEW n \in Int, NEW d \in Nat \ {0}, m <= n
  PROVE  Round(m, d) <= Round(n, d)
BY MulMono, RoundMono

LEMMA RoundWhole ==
  ASSUME NEW k \in Int
  PROVE  Round(k, 1) = k
<1>1. k \div 1 = k /\ k % 1 = 0
  OBVIOUS
<1> QED BY <1>1 DEF Round

LEMMA RoundAtMost ==
  ASSUME NEW n \in Int, NEW d \in Nat \ {0}, NEW k \in Int, n <= k * d
  PROVE  Round(n, d) <= k
<1>1. n * 1 <= k * d
  OBVIOUS
<1>2. Round(n, d) <= Round(k, 1)
  BY <1>1, RoundMono
<1> QED BY <1>2, RoundWhole

LEMMA RoundAtLeast ==
  ASSUME NEW n \in Int, NEW d \in Nat \ {0}, NEW k \in Int, k * d <= n
  PROVE  k <= Round(n, d)
<1>1. k * d <= n * 1
  OBVIOUS
<1>2. Round(k, 1) <= Round(n, d)
  BY <1>1, RoundMono
<1> QED BY <1>2, RoundWhole

LEMMA RoundDown ==
  ASSUME NEW n \in Int, NEW d \in Nat \ {0}, NEW k \in Int, 2 * n < 2 * (d * k) + d
  PROVE  Round(n, d) <= k
<1> DEFINE q == n \div d
           r == n % d
<1>1. q \in Int /\ r \in Int /\ n = (d * q) + r /\ 0 <= r
  BY Division
<1>2. Round(n, d) = IF 2 * r < d \/ (2 * r = d /\ q % 2 = 0) THEN q ELSE q + 1
  BY Zenon DEF Round
<1> HIDE DEF q, r
<1>3. Round(n, d) = q \/ (Round(n, d) = q + 1 /\ ~ (2 * r < d))
  BY <1>2
<1>4. CASE q > k
  <2>1. d * (k + 1) <= d * q
    BY <1>1, <1>4, MulMono
  <2>2. d * (k + 1) = (d * k) + d /\ d * k \in Int /\ d * q \in Int
    BY <1>1
  <2> QED BY <1>1, <2>1, <2>2
<1>5. CASE q = k
  <2>1. 2 * r < d
    <3>1. d * k \in Int
      OBVIOUS
    <3> QED BY <1>1, <1>5, <3>1
  <2> QED BY <1>3, <1>5, <2>1
<1>6. CASE q < k
  BY <1>1, <1>3, <1>6
<1> QED BY <1>1, <1>4, <1>5, <1>6

----------------------------------------------------------------------------
\* The scores of a candidate.

LEMMA LeastInt ==
  ASSUME NEW a \in Int, NEW b \in Int
  PROVE  /\ Least(a, b) \in Int /\ Least(a, b) <= a /\ Least(a, b) <= b
         /\ Least(a, b) = a \/ Least(a, b) = b
         /\ Greatest(a, b) \in Int /\ a <= Greatest(a, b) /\ b <= Greatest(a, b)
         /\ Greatest(a, b) = a \/ Greatest(a, b) = b
BY DEF Least, Greatest

\* A sum of weighted values grows with the values.
Weighted(s, w, f) == SumOf([i \in DOMAIN s |-> w[s[i]] * f[s[i]]])

LEMMA WeightedMono ==
  ASSUME NEW D, NEW s \in Seq(D), NEW w \in [D -> Nat], NEW f \in [D -> Int],
         NEW g \in [D -> Int],
         \A d \in D : f[d] <= g[d]
  PROVE  Weighted(s, w, f) \in Int /\ Weighted(s, w, f) <= Weighted(s, w, g)
<1> DEFINE a == [i \in DOMAIN s |-> w[s[i]] * f[s[i]]]
           b == [i \in DOMAIN s |-> w[s[i]] * g[s[i]]]
<1>1. DOMAIN s = 1..Len(s) /\ Len(s) \in Nat /\ \A i \in DOMAIN s : s[i] \in D
  OBVIOUS
<1>2. \A i \in DOMAIN s : w[s[i]] \in Nat /\ f[s[i]] \in Int /\ g[s[i]] \in Int /\ f[s[i]] <= g[s[i]]
  BY <1>1
<1>3. \A i \in DOMAIN s : a[i] \in Int /\ b[i] \in Int /\ a[i] <= b[i]
  BY <1>2, MulMono
<1>4. a \in Seq(Int) /\ b \in Seq(Int) /\ Len(a) = Len(s) /\ Len(b) = Len(s)
  BY <1>1, <1>3
<1> HIDE DEF a, b
<1>5. \A i \in 1..Len(a) : a[i] <= b[i]
  BY <1>1, <1>3, <1>4
<1>6. SumOf(a) \in Int /\ SumOf(a) <= SumOf(b)
  BY <1>4, <1>5, SumMono, SumInt
<1> QED BY <1>6, Zenon DEF a, b, Weighted

LEMMA OverallMono ==
  ASSUME NEW f \in [Dimensions -> Int], NEW g \in [Dimensions -> Int],
         NEW w \in [Dimensions -> Nat],
         \A d \in Dimensions : f[d] <= g[d]
  PROVE  OverallScore(f, w) \in Int /\ OverallScore(f, w) <= OverallScore(g, w)
<1> DEFINE s == <<"skill", "experience", "education", "project", "certification",
                  "location", "employment_type", "semantic">>
<1>1. s \in Seq(Dimensions)
  BY DEF Dimensions
<1>2. /\ OverallScore(f, w) = Clamp(Weighted(s, w, f) \div 1000, 0, 100)
      /\ OverallScore(g, w) = Clamp(Weighted(s, w, g) \div 1000, 0, 100)
  BY Zenon DEF OverallScore, SumOver, Weighted
<1> HIDE DEF s
<1>3. Weighted(s, w, f) \in Int /\ Weighted(s, w, f) <= Weighted(s, w, g)
  BY <1>1, WeightedMono
<1>4. \A d \in Dimensions : g[d] <= g[d]
  OBVIOUS
<1>5. Weighted(s, w, g) \in Int
  BY <1>1, <1>4, WeightedMono
<1>6. \A m, n \in Int : m <= n => m \div 1000 \in Int /\ n \div 1000 \in Int /\ m \div 1000 <= n \div 1000
  BY DivMono
<1>7. \A m, n \in Int : m <= n => Clamp(m, 0, 100) \in Int /\ Clamp(m, 0, 100) <= Clamp(n, 0, 100)
  BY DEF Clamp, Least, Greatest
<1> QED BY <1>2, <1>3, <1>5, <1>6, <1>7

\* The number of elements of a list that are in a set.
Hits(s, A) == SumOf([i \in DOMAIN s |-> IF s[i] \in A THEN 1 ELSE 0])

LEMMA HitsNat ==
  ASSUME NEW X, NEW s \in Seq(X), NEW A
  PROVE  Hits(s, A) \in Nat /\ CountIn(s, LAMBDA x : x \in A) = Hits(s, A)
<1> DEFINE ones == [i \in DOMAIN s |-> IF s[i] \in A THEN 1 ELSE 0]
<1>1. CountIn(s, LAMBDA x : x \in A) = Hits(s, A)
  BY Zenon DEF CountIn, SumOver, Hits
<1>2. ones \in Seq(Int) /\ \A i \in 1..Len(ones) : ones[i] >= 0
  OBVIOUS
<1>3. SumOf(ones) \in Nat
  BY <1>2, SumNat
<1> QED BY <1>1, <1>3, Zenon DEF Hits

LEMMA HitsMono ==
  ASSUME NEW X, NEW s \in Seq(X), NEW A, NEW B, A \subseteq B
  PROVE  Hits(s, A) <= Hits(s, B)
<1> DEFINE ones(T) == [i \in DOMAIN s |-> IF s[i] \in T THEN 1 ELSE 0]
<1>1. ones(A) \in Seq(Int) /\ ones(B) \in Seq(Int) /\ Len(ones(A)) = Len(ones(B))
  OBVIOUS
<1>2. \A i \in 1..Len(ones(A)) : ones(A)[i] <= ones(B)[i]
  OBVIOUS
<1>3. SumOf(ones(A)) <= SumOf(ones(B))
  BY <1>1, <1>2, SumMono
<1> QED BY <1>3, Zenon DEF Hits

LEMMA HitsAppended ==
  ASSUME NEW X, NEW s \in Seq(X), NEW x \in X, NEW A
  PROVE  Hits(s, A) <= Hits(Append(s, x), A)
<1> DEFINE ones(t) == [i \in DOMAIN t |-> IF t[i] \in A THEN 1 ELSE 0]
<1>1. /\ Append(s, x) \in Seq(X) /\ Len(Append(s, x)) = Len(s) + 1
      /\ \A i \in 1..Len(s) : Append(s, x)[i] = s[i]
  OBVIOUS
<1>2. ones(s) \in Seq(Int) /\ Len(ones(s)) = Len(s)
  OBVIOUS
<1>3. ones(Append(s, x)) \in Seq(Int) /\ Len(ones(Append(s, x))) = Len(s) + 1
  BY <1>1
<1>4. \A i \in 1..Len(ones(s)) : ones(Append(s, x))[i] = ones(s)[i]
  BY <1>1, <1>2
<1>5. ones(Append(s, x))[Len(s) + 1] >= 0
  BY <1>1
<1>6. SumOf(ones(Append(s, x))) = SumOf(ones(s)) + ones(Append(s, x))[Len(s) + 1]
  BY <1>2, <1>3, <1>4, SumStep, Zenon
<1>7. SumOf(ones(s)) <= SumOf(ones(Append(s, x)))
  <2>1. ones(Append(s, x))[Len(s) + 1] \in Int /\ SumOf(ones(s)) \in Int
    BY <1>1, <1>2, SumInt
  <2> HIDE DEF ones
  <2> QED BY <1>5, <1>6, <2>1
<1> QED BY <1>7, Zenon DEF Hits

LEMMA SkillMono ==
  ASSUME NEW X, NEW mandatory \in Seq(X), NEW preferred \in Seq(X), NEW A, NEW B, A \subseteq B
  PROVE  /\ SkillScore(A, mandatory, preferred) \in Int
         /\ SkillScore(A, mandatory, preferred) <= SkillScore(B, mandatory, preferred)
<1> DEFINE s == mandatory \o preferred
           len == Len(mandatory)
           m == Greatest(Len(mandatory), 1)
           p == Greatest(Len(preferred), 1)
           of(k) == (80 * Least(k, len)) * p + (20 * (k - Least(k, len))) * m
           score(k) == IF s = <<>> THEN 100 ELSE Least(of(k) \div (m * p), 100)
<1>1. s \in Seq(X) /\ len \in Nat /\ m \in Nat \ {0} /\ p \in Nat \ {0}
  BY DEF Greatest
<1>2. Hits(s, A) \in Nat /\ Hits(s, B) \in Nat /\ Hits(s, A) <= Hits(s, B)
  BY <1>1, HitsNat, HitsMono
<1>3. /\ SkillScore(A, mandatory, preferred) = score(Hits(s, A))
      /\ SkillScore(B, mandatory, preferred) = score(Hits(s, B))
  <2>1. /\ CountIn(s, LAMBDA x : x \in A) = Hits(s, A)
        /\ CountIn(s, LAMBDA x : x \in B) = Hits(s, B)
    BY <1>1, HitsNat, Zenon
  <2> QED BY <2>1, Zenon DEF SkillScore
<1> HIDE DEF s, len, m, p
<1>4. ASSUME NEW k \in Nat, NEW l \in Nat, k <= l
      PROVE  of(k) \in Int /\ of(l) \in Int /\ of(k) <= of(l)
  <2> DEFINE a(n) == 80 * Least(n, len)
             b(n) == 20 * (n - Least(n, len))
  <2>1. /\ a(k) \in Int /\ a(l) \in Int /\ a(k) <= a(l) /\ b(k) \in Int /\ b(l) \in Int
        /\ b(k) <= b(l)
    BY <1>1, <1>4 DEF Least
  <2> HIDE DEF a, b
  <2>2. a(k) * p <= a(l) * p /\ a(k) * p \in Int /\ a(l) * p \in Int
    BY <1>1, <2>1, MulMono
  <2>3. b(k) * m <= b(l) * m /\ b(k) * m \in Int /\ b(l) * m \in Int
    BY <1>1, <2>1, MulMono
  <2>4. of(k) = a(k) * p + b(k) * m /\ of(l) = a(l) * p + b(l) * m
    BY Zenon DEF a, b
  <2> HIDE DEF of
  <2> QED BY <2>2, <2>3, <2>4
<1>5. m * p \in Nat \ {0}
  <2>1. 1 * p <= m * p
    BY <1>1, MulMono
  <2>2. m * p \in Nat
    BY <1>1, MulNat
  <2> QED BY <1>1, <2>1, <2>2
<1> DEFINE d == m * p
<1> HIDE DEF of
<1>6. ASSUME NEW k \in Nat, NEW l \in Nat, k <= l
      PROVE  score(k) \in Int /\ score(k) <= score(l)
  <2>1. d \in Nat \ {0}
    BY <1>5
  <2> HIDE DEF d
  <2>2. of(k) \div d \in Int /\ of(l) \div d \in Int /\ of(k) \div d <= of(l) \div d
    BY <1>4, <1>6, <2>1, DivMono, Division
  <2>3. \A x, y \in Int : x <= y => Least(x, 100) \in Int /\ Least(x, 100) <= Least(y, 100)
    BY DEF Least
  <2> QED BY <2>2, <2>3 DEF d
<1> HIDE DEF score
<1> QED BY <1>2, <1>3, <1>6

LEMMA HighestOf ==
  ASSUME NEW D \in SUBSET (0..6), D # {}
  PROVE  \E d \in D : \A e \in D : e <= d
<1> DEFINE C == {6 - e : e \in D}
<1>1. C \in SUBSET Nat /\ C # {}
  OBVIOUS
<1>2. PICK c \in C : \A b \in C : c <= b
  BY <1>1, LeastOf
<1>3. PICK d \in D : c = 6 - d
  BY <1>2
<1>4. ASSUME NEW e \in D PROVE e <= d
  <2>1. c <= 6 - e
    BY <1>2
  <2> QED BY <1>3, <2>1
<1> QED BY <1>4

EducationWanted == [level : 0..6, text : 0..6, requirement : {"required", "preferred", "optional"}]

LEMMA EducationMono ==
  ASSUME NEW A \in SUBSET (0..6), NEW B \in SUBSET (0..6), A \subseteq B,
         NEW want \in EducationWanted
  PROVE  EducationScore(A, want) \in Int /\ EducationScore(A, want) <= EducationScore(B, want)
<1> DEFINE best(D) == IF D = {} THEN 0 ELSE CHOOSE d \in D : \A e \in D : e <= d
           below(D, level) == IF level - best(D) = 1 THEN 65 ELSE 30
           score(D) == IF want.level # 0
                       THEN IF want.requirement = "optional" THEN 80
                            ELSE IF best(D) >= want.level THEN 100
                            ELSE IF want.requirement = "preferred" THEN 65 ELSE below(D, want.level)
                       ELSE IF want.text = 0 THEN 80
                            ELSE IF D = {} THEN 20
                            ELSE IF best(D) >= want.text THEN 100 ELSE below(D, want.text)
<1>1. EducationScore(A, want) = score(A) /\ EducationScore(B, want) = score(B)
  BY Zenon DEF EducationScore
<1>2. ASSUME NEW D \in SUBSET (0..6) PROVE best(D) \in 0..6 /\ \A e \in D : e <= best(D)
  <2>1. CASE D = {}
    BY <2>1
  <2>2. CASE D # {}
    <3> DEFINE highest == CHOOSE d \in D : \A e \in D : e <= d
    <3>1. \E d \in D : \A e \in D : e <= d
      BY <2>2, HighestOf
    <3>2. highest \in D /\ \A e \in D : e <= highest
      BY <3>1, Zenon
    <3>3. best(D) = highest
      BY <2>2
    <3> HIDE DEF highest, best
    <3> QED BY <3>2, <3>3
  <2> QED BY <2>1, <2>2
<1>3. best(A) <= best(B)
  <2>1. CASE A = {}
    <3>1. best(A) = 0 /\ best(B) \in 0..6
      BY <1>2, <2>1
    <3> HIDE DEF best
    <3> QED BY <3>1
  <2>2. CASE A # {}
    <3>1. best(A) \in A
      BY <2>2, HighestOf
    <3> HIDE DEF best
    <3> QED BY <1>2, <3>1
  <2> QED BY <2>1, <2>2
<1>4. want.level \in 0..6 /\ want.text \in 0..6
  BY DEF EducationWanted
<1>5. best(A) \in 0..6 /\ best(B) \in 0..6
  BY <1>2
<1>6. B = {} => A = {}
  OBVIOUS
<1> HIDE DEF best
<1> QED BY <1>1, <1>3, <1>4, <1>5, <1>6

\* The technologies that match a name of a list.
Naming(X, list) == {t \in SUBSET X : \E i \in DOMAIN list : list[i] \in t}

LEMMA Asking ==
  ASSUME NEW X, NEW technologies \in Seq(SUBSET X), NEW list
  PROVE  CountIn(technologies, LAMBDA t : \E i \in DOMAIN list : list[i] \in t)
           = Hits(technologies, Naming(X, list))
<1> DEFINE P(t) == \E i \in DOMAIN list : list[i] \in t
           one(t) == IF P(t) THEN 1 ELSE 0
           in(t) == IF t \in Naming(X, list) THEN 1 ELSE 0
<1>1. ASSUME NEW j \in DOMAIN technologies PROVE one(technologies[j]) = in(technologies[j])
  <2>1. technologies[j] \in SUBSET X
    OBVIOUS
  <2> QED BY <2>1 DEF Naming
<1>2. /\ CountIn(technologies, LAMBDA t : \E i \in DOMAIN list : list[i] \in t)
           = SumOf([j \in DOMAIN technologies |-> one(technologies[j])])
      /\ Hits(technologies, Naming(X, list)) = SumOf([j \in DOMAIN technologies |-> in(technologies[j])])
  BY Zenon DEF CountIn, SumOver, Hits
<1> HIDE DEF one, in
<1> QED BY <1>1, <1>2, Zenon

\* One more project, of which a technology may be listed.
LEMMA ProjectMono ==
  ASSUME NEW X, NEW projects \in Nat, NEW more \in Nat, projects <= more,
         NEW technologies \in Seq(SUBSET X), NEW others \in Seq(SUBSET X), NEW mandatory \in Seq(X),
         others = <<>> => technologies = <<>>,
         \A A : Hits(technologies, A) <= Hits(others, A)
  PROVE  /\ ProjectScore(projects, technologies, mandatory) \in Int
         /\ ProjectScore(projects, technologies, mandatory) <= ProjectScore(more, others, mandatory)
<1> DEFINE A == Naming(X, mandatory)
           share(n) == Least((40 * n) \div Len(mandatory), 40)
           part(t) == IF t = <<>> \/ mandatory = <<>> THEN 0 ELSE share(Hits(t, A))
           score(n, t) == IF n = 0 THEN 10 ELSE Least(15 * n, 60) + part(t)
<1>1. ASSUME NEW t \in Seq(SUBSET X), NEW n PROVE ProjectScore(n, t, mandatory) = score(n, t)
  <2>1. CountIn(t, LAMBDA x : \E i \in DOMAIN mandatory : mandatory[i] \in x) = Hits(t, A)
    BY Asking, Zenon
  <2> QED BY <2>1, Zenon DEF ProjectScore
<1>2. /\ Hits(technologies, A) \in Nat /\ Hits(others, A) \in Nat
      /\ Hits(technologies, A) <= Hits(others, A)
  BY HitsNat
<1> HIDE DEF A
<1>3. ASSUME NEW k \in Nat, NEW l \in Nat, k <= l, mandatory # <<>>
      PROVE  share(k) \in Int /\ share(l) \in Int /\ 0 <= share(k) /\ share(k) <= share(l)
  <2>1. Len(mandatory) \in Nat \ {0}
    BY <1>3
  <2>2. ASSUME NEW d \in Nat \ {0}, NEW x \in Nat, NEW y \in Nat, x <= y
        PROVE  x \div d \in Int /\ y \div d \in Int /\ x \div d <= y \div d /\ 0 <= x \div d
    <3>1. d * 0 <= x
      OBVIOUS
    <3>2. 0 <= x \div d
      BY <3>1, QuotientIs
    <3>3. x \in Int /\ y \in Int
      OBVIOUS
    <3>4. x \div d \in Int /\ y \div d \in Int
      BY <3>3, Division
    <3>5. x \div d <= y \div d
      BY <2>2, <3>3, DivMono
    <3> QED BY <3>2, <3>4, <3>5
  <2>3. /\ (40 * k) \div Len(mandatory) \in Int /\ (40 * l) \div Len(mandatory) \in Int
        /\ (40 * k) \div Len(mandatory) <= (40 * l) \div Len(mandatory)
        /\ 0 <= (40 * k) \div Len(mandatory)
    <3>1. 40 * k \in Nat /\ 40 * l \in Nat /\ 40 * k <= 40 * l
      BY <1>3
    <3> QED BY <2>1, <2>2, <3>1, Zenon
  <2>4. \A x, y \in Int : 0 <= x /\ x <= y => /\ Least(x, 40) \in Int /\ Least(y, 40) \in Int
                                             /\ 0 <= Least(x, 40) /\ Least(x, 40) <= Least(y, 40)
    BY DEF Least
  <2> HIDE DEF share
  <2> QED BY <2>3, <2>4 DEF share
<1> HIDE DEF share
<1>4. part(technologies) \in Nat /\ part(others) \in Nat /\ part(technologies) <= part(others)
  <2>1. CASE mandatory = <<>> \/ others = <<>>
    BY <2>1
  <2>2. CASE mandatory # <<>> /\ others # <<>>
    <3>1. Hits(technologies, A) <= Hits(technologies, A) /\ Hits(others, A) <= Hits(others, A)
      BY <1>2
    <3>2. /\ share(Hits(technologies, A)) \in Int /\ share(Hits(others, A)) \in Int
          /\ 0 <= share(Hits(technologies, A)) /\ 0 <= share(Hits(others, A))
          /\ share(Hits(technologies, A)) <= share(Hits(others, A))
      BY <1>2, <1>3, <2>2, <3>1
    <3> QED BY <2>2, <3>2
  <2> QED BY <2>1, <2>2
<1> HIDE DEF part
<1>5. /\ score(projects, technologies) \in Int
      /\ score(projects, technologies) <= score(more, others)
  BY <1>4 DEF Least
<1> QED BY <1>1, <1>5, Zenon

LEMMA RankMono ==
  ASSUME NEW n \in Nat, NEW f \in [1..n -> Int], NEW c \in 1..n, NEW v \in Int, f[c] <= v
  PROVE  Rank([f EXCEPT ![c] = v], c) <= Rank(f, c)
<1> DEFINE g == [f EXCEPT ![c] = v]
           ahead(h) == {d \in DOMAIN h : h[d] > h[c] \/ (h[d] = h[c] /\ d < c)}
<1>1. ahead(g) \subseteq ahead(f) /\ ahead(f) \subseteq 1..n /\ DOMAIN g = 1..n
  OBVIOUS
<1>2. IsFiniteSet(ahead(f))
  <2>1. IsFiniteSet(1..n)
    BY FS_Interval
  <2> QED BY <1>1, <2>1, FS_Subset
<1>3. /\ Cardinality(ahead(g)) <= Cardinality(ahead(f))
      /\ Cardinality(ahead(g)) \in Nat /\ Cardinality(ahead(f)) \in Nat
  BY <1>1, <1>2, FS_Subset, FS_CardinalityType
<1>4. Rank(g, c) = 1 + Cardinality(ahead(g)) /\ Rank(f, c) = 1 + Cardinality(ahead(f))
  BY Zenon DEF Rank
<1> HIDE DEF ahead
<1> QED BY <1>3, <1>4

\* What candidates and configurations are, for every skill and number.
Candidates(Names) ==
  [has : SUBSET Names, years : Nat, degrees : SUBSET (0..6), projects : Nat,
   technologies : Seq(SUBSET Names), place : {"unknown", "remote", "city", "country", "elsewhere"},
   preference : {"none", "same", "other"}, semantic : [baseline : 0..100, simulation : 0..100]]

Configurations(Names) ==
  [name : {"baseline", "simulation"}, weights : [Dimensions -> Nat], threshold : Int, shortlist : Int,
   requirements : [mandatory : Seq(Names), preferred : Seq(Names),
                   experience : [min : Int, max : Int, text : Int], education : EducationWanted]]

\* The scores of the dimensions.
Scored(candidate, config) ==
  [skill |-> SkillScore(candidate.has, config.requirements.mandatory, config.requirements.preferred),
   experience |-> ExperienceScore(candidate.years, config.requirements.experience),
   education |-> EducationScore(candidate.degrees, config.requirements.education),
   project |-> ProjectScore(candidate.projects, candidate.technologies, config.requirements.mandatory),
   certification |-> 70,
   location |-> LocationScore(candidate.place),
   employment_type |-> EmploymentScore(candidate.preference),
   semantic |-> candidate.semantic[config.name]]

LEMMA OverallIs ==
  ASSUME NEW candidate, NEW config
  PROVE  Evaluate(candidate, config).overall = OverallScore(Scored(candidate, config), config.weights)
BY DEF Evaluate, Scored

LEMMA HitsSame ==
  ASSUME NEW X, NEW s \in Seq(X), NEW A
  PROVE  Hits(s, A) <= Hits(s, A)
<1>1. A \subseteq A
  OBVIOUS
<1> QED BY <1>1, HitsMono, Zenon

LEMMA ScoredInt ==
  ASSUME NEW Names, NEW candidate \in Candidates(Names), NEW config \in Configurations(Names)
  PROVE  Scored(candidate, config) \in [Dimensions -> Int]
<1> DEFINE want == config.requirements
<1>1. /\ want.mandatory \in Seq(Names) /\ want.preferred \in Seq(Names)
      /\ want.experience \in [min : Int, max : Int, text : Int]
      /\ want.education \in EducationWanted
      /\ candidate.technologies \in Seq(SUBSET Names) /\ candidate.projects \in Nat
      /\ candidate.degrees \in SUBSET (0..6)
  BY DEF Candidates, Configurations
<1>2. SkillScore(candidate.has, want.mandatory, want.preferred) \in Int
  BY <1>1, SkillMono
<1>3. ExperienceScore(candidate.years, want.experience) \in Int
  BY <1>1 DEF ExperienceScore, YearsScore, Least, Candidates
<1>4. EducationScore(candidate.degrees, want.education) \in Int
  BY <1>1, EducationMono
<1>5. ProjectScore(candidate.projects, candidate.technologies, want.mandatory) \in Int
  <2>1. \A A : Hits(candidate.technologies, A) <= Hits(candidate.technologies, A)
    BY <1>1, HitsSame
  <2>2. candidate.projects <= candidate.projects
    BY <1>1
  <2> HIDE DEF want
  <2> QED BY <1>1, <2>1, <2>2, ProjectMono
<1>6. LocationScore(candidate.place) \in Int
  BY DEF LocationScore, Candidates
<1>7. EmploymentScore(candidate.preference) \in Int
  BY DEF EmploymentScore, Candidates
<1>8. candidate.semantic[config.name] \in Int
  <2>1. /\ candidate.semantic \in [baseline : 0..100, simulation : 0..100]
        /\ config.name \in {"baseline", "simulation"}
    BY DEF Candidates, Configurations
  <2> QED BY <2>1
<1> QED BY <1>2, <1>3, <1>4, <1>5, <1>6, <1>7, <1>8 DEF Scored, Dimensions

\* A candidate who has at least what another has.
AtLeast(a, b) ==
  /\ a.has \subseteq b.has /\ a.degrees \subseteq b.degrees /\ a.projects <= b.projects
  /\ b.technologies = <<>> => a.technologies = <<>>
  /\ \A A : Hits(a.technologies, A) <= Hits(b.technologies, A)
  /\ a.years = b.years /\ a.place = b.place /\ a.preference = b.preference
  /\ a.semantic = b.semantic

LEMMA EvaluateMono ==
  ASSUME NEW Names, NEW a \in Candidates(Names), NEW b \in Candidates(Names),
         NEW config \in Configurations(Names), AtLeast(a, b)
  PROVE  /\ Evaluate(a, config).overall \in Int
         /\ Evaluate(a, config).overall <= Evaluate(b, config).overall
<1> DEFINE want == config.requirements
           before == Scored(a, config)
           after == Scored(b, config)
<1>1. /\ want.mandatory \in Seq(Names) /\ want.preferred \in Seq(Names)
      /\ want.education \in EducationWanted /\ config.weights \in [Dimensions -> Nat]
      /\ a.technologies \in Seq(SUBSET Names) /\ b.technologies \in Seq(SUBSET Names)
      /\ a.projects \in Nat /\ b.projects \in Nat
      /\ a.degrees \in SUBSET (0..6) /\ b.degrees \in SUBSET (0..6)
  BY DEF Candidates, Configurations
<1>2. before \in [Dimensions -> Int] /\ after \in [Dimensions -> Int]
  BY ScoredInt
<1>3. before.skill <= after.skill
  BY <1>1, SkillMono DEF Scored, AtLeast
<1>4. before.education <= after.education
  BY <1>1, EducationMono DEF Scored, AtLeast
<1>5. before.project <= after.project
  BY <1>1, ProjectMono DEF Scored, AtLeast
<1>6. /\ before.experience = after.experience /\ before.certification = after.certification
      /\ before.location = after.location /\ before.employment_type = after.employment_type
      /\ before.semantic = after.semantic
  BY DEF Scored, AtLeast
<1> HIDE DEF before, after
<1>7. ASSUME NEW d \in Dimensions PROVE before[d] <= after[d]
  BY <1>2, <1>3, <1>4, <1>5, <1>6 DEF Dimensions
<1>8. /\ OverallScore(before, config.weights) \in Int
      /\ OverallScore(before, config.weights) <= OverallScore(after, config.weights)
  BY <1>1, <1>2, <1>7, OverallMono
<1> QED BY <1>8, OverallIs DEF before, after

----------------------------------------------------------------------------
\* What candidates learn is never held against them.

LEMMA GrownIsMore ==
  ASSUME NEW Names, NEW a \in Candidates(Names),
         NEW skills \in SUBSET Names, NEW more \in Grown(a, skills)
  PROVE  more \in Candidates(Names) /\ AtLeast(a, more)
<1>1. /\ a.technologies \in Seq(SUBSET Names) /\ a.projects \in Nat /\ a.has \in SUBSET Names
      /\ a.degrees \in SUBSET (0..6)
  BY DEF Candidates
<1>2. \A A : Hits(a.technologies, A) <= Hits(a.technologies, A)
  BY <1>1, HitsSame
<1>3. ASSUME NEW s \in skills
      PROVE  LET b == [a EXCEPT !.has = @ \cup {s}] IN b \in Candidates(Names) /\ AtLeast(a, b)
  <2> DEFINE b == [a EXCEPT !.has = @ \cup {s}]
  <2>1. a.has \cup {s} \in SUBSET Names
    BY <1>1
  <2>2. b \in Candidates(Names)
    BY <2>1, Zenon DEF Candidates
  <2>3. /\ b.has = a.has \cup {s} /\ b.degrees = a.degrees /\ b.projects = a.projects
        /\ b.technologies = a.technologies /\ b.years = a.years /\ b.place = a.place
        /\ b.preference = a.preference /\ b.semantic = a.semantic
    BY DEF Candidates
  <2> HIDE DEF b
  <2>4. AtLeast(a, b)
    BY <1>1, <1>2, <2>3 DEF AtLeast
  <2> QED BY <2>2, <2>4 DEF b
<1>4. ASSUME NEW d \in {4, 6}
      PROVE  LET b == [a EXCEPT !.degrees = @ \cup {d}] IN b \in Candidates(Names) /\ AtLeast(a, b)
  <2> DEFINE b == [a EXCEPT !.degrees = @ \cup {d}]
  <2>1. a.degrees \cup {d} \in SUBSET (0..6)
    BY <1>1
  <2>2. b \in Candidates(Names)
    BY <2>1, Zenon DEF Candidates
  <2>3. /\ b.has = a.has /\ b.degrees = a.degrees \cup {d} /\ b.projects = a.projects
        /\ b.technologies = a.technologies /\ b.years = a.years /\ b.place = a.place
        /\ b.preference = a.preference /\ b.semantic = a.semantic
    BY DEF Candidates
  <2> HIDE DEF b
  <2>4. AtLeast(a, b)
    BY <1>1, <1>2, <2>3 DEF AtLeast
  <2> QED BY <2>2, <2>4 DEF b
<1>5. ASSUME NEW t \in {<<>>, <<{}>>} \cup {<<{s}>> : s \in skills}
      PROVE  LET b == [a EXCEPT !.projects = @ + 1, !.technologies = @ \o t]
             IN b \in Candidates(Names) /\ AtLeast(a, b)
  <2> DEFINE b == [a EXCEPT !.projects = @ + 1, !.technologies = @ \o t]
  <2>1. /\ a.technologies \o t \in Seq(SUBSET Names) /\ a.projects + 1 \in Nat
        /\ a.technologies \o t = <<>> => a.technologies = <<>>
        /\ \A A : Hits(a.technologies, A) <= Hits(a.technologies \o t, A)
    <3>1. CASE t = <<>>
      <4>1. a.technologies \o t = a.technologies
        BY <1>1, <3>1
      <4> QED BY <1>1, <1>2, <4>1
    <3>2. ASSUME NEW s \in {{}} \cup {{x} : x \in skills}, t = <<s>>
          PROVE  /\ a.technologies \o t \in Seq(SUBSET Names) /\ a.projects + 1 \in Nat
                 /\ a.technologies \o t = <<>> => a.technologies = <<>>
                 /\ \A A : Hits(a.technologies, A) <= Hits(a.technologies \o t, A)
      <4>1. s \in SUBSET Names
        OBVIOUS
      <4>2. ASSUME NEW u \in Seq(SUBSET Names)
            PROVE  u \o <<s>> = Append(u, s) /\ u \o <<s>> \in Seq(SUBSET Names) /\ u \o <<s>> # <<>>
        BY <4>1
      <4>3. /\ a.technologies \o t = Append(a.technologies, s)
            /\ a.technologies \o t \in Seq(SUBSET Names) /\ a.technologies \o t # <<>>
        BY <1>1, <3>2, <4>2
      <4>4. \A A : Hits(a.technologies, A) <= Hits(Append(a.technologies, s), A)
        BY <1>1, <4>1, HitsAppended
      <4> QED BY <1>1, <4>3, <4>4
    <3> QED BY <3>1, <3>2
  <2>2. b \in Candidates(Names)
    BY <2>1, Zenon DEF Candidates
  <2>3. /\ b.has = a.has /\ b.degrees = a.degrees /\ b.projects = a.projects + 1
        /\ b.technologies = a.technologies \o t /\ b.years = a.years /\ b.place = a.place
        /\ b.preference = a.preference /\ b.semantic = a.semantic
    BY DEF Candidates
  <2> HIDE DEF b
  <2>4. AtLeast(a, b)
    BY <1>1, <2>1, <2>3 DEF AtLeast
  <2> QED BY <2>2, <2>4 DEF b
<1> QED BY <1>3, <1>4, <1>5, Zenon DEF Grown

\* What the evaluation of a simulation is given.
Pooled(Names) ==
  [kind : {"simulation"}, skills : SUBSET Names, candidates : Seq(Candidates(Names)),
   baseline : Configurations(Names), simulation : Configurations(Names)]

\* With one more skill, degree or project no candidate of a simulation gets a lower
\* score or loses a rank, however many candidates, skills and weights it has.
THEOREM LearningHelpsHolds ==
  ASSUME NEW Names, Is("simulation") => subject \in Pooled(Names)
  PROVE  LearningHelps
<1> SUFFICES ASSUME subject \in Pooled(Names), NEW c \in DOMAIN subject.candidates,
                    NEW better \in Grown(subject.candidates[c], subject.skills)
             PROVE  LET Points(candidate) == Evaluate(candidate, subject.simulation).overall
                        before == [d \in DOMAIN subject.candidates |-> Points(subject.candidates[d])]
                        after == [before EXCEPT ![c] = Points(better)]
                    IN after[c] >= before[c] /\ Rank(after, c) <= Rank(before, c)
  BY Zenon DEF LearningHelps
<1> DEFINE Points(candidate) == Evaluate(candidate, subject.simulation).overall
           before == [d \in DOMAIN subject.candidates |-> Points(subject.candidates[d])]
           after == [before EXCEPT ![c] = Points(better)]
           n == Len(subject.candidates)
<1>1. /\ subject.candidates \in Seq(Candidates(Names)) /\ n \in Nat
      /\ DOMAIN subject.candidates = 1..n
      /\ subject.simulation \in Configurations(Names) /\ subject.skills \in SUBSET Names
      /\ \A d \in 1..n : subject.candidates[d] \in Candidates(Names)
  BY DEF Pooled
<1>2. better \in Candidates(Names) /\ AtLeast(subject.candidates[c], better)
  BY <1>1, GrownIsMore
<1>3. Points(subject.candidates[c]) <= Points(better)
  BY <1>1, <1>2, EvaluateMono
<1>4. ASSUME NEW a \in Candidates(Names) PROVE AtLeast(a, a)
  <2>1. a.technologies \in Seq(SUBSET Names) /\ a.projects \in Nat
    BY DEF Candidates
  <2>2. \A A : Hits(a.technologies, A) <= Hits(a.technologies, A)
    BY <2>1, HitsSame
  <2> QED BY <2>1, <2>2 DEF AtLeast
<1>5. \A a \in Candidates(Names) : Points(a) \in Int
  BY <1>1, <1>4, EvaluateMono
<1> HIDE DEF Points
<1>6. /\ before \in [1..n -> Int] /\ before[c] = Points(subject.candidates[c])
      /\ after[c] = Points(better)
  BY <1>1, <1>5
<1>7. Points(better) \in Int /\ c \in 1..n
  BY <1>1, <1>2, <1>5
<1> HIDE DEF before, n
<1>8. Rank(after, c) <= Rank(before, c)
  <2>1. before[c] <= Points(better) /\ n \in Nat
    BY <1>1, <1>3, <1>6
  <2> QED BY <1>6, <1>7, <2>1, RankMono, Zenon
<1>9. before[c] \in Int
  BY <1>6, <1>7
<1>10. after[c] >= before[c]
  BY <1>3, <1>6, <1>7, <1>9
<1> QED BY <1>8, <1>10, Zenon DEF before, Points

----------------------------------------------------------------------------
\* The reports of changes agree.

\* What half a row says of the skills of a candidate who has some.
TellsSkills(half, config, has) ==
  LET mandatory == Elements(config.requirements.mandatory)
      preferred == Elements(config.requirements.preferred)
  IN /\ half.matched = IF mandatory \cup preferred = {} THEN has
                       ELSE has \cap (mandatory \cup preferred)
     /\ half.missingRequired = mandatory \ has
     /\ half.missingPreferred = preferred \ has

LEMMA SkillsOfRows ==
  ASSUME NEW candidates, NEW baseline, NEW simulation, NEW c \in DOMAIN candidates
  PROVE  /\ TellsSkills(ResultRows(candidates, baseline, simulation)[c].baseline, baseline,
                        candidates[c].has)
         /\ TellsSkills(ResultRows(candidates, baseline, simulation)[c].simulation, simulation,
                        candidates[c].has)
BY DEF ResultRows, Evaluate, Elements, TellsSkills

\* A configuration without issues asks for no skill twice.
LEMMA NotFlawed ==
  ASSUME NEW config, Issues(config) = {}
  PROVE  ~ Flawed(config, "mandatory") /\ ~ Flawed(config, "preferred") /\ ~ Flawed(config, "overlap")
BY Zenon DEF Issues

LEMMA NoOverlap ==
  ASSUME NEW config, Issues(config) = {}
  PROVE  SkillsIn(config.requirements.mandatory) \cap SkillsIn(config.requirements.preferred) = {}
<1>1. ~ Flawed(config, "overlap")
  BY NotFlawed
<1> QED BY <1>1 DEF Flawed

\* Nor twice in one list.
LEMMA NoRepeats ==
  ASSUME NEW config, Issues(config) = {}
  PROVE  /\ Cardinality(SkillsIn(config.requirements.mandatory)) = Len(config.requirements.mandatory)
         /\ Cardinality(SkillsIn(config.requirements.preferred)) = Len(config.requirements.preferred)
<1>1. ~ Flawed(config, "mandatory") /\ ~ Flawed(config, "preferred")
  BY NotFlawed
<1> QED BY <1>1 DEF Flawed

\* The name by which a list has a skill.
LEMMA NamedIs ==
  ASSUME NEW X, NEW list \in Seq(X), NEW k \in SkillsIn(list)
  PROVE  Named(list, k) \in Elements(list) /\ Canonical(Named(list, k)) = k
<1> DEFINE n == Len(list)
           I == {i \in DOMAIN list : Canonical(list[i]) = k}
           D == {n - i : i \in I}
           last == CHOOSE i \in DOMAIN list :
                     /\ Canonical(list[i]) = k
                     /\ \A j \in DOMAIN list : Canonical(list[j]) = k => j <= i
<1>1. n \in Nat /\ DOMAIN list = 1..n /\ I \subseteq 1..n
  OBVIOUS
<1>2. I # {}
  BY DEF SkillsIn
<1> HIDE DEF n
<1>3. D \in SUBSET Nat /\ D # {}
  BY <1>1, <1>2
<1>4. PICK m \in D : \A d \in D : m <= d
  BY <1>3, LeastOf
<1>5. PICK i \in I : m = n - i
  BY <1>4
<1>6. ASSUME NEW j \in I PROVE j <= i
  <2>1. n - j \in D
    OBVIOUS
  <2>2. n - i <= n - j
    BY <1>4, <1>5, <2>1
  <2> QED BY <1>1, <2>2
<1>7. \E x \in DOMAIN list : /\ Canonical(list[x]) = k
                             /\ \A j \in DOMAIN list : Canonical(list[j]) = k => j <= x
  BY <1>6
<1>8. last \in DOMAIN list /\ Canonical(list[last]) = k
  BY <1>7, Zenon
<1>9. Named(list, k) = list[last]
  BY Zenon DEF Named
<1> HIDE DEF last
<1> QED BY <1>8, <1>9, Zenon DEF Elements

\* A list without repetitions has one name of a skill.
LEMMA OneName ==
  ASSUME NEW X, NEW list \in Seq(X), Cardinality(SkillsIn(list)) = Len(list),
         NEW x \in Elements(list), NEW y \in Elements(list), Canonical(x) = Canonical(y)
  PROVE  x = y
<1> DEFINE f == [i \in DOMAIN list |-> Canonical(list[i])]
<1>1. Len(list) \in Nat /\ DOMAIN list = 1..Len(list)
  OBVIOUS
<1>2. IsFiniteSet(DOMAIN list) /\ Cardinality(DOMAIN list) = Len(list)
  <2> DEFINE n == Len(list)
  <2> HIDE DEF n
  <2>1. n \in Nat
    BY <1>1 DEF n
  <2>2. IsFiniteSet(1..n) /\ Cardinality(1..n) = IF 1 > n THEN 0 ELSE n - 1 + 1
    <3>1. n \in Int /\ 1 \in Int
      BY <2>1
    <3> QED BY <3>1, FS_Interval, Zenon
  <2>3. Cardinality(1..n) = n
    BY <2>1, <2>2
  <2> QED BY <1>1, <2>2, <2>3, Zenon DEF n
<1>3. f \in Surjection(DOMAIN list, SkillsIn(list))
  <2>1. f \in [DOMAIN list -> SkillsIn(list)]
    BY DEF SkillsIn
  <2>2. \A k \in SkillsIn(list) : \E i \in DOMAIN list : f[i] = k
    BY DEF SkillsIn
  <2> HIDE DEF f
  <2> QED BY <2>1, <2>2, Zenon DEF Surjection
<1>4. f \in Injection(DOMAIN list, SkillsIn(list))
  BY <1>2, <1>3, FS_Surjection
<1>5. \A i, j \in DOMAIN list : f[i] = f[j] => i = j
  BY <1>4 DEF Injection, IsInjective
<1>6. \A i, j \in DOMAIN list : Canonical(list[i]) = Canonical(list[j]) => i = j
  BY <1>5
<1> QED BY <1>6 DEF Elements

\* A configuration without issues has one name of a skill.
LEMMA OnlyName ==
  ASSUME NEW X, NEW config, Issues(config) = {}, config.requirements.mandatory \in Seq(X),
         config.requirements.preferred \in Seq(X),
         NEW x \in NamesAskedFor(config), NEW y \in NamesAskedFor(config), Canonical(x) = Canonical(y)
  PROVE  x = y
<1> DEFINE m == config.requirements.mandatory
           p == config.requirements.preferred
<1>1. /\ Cardinality(SkillsIn(m)) = Len(m) /\ Cardinality(SkillsIn(p)) = Len(p)
      /\ SkillsIn(m) \cap SkillsIn(p) = {}
  BY NoRepeats, NoOverlap
<1>2. ASSUME NEW list, NEW z \in Elements(list) PROVE Canonical(z) \in SkillsIn(list)
  BY DEF Elements, SkillsIn
<1>3. x \in Elements(m) \/ x \in Elements(p)
  BY DEF NamesAskedFor
<1>4. y \in Elements(m) \/ y \in Elements(p)
  BY DEF NamesAskedFor
<1>5. CASE x \in Elements(m) /\ y \in Elements(m)
  BY <1>1, <1>5, OneName, Zenon
<1>6. CASE x \in Elements(p) /\ y \in Elements(p)
  BY <1>1, <1>6, OneName, Zenon
<1> HIDE DEF m, p
<1>7. ~ (x \in Elements(m) /\ y \in Elements(p)) /\ ~ (x \in Elements(p) /\ y \in Elements(m))
  BY <1>1, <1>2
<1> QED BY <1>3, <1>4, <1>5, <1>6, <1>7, Zenon

\* What a side says of a skill that it asks for, and of one that it does not.
LEMMA SatisfiedIs ==
  ASSUME NEW half, NEW config, NEW has, TellsSkills(half, config, has), NEW name,
         NEW mandatory \in BOOLEAN,
         NEW b \in Elements(IF mandatory THEN config.requirements.mandatory
                            ELSE config.requirements.preferred),
         Canonical(b) = Canonical(name),
         \A x \in NamesAskedFor(config) : Canonical(x) = Canonical(b) => x = b
  PROVE  SkillSatisfied(half, name, mandatory) <=> b \in has
<1> DEFINE list == Elements(IF mandatory THEN config.requirements.mandatory
                            ELSE config.requirements.preferred)
           asked == NamesAskedFor(config)
<1>1. b \in list /\ list \subseteq asked
  BY DEF NamesAskedFor
<1>2. half.matched = has \cap asked
  BY <1>1 DEF TellsSkills, NamesAskedFor
<1>3. (IF mandatory THEN half.missingRequired ELSE half.missingPreferred) = list \ has
  BY DEF TellsSkills
<1>4. SkillSatisfied(half, name, mandatory)
        <=> \/ \E s \in has \cap asked : Canonical(s) = Canonical(name)
            \/ \A s \in list \ has : Canonical(s) # Canonical(name)
  BY <1>2, <1>3, Zenon DEF SkillSatisfied
<1> HIDE DEF list, asked
<1>5. \A x \in asked : Canonical(x) = Canonical(name) => x = b
  BY DEF asked
<1> QED BY <1>1, <1>4, <1>5

LEMMA SatisfiedElse ==
  ASSUME NEW half, NEW config, NEW has, TellsSkills(half, config, has), NEW name,
         Canonical(name) \notin SkillsIn(config.requirements.preferred)
  PROVE  SkillSatisfied(half, name, FALSE)
<1>1. half.missingPreferred \subseteq Elements(config.requirements.preferred)
  BY DEF TellsSkills
<1>2. \A s \in half.missingPreferred : Canonical(s) # Canonical(name)
  BY <1>1 DEF Elements, SkillsIn
<1> QED BY <1>2, Zenon DEF SkillSatisfied

\* Of any two configurations without issues both reports tell of the same skills by the
\* same names, and no candidate whom the second counts as affected by a skill was asked
\* for it by that name, nor matches it, but for one who lacks another name that the
\* baseline preferred.
THEOREM ReportsAgreeHolds ==
  ASSUME NEW Names, Is("simulation") => subject \in Pooled(Names)
  PROVE  ReportsAgree
<1> DEFINE turned(c) ==
             Affecting(ResultRows(subject.candidates, subject.baseline, subject.simulation)[c],
                       subject.candidates[c], subject.baseline, subject.simulation)
<1> SUFFICES ASSUME subject \in Pooled(Names), Issues(subject.simulation) = {},
                    Issues(subject.baseline) = {}
             PROVE  /\ DiffSkills(subject.baseline, subject.simulation)
                         = IdentifySkillChanges(subject.baseline, subject.simulation)
                    /\ \A c \in DOMAIN subject.candidates : \A change \in turned(c).skills :
                         /\ change.name \notin NamesAskedFor(subject.baseline)
                         /\ change.name \in subject.candidates[c].has =>
                              \E name \in Elements(subject.baseline.requirements.preferred)
                                            \ subject.candidates[c].has :
                                Canonical(name) = Canonical(change.name)
  BY Zenon DEF ReportsAgree
<1> DEFINE before == subject.baseline.requirements
           after == subject.simulation.requirements
           bm == SkillsIn(before.mandatory)
           bp == SkillsIn(before.preferred)
           sm == SkillsIn(after.mandatory)
           sp == SkillsIn(after.preferred)
           Anew(m, p, skills) ==
             {s \in skills : s \in SkillsIn(m) => Lowered(Named(m, s)) # Lowered(Named(p, s))}
<1>1. bm \cap bp = {} /\ sm \cap sp = {}
  BY NoOverlap
<1>2. /\ before.mandatory \in Seq(Names) /\ before.preferred \in Seq(Names)
      /\ after.mandatory \in Seq(Names) /\ after.preferred \in Seq(Names)
  BY DEF Pooled, Configurations
<1>3. /\ Anew(after.mandatory, after.preferred, sp \ (bm \cup bp)) = sp \ (bp \cup bm)
      /\ Anew(before.mandatory, before.preferred, bp \ (sm \cup sp)) = bp \ (sp \cup sm)
  <2>1. ASSUME NEW m, NEW p, NEW skills, skills \cap SkillsIn(m) = {} PROVE Anew(m, p, skills) = skills
    BY <2>1
  <2>2. /\ (sp \ (bm \cup bp)) \cap sm = {} /\ (bp \ (sm \cup sp)) \cap bm = {}
        /\ sp \ (bm \cup bp) = sp \ (bp \cup bm) /\ bp \ (sm \cup sp) = bp \ (sp \cup sm)
    BY <1>1
  <2> HIDE DEF Anew
  <2> QED BY <2>1, <2>2, Zenon
<1>4. IdentifySkillChanges(subject.baseline, subject.simulation)
        = Move(after.mandatory, sm \ (bm \cup bp), "none", "mandatory")
          \cup Move(before.mandatory, bm \ (sm \cup sp), "mandatory", "none")
          \cup Move(after.mandatory, (sm \cap bp) \ bm, "preferred", "mandatory")
          \cup Move(after.preferred, (sp \cap bm) \ bp, "mandatory", "preferred")
          \cup Move(after.preferred, Anew(after.mandatory, after.preferred, sp \ (bm \cup bp)),
                    "none", "preferred")
          \cup Move(before.preferred, Anew(before.mandatory, before.preferred, bp \ (sm \cup sp)),
                    "preferred", "none")
  BY Zenon DEF IdentifySkillChanges
<1>5. DiffSkills(subject.baseline, subject.simulation)
        = IdentifySkillChanges(subject.baseline, subject.simulation)
  <2>1. (sp \cap bm) \ sm = (sp \cap bm) \ bp /\ (sm \cap bp) \ sp = (sm \cap bp) \ bm
    BY <1>1
  <2>2. DiffSkills(subject.baseline, subject.simulation)
          = Move(after.mandatory, sm \ (bm \cup bp), "none", "mandatory")
            \cup Move(before.mandatory, bm \ (sm \cup sp), "mandatory", "none")
            \cup Move(after.preferred, sp \ (bp \cup bm), "none", "preferred")
            \cup Move(before.preferred, bp \ (sp \cup sm), "preferred", "none")
            \cup Move(after.preferred, (sp \cap bm) \ sm, "mandatory", "preferred")
            \cup Move(after.mandatory, (sm \cap bp) \ sp, "preferred", "mandatory")
    BY Zenon DEF DiffSkills
  <2> HIDE DEF before, after, bm, bp, sm, sp, Anew
  <2> QED BY <1>3, <1>4, <2>1, <2>2
<1>6. ASSUME NEW c \in DOMAIN subject.candidates, NEW change \in turned(c).skills
      PROVE  /\ change.name \notin NamesAskedFor(subject.baseline)
             /\ change.name \in subject.candidates[c].has =>
                  \E name \in Elements(before.preferred) \ subject.candidates[c].has :
                    Canonical(name) = Canonical(change.name)
  <2> DEFINE row == ResultRows(subject.candidates, subject.baseline, subject.simulation)[c]
             has == subject.candidates[c].has
             name == change.name
             inBase == name \in Elements(before.mandatory)
             inSim == name \in Elements(after.mandatory)
             was == SkillSatisfied(row.baseline, name, inBase)
             is == SkillSatisfied(row.simulation, name, inSim)
  <2>1. /\ TellsSkills(row.baseline, subject.baseline, has)
        /\ TellsSkills(row.simulation, subject.simulation, has)
    BY SkillsOfRows, Zenon
  <2>2. /\ change \in IdentifySkillChanges(subject.baseline, subject.simulation)
        /\ change.to # "none" /\ was # is
    BY <1>6, Zenon DEF Affecting
  <2>3. ASSUME NEW list \in Seq(Names), NEW skills, skills \subseteq SkillsIn(list),
               NEW from, NEW to, NEW m \in Move(list, skills, from, to)
        PROVE  m.name \in Elements(list) /\ Canonical(m.name) \in skills /\ m.to = to
    <3>1. PICK k \in skills : m = [name |-> Named(list, k), from |-> from, to |-> to]
      BY Zenon DEF Move
    <3>2. Named(list, k) \in Elements(list) /\ Canonical(Named(list, k)) = k
      BY <2>3, NamedIs
    <3> QED BY <3>1, <3>2
  <2>4. /\ sm \ (bm \cup bp) \subseteq SkillsIn(after.mandatory)
        /\ (sm \cap bp) \ bm \subseteq SkillsIn(after.mandatory)
        /\ (sp \cap bm) \ bp \subseteq SkillsIn(after.preferred)
        /\ sp \ (bp \cup bm) \subseteq SkillsIn(after.preferred)
        /\ bm \ (sm \cup sp) \subseteq SkillsIn(before.mandatory)
        /\ bp \ (sp \cup sm) \subseteq SkillsIn(before.preferred)
    OBVIOUS
  <2> HIDE DEF before, after, bm, bp, sm, sp, Anew
  <2>5. \/ name \in Elements(after.mandatory) /\ Canonical(name) \in sm \ (bm \cup bp)
        \/ name \in Elements(after.mandatory) /\ Canonical(name) \in (sm \cap bp) \ bm
        \/ name \in Elements(after.preferred) /\ Canonical(name) \in (sp \cap bm) \ bp
        \/ name \in Elements(after.preferred) /\ Canonical(name) \in sp \ (bp \cup bm)
    <3>1. \/ change \in Move(after.mandatory, sm \ (bm \cup bp), "none", "mandatory")
          \/ change \in Move(before.mandatory, bm \ (sm \cup sp), "mandatory", "none")
          \/ change \in Move(after.mandatory, (sm \cap bp) \ bm, "preferred", "mandatory")
          \/ change \in Move(after.preferred, (sp \cap bm) \ bp, "mandatory", "preferred")
          \/ change \in Move(after.preferred, sp \ (bp \cup bm), "none", "preferred")
          \/ change \in Move(before.preferred, bp \ (sp \cup sm), "preferred", "none")
      <4> HIDE DEF Anew
      <4> QED BY <1>3, <1>4, <2>2
    <3>2. CASE change \in Move(after.mandatory, sm \ (bm \cup bp), "none", "mandatory")
      BY <1>2, <2>3, <2>4, <3>2
    <3>3. CASE change \in Move(before.mandatory, bm \ (sm \cup sp), "mandatory", "none")
      BY <1>2, <2>2, <2>3, <2>4, <3>3
    <3>4. CASE change \in Move(after.mandatory, (sm \cap bp) \ bm, "preferred", "mandatory")
      BY <1>2, <2>3, <2>4, <3>4
    <3>5. CASE change \in Move(after.preferred, (sp \cap bm) \ bp, "mandatory", "preferred")
      BY <1>2, <2>3, <2>4, <3>5
    <3>6. CASE change \in Move(after.preferred, sp \ (bp \cup bm), "none", "preferred")
      BY <1>2, <2>3, <2>4, <3>6
    <3>7. CASE change \in Move(before.preferred, bp \ (sp \cup sm), "preferred", "none")
      BY <1>2, <2>2, <2>3, <2>4, <3>7
    <3> QED BY <3>1, <3>2, <3>3, <3>4, <3>5, <3>6, <3>7, Zenon
  <2> USE DEF before, after, bm, bp, sm, sp, Anew
  <2>6. ASSUME NEW list, NEW z \in Elements(list) PROVE Canonical(z) \in SkillsIn(list)
    BY DEF Elements, SkillsIn
  <2>7. ASSUME NEW config \in {subject.baseline, subject.simulation},
               NEW x \in NamesAskedFor(config), NEW y \in NamesAskedFor(config),
               Canonical(x) = Canonical(y)
        PROVE  x = y
    <3>1. /\ Issues(config) = {} /\ config.requirements.mandatory \in Seq(Names)
          /\ config.requirements.preferred \in Seq(Names)
      BY <1>2
    <3> QED BY <2>7, <3>1, OnlyName, Zenon
  <2>8. /\ NamesAskedFor(subject.baseline) = Elements(before.mandatory) \cup Elements(before.preferred)
        /\ NamesAskedFor(subject.simulation) = Elements(after.mandatory) \cup Elements(after.preferred)
    BY Zenon DEF NamesAskedFor
  <2>9. is <=> name \in has
    <3>1. CASE inSim
      <4>1. name \in Elements(IF TRUE THEN after.mandatory ELSE after.preferred)
        BY <3>1
      <4>2. \A x \in NamesAskedFor(subject.simulation) : Canonical(x) = Canonical(name) => x = name
        BY <2>7, <2>8, <3>1
      <4>3. SkillSatisfied(row.simulation, name, TRUE) <=> name \in has
        <5> HIDE DEF row, has
        <5> QED BY <2>1, <4>1, <4>2, SatisfiedIs, Zenon
      <4> QED BY <3>1, <4>3, Zenon
    <3>2. CASE ~ inSim
      <4>1. name \in Elements(after.preferred)
        BY <2>5, <3>2, Zenon
      <4>2. name \in Elements(IF FALSE THEN after.mandatory ELSE after.preferred)
        BY <4>1
      <4>3. \A x \in NamesAskedFor(subject.simulation) : Canonical(x) = Canonical(name) => x = name
        BY <2>7, <2>8, <4>1
      <4>4. SkillSatisfied(row.simulation, name, FALSE) <=> name \in has
        <5> HIDE DEF row, has
        <5> QED BY <2>1, <4>2, <4>3, SatisfiedIs, Zenon
      <4>5. inSim = FALSE
        BY <3>2
      <4> QED BY <4>4, <4>5, Zenon
    <3> QED BY <3>1, <3>2, Zenon
  <2>10. ASSUME Canonical(name) \notin bp, ~ inBase PROVE was
    <3>1. SkillSatisfied(row.baseline, name, FALSE)
      <4> HIDE DEF row, has
      <4> QED BY <2>1, <2>10, SatisfiedElse, Zenon
    <3>2. inBase = FALSE
      BY <2>10
    <3> QED BY <3>1, <3>2, Zenon
  <2>11. ASSUME NEW b \in Elements(before.preferred), Canonical(b) = Canonical(name), ~ inBase
         PROVE  was <=> b \in has
    <3>1. b \in Elements(IF FALSE THEN before.mandatory ELSE before.preferred)
      OBVIOUS
    <3>2. \A x \in NamesAskedFor(subject.baseline) : Canonical(x) = Canonical(b) => x = b
      BY <2>7, <2>8
    <3>3. SkillSatisfied(row.baseline, name, FALSE) <=> b \in has
      <4> HIDE DEF row, has
      <4> QED BY <2>1, <2>11, <3>1, <3>2, SatisfiedIs, Zenon
    <3>4. inBase = FALSE
      BY <2>11
    <3> QED BY <3>3, <3>4, Zenon
  <2>12. ASSUME inBase PROVE was <=> name \in has
    <3>1. name \in Elements(IF TRUE THEN before.mandatory ELSE before.preferred)
      BY <2>12
    <3>2. \A x \in NamesAskedFor(subject.baseline) : Canonical(x) = Canonical(name) => x = name
      BY <2>7, <2>8, <2>12
    <3>3. SkillSatisfied(row.baseline, name, TRUE) <=> name \in has
      <4> HIDE DEF row, has
      <4> QED BY <2>1, <3>1, <3>2, SatisfiedIs, Zenon
    <3> QED BY <2>12, <3>3, Zenon
  <2>13. was \in BOOLEAN /\ is \in BOOLEAN
    BY Zenon DEF SkillSatisfied
  <2>14. (was => is) => ~ (is => was)
    <3> HIDE DEF was, is
    <3> QED BY <2>2, <2>13
  <2>15. ASSUME NEW b \in Elements(before.preferred), Canonical(b) = Canonical(name), ~ inBase
         PROVE  was <=> b \in has
    BY <2>11, <2>15, Zenon
  <2>16. ~ inBase
    BY <2>9, <2>12, <2>14, Zenon
  <2>17. name \notin Elements(before.preferred)
    BY <2>9, <2>14, <2>15, <2>16, Zenon
  <2>18. CASE Canonical(name) \in bp
    <3>1. PICK b \in Elements(before.preferred) : Canonical(b) = Canonical(name)
      BY <2>18 DEF SkillsIn, Elements
    <3>2. was <=> b \in has
      BY <2>15, <2>16, <3>1, Zenon
    <3>3. name \in has => b \in Elements(before.preferred) \ has
      BY <2>9, <2>14, <3>1, <3>2, Zenon
    <3> HIDE DEF was, is, inBase, has
    <3> QED BY <2>8, <2>16, <2>17, <3>1, <3>3 DEF inBase, has
  <2>19. CASE Canonical(name) \notin bp
    <3>1. was
      BY <2>10, <2>16, <2>19, Zenon
    <3>2. name \notin has
      BY <2>9, <2>14, <3>1, Zenon
    <3> HIDE DEF was, is, inBase, has
    <3> QED BY <2>8, <2>16, <2>17, <3>2 DEF inBase, has
  <2> QED BY <2>18, <2>19, Zenon
<1> QED BY <1>5, <1>6, Zenon

----------------------------------------------------------------------------
\* Lists of skills by what is in them.

LEMMA ElementsOfFront ==
  ASSUME NEW X, NEW n \in Nat, NEW s \in Seq(X), Len(s) = n + 1,
         NEW g \in Seq(X), Len(g) = n, \A i \in 1..n : g[i] = s[i]
  PROVE  Elements(s) = Elements(g) \cup {s[n + 1]}
<1>1. DOMAIN s = 1..n + 1 /\ DOMAIN g = 1..n /\ \A i \in 1..n + 1 : i \in 1..n \/ i = n + 1
  OBVIOUS
<1> QED BY <1>1 DEF Elements

LEMMA HitsOfFront ==
  ASSUME NEW X, NEW n \in Nat, NEW s \in Seq(X), Len(s) = n + 1,
         NEW g \in Seq(X), Len(g) = n, \A i \in 1..n : g[i] = s[i], NEW A
  PROVE  Hits(s, A) = Hits(g, A) + (IF s[n + 1] \in A THEN 1 ELSE 0)
<1> DEFINE ones(t) == [i \in DOMAIN t |-> IF t[i] \in A THEN 1 ELSE 0]
<1>1. ones(s) \in Seq(Int) /\ ones(g) \in Seq(Int) /\ Len(ones(s)) = n + 1 /\ Len(ones(g)) = n
  OBVIOUS
<1>2. \A i \in 1..n : ones(s)[i] = ones(g)[i]
  OBVIOUS
<1>3. ones(s)[n + 1] = IF s[n + 1] \in A THEN 1 ELSE 0
  OBVIOUS
<1> HIDE DEF ones
<1>4. SumOf(ones(s)) = SumOf(ones(g)) + ones(s)[n + 1]
  BY <1>1, <1>2, SumStep
<1> QED BY <1>3, <1>4, Zenon DEF Hits, ones

LEMMA ElementsFinite ==
  ASSUME NEW X
  PROVE  \A s \in Seq(X) : /\ IsFiniteSet(Elements(s)) /\ Cardinality(Elements(s)) \in Nat
                           /\ Cardinality(Elements(s)) <= Len(s)
<1> DEFINE S == {n \in Nat : \A s \in Seq(X) : Len(s) = n =>
                   /\ IsFiniteSet(Elements(s)) /\ Cardinality(Elements(s)) \in Nat
                   /\ Cardinality(Elements(s)) <= n}
<1>1. 0 \in S
  <2> SUFFICES ASSUME NEW s \in Seq(X), Len(s) = 0
               PROVE  /\ IsFiniteSet(Elements(s)) /\ Cardinality(Elements(s)) \in Nat
                      /\ Cardinality(Elements(s)) <= 0
    OBVIOUS
  <2>1. Elements(s) = {}
    BY DEF Elements
  <2>2. IsFiniteSet({}) /\ Cardinality({}) = 0
    BY FS_EmptySet
  <2> QED BY <2>1, <2>2
<1>2. ASSUME NEW n \in S PROVE n + 1 \in S
  <2> SUFFICES ASSUME NEW s \in Seq(X), Len(s) = n + 1
               PROVE  /\ IsFiniteSet(Elements(s)) /\ Cardinality(Elements(s)) \in Nat
                      /\ Cardinality(Elements(s)) <= n + 1
    OBVIOUS
  <2>1. n \in Nat
    OBVIOUS
  <2> HIDE DEF S
  <2>2. PICK g \in Seq(X) : Len(g) = n /\ \A i \in 1..n : g[i] = s[i]
    BY <2>1, FrontOf
  <2>3. /\ IsFiniteSet(Elements(g)) /\ Cardinality(Elements(g)) \in Nat
        /\ Cardinality(Elements(g)) <= n
    BY <1>2, <2>2 DEF S
  <2>4. Elements(s) = Elements(g) \cup {s[n + 1]}
    BY <2>1, <2>2, ElementsOfFront
  <2>5. /\ IsFiniteSet(Elements(s))
        /\ Cardinality(Elements(s)) = IF s[n + 1] \in Elements(g) THEN Cardinality(Elements(g))
                                      ELSE Cardinality(Elements(g)) + 1
    <3> DEFINE x == s[n + 1]
    <3>1. /\ IsFiniteSet(Elements(g) \cup {x})
          /\ Cardinality(Elements(g) \cup {x}) = IF x \in Elements(g) THEN Cardinality(Elements(g))
                                                 ELSE Cardinality(Elements(g)) + 1
      BY <2>3, FS_AddElement, Zenon
    <3> QED BY <2>4, <3>1, Zenon
  <2> QED BY <2>1, <2>3, <2>5
<1>3. S = Nat
  <2> HIDE DEF S
  <2>1. S \subseteq Nat
    BY DEF S
  <2> QED BY <1>1, <1>2, <2>1, Inductive
<1>4. \A s \in Seq(X) : Len(s) \in Nat
  OBVIOUS
<1> QED BY <1>3, <1>4

\* In a list without repetitions as many elements hit a set as they have in common.
LEMMA HitsAre ==
  ASSUME NEW X, NEW A
  PROVE  \A s \in Seq(X) : Cardinality(Elements(s)) = Len(s) =>
           Hits(s, A) = Cardinality(Elements(s) \cap A)
<1> DEFINE S == {n \in Nat : \A s \in Seq(X) : Len(s) = n /\ Cardinality(Elements(s)) = n =>
                   Hits(s, A) = Cardinality(Elements(s) \cap A)}
<1>1. 0 \in S
  <2> SUFFICES ASSUME NEW s \in Seq(X),
                      Len(s) = 0 PROVE Hits(s, A) = Cardinality(Elements(s) \cap A)
    OBVIOUS
  <2>1. Elements(s) \cap A = {}
    BY DEF Elements
  <2> DEFINE ones == [i \in DOMAIN s |-> IF s[i] \in A THEN 1 ELSE 0]
  <2>2. ones \in Seq(Int) /\ Len(ones) = 0
    OBVIOUS
  <2>3. SumOf(ones) = 0
    BY <2>2, SumInt
  <2>4. Hits(s, A) = 0
    BY <2>3, Zenon DEF Hits
  <2> QED BY <2>1, <2>4, FS_EmptySet
<1>2. ASSUME NEW n \in S PROVE n + 1 \in S
  <2> SUFFICES ASSUME NEW s \in Seq(X), Len(s) = n + 1, Cardinality(Elements(s)) = n + 1
               PROVE  Hits(s, A) = Cardinality(Elements(s) \cap A)
    OBVIOUS
  <2>1. n \in Nat
    OBVIOUS
  <2> HIDE DEF S
  <2>2. PICK g \in Seq(X) : Len(g) = n /\ \A i \in 1..n : g[i] = s[i]
    BY <2>1, FrontOf
  <2> DEFINE x == s[n + 1]
  <2>3. Elements(s) = Elements(g) \cup {x}
    BY <2>1, <2>2, ElementsOfFront
  <2>4. /\ IsFiniteSet(Elements(g)) /\ Cardinality(Elements(g)) \in Nat
        /\ Cardinality(Elements(g)) <= n
    BY <2>2, ElementsFinite
  <2>5. Hits(s, A) = Hits(g, A) + (IF x \in A THEN 1 ELSE 0)
    BY <2>1, <2>2, HitsOfFront
  <2> HIDE DEF x
  <2>6. x \notin Elements(g) /\ Cardinality(Elements(g)) = n
    <3>1. /\ IsFiniteSet(Elements(g) \cup {x})
          /\ Cardinality(Elements(g) \cup {x}) =
               IF x \in Elements(g) THEN Cardinality(Elements(g)) ELSE Cardinality(Elements(g)) + 1
      BY <2>4, FS_AddElement, Zenon
    <3> QED BY <2>1, <2>3, <2>4, <3>1
  <2>7. Hits(g, A) = Cardinality(Elements(g) \cap A)
    BY <1>2, <2>2, <2>6 DEF S
  <2>8. /\ IsFiniteSet(Elements(g) \cap A) /\ Cardinality(Elements(g) \cap A) \in Nat
    BY <2>4, FS_Intersection, FS_CardinalityType
  <2>9. CASE x \in A
    <3>1. Elements(s) \cap A = (Elements(g) \cap A) \cup {x} /\ x \notin Elements(g) \cap A
      BY <2>3, <2>6, <2>9
    <3>2. Cardinality(Elements(s) \cap A) = Cardinality(Elements(g) \cap A) + 1
      BY <2>8, <3>1, FS_AddElement, Zenon
    <3> QED BY <2>5, <2>7, <2>9, <3>2
  <2>10. CASE x \notin A
    <3>1. Elements(s) \cap A = Elements(g) \cap A
      BY <2>3, <2>10
    <3>2. Cardinality(Elements(s) \cap A) = Cardinality(Elements(g) \cap A)
      BY <3>1, Zenon
    <3> QED BY <2>5, <2>7, <2>8, <2>10, <3>2
  <2> QED BY <2>9, <2>10
<1>3. S = Nat
  <2> HIDE DEF S
  <2>1. S \subseteq Nat
    BY DEF S
  <2> QED BY <1>1, <1>2, <2>1, Inductive
<1>4. \A s \in Seq(X) : Len(s) \in Nat
  OBVIOUS
<1> QED BY <1>3, <1>4

\* Configurations whose difference is not reported ask for the same skills.
LEMMA SameSkills ==
  ASSUME NEW baseline, NEW scenario, Issues(baseline) = {}, Issues(scenario) = {},
         DiffSkills(baseline, scenario) = {}
  PROVE  /\ SkillsIn(baseline.requirements.mandatory) = SkillsIn(scenario.requirements.mandatory)
         /\ SkillsIn(baseline.requirements.preferred) = SkillsIn(scenario.requirements.preferred)
<1> DEFINE before == baseline.requirements
           after == scenario.requirements
           bm == SkillsIn(before.mandatory)
           bp == SkillsIn(before.preferred)
           sm == SkillsIn(after.mandatory)
           sp == SkillsIn(after.preferred)
<1>1. bm \cap bp = {} /\ sm \cap sp = {}
  BY NoOverlap
<1>2. ASSUME NEW list, NEW skills, NEW from, NEW to, Move(list, skills, from, to) = {}
      PROVE  skills = {}
  BY <1>2 DEF Move
<1>3. /\ Move(after.mandatory, sm \ (bm \cup bp), "none", "mandatory") = {}
      /\ Move(before.mandatory, bm \ (sm \cup sp), "mandatory", "none") = {}
      /\ Move(after.preferred, sp \ (bp \cup bm), "none", "preferred") = {}
      /\ Move(before.preferred, bp \ (sp \cup sm), "preferred", "none") = {}
      /\ Move(after.preferred, (sp \cap bm) \ sm, "mandatory", "preferred") = {}
      /\ Move(after.mandatory, (sm \cap bp) \ sp, "preferred", "mandatory") = {}
  <2>1. DiffSkills(baseline, scenario)
          = Move(after.mandatory, sm \ (bm \cup bp), "none", "mandatory")
            \cup Move(before.mandatory, bm \ (sm \cup sp), "mandatory", "none")
            \cup Move(after.preferred, sp \ (bp \cup bm), "none", "preferred")
            \cup Move(before.preferred, bp \ (sp \cup sm), "preferred", "none")
            \cup Move(after.preferred, (sp \cap bm) \ sm, "mandatory", "preferred")
            \cup Move(after.mandatory, (sm \cap bp) \ sp, "preferred", "mandatory")
    BY Zenon DEF DiffSkills
  <2> HIDE DEF before, after, bm, bp, sm, sp
  <2> QED BY <2>1
<1>4. /\ sm \ (bm \cup bp) = {} /\ bm \ (sm \cup sp) = {} /\ sp \ (bp \cup bm) = {}
      /\ bp \ (sp \cup sm) = {} /\ (sp \cap bm) \ sm = {} /\ (sm \cap bp) \ sp = {}
  BY <1>2, <1>3, Zenon
<1> HIDE DEF bm, bp, sm, sp
<1>5. bm = sm /\ bp = sp
  BY <1>1, <1>4
<1> QED BY <1>5 DEF bm, bp, sm, sp

\* The numbers that two configurations are scored by, when their skills and labels agree.
LEMMA Unreported ==
  ASSUME NEW Names, NEW baseline \in Configurations(Names),
         NEW scenario \in Configurations(Names),
         Structured(baseline) = Structured(scenario),
         Changes(baseline, scenario) = NoChanges
  PROVE  /\ DiffSkills(baseline, scenario) = {}
         /\ baseline.weights = scenario.weights
         /\ baseline.threshold = scenario.threshold /\ baseline.shortlist = scenario.shortlist
         /\ \A years : ExperienceScore(years, baseline.requirements.experience)
                         = ExperienceScore(years, scenario.requirements.experience)
         /\ \A degrees : EducationScore(degrees, baseline.requirements.education)
                           = EducationScore(degrees, scenario.requirements.education)
<1> DEFINE before == baseline.requirements
           after == scenario.requirements
<1>1. /\ DiffSkills(baseline, scenario) = {}
      /\ {d \in Dimensions : baseline.weights[d] # scenario.weights[d]} = {}
      /\ baseline.threshold = scenario.threshold /\ baseline.shortlist = scenario.shortlist
      /\ ExperienceLabel(before.experience) = ExperienceLabel(after.experience)
      /\ EducationLabel(before.education) = EducationLabel(after.education)
  BY DEF Changes, NoChanges
<1>2. baseline.weights = scenario.weights
  <2>1. baseline.weights \in [Dimensions -> Nat] /\ scenario.weights \in [Dimensions -> Nat]
    BY DEF Configurations
  <2> QED BY <1>1, <2>1
<1>3. /\ (before.experience.min # Unset \/ before.experience.max # Unset)
           <=> (after.experience.min # Unset \/ after.experience.max # Unset)
      /\ before.education.level # 0 <=> after.education.level # 0
  BY DEF Structured
<1>4. \A years : ExperienceScore(years, before.experience) = ExperienceScore(years, after.experience)
  BY <1>1, <1>3 DEF ExperienceScore, ExperienceLabel
<1>5. \A degrees : EducationScore(degrees, before.education) = EducationScore(degrees, after.education)
  BY <1>1, <1>3 DEF EducationScore, EducationLabel
<1> QED BY <1>1, <1>2, <1>4, <1>5

LEMMA HitsOfBoth ==
  ASSUME NEW X, NEW m \in Seq(X), NEW p \in Seq(X), Elements(m) \cap Elements(p) = {},
         Cardinality(Elements(m)) = Len(m), Cardinality(Elements(p)) = Len(p), NEW A
  PROVE  Hits(m \o p, A) = Cardinality((Elements(m) \cup Elements(p)) \cap A)
<1>1. m \o p \in Seq(X) /\ Len(m \o p) = Len(m) + Len(p) /\ Len(m) \in Nat /\ Len(p) \in Nat
  OBVIOUS
<1>2. Elements(m \o p) = Elements(m) \cup Elements(p)
  <2>1. ASSUME NEW i \in DOMAIN m PROVE m[i] \in Elements(m \o p)
    <3>1. i \in DOMAIN (m \o p) /\ (m \o p)[i] = m[i]
      OBVIOUS
    <3> QED BY <3>1 DEF Elements
  <2>2. ASSUME NEW i \in DOMAIN p PROVE p[i] \in Elements(m \o p)
    <3>1. Len(m) + i \in DOMAIN (m \o p) /\ (m \o p)[Len(m) + i] = p[i]
      OBVIOUS
    <3> QED BY <3>1 DEF Elements
  <2>3. ASSUME NEW i \in DOMAIN (m \o p) PROVE (m \o p)[i] \in Elements(m) \cup Elements(p)
    <3>1. CASE i <= Len(m)
      <4>1. i \in DOMAIN m /\ (m \o p)[i] = m[i]
        BY <3>1
      <4> QED BY <4>1 DEF Elements
    <3>2. CASE i > Len(m)
      <4>1. i - Len(m) \in DOMAIN p /\ (m \o p)[i] = p[i - Len(m)]
        BY <3>2
      <4> QED BY <4>1 DEF Elements
    <3>3. i \in Nat
      BY <1>1
    <3> QED BY <1>1, <3>1, <3>2, <3>3
  <2> QED BY <2>1, <2>2, <2>3 DEF Elements
<1>3. Cardinality(Elements(m) \cup Elements(p)) = Len(m) + Len(p)
  <2>1. IsFiniteSet(Elements(m)) /\ IsFiniteSet(Elements(p))
    BY ElementsFinite
  <2>2. Cardinality(Elements(m) \cup Elements(p))
          = Cardinality(Elements(m)) + Cardinality(Elements(p)) - Cardinality(Elements(m) \cap Elements(p))
    BY <2>1, FS_Union, Zenon
  <2>3. Cardinality(Elements(m) \cap Elements(p)) = 0
    BY FS_EmptySet
  <2> QED BY <1>1, <2>2, <2>3
<1>4. Cardinality(Elements(m \o p)) = Len(m \o p)
  BY <1>1, <1>2, <1>3
<1>5. Hits(m \o p, A) = Cardinality(Elements(m \o p) \cap A)
  BY <1>1, <1>4, HitsAre
<1> QED BY <1>2, <1>5

\* A list by the skills that its names stand for.
CanonicalList(list) == [i \in DOMAIN list |-> Canonical(list[i])]

LEMMA CanonicalIs ==
  ASSUME NEW X, NEW list \in Seq(X)
  PROVE  /\ CanonicalList(list) \in Seq({Canonical(x) : x \in X})
         /\ Len(CanonicalList(list)) = Len(list)
         /\ Elements(CanonicalList(list)) = SkillsIn(list)
<1>1. /\ CanonicalList(list) \in Seq({Canonical(x) : x \in X})
      /\ Len(CanonicalList(list)) = Len(list)
  BY DEF CanonicalList
<1>2. DOMAIN CanonicalList(list) = DOMAIN list
      /\ \A i \in DOMAIN list : CanonicalList(list)[i] = Canonical(list[i])
  BY DEF CanonicalList
<1>3. Elements(CanonicalList(list)) = SkillsIn(list)
  BY <1>2 DEF Elements, SkillsIn
<1> QED BY <1>1, <1>3

Joined(f, g, m, n) == [i \in 1..(m + n) |-> IF i <= m THEN f[i] ELSE g[i - m]]

LEMMA Concatenated ==
  ASSUME NEW S, NEW f \in Seq(S), NEW g \in Seq(S)
  PROVE  f \o g = Joined(f, g, Len(f), Len(g))
<1> DEFINE n == Len(f) + Len(g)
           at(i) == IF i <= Len(f) THEN f[i] ELSE g[i - Len(f)]
<1>1. f \o g \in Seq(S) /\ Len(f \o g) = n
  OBVIOUS
<1>2. \A i \in 1..n : (f \o g)[i] = at(i)
  OBVIOUS
<1>3. f \o g = [i \in 1..Len(f \o g) |-> (f \o g)[i]]
  <2>1. ASSUME NEW h \in Seq(S) PROVE h = [i \in 1..Len(h) |-> h[i]]
    OBVIOUS
  <2> QED BY <1>1, <2>1, Zenon
<1> HIDE DEF n, at
<1>4. f \o g = [i \in 1..n |-> at(i)]
  BY <1>1, <1>2, <1>3, Zenon
<1> QED BY <1>4, Zenon DEF n, at, Joined

\* Who matches all names of a skill or none matches skills.
Matched(names, matching) == {Canonical(x) : x \in names \cap matching}

LEMMA AlikeMatch ==
  ASSUME NEW names, NEW matching, Alike(matching, names), NEW x \in names
  PROVE  x \in matching <=> Canonical(x) \in Matched(names, matching)
BY DEF Alike, Matched

LEMMA HitsBySkill ==
  ASSUME NEW X, NEW list \in Seq(X), NEW names, Elements(list) \subseteq names,
         NEW has, Alike(has, names)
  PROVE  Hits(list, has) = Hits(CanonicalList(list), Matched(names, has))
<1> DEFINE one(x) == IF x \in has THEN 1 ELSE 0
           of(k) == IF k \in Matched(names, has) THEN 1 ELSE 0
           f == CanonicalList(list)
<1>1. DOMAIN f = DOMAIN list /\ \A i \in DOMAIN list : f[i] = Canonical(list[i])
  BY DEF CanonicalList
<1>2. ASSUME NEW i \in DOMAIN list PROVE one(list[i]) = of(f[i])
  <2>1. list[i] \in names
    BY DEF Elements
  <2>2. list[i] \in has <=> Canonical(list[i]) \in Matched(names, has)
    BY <2>1, AlikeMatch
  <2> HIDE DEF f
  <2> QED BY <1>1, <2>2
<1>3. /\ Hits(list, has) = SumOf([i \in DOMAIN list |-> one(list[i])])
      /\ Hits(f, Matched(names, has)) = SumOf([i \in DOMAIN f |-> of(f[i])])
  BY Zenon DEF Hits
<1> HIDE DEF one, of, f
<1>4. [i \in DOMAIN list |-> one(list[i])] = [i \in DOMAIN f |-> of(f[i])]
  BY <1>1, <1>2, Zenon
<1> QED BY <1>3, <1>4, Zenon DEF f

\* The lists of skills of two configurations, in another order and perhaps by other names.
Reordered(m, p, n, q) ==
  /\ SkillsIn(m) \cap SkillsIn(p) = {} /\ SkillsIn(m) = SkillsIn(n) /\ SkillsIn(p) = SkillsIn(q)
  /\ Cardinality(SkillsIn(m)) = Len(m) /\ Cardinality(SkillsIn(p)) = Len(p)
  /\ Cardinality(SkillsIn(n)) = Len(n) /\ Cardinality(SkillsIn(q)) = Len(q)

LEMMA HitsOfSkills ==
  ASSUME NEW X, NEW m \in Seq(X), NEW p \in Seq(X), SkillsIn(m) \cap SkillsIn(p) = {},
         Cardinality(SkillsIn(m)) = Len(m), Cardinality(SkillsIn(p)) = Len(p),
         NEW names, Elements(m) \cup Elements(p) \subseteq names, NEW has, Alike(has, names)
  PROVE  Hits(m \o p, has) = Cardinality((SkillsIn(m) \cup SkillsIn(p)) \cap Matched(names, has))
<1> DEFINE Y == {Canonical(x) : x \in X}
           f == CanonicalList(m)
           g == CanonicalList(p)
           K == Matched(names, has)
<1>1. /\ f \in Seq(Y) /\ Len(f) = Len(m) /\ Elements(f) = SkillsIn(m)
      /\ g \in Seq(Y) /\ Len(g) = Len(p) /\ Elements(g) = SkillsIn(p)
  BY CanonicalIs, Zenon
<1>2. CanonicalList(m \o p) = f \o g
  <2>1. /\ DOMAIN (m \o p) = 1..(Len(m) + Len(p))
        /\ \A i \in 1..(Len(m) + Len(p)) : (m \o p)[i] = IF i <= Len(m) THEN m[i] ELSE p[i - Len(m)]
        /\ DOMAIN m = 1..Len(m) /\ DOMAIN p = 1..Len(p) /\ Len(m) \in Nat /\ Len(p) \in Nat
    OBVIOUS
  <2>2. /\ \A i \in DOMAIN m : f[i] = Canonical(m[i])
        /\ \A i \in DOMAIN p : g[i] = Canonical(p[i])
    BY DEF CanonicalList
  <2> HIDE DEF f, g, Y
  <2>3. f \o g = [i \in 1..(Len(m) + Len(p)) |-> IF i <= Len(m) THEN f[i] ELSE g[i - Len(m)]]
    <3>1. f \o g = Joined(f, g, Len(f), Len(g))
      BY <1>1, Concatenated, Zenon
    <3> QED BY <1>1, <3>1, Zenon DEF Joined
  <2>4. ASSUME NEW i \in 1..(Len(m) + Len(p))
        PROVE  Canonical((m \o p)[i]) = IF i <= Len(m) THEN f[i] ELSE g[i - Len(m)]
    <3>1. i <= Len(m) => i \in DOMAIN m
      BY <2>1
    <3>2. ~ (i <= Len(m)) => i - Len(m) \in DOMAIN p
      BY <2>1
    <3> QED BY <2>1, <2>2, <3>1, <3>2
  <2>5. CanonicalList(m \o p) = [i \in 1..(Len(m) + Len(p)) |-> Canonical((m \o p)[i])]
    BY <2>1, Zenon DEF CanonicalList
  <2> QED BY <2>3, <2>4, <2>5, Zenon
<1>3. m \o p \in Seq(X) /\ Elements(m \o p) \subseteq names
  <2>1. ASSUME NEW i \in DOMAIN (m \o p) PROVE (m \o p)[i] \in Elements(m) \cup Elements(p)
    <3>1. CASE i <= Len(m)
      <4>1. i \in DOMAIN m /\ (m \o p)[i] = m[i]
        BY <3>1
      <4> QED BY <4>1 DEF Elements
    <3>2. CASE i > Len(m)
      <4>1. i - Len(m) \in DOMAIN p /\ (m \o p)[i] = p[i - Len(m)]
        BY <3>2
      <4> QED BY <4>1 DEF Elements
    <3>3. i \in Nat /\ Len(m) \in Nat
      OBVIOUS
    <3> QED BY <3>1, <3>2, <3>3
  <2>2. m \o p \in Seq(X)
    OBVIOUS
  <2> QED BY <2>1, <2>2 DEF Elements
<1>4. Hits(m \o p, has) = Hits(f \o g, K)
  <2>1. Hits(m \o p, has) = Hits(CanonicalList(m \o p), K)
    BY <1>3, HitsBySkill, Zenon
  <2> QED BY <1>2, <2>1, Zenon
<1> HIDE DEF f, g, K, Y
<1>5. Hits(f \o g, K) = Cardinality((Elements(f) \cup Elements(g)) \cap K)
  <2>1. /\ Elements(f) \cap Elements(g) = {}
        /\ Cardinality(Elements(f)) = Len(f) /\ Cardinality(Elements(g)) = Len(g)
    BY <1>1, Zenon
  <2> QED BY <1>1, <2>1, HitsOfBoth, SMTT(30)
<1> QED BY <1>1, <1>4, <1>5, Zenon DEF K

LEMMA SkillSame ==
  ASSUME NEW X, NEW m \in Seq(X), NEW p \in Seq(X), NEW n \in Seq(X), NEW q \in Seq(X),
         Reordered(m, p, n, q), NEW names,
         Elements(m) \cup Elements(p) \subseteq names, Elements(n) \cup Elements(q) \subseteq names,
         NEW has, Alike(has, names)
  PROVE  SkillScore(has, m, p) = SkillScore(has, n, q)
<1>1. Len(m) = Len(n) /\ Len(p) = Len(q)
  BY DEF Reordered
<1>2. m \o p = <<>> <=> n \o q = <<>>
  BY <1>1
<1>3. Hits(m \o p, has) = Hits(n \o q, has)
  <2>1. /\ SkillsIn(m) \cap SkillsIn(p) = {} /\ SkillsIn(n) \cap SkillsIn(q) = {}
        /\ Cardinality(SkillsIn(m)) = Len(m) /\ Cardinality(SkillsIn(p)) = Len(p)
        /\ Cardinality(SkillsIn(n)) = Len(n) /\ Cardinality(SkillsIn(q)) = Len(q)
    BY DEF Reordered
  <2>2. Hits(m \o p, has) = Cardinality((SkillsIn(m) \cup SkillsIn(p)) \cap Matched(names, has))
    BY <2>1, HitsOfSkills, SMTT(30)
  <2>3. Hits(n \o q, has) = Cardinality((SkillsIn(n) \cup SkillsIn(q)) \cap Matched(names, has))
    BY <2>1, HitsOfSkills, SMTT(30)
  <2> QED BY <2>2, <2>3, Zenon DEF Reordered
<1>4. ASSUME NEW s \in Seq(X) PROVE CountIn(s, LAMBDA x : x \in has) = Hits(s, has)
  BY HitsNat, Zenon
<1>5. m \o p \in Seq(X) /\ n \o q \in Seq(X)
  OBVIOUS
<1> QED BY <1>1, <1>2, <1>3, <1>4, <1>5, Zenon DEF SkillScore

AllAlike(technologies, names) == \A j \in DOMAIN technologies : Alike(technologies[j], names)

LEMMA ProjectSame ==
  ASSUME NEW X, NEW m \in Seq(X), NEW n \in Seq(X), SkillsIn(m) = SkillsIn(n), Len(m) = Len(n),
         NEW names, Elements(m) \subseteq names, Elements(n) \subseteq names,
         NEW projects, NEW technologies \in Seq(SUBSET X),
         AllAlike(technologies, names)
  PROVE  ProjectScore(projects, technologies, m) = ProjectScore(projects, technologies, n)
<1> DEFINE asked(list) == Hits(technologies, Naming(X, list))
           share(list) == Least((40 * asked(list)) \div Len(list), 40)
           part(list) == IF technologies = <<>> \/ list = <<>> THEN 0 ELSE share(list)
<1>1. m = <<>> <=> n = <<>>
  OBVIOUS
<1>2. asked(m) = asked(n)
  <2> DEFINE in(list, t) == IF t \in Naming(X, list) THEN 1 ELSE 0
  <2>1. ASSUME NEW list \in {m, n}, NEW j \in DOMAIN technologies
        PROVE  technologies[j] \in Naming(X, list)
                 <=> SkillsIn(list) \cap Matched(names, technologies[j]) # {}
    <3> DEFINE t == technologies[j]
    <3>1. t \in SUBSET X /\ Alike(t, names)
      BY DEF AllAlike
    <3>2. \A i \in DOMAIN list : list[i] \in names
      BY DEF Elements
    <3> HIDE DEF t
    <3>3. \A i \in DOMAIN list : list[i] \in t <=> Canonical(list[i]) \in Matched(names, t)
      BY <3>1, <3>2, AlikeMatch
    <3>4. t \in Naming(X, list) <=> \E i \in DOMAIN list : list[i] \in t
      BY <3>1 DEF Naming
    <3>5. SkillsIn(list) \cap Matched(names, t) # {}
            <=> \E i \in DOMAIN list : Canonical(list[i]) \in Matched(names, t)
      BY DEF SkillsIn
    <3>6. t \in Naming(X, list) <=> SkillsIn(list) \cap Matched(names, t) # {}
      BY <3>3, <3>4, <3>5, Zenon
    <3> QED BY <3>6 DEF t
  <2>2. ASSUME NEW j \in DOMAIN technologies PROVE in(m, technologies[j]) = in(n, technologies[j])
    <3>1. technologies[j] \in Naming(X, m) <=> technologies[j] \in Naming(X, n)
      BY <2>1
    <3> QED BY <3>1
  <2>3. \A list : asked(list) = SumOf([j \in DOMAIN technologies |-> in(list, technologies[j])])
    BY Zenon DEF Hits
  <2> HIDE DEF in, asked
  <2> QED BY <2>2, <2>3, Zenon
<1>3. ASSUME NEW list
      PROVE  ProjectScore(projects, technologies, list)
               = IF projects = 0 THEN 10 ELSE Least(15 * projects, 60) + part(list)
  <2>1. CountIn(technologies, LAMBDA t : \E i \in DOMAIN list : list[i] \in t)
          = Hits(technologies, Naming(X, list))
    BY Asking, Zenon
  <2> QED BY <2>1, Zenon DEF ProjectScore
<1> HIDE DEF asked
<1>4. share(m) = share(n)
  BY <1>2
<1> HIDE DEF share
<1>5. part(m) = part(n)
  BY <1>1, <1>4
<1> HIDE DEF part
<1> QED BY <1>3, <1>5, Zenon

\* A candidate to whom the spelling is all one.
Spelt(candidate, baseline, scenario) ==
  LET names == NamesAskedFor(baseline) \cup NamesAskedFor(scenario)
  IN /\ Alike(candidate.has, names)
     /\ AllAlike(candidate.technologies, names)

LEMMA SameScores ==
  ASSUME NEW Names, NEW baseline \in Configurations(Names),
         NEW scenario \in Configurations(Names),
         NEW candidate \in Candidates(Names), Spelt(candidate, baseline, scenario),
         Issues(baseline) = {}, Issues(scenario) = {}, Structured(baseline) = Structured(scenario),
         Changes(baseline, scenario) = NoChanges,
         candidate.semantic.baseline = candidate.semantic.simulation
  PROVE  Evaluate(candidate, baseline).overall = Evaluate(candidate, scenario).overall
<1> DEFINE before == baseline.requirements
           after == scenario.requirements
           names == NamesAskedFor(baseline) \cup NamesAskedFor(scenario)
<1>1. /\ before.mandatory \in Seq(Names) /\ before.preferred \in Seq(Names)
      /\ after.mandatory \in Seq(Names) /\ after.preferred \in Seq(Names)
      /\ candidate.technologies \in Seq(SUBSET Names)
  BY DEF Candidates, Configurations
<1>2. Reordered(before.mandatory, before.preferred, after.mandatory, after.preferred)
  <2>1. DiffSkills(baseline, scenario) = {}
    BY Unreported
  <2>2. /\ SkillsIn(before.mandatory) = SkillsIn(after.mandatory)
        /\ SkillsIn(before.preferred) = SkillsIn(after.preferred)
    BY <2>1, SameSkills
  <2>3. SkillsIn(before.mandatory) \cap SkillsIn(before.preferred) = {}
    BY NoOverlap
  <2>4. /\ Cardinality(SkillsIn(before.mandatory)) = Len(before.mandatory)
        /\ Cardinality(SkillsIn(before.preferred)) = Len(before.preferred)
        /\ Cardinality(SkillsIn(after.mandatory)) = Len(after.mandatory)
        /\ Cardinality(SkillsIn(after.preferred)) = Len(after.preferred)
    BY NoRepeats
  <2> QED BY <2>2, <2>3, <2>4, Zenon DEF Reordered
<1>3. /\ Elements(before.mandatory) \cup Elements(before.preferred) \subseteq names
      /\ Elements(after.mandatory) \cup Elements(after.preferred) \subseteq names
      /\ Elements(before.mandatory) \subseteq names /\ Elements(after.mandatory) \subseteq names
  BY DEF NamesAskedFor
<1>4. Alike(candidate.has, names) /\ AllAlike(candidate.technologies, names)
  BY Zenon DEF Spelt
<1>5. SkillScore(candidate.has, before.mandatory, before.preferred)
        = SkillScore(candidate.has, after.mandatory, after.preferred)
  <2> HIDE DEF before, after, names
  <2> QED BY <1>1, <1>2, <1>3, <1>4, SkillSame, SMTT(30)
<1>6. ProjectScore(candidate.projects, candidate.technologies, before.mandatory)
        = ProjectScore(candidate.projects, candidate.technologies, after.mandatory)
  <2>1. /\ SkillsIn(before.mandatory) = SkillsIn(after.mandatory)
        /\ Len(before.mandatory) = Len(after.mandatory)
    BY <1>2, Zenon DEF Reordered
  <2> HIDE DEF before, after, names
  <2> QED BY <1>1, <1>3, <1>4, <2>1, ProjectSame, SMTT(30)
<1>7. candidate.semantic[baseline.name] = candidate.semantic[scenario.name]
  <2>1. /\ baseline.name \in {"baseline", "simulation"}
        /\ scenario.name \in {"baseline", "simulation"}
    BY DEF Configurations
  <2> QED BY <2>1
<1>8. /\ ExperienceScore(candidate.years, before.experience) = ExperienceScore(candidate.years, after.experience)
      /\ EducationScore(candidate.degrees, before.education) = EducationScore(candidate.degrees, after.education)
      /\ baseline.weights = scenario.weights
  BY Unreported
<1>9. Scored(candidate, baseline) = Scored(candidate, scenario)
  BY <1>5, <1>6, <1>7, <1>8, Zenon DEF Scored
<1> QED BY <1>8, <1>9, OverallIs, Zenon

----------------------------------------------------------------------------
\* A scenario reported as unchanged changes nothing.

\* What half a row says of the scores of all.
TellsScores(half, scores, config, c) ==
  /\ half.score = scores[c] /\ half.rank = Rank(scores, c)
  /\ half.qualified = (scores[c] >= config.threshold)
  /\ half.listed = (Rank(scores, c) <= config.shortlist)

Overalls(candidates, config) == [d \in DOMAIN candidates |-> Evaluate(candidates[d], config).overall]

LEMMA ScoresOfRows ==
  ASSUME NEW candidates, NEW baseline, NEW simulation, NEW c \in DOMAIN candidates
  PROVE  /\ TellsScores(ResultRows(candidates, baseline, simulation)[c].baseline,
                        Overalls(candidates, baseline), baseline, c)
         /\ TellsScores(ResultRows(candidates, baseline, simulation)[c].simulation,
                        Overalls(candidates, simulation), simulation, c)
<1> DEFINE row == ResultRows(candidates, baseline, simulation)[c]
           base == Overalls(candidates, baseline)
           sim == Overalls(candidates, simulation)
           e == [d \in DOMAIN candidates |-> Evaluate(candidates[d], baseline)]
           f == [d \in DOMAIN candidates |-> Evaluate(candidates[d], simulation)]
<1>1. /\ [d \in DOMAIN candidates |-> e[d].overall] = base
      /\ [d \in DOMAIN candidates |-> f[d].overall] = sim
  BY DEF Overalls
<1>2. \A candidate, config : Evaluate(candidate, config).qualified = (Evaluate(candidate, config).overall >= config.threshold)
  BY DEF Evaluate
<1>3. /\ e[c].overall = base[c] /\ f[c].overall = sim[c]
      /\ e[c].qualified = (base[c] >= baseline.threshold)
      /\ f[c].qualified = (sim[c] >= simulation.threshold)
  BY <1>2 DEF Overalls
<1>4. /\ row.baseline.score = e[c].overall /\ row.simulation.score = f[c].overall
      /\ row.baseline.qualified = e[c].qualified /\ row.simulation.qualified = f[c].qualified
      /\ row.baseline.rank = Rank([d \in DOMAIN candidates |-> e[d].overall], c)
      /\ row.simulation.rank = Rank([d \in DOMAIN candidates |-> f[d].overall], c)
      /\ row.baseline.listed = (Rank([d \in DOMAIN candidates |-> e[d].overall], c) <= baseline.shortlist)
      /\ row.simulation.listed = (Rank([d \in DOMAIN candidates |-> f[d].overall], c) <= simulation.shortlist)
  BY DEF ResultRows
<1> HIDE DEF base, sim, e, f, row
<1>5. /\ row.baseline.score = base[c] /\ row.simulation.score = sim[c]
      /\ row.baseline.rank = Rank(base, c) /\ row.simulation.rank = Rank(sim, c)
      /\ row.baseline.qualified = (base[c] >= baseline.threshold)
      /\ row.simulation.qualified = (sim[c] >= simulation.threshold)
      /\ row.baseline.listed = (Rank(base, c) <= baseline.shortlist)
      /\ row.simulation.listed = (Rank(sim, c) <= simulation.shortlist)
  BY <1>1, <1>3, <1>4, Zenon
<1> QED BY <1>5, Zenon DEF base, sim, row, TellsScores

\* Two configurations between which no change is reported give every candidate the same
\* score and qualification, and if all are so the same ranks and shortlist, in whatever
\* order they list their skills: every candidate, that is, who matches all names that a
\* skill has in them or none.
THEOREM UnreportedIsHarmlessHolds ==
  ASSUME NEW Names, Is("simulation") => subject \in Pooled(Names)
  PROVE  UnreportedIsHarmless
<1> DEFINE row(c) == ResultRows(subject.candidates, subject.baseline, subject.simulation)[c]
           all == \A d \in DOMAIN subject.candidates : Indifferent(subject.candidates[d])
<1> SUFFICES ASSUME subject \in Pooled(Names), Issues(subject.simulation) = {},
                    Issues(subject.baseline) = {},
                    Structured(subject.baseline) = Structured(subject.simulation), SameTexts,
                    Changes(subject.baseline, subject.simulation) = NoChanges,
                    NEW c \in DOMAIN subject.candidates
             PROVE  /\ Indifferent(subject.candidates[c]) =>
                         /\ row(c).baseline.score = row(c).simulation.score
                         /\ row(c).baseline.qualified = row(c).simulation.qualified
                    /\ all => /\ row(c).baseline.rank = row(c).simulation.rank
                              /\ row(c).baseline.listed = row(c).simulation.listed
  BY Zenon DEF UnreportedIsHarmless
<1> DEFINE base == Overalls(subject.candidates, subject.baseline)
           sim == Overalls(subject.candidates, subject.simulation)
<1>1. /\ subject.candidates \in Seq(Candidates(Names))
      /\ subject.baseline \in Configurations(Names)
      /\ subject.simulation \in Configurations(Names)
      /\ \A d \in DOMAIN subject.candidates : subject.candidates[d] \in Candidates(Names)
  BY DEF Pooled
<1>2. ASSUME NEW d \in DOMAIN subject.candidates, Indifferent(subject.candidates[d])
      PROVE  Evaluate(subject.candidates[d], subject.baseline).overall
               = Evaluate(subject.candidates[d], subject.simulation).overall
  <2>1. subject.candidates[d].semantic.baseline = subject.candidates[d].semantic.simulation
    BY DEF SameTexts
  <2>2. Spelt(subject.candidates[d], subject.baseline, subject.simulation)
    BY <1>2, Zenon DEF Spelt, Indifferent, AllAlike
  <2> QED BY <1>1, <2>1, <2>2, SameScores
<1>3. all => base = sim
  BY <1>2, Zenon DEF Overalls
<1>4. Indifferent(subject.candidates[c]) => base[c] = sim[c]
  BY <1>2 DEF Overalls
<1>5. /\ subject.baseline.threshold = subject.simulation.threshold
      /\ subject.baseline.shortlist = subject.simulation.shortlist
  BY <1>1, Unreported
<1>6. /\ TellsScores(row(c).baseline, base, subject.baseline, c)
      /\ TellsScores(row(c).simulation, sim, subject.simulation, c)
  BY ScoresOfRows, Zenon
<1> HIDE DEF base, sim, row, all
<1> QED BY <1>3, <1>4, <1>5, <1>6, Zenon DEF TellsScores

----------------------------------------------------------------------------
\* The grade of an answer.

\* A grade, and one that is no worse.
Fair(g) == g.score \in Int /\ 0 <= g.score /\ g.score <= 10000
NoWorse(before, after) == before.score <= after.score /\ (before.correct => after.correct)

\* Answers to questions on some skills.
Choices(Skills) ==
  [type : {"choice"}, points : Nat, skill : Skills, given : {"right", "wrong"}]
Outputs(Skills) ==
  [type : {"code_output"}, points : Nat, skill : Skills, given : {"right", "half", "wrong"}]
Codes(Skills) ==
  {a \in [type : {"coding"}, points : Nat, skill : Skills, passed : Nat, tests : Nat] :
     a.passed <= a.tests}
Texts(Skills) ==
  {a \in [type : {"debugging", "subjective"}, points : Nat, skill : Skills, hits : Nat,
          keywords : Nat, words : Nat, structured : BOOLEAN] : a.hits <= a.keywords}
AnswersOn(Skills) == Choices(Skills) \cup Outputs(Skills) \cup Codes(Skills) \cup Texts(Skills)

\* A weighted share, of a number up to a bound.
Share(c, n, bound, of) == (c * Least(n, bound)) * of

LEMMA ShareMono ==
  ASSUME NEW n \in Nat, NEW m \in Nat, n <= m, NEW bound \in Nat, NEW c \in Nat, NEW of \in Nat
  PROVE  /\ Share(c, n, bound, of) \in Nat /\ Share(c, m, bound, of) \in Nat
         /\ Share(c, n, bound, of) <= Share(c, m, bound, of)
         /\ Share(c, m, bound, of) <= (c * bound) * of
<1>1. /\ Least(n, bound) \in Nat /\ Least(m, bound) \in Nat
      /\ Least(n, bound) <= Least(m, bound) /\ Least(m, bound) <= bound
  BY DEF Least
<1> DEFINE p == c * Least(n, bound)
           q == c * Least(m, bound)
           r == c * bound
<1>2. p \in Nat /\ q \in Nat /\ r \in Nat /\ p <= q /\ q <= r
  <2>1. p <= q /\ q <= r
    BY <1>1, MulMono
  <2>2. p \in Nat /\ q \in Nat /\ r \in Nat
    BY <1>1, MulNat
  <2> QED BY <2>1, <2>2
<1> HIDE DEF p, q, r
<1>3. p * of \in Nat /\ q * of \in Nat
  BY <1>2, MulNat
<1>4. p * of <= q * of /\ q * of <= r * of
  BY <1>2, MulMono
<1> QED BY <1>3, <1>4, Zenon DEF p, q, r, Share

LEMMA CodingGrade ==
  ASSUME NEW Skills, NEW a \in Codes(Skills), NEW b \in Codes(Skills), a.passed <= b.passed,
         a.tests = b.tests
  PROVE  Fair(GradeCoding(a)) /\ NoWorse(GradeCoding(a), GradeCoding(b))
<1>1. /\ a.passed \in Nat /\ a.tests \in Nat /\ b.passed \in Nat /\ a.passed <= a.tests
      /\ b.passed <= a.tests
  BY DEF Codes
<1>2. CASE a.tests = 0
  BY <1>2 DEF GradeCoding, Graded, Fair, NoWorse
<1>3. CASE a.tests # 0
  <2>1. /\ Round(100 * a.passed, a.tests) \in Int /\ Round(100 * b.passed, a.tests) \in Int
        /\ Round(100 * a.passed, a.tests) <= Round(100 * b.passed, a.tests)
    <3>1. 100 * a.passed \in Int /\ 100 * b.passed \in Int /\ 100 * a.passed <= 100 * b.passed
      BY <1>1
    <3> QED BY <1>1, <1>3, <3>1, RoundInt, RoundUpward
  <2>2. Round(100 * a.passed, a.tests) <= 100
    <3>1. 100 * a.passed <= 100 * a.tests
      BY <1>1
    <3> QED BY <1>1, <1>3, <3>1, RoundAtMost
  <2>3. 0 <= Round(100 * a.passed, a.tests)
    <3>1. 0 * a.tests <= 100 * a.passed
      BY <1>1
    <3> QED BY <1>1, <1>3, <3>1, RoundAtLeast
  <2> DEFINE s == Round(100 * a.passed, a.tests)
             t == Round(100 * b.passed, b.tests)
  <2>4. /\ GradeCoding(a) = Graded(100 * s, a.passed = a.tests)
        /\ GradeCoding(b) = Graded(100 * t, b.passed = b.tests)
    BY <1>3, Zenon DEF GradeCoding
  <2>5. s \in Int /\ t \in Int /\ s <= t /\ 0 <= s /\ s <= 100
    BY <2>1, <2>2, <2>3
  <2> HIDE DEF s, t
  <2>6. 100 * s \in Int /\ 0 <= 100 * s /\ 100 * s <= 10000 /\ 100 * s <= 100 * t
    BY <2>5
  <2>7. Fair(GradeCoding(a))
    BY <2>4, <2>6 DEF Graded, Fair
  <2>8. GradeCoding(a).score <= GradeCoding(b).score
    BY <2>4, <2>6 DEF Graded
  <2>9. GradeCoding(a).correct => GradeCoding(b).correct
    <3>1. /\ GradeCoding(a).correct = (a.passed = a.tests)
          /\ GradeCoding(b).correct = (b.passed = b.tests)
      BY <2>4 DEF Graded
    <3>2. a.passed = a.tests => b.passed = b.tests
      BY <1>1
    <3> QED BY <3>1, <3>2
  <2> QED BY <2>7, <2>8, <2>9 DEF NoWorse
<1> QED BY <1>2, <1>3

\* A text with as many keywords to name, that is no worse.
NoWorseText(a, b) ==
  /\ a.hits <= b.hits /\ a.words <= b.words /\ a.keywords = b.keywords
  /\ a.structured /\ a.words > 0 => b.structured

\* The three parts of the grade of a debugging task.
DebuggingParts(a, of) ==
  55 * 80 * a.hits + Share(30, a.words, 80, of)
    + (IF a.structured /\ a.words > 12 THEN 1400 * of ELSE 0)

LEMMA DebuggingPartsMono ==
  ASSUME NEW Skills, NEW a \in Texts(Skills), NEW b \in Texts(Skills), NoWorseText(a, b),
         NEW of \in Nat
  PROVE  /\ DebuggingParts(a, of) \in Nat /\ DebuggingParts(b, of) \in Nat
         /\ DebuggingParts(a, of) <= DebuggingParts(b, of)
<1> DEFINE Fix(x) == IF x.structured /\ x.words > 12 THEN 1400 * of ELSE 0
<1>1. /\ a.hits \in Nat /\ a.words \in Nat /\ a.hits <= b.hits
      /\ b.hits \in Nat /\ b.words \in Nat /\ a.words <= b.words
      /\ a.structured /\ a.words > 0 => b.structured
  BY DEF Texts, NoWorseText
<1> DEFINE p == Share(30, a.words, 80, of)
           q == Share(30, b.words, 80, of)
<1>2. p \in Nat /\ q \in Nat /\ p <= q
  <2>1. \A c, bound \in Nat :
          /\ Share(c, a.words, bound, of) \in Nat /\ Share(c, b.words, bound, of) \in Nat
          /\ Share(c, a.words, bound, of) <= Share(c, b.words, bound, of)
    BY <1>1, ShareMono
  <2> QED BY <2>1
<1>3. Fix(a) \in Nat /\ Fix(b) \in Nat /\ Fix(a) <= Fix(b)
  BY <1>1
<1>4. /\ DebuggingParts(a, of) = 55 * 80 * a.hits + p + Fix(a)
      /\ DebuggingParts(b, of) = 55 * 80 * b.hits + q + Fix(b)
  BY DEF DebuggingParts
<1> HIDE DEF Fix, p, q
<1> QED BY <1>1, <1>2, <1>3, <1>4

LEMMA DebuggingGrade ==
  ASSUME NEW Skills, NEW a \in Texts(Skills), NEW b \in Texts(Skills), NoWorseText(a, b)
  PROVE  /\ Fair(GradeDebugging(a)) /\ Fair(GradeDebugging(b))
         /\ NoWorse(GradeDebugging(a), GradeDebugging(b))
<1> DEFINE of == Greatest(a.keywords, 1)
           all == 80 * of
           m == DebuggingParts(a, of)
           n == DebuggingParts(b, of)
           s == Round(m, all)
           t == Round(n, all)
<1>1. /\ a.words \in Nat /\ b.words \in Nat /\ a.words <= b.words
      /\ a.keywords \in Nat /\ b.keywords = a.keywords
  BY DEF Texts, NoWorseText
<1>2. /\ GradeDebugging(a) = IF a.words = 0 THEN Graded(0, FALSE)
                             ELSE Graded(100 * Least(s, 100), m >= 70 * all)
      /\ GradeDebugging(b) = IF b.words = 0 THEN Graded(0, FALSE)
                             ELSE Graded(100 * Least(t, 100), n >= 70 * all)
  <2> DEFINE Graded2(x, k) == IF x.words = 0 THEN Graded(0, FALSE)
                              ELSE Graded(100 * Least(Round(DebuggingParts(x, k), 80 * k), 100),
                                          DebuggingParts(x, k) >= 70 * (80 * k))
  <2>1. ASSUME NEW x PROVE GradeDebugging(x) = Graded2(x, Greatest(x.keywords, 1))
    BY Zenon DEF GradeDebugging, DebuggingParts, Share
  <2>2. Greatest(b.keywords, 1) = of
    BY <1>1, Zenon
  <2> HIDE DEF of
  <2>3. GradeDebugging(b) = Graded2(b, of)
    BY <2>1, <2>2, Zenon
  <2>4. GradeDebugging(a) = Graded2(a, of)
    BY <2>1, Zenon DEF of
  <2> QED BY <2>3, <2>4, Zenon
<1>3. m \in Nat /\ n \in Nat /\ m <= n
  <2>1. of \in Nat
    BY <1>1 DEF Greatest
  <2> QED BY <2>1, DebuggingPartsMono
<1>4. all \in Nat \ {0}
  BY <1>1 DEF Greatest
<1> HIDE DEF of, all, m, n
<1>5. s \in Int /\ t \in Int /\ s <= t /\ 0 <= s /\ 0 <= t
  <2>1. 0 * all <= m /\ 0 * all <= n
    BY <1>3, <1>4
  <2> QED BY <1>3, <1>4, <2>1, RoundInt, RoundUpward, RoundAtLeast
<1> HIDE DEF s, t
<1>6. CASE b.words = 0
  BY <1>1, <1>2, <1>6 DEF Graded, NoWorse, Fair
<1>7. CASE b.words # 0 /\ a.words = 0
  BY <1>2, <1>5, <1>7 DEF Graded, NoWorse, Fair, Least
<1>8. CASE a.words # 0 /\ b.words # 0
  <2> DEFINE x == 100 * Least(s, 100)
             y == 100 * Least(t, 100)
  <2>1. /\ GradeDebugging(a).score = x /\ GradeDebugging(a).correct = (m >= 70 * all)
        /\ GradeDebugging(b).score = y /\ GradeDebugging(b).correct = (n >= 70 * all)
    BY <1>2, <1>8 DEF Graded
  <2>2. m >= 70 * all => n >= 70 * all
    BY <1>3, <1>4
  <2>3. x \in Int /\ 0 <= x /\ x <= 10000 /\ y \in Int /\ 0 <= y /\ y <= 10000 /\ x <= y
    BY <1>5 DEF Least
  <2> HIDE DEF x, y
  <2>4. GradeDebugging(a).score <= GradeDebugging(b).score
    BY <2>1, <2>3
  <2>5. GradeDebugging(a).correct => GradeDebugging(b).correct
    BY <2>1, <2>2, Zenon
  <2>6. Fair(GradeDebugging(a)) /\ Fair(GradeDebugging(b))
    BY <2>1, <2>3 DEF Fair
  <2> QED BY <2>4, <2>5, <2>6 DEF NoWorse
<1> QED BY <1>6, <1>7, <1>8

\* The three parts of the grade of an essay, and what its coverage is measured by.
Covered(a) == IF a.keywords = 0 THEN Least(a.words, 120) ELSE a.hits
Rubric(a) == IF a.keywords = 0 THEN 120 ELSE a.keywords
SubjectiveParts(a, of) ==
  6500 * 150 * Covered(a) + Share(2300, a.words, 150, of)
    + (IF a.structured THEN 900 ELSE 525) * 150 * of

LEMMA SubjectivePartsMono ==
  ASSUME NEW Skills, NEW a \in Texts(Skills), NEW b \in Texts(Skills), NoWorseText(a, b),
         a.words > 0,
         NEW of \in Nat, of = Rubric(a)
  PROVE  /\ SubjectiveParts(a, of) \in Nat /\ SubjectiveParts(b, of) \in Nat
         /\ SubjectiveParts(a, of) <= SubjectiveParts(b, of)
         /\ SubjectiveParts(b, of) <= 10000 * (150 * of)
<1> DEFINE Form(x) == (IF x.structured THEN 900 ELSE 525) * 150 * of
<1>1. /\ a.hits \in Nat /\ a.words \in Nat /\ a.hits <= b.hits /\ a.keywords \in Nat
      /\ b.hits \in Nat /\ b.words \in Nat /\ a.words <= b.words
      /\ a.hits <= a.keywords /\ b.hits <= b.keywords /\ b.keywords = a.keywords
      /\ a.structured => b.structured
  BY DEF Texts, NoWorseText
<1> DEFINE p == Share(2300, a.words, 150, of)
           q == Share(2300, b.words, 150, of)
<1>2. p \in Nat /\ q \in Nat /\ p <= q /\ q <= (2300 * 150) * of
  <2>1. PICK c \in Nat, k \in Nat : c = 2300 /\ k = 150
    OBVIOUS
  <2>2. /\ Share(c, a.words, k, of) \in Nat /\ Share(c, b.words, k, of) \in Nat
        /\ Share(c, a.words, k, of) <= Share(c, b.words, k, of)
        /\ Share(c, b.words, k, of) <= (c * k) * of
    BY <1>1, ShareMono
  <2> QED BY <2>1, <2>2
<1>3. /\ Form(a) \in Nat /\ Form(b) \in Nat /\ Form(a) <= Form(b) /\ Form(b) <= 900 * 150 * of
  BY <1>1
<1>4. /\ Covered(a) \in Nat /\ Covered(b) \in Nat /\ Covered(a) <= Covered(b) /\ Covered(b) <= of
  BY <1>1 DEF Covered, Rubric, Least
<1>5. /\ SubjectiveParts(a, of) = 6500 * 150 * Covered(a) + p + Form(a)
      /\ SubjectiveParts(b, of) = 6500 * 150 * Covered(b) + q + Form(b)
  BY DEF SubjectiveParts
<1> HIDE DEF Form, p, q
<1> QED BY <1>1, <1>2, <1>3, <1>4, <1>5

LEMMA SubjectiveGrade ==
  ASSUME NEW Skills, NEW a \in Texts(Skills), NEW b \in Texts(Skills), NoWorseText(a, b)
  PROVE  /\ Fair(GradeSubjective(a)) /\ Fair(GradeSubjective(b))
         /\ NoWorse(GradeSubjective(a), GradeSubjective(b))
<1> DEFINE of == Rubric(a)
           all == 150 * of
           m == SubjectiveParts(a, of)
           n == SubjectiveParts(b, of)
           s == Round(m, all)
           t == Round(n, all)
<1>1. /\ a.words \in Nat /\ b.words \in Nat /\ a.words <= b.words
      /\ a.keywords \in Nat /\ b.keywords = a.keywords
  BY DEF Texts, NoWorseText
<1>2. /\ GradeSubjective(a) = IF a.words = 0 THEN Graded(0, FALSE) ELSE Graded(s, s >= 7000)
      /\ GradeSubjective(b) = IF b.words = 0 THEN Graded(0, FALSE) ELSE Graded(t, t >= 7000)
  <2> DEFINE By(x, k) == IF x.words = 0 THEN Graded(0, FALSE)
                         ELSE Graded(Round(SubjectiveParts(x, k), 150 * k),
                                     Round(SubjectiveParts(x, k), 150 * k) >= 7000)
  <2>1. ASSUME NEW x PROVE GradeSubjective(x) = By(x, Rubric(x))
    BY DEF GradeSubjective, SubjectiveParts, Share, Covered, Rubric
  <2>2. Rubric(b) = of
    BY <1>1, Zenon DEF Rubric
  <2> HIDE DEF By
  <2>3. GradeSubjective(b) = By(b, of)
    BY <2>1, <2>2, Zenon
  <2>4. GradeSubjective(a) = By(a, of)
    BY <2>1, Zenon
  <2> HIDE DEF of
  <2> QED BY <2>3, <2>4 DEF By
<1>3. of \in Nat \ {0}
  BY <1>1 DEF Rubric
<1>4. ASSUME NEW x \in Texts(Skills) PROVE NoWorseText(x, x)
  BY DEF Texts, NoWorseText
<1>5. CASE b.words = 0
  BY <1>1, <1>2, <1>5 DEF Graded, NoWorse, Fair
<1>6. ASSUME NEW k \in Nat, 0 <= k, k <= 10000 * all
      PROVE  Round(k, all) \in Int /\ 0 <= Round(k, all) /\ Round(k, all) <= 10000
  <2>1. all \in Nat \ {0} /\ 0 * all <= k
    BY <1>3
  <2> HIDE DEF all
  <2> QED BY <1>6, <2>1, RoundInt, RoundAtLeast, RoundAtMost
<1>7. CASE b.words # 0 /\ a.words = 0
  <2>1. n \in Nat /\ n <= 10000 * all
    <3>1. b.words > 0 /\ of \in Nat /\ of = Rubric(b)
      BY <1>1, <1>3, <1>7 DEF Rubric
    <3> HIDE DEF of
    <3> QED BY <1>4, <3>1, SubjectivePartsMono
  <2>2. t \in Int /\ 0 <= t /\ t <= 10000
    <3> HIDE DEF n, all
    <3> QED BY <1>6, <2>1
  <2> HIDE DEF t, s
  <2> QED BY <1>2, <1>7, <2>2 DEF Graded, NoWorse, Fair
<1>8. CASE a.words # 0 /\ b.words # 0
  <2>1. m \in Nat /\ n \in Nat /\ m <= n /\ n <= 10000 * all
    <3>1. a.words > 0 /\ of \in Nat
      BY <1>1, <1>3, <1>8
    <3> HIDE DEF of
    <3> QED BY <3>1, SubjectivePartsMono DEF of
  <2>2. s \in Int /\ 0 <= s /\ s <= 10000 /\ t \in Int /\ 0 <= t /\ t <= 10000 /\ s <= t
    <3>1. all \in Nat \ {0}
      BY <1>3
    <3> HIDE DEF m, n, all
    <3>2. m <= 10000 * all
      BY <2>1, <3>1
    <3> QED BY <1>6, <2>1, <3>1, <3>2, RoundUpward
  <2> DEFINE Passes(score) == score >= 7000
  <2> HIDE DEF s, t
  <2>3. /\ GradeSubjective(a).score = s /\ GradeSubjective(a).correct = Passes(s)
        /\ GradeSubjective(b).score = t /\ GradeSubjective(b).correct = Passes(t)
    BY <1>2, <1>8 DEF Graded
  <2>4. Passes(s) => Passes(t)
    BY <2>2
  <2> HIDE DEF Passes
  <2>5. GradeSubjective(a).correct => GradeSubjective(b).correct
    BY <2>3, <2>4, Zenon
  <2> QED BY <2>2, <2>3, <2>5 DEF Fair, NoWorse
<1> QED BY <1>5, <1>7, <1>8

\* An answer to a question of the same type, points and skill whose grade is no worse.
BetterAnswer(a, b) ==
  /\ b.type = a.type /\ b.points = a.points /\ b.skill = a.skill
  /\ Fair(GradeAnswer(a)) /\ Fair(GradeAnswer(b))
  /\ NoWorse(GradeAnswer(a), GradeAnswer(b))

LEMMA ObjectiveGrade ==
  ASSUME NEW Skills, NEW a \in Choices(Skills) \cup Outputs(Skills),
         NEW b \in Choices(Skills) \cup Outputs(Skills),
         \/ b.given = a.given \/ b.given = "right" \/ a.given = "wrong"
  PROVE  /\ Fair(GradeObjective(a)) /\ Fair(GradeObjective(b))
         /\ NoWorse(GradeObjective(a), GradeObjective(b))
<1>1. a.given \in {"right", "half", "wrong"} /\ b.given \in {"right", "half", "wrong"}
  BY DEF Choices, Outputs
<1>2. /\ a.given = "right" => GradeObjective(a).score = 10000 /\ GradeObjective(a).correct
      /\ a.given = "half" => GradeObjective(a).score = 5000 /\ ~ GradeObjective(a).correct
      /\ a.given = "wrong" => GradeObjective(a).score = 0 /\ ~ GradeObjective(a).correct
  BY DEF GradeObjective, Graded
<1>3. /\ b.given = "right" => GradeObjective(b).score = 10000 /\ GradeObjective(b).correct
      /\ b.given = "half" => GradeObjective(b).score = 5000 /\ ~ GradeObjective(b).correct
      /\ b.given = "wrong" => GradeObjective(b).score = 0 /\ ~ GradeObjective(b).correct
  BY DEF GradeObjective, Graded
<1> QED BY <1>1, <1>2, <1>3 DEF Fair, NoWorse

LEMMA GradeOf ==
  ASSUME NEW Skills, NEW a
  PROVE  /\ a \in Choices(Skills) \cup Outputs(Skills) => GradeAnswer(a) = GradeObjective(a)
         /\ a \in Codes(Skills) => GradeAnswer(a) = GradeCoding(a)
         /\ a \in Texts(Skills) /\ a.type = "debugging" => GradeAnswer(a) = GradeDebugging(a)
         /\ a \in Texts(Skills) /\ a.type = "subjective" => GradeAnswer(a) = GradeSubjective(a)
<1>1. a \in Choices(Skills) \cup Outputs(Skills) => a.type \in Objective
  BY DEF Choices, Outputs, Objective
<1>2. a \in Codes(Skills) => a.type = "coding"
  BY DEF Codes
<1> QED BY <1>1, <1>2 DEF GradeAnswer, Objective

LEMMA ObjectiveBetter ==
  ASSUME NEW Skills, NEW a \in Choices(Skills) \cup Outputs(Skills), NEW b \in Improved(a)
  PROVE  b \in AnswersOn(Skills) /\ BetterAnswer(a, b)
<1>1. \/ a \in Choices(Skills) /\ a.type = "choice" /\ b = [a EXCEPT !.given = "right"]
      \/ /\ a \in Outputs(Skills) /\ a.type = "code_output"
         /\ \E g \in {"half", "right"} : b = [a EXCEPT !.given = g] /\ (g = "right" \/ a.given = "wrong")
  <2>1. CASE a \in Choices(Skills)
    <3>1. a.type = "choice"
      BY <2>1 DEF Choices
    <3> QED BY <2>1, <3>1 DEF Improved
  <2>2. CASE a \in Outputs(Skills)
    <3>1. a.type = "code_output"
      BY <2>2 DEF Outputs
    <3> QED BY <2>2, <3>1 DEF Improved
  <2> QED BY <2>1, <2>2
<1>2. /\ b \in Choices(Skills) \cup Outputs(Skills)
      /\ b.type = a.type /\ b.points = a.points /\ b.skill = a.skill
      /\ b.given = "right" \/ a.given = "wrong"
  BY <1>1 DEF Choices, Outputs
<1>3. /\ Fair(GradeObjective(a)) /\ Fair(GradeObjective(b))
      /\ NoWorse(GradeObjective(a), GradeObjective(b))
  BY <1>2, ObjectiveGrade
<1> QED BY <1>2, <1>3, GradeOf DEF BetterAnswer, AnswersOn

LEMMA CodingBetter ==
  ASSUME NEW Skills, NEW a \in Codes(Skills), NEW b \in Improved(a)
  PROVE  b \in AnswersOn(Skills) /\ BetterAnswer(a, b)
<1>1. a.type = "coding" /\ a.passed \in Nat /\ a.tests \in Nat /\ a.passed <= a.tests
  BY DEF Codes
<1>2. b = [a EXCEPT !.passed = Least(@ + 1, a.tests)]
  BY <1>1 DEF Improved
<1>3. Least(a.passed + 1, a.tests) \in Nat /\ Least(a.passed + 1, a.tests) <= a.tests
      /\ a.passed <= Least(a.passed + 1, a.tests)
  BY <1>1 DEF Least
<1>4. /\ b \in Codes(Skills) /\ b.passed = Least(a.passed + 1, a.tests) /\ b.tests = a.tests
      /\ b.type = a.type /\ b.points = a.points /\ b.skill = a.skill
  BY <1>2, <1>3 DEF Codes
<1>5. a.passed <= a.passed /\ b.passed <= b.passed
  BY <1>1, <1>3, <1>4
<1>6. Fair(GradeCoding(a)) /\ Fair(GradeCoding(b)) /\ NoWorse(GradeCoding(a), GradeCoding(b))
  BY <1>3, <1>4, <1>5, CodingGrade
<1> QED BY <1>4, <1>6, GradeOf DEF BetterAnswer, AnswersOn

LEMMA TextBetter ==
  ASSUME NEW Skills, NEW a \in Texts(Skills), NEW b \in Improved(a)
  PROVE  b \in AnswersOn(Skills) /\ BetterAnswer(a, b)
<1>1. /\ a.type \in {"debugging", "subjective"} /\ a.hits \in Nat /\ a.keywords \in Nat
      /\ a.words \in Nat /\ a.hits <= a.keywords
  BY DEF Texts
<1>2. \/ b = [a EXCEPT !.hits = Least(@ + 1, a.keywords), !.words = @ + 1]
      \/ b = [a EXCEPT !.words = @ + 40]
      \/ b = [a EXCEPT !.structured = a.words > 0]
  BY <1>1 DEF Improved
<1>3. /\ Least(a.hits + 1, a.keywords) \in Nat /\ Least(a.hits + 1, a.keywords) <= a.keywords
      /\ a.hits <= Least(a.hits + 1, a.keywords)
  BY <1>1 DEF Least
<1>4. /\ b \in Texts(Skills) /\ NoWorseText(a, b)
      /\ b.type = a.type /\ b.points = a.points /\ b.skill = a.skill
  <2> DEFINE Fields == [type : {"debugging", "subjective"}, points : Nat, skill : Skills, hits : Nat,
                        keywords : Nat, words : Nat, structured : BOOLEAN]
  <2>1. a \in Fields
    BY Zenon DEF Texts
  <2>2. a.words + 1 \in Nat /\ a.words + 40 \in Nat
    BY <1>1
  <2>3. CASE b = [a EXCEPT !.hits = Least(@ + 1, a.keywords), !.words = @ + 1]
    <3>1. b \in Fields
      BY <1>3, <2>1, <2>2, <2>3, Zenon
    <3>2. /\ b.hits = Least(a.hits + 1, a.keywords) /\ b.words = a.words + 1
          /\ b.keywords = a.keywords /\ b.structured = a.structured
          /\ b.type = a.type /\ b.points = a.points /\ b.skill = a.skill
      BY <2>1, <2>3
    <3>3. NoWorseText(a, b)
      BY <1>1, <1>3, <3>2 DEF NoWorseText
    <3> HIDE DEF Fields
    <3> QED BY <1>3, <3>1, <3>2, <3>3 DEF Texts, Fields
  <2>4. CASE b = [a EXCEPT !.words = @ + 40]
    <3>1. b \in Fields
      BY <2>1, <2>2, <2>4, Zenon
    <3>2. /\ b.hits = a.hits /\ b.words = a.words + 40
          /\ b.keywords = a.keywords /\ b.structured = a.structured
          /\ b.type = a.type /\ b.points = a.points /\ b.skill = a.skill
      BY <2>1, <2>4
    <3>3. NoWorseText(a, b)
      BY <1>1, <3>2 DEF NoWorseText
    <3> HIDE DEF Fields
    <3> QED BY <1>1, <3>1, <3>2, <3>3 DEF Texts, Fields
  <2>5. CASE b = [a EXCEPT !.structured = a.words > 0]
    <3> DEFINE some == a.words > 0
    <3>1. some \in BOOLEAN
      OBVIOUS
    <3>2. some = (a.words > 0)
      OBVIOUS
    <3> HIDE DEF some
    <3>3. b = [a EXCEPT !.structured = some]
      BY <2>5 DEF some
    <3>4. b \in Fields
      BY <2>1, <3>1, <3>3, Zenon
    <3>5. /\ b.hits = a.hits /\ b.words = a.words /\ b.structured = some
          /\ b.keywords = a.keywords
          /\ b.type = a.type /\ b.points = a.points /\ b.skill = a.skill
      BY <2>1, <3>3, Zenon
    <3>6. NoWorseText(a, b)
      <4>1. a.words > 0 => b.structured
        BY <3>2, <3>5, Zenon
      <4> QED BY <1>1, <3>5, <4>1 DEF NoWorseText
    <3> HIDE DEF Fields
    <3> QED BY <1>1, <3>4, <3>5, <3>6 DEF Texts, Fields
  <2> QED BY <1>2, <2>3, <2>4, <2>5
<1>5. CASE a.type = "debugging"
  <2>1. /\ Fair(GradeDebugging(a)) /\ Fair(GradeDebugging(b))
        /\ NoWorse(GradeDebugging(a), GradeDebugging(b))
    BY <1>4, DebuggingGrade
  <2> QED BY <1>4, <1>5, <2>1, GradeOf DEF BetterAnswer, AnswersOn
<1>6. CASE a.type = "subjective"
  <2>1. /\ Fair(GradeSubjective(a)) /\ Fair(GradeSubjective(b))
        /\ NoWorse(GradeSubjective(a), GradeSubjective(b))
    BY <1>4, SubjectiveGrade
  <2> QED BY <1>4, <1>6, <2>1, GradeOf DEF BetterAnswer, AnswersOn
<1> QED BY <1>1, <1>5, <1>6

LEMMA Improves ==
  ASSUME NEW Skills, NEW a \in AnswersOn(Skills), NEW b \in Improved(a)
  PROVE  b \in AnswersOn(Skills) /\ BetterAnswer(a, b)
BY ObjectiveBetter, CodingBetter, TextBetter DEF AnswersOn

LEMMA FairAnswer ==
  ASSUME NEW Skills, NEW a \in AnswersOn(Skills)
  PROVE  Fair(GradeAnswer(a)) /\ a.points \in Nat
<1>1. a.points \in Nat
  BY DEF AnswersOn, Choices, Outputs, Codes, Texts
<1>2. CASE a \in Choices(Skills) \cup Outputs(Skills)
  BY <1>1, <1>2, ObjectiveGrade, GradeOf
<1>3. CASE a \in Codes(Skills)
  <2>1. a.passed <= a.passed
    BY <1>3 DEF Codes
  <2>2. Fair(GradeCoding(a))
    BY <1>3, <2>1, CodingGrade
  <2> QED BY <1>1, <1>3, <2>2, GradeOf
<1>4. CASE a \in Texts(Skills)
  <2>1. NoWorseText(a, a) /\ a.type \in {"debugging", "subjective"}
    BY <1>4 DEF Texts, NoWorseText
  <2>2. Fair(GradeDebugging(a)) /\ Fair(GradeSubjective(a))
    BY <1>4, <2>1, DebuggingGrade, SubjectiveGrade
  <2> QED BY <1>1, <1>4, <2>1, <2>2, GradeOf
<1> QED BY <1>1, <1>2, <1>3, <1>4 DEF AnswersOn

----------------------------------------------------------------------------
\* The scores of an attempt.

\* The sum of F over the elements of a list, and a percentage of two such sums.
Total(s, F) == SumOf([i \in DOMAIN s |-> F[s[i]]])
Percentage(n, d) == IF d = 0 THEN 0 ELSE Round(n, d)
Within(n, d) == - (10000 * d) <= n /\ n <= 10000 * d
Quotient(s, F, G) == Percentage(Total(s, F), Total(s, G))

LEMMA Terms ==
  ASSUME NEW A, NEW s \in Seq(A), NEW F \in [A -> Int]
  PROVE  /\ [i \in DOMAIN s |-> F[s[i]]] \in Seq(Int)
         /\ Len([i \in DOMAIN s |-> F[s[i]]]) = Len(s)
         /\ Total(s, F) \in Int
<1> DEFINE f == [i \in DOMAIN s |-> F[s[i]]]
<1>1. DOMAIN s = 1..Len(s) /\ Len(s) \in Nat /\ \A i \in 1..Len(s) : s[i] \in A /\ F[s[i]] \in Int
  OBVIOUS
<1>2. f \in Seq(Int) /\ Len(f) = Len(s)
  BY <1>1
<1>3. SumOf(f) \in Int
  BY <1>2, SumInt
<1> QED BY <1>2, <1>3, Zenon DEF Total

LEMMA TotalInt ==
  ASSUME NEW A, NEW s \in Seq(A), NEW F \in [A -> Int]
  PROVE  Total(s, F) \in Int
BY Terms

LEMMA TotalMono ==
  ASSUME NEW A, NEW s \in Seq(A), NEW t \in Seq(A), Len(s) = Len(t), NEW F \in [A -> Int],
         \A i \in 1..Len(s) : F[s[i]] <= F[t[i]]
  PROVE  Total(s, F) <= Total(t, F)
<1> DEFINE f == [i \in DOMAIN s |-> F[s[i]]]
           g == [i \in DOMAIN t |-> F[t[i]]]
<1>1. f \in Seq(Int) /\ Len(f) = Len(s) /\ g \in Seq(Int) /\ Len(g) = Len(t)
  BY Terms
<1>2. \A i \in 1..Len(f) : f[i] <= g[i]
  <2>1. DOMAIN s = 1..Len(s) /\ DOMAIN t = 1..Len(t)
    OBVIOUS
  <2> QED BY <1>1, <2>1
<1>3. SumOf(f) <= SumOf(g)
  BY <1>1, <1>2, SumMono
<1> QED BY <1>3, Zenon DEF Total

LEMMA TotalAppended ==
  ASSUME NEW A, NEW s \in Seq(A), NEW x \in A, NEW F \in [A -> Int]
  PROVE  Total(Append(s, x), F) = Total(s, F) + F[x]
<1> DEFINE t == Append(s, x)
           f == [i \in DOMAIN s |-> F[s[i]]]
           g == [i \in DOMAIN t |-> F[t[i]]]
<1>1. /\ t \in Seq(A) /\ Len(t) = Len(s) + 1 /\ \A i \in 1..Len(s) : t[i] = s[i]
      /\ t[Len(s) + 1] = x /\ Len(s) \in Nat /\ DOMAIN s = 1..Len(s) /\ DOMAIN t = 1..Len(s) + 1
  OBVIOUS
<1> HIDE DEF t
<1>2. f \in Seq(Int) /\ Len(f) = Len(s) /\ g \in Seq(Int) /\ Len(g) = Len(t)
  BY <1>1, Terms
<1>3. /\ Len(g) = Len(f) + 1 /\ \A i \in 1..Len(f) : g[i] = f[i]
      /\ g[Len(f) + 1] = F[x]
  BY <1>1, <1>2
<1> HIDE DEF f, g
<1>4. SumOf(g) = SumOf(f) + g[Len(f) + 1]
  BY <1>2, <1>3, SumStep
<1> QED BY <1>3, <1>4, Zenon DEF Total, t, f, g

LEMMA TotalBounds ==
  ASSUME NEW A, NEW s \in Seq(A), NEW F \in [A -> Int], NEW G \in [A -> Nat],
         \A a \in A : Within(F[a], G[a])
  PROVE  Total(s, G) \in Nat /\ Within(Total(s, F), Total(s, G))
<1> DEFINE f == [i \in DOMAIN s |-> F[s[i]]]
           g == [i \in DOMAIN s |-> G[s[i]]]
<1>1. G \in [A -> Int]
  OBVIOUS
<1>2. f \in Seq(Int) /\ Len(f) = Len(s) /\ g \in Seq(Int) /\ Len(g) = Len(s)
  <2>1. f \in Seq(Int) /\ Len(f) = Len(s)
    BY Terms
  <2>2. g \in Seq(Int) /\ Len(g) = Len(s)
    BY <1>1, Terms
  <2> QED BY <2>1, <2>2, Zenon
<1>3. \A i \in 1..Len(f) : f[i] \in Int /\ g[i] \in Nat /\ Within(f[i], g[i])
  <2>1. \A i \in 1..Len(s) : s[i] \in A /\ f[i] = F[s[i]] /\ g[i] = G[s[i]]
    OBVIOUS
  <2> HIDE DEF f, g
  <2> QED BY <1>2, <2>1
<1> HIDE DEF f, g
<1>4. SumOf(f) <= 10000 * SumOf(g)
  <2>1. PICK c \in Int : c = 10000
    OBVIOUS
  <2>2. \A i \in 1..Len(f) : f[i] <= c * g[i]
    BY <1>3, <2>1 DEF Within
  <2>3. SumOf(f) <= c * SumOf(g)
    BY <1>2, <2>2, SumBounds, Zenon
  <2> QED BY <2>1, <2>3
<1>5. - (10000 * SumOf(g)) <= SumOf(f)
  <2>1. PICK c \in Int : c = -10000
    OBVIOUS
  <2>2. \A i \in 1..Len(f) : c * g[i] <= f[i]
    BY <1>3, <2>1 DEF Within
  <2>3. c * SumOf(g) <= SumOf(f)
    BY <1>2, <2>2, SumBounds, Zenon
  <2>4. SumOf(g) \in Int
    BY <1>2, SumInt
  <2> QED BY <2>1, <2>3, <2>4
<1>6. SumOf(g) \in Nat
  <2>1. \A i \in 1..Len(g) : g[i] >= 0
    BY <1>2, <1>3
  <2> QED BY <1>2, <2>1, SumNat
<1>7. Total(s, F) = SumOf(f) /\ Total(s, G) = SumOf(g)
  BY Zenon DEF Total, f, g
<1>8. Within(SumOf(f), SumOf(g))
  BY <1>4, <1>5 DEF Within
<1> QED BY <1>6, <1>7, <1>8, Zenon

\* A percentage grows with what is divided, and with one more that is all right.
LEMMA PercentageMono ==
  ASSUME NEW m \in Int, NEW n \in Int, NEW d \in Nat, m <= n, Within(n, d)
  PROVE  /\ Percentage(m, d) \in Int /\ Percentage(n, d) \in Int
         /\ Percentage(m, d) <= Percentage(n, d) /\ Percentage(n, d) <= 10000
<1>1. CASE d = 0
  BY <1>1 DEF Percentage
<1>2. CASE d # 0
  <2>1. PICK k \in Int : k = 10000
    OBVIOUS
  <2>2. d \in Nat \ {0} /\ n <= k * d
    BY <1>2, <2>1 DEF Within
  <2>3. Round(n, d) <= k
    BY <2>2, RoundAtMost, Zenon
  <2>4. Round(m, d) \in Int /\ Round(n, d) \in Int /\ Round(m, d) <= Round(n, d)
    BY <2>2, RoundInt, RoundUpward
  <2> QED BY <1>2, <2>1, <2>3, <2>4 DEF Percentage
<1> QED BY <1>1, <1>2

LEMMA PercentageMore ==
  ASSUME NEW n \in Int, NEW d \in Nat, Within(n, d)
  PROVE  /\ Percentage(n + 10000, d + 1) \in Int
         /\ Percentage(n, d) <= Percentage(n + 10000, d + 1)
         /\ Percentage(n + 10000, d + 1) <= 10000
<1>1. PICK k \in Int : k = 10000
  OBVIOUS
<1>2. /\ n + k \in Int /\ d + 1 \in Nat \ {0} /\ n + k <= k * (d + 1)
      /\ - (k * d) <= n /\ n <= k * d
  BY <1>1 DEF Within
<1>3. Round(n + k, d + 1) \in Int /\ Round(n + k, d + 1) <= k
  BY <1>2, RoundInt, RoundAtMost, Zenon
<1>4. Percentage(n + k, d + 1) = Round(n + k, d + 1)
  BY <1>2 DEF Percentage
<1>5. Percentage(n, d) <= Round(n + k, d + 1)
  <2>1. CASE d = 0
    <3>1. 0 * (d + 1) <= n + k
      BY <1>1, <1>2, <2>1
    <3>2. 0 \in Int
      OBVIOUS
    <3>3. 0 <= Round(n + k, d + 1)
      BY <1>2, <3>1, <3>2, RoundAtLeast, Zenon
    <3> QED BY <2>1, <3>3 DEF Percentage
  <2>2. CASE d # 0
    <3>1. n * (d + 1) <= (n + k) * d
      <4>1. /\ n * (d + 1) = n * d + n /\ (n + k) * d = n * d + k * d /\ n * d \in Int
            /\ k * d \in Int
        BY <1>1
      <4> QED BY <1>2, <4>1
    <3>2. d \in Nat \ {0}
      BY <2>2
    <3>3. Round(n, d) <= Round(n + k, d + 1)
      BY <1>2, <3>1, <3>2, RoundMono, Zenon
    <3> QED BY <2>2, <3>3 DEF Percentage
  <2> QED BY <2>1, <2>2
<1> QED BY <1>1, <1>3, <1>4, <1>5

\* A percentage of F by G, of lists of which the second has no less of F.
Divided(A, F, G) == F \in [A -> Int] /\ G \in [A -> Nat] /\ \A a \in A : Within(F[a], G[a])
Grows(s, t, F, G) ==
  Len(s) = Len(t) /\ \A i \in 1..Len(s) : F[s[i]] <= F[t[i]] /\ G[s[i]] = G[t[i]]

LEMMA DividedTotals ==
  ASSUME NEW A, NEW s \in Seq(A), NEW F, NEW G, Divided(A, F, G)
  PROVE  Total(s, F) \in Int /\ Total(s, G) \in Nat /\ Within(Total(s, F), Total(s, G))
<1>1. F \in [A -> Int] /\ G \in [A -> Nat] /\ \A a \in A : Within(F[a], G[a])
  BY DEF Divided
<1>2. Total(s, F) \in Int
  BY <1>1, TotalInt
<1>3. Total(s, G) \in Nat /\ Within(Total(s, F), Total(s, G))
  BY <1>1, TotalBounds, Zenon
<1> QED BY <1>2, <1>3

LEMMA QuotientMono ==
  ASSUME NEW A, NEW s \in Seq(A), NEW t \in Seq(A), NEW F, NEW G,
         Divided(A, F, G), Grows(s, t, F, G)
  PROVE  /\ Quotient(s, F, G) \in Int /\ Quotient(t, F, G) \in Int
         /\ Quotient(s, F, G) <= Quotient(t, F, G) /\ Quotient(t, F, G) <= 10000
         /\ Total(s, G) = Total(t, G)
<1>1. /\ Total(s, F) \in Int /\ Total(t, F) \in Int
      /\ Total(t, G) \in Nat /\ Within(Total(t, F), Total(t, G))
  BY DividedTotals
<1>2. Total(s, F) <= Total(t, F)
  <2>1. F \in [A -> Int]
    BY DEF Divided
  <2>2. Len(s) = Len(t) /\ \A i \in 1..Len(s) : F[s[i]] <= F[t[i]]
    BY DEF Grows
  <2> QED BY <2>1, <2>2, TotalMono
<1>3. Total(s, G) = Total(t, G)
  <2>1. Len(s) = Len(t) /\ \A i \in 1..Len(s) : G[s[i]] = G[t[i]]
    BY DEF Grows
  <2>2. DOMAIN s = DOMAIN t /\ DOMAIN s = 1..Len(s)
    BY <2>1
  <2> QED BY <2>1, <2>2, Zenon DEF Total
<1> QED BY <1>1, <1>2, <1>3, PercentageMono DEF Quotient

LEMMA QuotientMore ==
  ASSUME NEW A, NEW s \in Seq(A), NEW x \in A,
         NEW F, NEW G, Divided(A, F, G),
         \/ F[x] = 10000 /\ G[x] = 1
         \/ F[x] = 0 /\ G[x] = 0
  PROVE  /\ Quotient(s, F, G) \in Int /\ Quotient(Append(s, x), F, G) \in Int
         /\ Quotient(s, F, G) <= Quotient(Append(s, x), F, G)
         /\ Quotient(Append(s, x), F, G) <= 10000
<1> DEFINE n == Total(s, F)
           d == Total(s, G)
<1>1. n \in Int /\ d \in Nat /\ Within(n, d)
  BY DividedTotals
<1>2. Total(Append(s, x), F) = n + F[x] /\ Total(Append(s, x), G) = d + G[x]
  <2>1. F \in [A -> Int] /\ G \in [A -> Int]
    BY DEF Divided
  <2> QED BY <2>1, TotalAppended
<1>3. /\ Quotient(s, F, G) = Percentage(n, d)
      /\ Quotient(Append(s, x), F, G) = Percentage(n + F[x], d + G[x])
  BY <1>2 DEF Quotient
<1> HIDE DEF n, d
<1>4. n <= n
  BY <1>1
<1>5. /\ Percentage(n, d) \in Int /\ Percentage(n, d) <= 10000
      /\ Percentage(n, d) <= Percentage(n, d)
  BY <1>1, <1>4, PercentageMono
<1>6. CASE F[x] = 0 /\ G[x] = 0
  <2>1. n + F[x] = n /\ d + G[x] = d
    BY <1>1, <1>6
  <2> QED BY <1>3, <1>5, <2>1
<1>7. CASE F[x] = 10000 /\ G[x] = 1
  BY <1>1, <1>3, <1>5, <1>7, PercentageMore
<1> QED BY <1>6, <1>7

LEMMA EarnedOf ==
  ASSUME NEW a, NEW negative \in Nat, Fair(GradeAnswer(a)), a.points \in Nat
  PROVE  /\ Earned(a, negative) = IF ~ GradeAnswer(a).correct /\ a.type \in Objective
                                  THEN Greatest(a.points * GradeAnswer(a).score - 100 * negative,
                                                - (10000 * a.points))
                                  ELSE a.points * GradeAnswer(a).score
         /\ a.points * GradeAnswer(a).score \in Int /\ 0 <= a.points * GradeAnswer(a).score
         /\ a.points * GradeAnswer(a).score <= 10000 * a.points
         /\ Earned(a, negative) \in Int /\ Within(Earned(a, negative), a.points)
<1> DEFINE g == GradeAnswer(a).score
           p == a.points
           e == p * g
<1>1. g \in Int /\ 0 <= g /\ g <= 10000 /\ p \in Nat
  BY DEF Fair
<1> HIDE DEF g, p
<1>2. e \in Int /\ 0 <= e /\ e <= 10000 * p
  <2>1. 0 * p <= g * p /\ g * p <= 10000 * p /\ g * p \in Int
    BY <1>1, MulMono
  <2>2. g * p = p * g
    BY <1>1
  <2> QED BY <1>1, <2>1, <2>2
<1> HIDE DEF e
<1>3. Earned(a, negative) = IF ~ GradeAnswer(a).correct /\ a.type \in Objective
                            THEN Greatest(e - 100 * negative, - (10000 * p)) ELSE e
  BY DEF Earned, e, p, g
<1>4. /\ Greatest(e - 100 * negative, - (10000 * p)) \in Int
      /\ Within(Greatest(e - 100 * negative, - (10000 * p)), p) /\ Within(e, p)
  BY <1>1, <1>2 DEF Greatest, Within
<1>5. Earned(a, negative) \in Int /\ Within(Earned(a, negative), p)
  BY <1>2, <1>3, <1>4
<1> QED BY <1>2, <1>3, <1>5 DEF e, p, g

LEMMA EarnedMono ==
  ASSUME NEW a, NEW b, NEW negative \in Nat, BetterAnswer(a, b), a.points \in Nat
  PROVE  Earned(a, negative) <= Earned(b, negative)
<1> DEFINE e == a.points * GradeAnswer(a).score
           f == b.points * GradeAnswer(b).score
           lost(x) == Greatest(x - 100 * negative, - (10000 * a.points))
<1>1. /\ Fair(GradeAnswer(a)) /\ Fair(GradeAnswer(b)) /\ b.points = a.points /\ b.type = a.type
      /\ GradeAnswer(a).score <= GradeAnswer(b).score
      /\ GradeAnswer(a).correct => GradeAnswer(b).correct
  BY DEF BetterAnswer, NoWorse
<1>2. b.points \in Nat
  BY <1>1
<1>3. e \in Int /\ f \in Int /\ 0 <= e /\ e <= f
  <2>1. GradeAnswer(a).score \in Int /\ GradeAnswer(b).score \in Int
    BY <1>1 DEF Fair
  <2>2. a.points * GradeAnswer(a).score <= a.points * GradeAnswer(b).score
    BY <1>1, <2>1, MulMono
  <2>3. a.points * GradeAnswer(b).score = f
    BY <1>1
  <2>4. e \in Int /\ f \in Int /\ 0 <= e
    BY <1>1, <1>2, EarnedOf
  <2> QED BY <2>2, <2>3, <2>4
<1>4. /\ Earned(a, negative) = IF ~ GradeAnswer(a).correct /\ a.type \in Objective THEN lost(e) ELSE e
      /\ Earned(b, negative) = IF ~ GradeAnswer(b).correct /\ a.type \in Objective THEN lost(f) ELSE f
  <2>1. Earned(a, negative) = IF ~ GradeAnswer(a).correct /\ a.type \in Objective THEN lost(e) ELSE e
    BY <1>1, EarnedOf
  <2>2. Earned(b, negative) = IF ~ GradeAnswer(b).correct /\ b.type \in Objective
                              THEN Greatest(f - 100 * negative, - (10000 * b.points)) ELSE f
    BY <1>1, <1>2, EarnedOf
  <2> HIDE DEF e, f
  <2> QED BY <1>1, <2>1, <2>2
<1> HIDE DEF e, f
<1>5. /\ lost(e) \in Int /\ lost(f) \in Int /\ lost(e) <= lost(f) /\ lost(e) <= f
      /\ lost(f) <= f /\ lost(e) <= e
  BY <1>3 DEF Greatest
<1> HIDE DEF lost
<1> QED BY <1>1, <1>3, <1>4, <1>5

----------------------------------------------------------------------------
\* What is divided for each of the scores.
Answered(A, c) == [a \in A |-> c]
PointsOf(A) == [a \in A |-> a.points]
Marks(A, negative) ==
  [a \in A |-> IF negative = 0 THEN Greatest(Earned(a, negative), 0) ELSE Earned(a, negative)]
PointsIn(A, section) == [a \in A |-> IF a.type = section THEN a.points ELSE 0]
MarksIn(A, negative, section) == [a \in A |-> IF a.type = section THEN Earned(a, negative) ELSE 0]
Asked(A, skill) == [a \in A |-> IF a.skill = skill THEN 1 ELSE 0]
ScoreOn(A, skill) == [a \in A |-> IF a.skill = skill THEN GradeAnswer(a).score ELSE 0]
Correct(A) == [a \in A |-> IF GradeAnswer(a).correct THEN 10000 ELSE 0]

LEMMA OverallOf ==
  ASSUME NEW A, NEW s \in Seq(A), NEW negative
  PROVE  Overall(s, negative)
           = IF Total(s, PointsOf(A)) = 0 THEN 0 ELSE Greatest(Quotient(s, Marks(A, negative), PointsOf(A)), 0)
<1>1. \A i \in DOMAIN s : s[i] \in A
  OBVIOUS
<1>2. [i \in DOMAIN s |-> s[i].points] = [i \in DOMAIN s |-> PointsOf(A)[s[i]]]
  BY <1>1 DEF PointsOf
<1>3. [i \in DOMAIN s |-> IF negative = 0 THEN Greatest(Earned(s[i], negative), 0) ELSE Earned(s[i], negative)]
        = [i \in DOMAIN s |-> Marks(A, negative)[s[i]]]
  BY <1>1 DEF Marks
<1>4. /\ SumOver(s, LAMBDA a : a.points) = Total(s, PointsOf(A))
      /\ SumOver(s, LAMBDA a : IF negative = 0 THEN Greatest(Earned(a, negative), 0)
                               ELSE Earned(a, negative))
           = Total(s, Marks(A, negative))
  BY <1>2, <1>3, Zenon DEF SumOver, Total
<1> QED BY <1>4, Zenon DEF Overall, Quotient, Percentage

LEMMA SectionOf ==
  ASSUME NEW A, NEW s \in Seq(A), NEW negative, NEW section
  PROVE  SectionPercentage(s, negative, section) = Quotient(s, MarksIn(A, negative, section), PointsIn(A, section))
<1>1. \A i \in DOMAIN s : s[i] \in A
  OBVIOUS
<1>2. [i \in DOMAIN s |-> IF s[i].type = section THEN s[i].points ELSE 0]
        = [i \in DOMAIN s |-> PointsIn(A, section)[s[i]]]
  BY <1>1 DEF PointsIn
<1>3. [i \in DOMAIN s |-> IF s[i].type = section THEN Earned(s[i], negative) ELSE 0]
        = [i \in DOMAIN s |-> MarksIn(A, negative, section)[s[i]]]
  BY <1>1 DEF MarksIn
<1>4. /\ SumOver(s, LAMBDA a : IF a.type = section THEN a.points ELSE 0) = Total(s, PointsIn(A, section))
      /\ SumOver(s, LAMBDA a : IF a.type = section THEN Earned(a, negative) ELSE 0)
           = Total(s, MarksIn(A, negative, section))
  BY <1>2, <1>3, Zenon DEF SumOver, Total
<1> QED BY <1>4, Zenon DEF SectionPercentage, Quotient, Percentage

LEMMA SkillOf ==
  ASSUME NEW A, NEW s \in Seq(A), NEW skill
  PROVE  SkillPercentage(s, skill) = Quotient(s, ScoreOn(A, skill), Asked(A, skill))
<1>1. \A i \in DOMAIN s : s[i] \in A
  OBVIOUS
<1>2. [i \in DOMAIN s |-> IF s[i].skill = skill THEN 1 ELSE 0] = [i \in DOMAIN s |-> Asked(A, skill)[s[i]]]
  BY <1>1 DEF Asked
<1>3. [i \in DOMAIN s |-> IF s[i].skill = skill THEN GradeAnswer(s[i]).score ELSE 0]
        = [i \in DOMAIN s |-> ScoreOn(A, skill)[s[i]]]
  BY <1>1 DEF ScoreOn
<1>4. /\ CountIn(s, LAMBDA a : a.skill = skill) = Total(s, Asked(A, skill))
      /\ SumOver(s, LAMBDA a : IF a.skill = skill THEN GradeAnswer(a).score ELSE 0)
           = Total(s, ScoreOn(A, skill))
  BY <1>2, <1>3, Zenon DEF CountIn, SumOver, Total
<1> QED BY <1>4, Zenon DEF SkillPercentage, Quotient, Percentage

LEMMA AccuracyOf ==
  ASSUME NEW A, NEW s \in Seq(A)
  PROVE  Accuracy(s) = Quotient(s, Correct(A), Answered(A, 1))
<1> DEFINE ones == [i \in DOMAIN s |-> Answered(A, 1)[s[i]]]
           right == [i \in DOMAIN s |-> IF GradeAnswer(s[i]).correct THEN 1 ELSE 0]
           all == [i \in DOMAIN s |-> Correct(A)[s[i]]]
<1>1. \A i \in DOMAIN s : s[i] \in A
  OBVIOUS
<1>2. ones \in Seq(Int) /\ Len(ones) = Len(s) /\ \A i \in 1..Len(ones) : ones[i] = 1
  BY <1>1 DEF Answered
<1>3. Total(s, Answered(A, 1)) = Len(s)
  <2>1. SumOf(ones) = Len(s)
    BY <1>2, SumOnes
  <2> QED BY <2>1, Zenon DEF Total
<1>4. right \in Seq(Int) /\ all \in Seq(Int) /\ Len(all) = Len(right)
  <2>1. DOMAIN s = 1..Len(s) /\ Len(s) \in Nat
    OBVIOUS
  <2>2. \A i \in 1..Len(s) : right[i] \in Int
    BY <2>1
  <2>3. Correct(A) \in [A -> Int]
    BY DEF Correct
  <2>4. all \in Seq(Int) /\ Len(all) = Len(s)
    BY <2>3, Terms
  <2> HIDE DEF all
  <2> QED BY <2>1, <2>2, <2>4
<1>5. PICK c \in Int : c = 10000
  OBVIOUS
<1>6. \A i \in 1..Len(all) : all[i] = c * right[i]
  BY <1>1, <1>5 DEF Correct
<1>7. SumOf(all) = c * SumOf(right)
  BY <1>4, <1>6, SumScaled
<1>8. Total(s, Correct(A)) = SumOf(all) /\ CountIn(s, LAMBDA a : GradeAnswer(a).correct) = SumOf(right)
  BY Zenon DEF Total, CountIn, SumOver
<1>9. Total(s, Correct(A)) = 10000 * CountIn(s, LAMBDA a : GradeAnswer(a).correct)
  <2> HIDE DEF all, right
  <2> QED BY <1>5, <1>7, <1>8
<1>10. s = <<>> <=> Len(s) = 0
  OBVIOUS
<1> QED BY <1>3, <1>9, <1>10 DEF Accuracy, Quotient, Percentage

LEMMA MarksFair ==
  ASSUME NEW Skills, NEW negative \in Nat
  PROVE  LET A == AnswersOn(Skills)
         IN Divided(A, Marks(A, negative), PointsOf(A))
<1> DEFINE A == AnswersOn(Skills)
<1>1. ASSUME NEW a \in A
      PROVE  /\ Earned(a, negative) \in Int /\ Greatest(Earned(a, negative), 0) \in Int
             /\ Within(Earned(a, negative), a.points)
             /\ Within(Greatest(Earned(a, negative), 0), a.points) /\ a.points \in Nat
  <2>1. Earned(a, negative) \in Int /\ Within(Earned(a, negative), a.points) /\ a.points \in Nat
    BY FairAnswer, EarnedOf
  <2> QED BY <2>1 DEF Greatest, Within
<1> HIDE DEF A
<1>2. PointsOf(A) \in [A -> Nat]
  BY <1>1 DEF PointsOf
<1>3. Marks(A, negative) \in [A -> Int]
  BY <1>1 DEF Marks
<1>4. ASSUME NEW a \in A PROVE Within(Marks(A, negative)[a], PointsOf(A)[a])
  BY <1>1 DEF Marks, PointsOf
<1> QED BY <1>2, <1>3, <1>4 DEF A, Divided

LEMMA SectionFair ==
  ASSUME NEW Skills, NEW negative \in Nat, NEW section
  PROVE  LET A == AnswersOn(Skills)
         IN Divided(A, MarksIn(A, negative, section), PointsIn(A, section))
<1> DEFINE A == AnswersOn(Skills)
<1>1. ASSUME NEW a \in A
      PROVE  /\ Earned(a, negative) \in Int /\ a.points \in Nat
             /\ Within(Earned(a, negative), a.points)
  BY FairAnswer, EarnedOf
<1>2. Within(0, 0)
  BY DEF Within
<1> HIDE DEF A
<1>3. PointsIn(A, section) \in [A -> Nat]
  BY <1>1 DEF PointsIn
<1>4. MarksIn(A, negative, section) \in [A -> Int]
  BY <1>1 DEF MarksIn
<1>5. ASSUME NEW a \in A PROVE Within(MarksIn(A, negative, section)[a], PointsIn(A, section)[a])
  BY <1>1, <1>2 DEF MarksIn, PointsIn
<1> QED BY <1>3, <1>4, <1>5 DEF A, Divided

LEMMA SkillFair ==
  ASSUME NEW Skills, NEW skill
  PROVE  LET A == AnswersOn(Skills)
         IN Divided(A, ScoreOn(A, skill), Asked(A, skill))
<1> DEFINE A == AnswersOn(Skills)
<1>1. ASSUME NEW a \in A
      PROVE  GradeAnswer(a).score \in Int /\ Within(GradeAnswer(a).score, 1)
  <2>1. Fair(GradeAnswer(a))
    BY FairAnswer
  <2> QED BY <2>1 DEF Fair, Within
<1>2. Within(0, 0)
  BY DEF Within
<1> HIDE DEF A
<1>3. Asked(A, skill) \in [A -> Nat]
  BY DEF Asked
<1>4. ScoreOn(A, skill) \in [A -> Int]
  BY <1>1 DEF ScoreOn
<1>5. ASSUME NEW a \in A PROVE Within(ScoreOn(A, skill)[a], Asked(A, skill)[a])
  BY <1>1, <1>2 DEF ScoreOn, Asked
<1> QED BY <1>3, <1>4, <1>5 DEF A, Divided

LEMMA CorrectFair ==
  ASSUME NEW A
  PROVE  Divided(A, Correct(A), Answered(A, 1))
<1>1. Within(0, 1) /\ Within(10000, 1)
  BY DEF Within
<1>2. Correct(A) \in [A -> Int]
  BY DEF Correct
<1>3. Answered(A, 1) \in [A -> Nat]
  BY DEF Answered
<1>4. ASSUME NEW a \in A PROVE Within(Correct(A)[a], Answered(A, 1)[a])
  BY <1>1 DEF Correct, Answered
<1> QED BY <1>2, <1>3, <1>4 DEF Divided

\* No score of the one list is lower than that of the other.
NoLower(s, t, negative) ==
  /\ Overall(s, negative) \in Int /\ Overall(t, negative) \in Int
  /\ Overall(s, negative) <= Overall(t, negative)
  /\ Accuracy(s) <= Accuracy(t)
  /\ \A section : SectionPercentage(s, negative, section) <= SectionPercentage(t, negative, section)
  /\ \A skill : SkillPercentage(s, skill) <= SkillPercentage(t, skill)

LEMMA BetterList ==
  ASSUME NEW Skills, NEW s \in Seq(AnswersOn(Skills)), NEW t \in Seq(AnswersOn(Skills)),
         Len(s) = Len(t), \A i \in 1..Len(s) : BetterAnswer(s[i], t[i]), NEW negative \in Nat
  PROVE  NoLower(s, t, negative) /\ Overall(t, negative) <= 10000
<1> DEFINE A == AnswersOn(Skills)
<1>1. ASSUME NEW i \in 1..Len(s)
      PROVE  /\ s[i] \in A /\ t[i] \in A /\ BetterAnswer(s[i], t[i])
             /\ t[i].type = s[i].type /\ t[i].points = s[i].points /\ t[i].skill = s[i].skill
             /\ GradeAnswer(s[i]).score \in Int /\ GradeAnswer(t[i]).score \in Int
             /\ GradeAnswer(s[i]).score <= GradeAnswer(t[i]).score
             /\ GradeAnswer(s[i]).correct => GradeAnswer(t[i]).correct
             /\ Earned(s[i], negative) \in Int /\ Earned(t[i], negative) \in Int
             /\ Earned(s[i], negative) <= Earned(t[i], negative)
  <2>1. s[i] \in A /\ t[i] \in A /\ BetterAnswer(s[i], t[i])
    OBVIOUS
  <2>2. /\ s[i].points \in Nat /\ t[i].points \in Nat /\ Fair(GradeAnswer(s[i]))
        /\ Fair(GradeAnswer(t[i]))
    BY <2>1, FairAnswer
  <2>3. /\ Earned(s[i], negative) \in Int /\ Earned(t[i], negative) \in Int
        /\ Earned(s[i], negative) <= Earned(t[i], negative)
    BY <2>1, <2>2, EarnedOf, EarnedMono
  <2> HIDE DEF A
  <2> QED BY <2>1, <2>2, <2>3 DEF BetterAnswer, NoWorse, Fair
<1>2. /\ Overall(s, negative) \in Int /\ Overall(t, negative) \in Int
      /\ Overall(s, negative) <= Overall(t, negative) /\ Overall(t, negative) <= 10000
  <2> DEFINE F == Marks(A, negative)
             G == PointsOf(A)
  <2>1. Divided(A, F, G)
    BY MarksFair, Zenon
  <2> HIDE DEF A
  <2>2. ASSUME NEW i \in 1..Len(s) PROVE F[s[i]] <= F[t[i]] /\ G[s[i]] = G[t[i]]
    <3>1. s[i] \in A /\ t[i] \in A /\ \A x, y \in Int : x <= y => Greatest(x, 0) <= Greatest(y, 0)
      BY <1>1 DEF Greatest
    <3>2. /\ F[s[i]] = IF negative = 0 THEN Greatest(Earned(s[i], negative), 0) ELSE Earned(s[i], negative)
          /\ F[t[i]] = IF negative = 0 THEN Greatest(Earned(t[i], negative), 0) ELSE Earned(t[i], negative)
          /\ G[s[i]] = s[i].points /\ G[t[i]] = t[i].points
      BY <3>1 DEF Marks, PointsOf
    <3> HIDE DEF F, G
    <3> QED BY <1>1, <3>1, <3>2
  <2>3. s \in Seq(A) /\ t \in Seq(A)
    BY DEF A
  <2> HIDE DEF F, G
  <2>4. Grows(s, t, F, G)
    BY <2>2 DEF Grows
  <2>5. /\ Quotient(s, F, G) \in Int /\ Quotient(t, F, G) \in Int
        /\ Quotient(s, F, G) <= Quotient(t, F, G) /\ Quotient(t, F, G) <= 10000
        /\ Total(s, G) = Total(t, G)
    BY <2>4, <2>1, <2>3, QuotientMono
  <2>6. /\ Overall(s, negative) = IF Total(s, G) = 0 THEN 0 ELSE Greatest(Quotient(s, F, G), 0)
        /\ Overall(t, negative) = IF Total(t, G) = 0 THEN 0 ELSE Greatest(Quotient(t, F, G), 0)
    BY <2>3, OverallOf, Zenon DEF F, G
  <2> QED BY <2>5, <2>6 DEF Greatest
<1>3. Accuracy(s) <= Accuracy(t)
  <2> DEFINE F == Correct(A)
             G == Answered(A, 1)
  <2>1. Divided(A, F, G)
    BY CorrectFair, Zenon
  <2> HIDE DEF A
  <2>2. ASSUME NEW i \in 1..Len(s) PROVE F[s[i]] <= F[t[i]] /\ G[s[i]] = G[t[i]]
    BY <1>1 DEF Correct, Answered
  <2>3. s \in Seq(A) /\ t \in Seq(A)
    BY DEF A
  <2> HIDE DEF F, G
  <2>4. Grows(s, t, F, G)
    BY <2>2 DEF Grows
  <2>5. /\ Quotient(s, F, G) \in Int /\ Quotient(t, F, G) \in Int
        /\ Quotient(s, F, G) <= Quotient(t, F, G)
    BY <2>4, <2>1, <2>3, QuotientMono
  <2>6. Accuracy(s) = Quotient(s, F, G) /\ Accuracy(t) = Quotient(t, F, G)
    BY <2>3, AccuracyOf, Zenon DEF F, G
  <2> QED BY <2>5, <2>6
<1>4. ASSUME NEW section
      PROVE  SectionPercentage(s, negative, section) <= SectionPercentage(t, negative, section)
  <2> DEFINE F == MarksIn(A, negative, section)
             G == PointsIn(A, section)
  <2>1. Divided(A, F, G)
    BY SectionFair, Zenon
  <2> HIDE DEF A
  <2>2. ASSUME NEW i \in 1..Len(s) PROVE F[s[i]] <= F[t[i]] /\ G[s[i]] = G[t[i]]
    <3>1. s[i] \in A /\ t[i] \in A
      BY <1>1
    <3>2. /\ F[s[i]] = IF s[i].type = section THEN Earned(s[i], negative) ELSE 0
          /\ F[t[i]] = IF t[i].type = section THEN Earned(t[i], negative) ELSE 0
          /\ G[s[i]] = IF s[i].type = section THEN s[i].points ELSE 0
          /\ G[t[i]] = IF t[i].type = section THEN t[i].points ELSE 0
      BY <3>1, Zenon DEF MarksIn, PointsIn
    <3> HIDE DEF F, G
    <3> QED BY <1>1, <3>2
  <2>3. s \in Seq(A) /\ t \in Seq(A)
    BY DEF A
  <2> HIDE DEF F, G
  <2>4. Grows(s, t, F, G)
    BY <2>2 DEF Grows
  <2>5. /\ Quotient(s, F, G) \in Int /\ Quotient(t, F, G) \in Int
        /\ Quotient(s, F, G) <= Quotient(t, F, G)
    BY <2>4, <2>1, <2>3, QuotientMono
  <2>6. /\ SectionPercentage(s, negative, section) = Quotient(s, F, G)
        /\ SectionPercentage(t, negative, section) = Quotient(t, F, G)
    BY <2>3, SectionOf, Zenon DEF F, G
  <2> QED BY <2>5, <2>6
<1>5. ASSUME NEW skill PROVE SkillPercentage(s, skill) <= SkillPercentage(t, skill)
  <2> DEFINE F == ScoreOn(A, skill)
             G == Asked(A, skill)
  <2>1. Divided(A, F, G)
    BY SkillFair, Zenon
  <2> HIDE DEF A
  <2>2. ASSUME NEW i \in 1..Len(s) PROVE F[s[i]] <= F[t[i]] /\ G[s[i]] = G[t[i]]
    BY <1>1 DEF ScoreOn, Asked
  <2>3. s \in Seq(A) /\ t \in Seq(A)
    BY DEF A
  <2> HIDE DEF F, G
  <2>4. Grows(s, t, F, G)
    BY <2>2 DEF Grows
  <2>5. /\ Quotient(s, F, G) \in Int /\ Quotient(t, F, G) \in Int
        /\ Quotient(s, F, G) <= Quotient(t, F, G)
    BY <2>4, <2>1, <2>3, QuotientMono
  <2>6. /\ SkillPercentage(s, skill) = Quotient(s, F, G)
        /\ SkillPercentage(t, skill) = Quotient(t, F, G)
    BY <2>3, SkillOf, Zenon DEF F, G
  <2> QED BY <2>5, <2>6
<1>6. NoLower(s, t, negative)
  BY <1>2, <1>3, <1>4, <1>5 DEF NoLower
<1> QED BY <1>2, <1>6

\* Attempts, on any skills.
Attempts(Skills) == [kind : {"attempt"}, answers : Seq(AnswersOn(Skills)), negative : Nat, passing : Int]

LEMMA MoreAnswers ==
  ASSUME NEW Skills, NEW s \in Seq(AnswersOn(Skills)), NEW x \in AnswersOn(Skills),
         x.type = "choice", x.points = 1, x.given = "right", NEW negative \in Nat
  PROVE  NoLower(s, Append(s, x), negative) /\ Overall(Append(s, x), negative) <= 10000
<1> DEFINE A == AnswersOn(Skills)
           t == Append(s, x)
<1>1. /\ GradeAnswer(x).score = 10000 /\ GradeAnswer(x).correct
      /\ Earned(x, negative) = 10000
  <2>1. GradeAnswer(x) = Graded(10000, TRUE)
    BY DEF GradeAnswer, GradeObjective, Objective
  <2> QED BY <2>1 DEF Graded, Earned
<1>2. s \in Seq(A) /\ x \in A /\ t \in Seq(A)
  OBVIOUS
<1>3. /\ Overall(s, negative) \in Int /\ Overall(t, negative) \in Int
      /\ Overall(s, negative) <= Overall(t, negative) /\ Overall(t, negative) <= 10000
  <2> DEFINE F == Marks(A, negative)
             G == PointsOf(A)
  <2>1. Divided(A, F, G)
    BY MarksFair, Zenon
  <2> HIDE DEF A, t
  <2>2. F[x] = 10000 /\ G[x] = 1
    BY <1>1, <1>2 DEF Marks, PointsOf, Greatest
  <2>3. /\ Overall(s, negative) = IF Total(s, G) = 0 THEN 0 ELSE Greatest(Quotient(s, F, G), 0)
        /\ Overall(t, negative) = IF Total(t, G) = 0 THEN 0 ELSE Greatest(Quotient(t, F, G), 0)
    BY <1>2, OverallOf, Zenon
  <2> HIDE DEF F, G
  <2>4. /\ Quotient(s, F, G) \in Int /\ Quotient(t, F, G) \in Int
        /\ Quotient(s, F, G) <= Quotient(t, F, G) /\ Quotient(t, F, G) <= 10000
    BY <1>2, <2>1, <2>2, QuotientMore DEF t
  <2>5. Total(s, G) = 0 => Quotient(s, F, G) = 0
    BY DEF Quotient, Percentage
  <2>6. Total(t, G) = 0 => Quotient(t, F, G) = 0
    BY DEF Quotient, Percentage
  <2> QED BY <2>3, <2>4, <2>5, <2>6 DEF Greatest
<1>4. Accuracy(s) <= Accuracy(t)
  <2> DEFINE F == Correct(A)
             G == Answered(A, 1)
  <2>1. Divided(A, F, G)
    BY CorrectFair, Zenon
  <2> HIDE DEF A, t
  <2>2. F[x] = 10000 /\ G[x] = 1
    BY <1>1, <1>2 DEF Correct, Answered
  <2>3. Accuracy(s) = Quotient(s, F, G) /\ Accuracy(t) = Quotient(t, F, G)
    BY <1>2, AccuracyOf, Zenon
  <2> HIDE DEF F, G
  <2> QED BY <1>2, <2>1, <2>2, <2>3, QuotientMore DEF t
<1>5. ASSUME NEW section
      PROVE  SectionPercentage(s, negative, section) <= SectionPercentage(t, negative, section)
  <2> DEFINE F == MarksIn(A, negative, section)
             G == PointsIn(A, section)
  <2>1. Divided(A, F, G)
    BY SectionFair, Zenon
  <2> HIDE DEF A, t
  <2>2. (F[x] = 10000 /\ G[x] = 1) \/ (F[x] = 0 /\ G[x] = 0)
    BY <1>1, <1>2 DEF MarksIn, PointsIn
  <2>3. /\ SectionPercentage(s, negative, section) = Quotient(s, F, G)
        /\ SectionPercentage(t, negative, section) = Quotient(t, F, G)
    BY <1>2, SectionOf, Zenon
  <2> HIDE DEF F, G
  <2> QED BY <1>2, <2>1, <2>2, <2>3, QuotientMore DEF t
<1>6. ASSUME NEW skill PROVE SkillPercentage(s, skill) <= SkillPercentage(t, skill)
  <2> DEFINE F == ScoreOn(A, skill)
             G == Asked(A, skill)
  <2>1. Divided(A, F, G)
    BY SkillFair, Zenon
  <2> HIDE DEF A, t
  <2>2. (F[x] = 10000 /\ G[x] = 1) \/ (F[x] = 0 /\ G[x] = 0)
    BY <1>1, <1>2 DEF ScoreOn, Asked
  <2>3. /\ SkillPercentage(s, skill) = Quotient(s, F, G)
        /\ SkillPercentage(t, skill) = Quotient(t, F, G)
    BY <1>2, SkillOf, Zenon
  <2> HIDE DEF F, G
  <2> QED BY <1>2, <2>1, <2>2, <2>3, QuotientMore DEF t
<1>7. NoLower(s, t, negative)
  <2> HIDE DEF t
  <2> QED BY <1>3, <1>4, <1>5, <1>6 DEF NoLower
<1> QED BY <1>3, <1>7

\* In an attempt of any length a better answer, or one more right one, lowers neither the
\* score nor that of a section or a skill, nor the accuracy or the recommendation; and the
\* score is a percentage.
THEOREM BetterAnswersHelpHolds ==
  ASSUME NEW Skills, "sql" \in Skills, Is("attempt") => subject \in Attempts(Skills)
  PROVE  BetterAnswersHelp
<1> DEFINE answers == subject.answers
           negative == subject.negative
           A == AnswersOn(Skills)
           x == [type |-> "choice", points |-> 1, skill |-> "sql", given |-> "right"]
           Better(after) ==
             /\ Overall(after, negative) >= Overall(answers, negative)
             /\ Overall(after, negative) <= 10000
             /\ Recommendation(Overall(after, negative), subject.passing)
                  >= Recommendation(Overall(answers, negative), subject.passing)
             /\ Accuracy(after) >= Accuracy(answers)
             /\ \A i \in DOMAIN answers :
                  /\ SectionPercentage(after, negative, answers[i].type)
                       >= SectionPercentage(answers, negative, answers[i].type)
                  /\ SkillPercentage(after, answers[i].skill) >= SkillPercentage(answers, answers[i].skill)
<1> SUFFICES ASSUME subject \in Attempts(Skills)
             PROVE  /\ \A i \in DOMAIN answers : \A a \in Improved(answers[i]) :
                         Better([answers EXCEPT ![i] = a])
                    /\ Better(Append(answers, x))
  BY DEF BetterAnswersHelp
<1>1. answers \in Seq(A) /\ negative \in Nat /\ subject.passing \in Int
  BY DEF Attempts
<1>2. x \in A /\ x.type = "choice" /\ x.points = 1 /\ x.given = "right"
  <2>1. 1 \in Nat
    OBVIOUS
  <2>2. x \in Choices(Skills)
    BY <2>1, Zenon DEF Choices
  <2> QED BY <2>2 DEF AnswersOn
<1>3. ASSUME NEW after \in Seq(A), NoLower(answers, after, negative),
             Overall(after, negative) <= 10000
      PROVE  Better(after)
  <2>1. ASSUME NEW m \in Int, NEW n \in Int, m <= n
        PROVE  Recommendation(n, subject.passing) >= Recommendation(m, subject.passing)
    BY <1>1, <2>1 DEF Recommendation
  <2>2. /\ Overall(answers, negative) \in Int /\ Overall(after, negative) \in Int
        /\ Overall(answers, negative) <= Overall(after, negative)
    BY <1>3 DEF NoLower
  <2>3. Recommendation(Overall(after, negative), subject.passing)
          >= Recommendation(Overall(answers, negative), subject.passing)
    BY <2>1, <2>2
  <2> QED BY <1>3, <2>2, <2>3 DEF NoLower
<1>4. ASSUME NEW i \in DOMAIN answers, NEW a \in Improved(answers[i])
      PROVE  Better([answers EXCEPT ![i] = a])
  <2> DEFINE after == [answers EXCEPT ![i] = a]
  <2>1. answers[i] \in A /\ a \in A /\ BetterAnswer(answers[i], a)
    <3>1. answers[i] \in A
      BY <1>1
    <3> QED BY <3>1, Improves
  <2>2. after \in Seq(A) /\ Len(answers) = Len(after) /\ DOMAIN answers = 1..Len(answers)
        /\ \A j \in 1..Len(answers) : after[j] = IF j = i THEN a ELSE answers[j]
    BY <1>1, <2>1
  <2>3. ASSUME NEW j \in 1..Len(answers) PROVE BetterAnswer(answers[j], after[j])
    <3>1. BetterAnswer(answers[j], answers[j])
      <4>1. answers[j] \in A
        BY <1>1
      <4>2. Fair(GradeAnswer(answers[j]))
        BY <4>1, FairAnswer
      <4> QED BY <4>2 DEF BetterAnswer, NoWorse, Fair
    <3>2. CASE j = i
      BY <2>1, <2>2, <3>2
    <3>3. CASE j # i
      BY <2>2, <3>1, <3>3
    <3> QED BY <3>2, <3>3
  <2> HIDE DEF after
  <2>4. NoLower(answers, after, negative) /\ Overall(after, negative) <= 10000
    BY <1>1, <2>2, <2>3, BetterList
  <2>5. Better(after)
    BY <1>3, <2>2, <2>4
  <2> QED BY <2>5 DEF after
<1>5. Better(Append(answers, x))
  <2>1. Append(answers, x) \in Seq(A)
    BY <1>1, <1>2
  <2>2. /\ NoLower(answers, Append(answers, x), negative)
        /\ Overall(Append(answers, x), negative) <= 10000
    <3> HIDE DEF x
    <3> QED BY <1>1, <1>2, MoreAnswers
  <2> DEFINE after == Append(answers, x)
  <2>3. after \in Seq(A) /\ NoLower(answers, after, negative) /\ Overall(after, negative) <= 10000
    BY <2>1, <2>2
  <2> HIDE DEF after
  <2>4. Better(after)
    BY <1>3, <2>3
  <2> QED BY <2>4 DEF after
<1> QED BY <1>4, <1>5

----------------------------------------------------------------------------
\* What a resume shows.

\* What resumes and jobs are, for a fit.
Docs ==
  [required : Seq(SUBSET Place), preferred : Seq(SUBSET Place), anyData : BOOLEAN, minYears : Int,
   jobs : Seq([months : Nat \cup {Missing}, relevant : BOOLEAN]),
   responsibilities : Seq([best : Int, raw : Int])]

\* The sum of numbers up to c.
LEMMA SumUpTo ==
  ASSUME NEW c \in Int, NEW f \in Seq(Int), \A i \in 1..Len(f) : 0 <= f[i] /\ f[i] <= c
  PROVE  SumOf(f) \in Nat /\ SumOf(f) <= c * Len(f)
<1> DEFINE ones == [i \in 1..Len(f) |-> 1]
<1>1. ones \in Seq(Int) /\ Len(ones) = Len(f) /\ \A i \in 1..Len(ones) : ones[i] = 1
  OBVIOUS
<1> HIDE DEF ones
<1>2. SumOf(ones) = Len(f)
  BY <1>1, SumsOfOnes
<1>3. \A i \in 1..Len(f) : f[i] <= c * ones[i]
  BY <1>1
<1>4. SumOf(f) <= c * SumOf(ones)
  BY <1>1, <1>3, SumBounds, Zenon
<1>5. SumOf(f) \in Nat
  BY SumNat
<1> QED BY <1>2, <1>4, <1>5

\* The credits of skills, each for what is found of it.
Credits(skills, anyData) == [i \in DOMAIN skills |-> StatusCredit(MapSingleSkill(skills[i], anyData))]

LEMMA CreditIs ==
  ASSUME NEW found, NEW anyData
  PROVE  StatusCredit(MapSingleSkill(found, anyData)) \in {0, 5, 10}
BY DEF StatusCredit, MapSingleSkill

LEMMA CreditsAre ==
  ASSUME NEW skills, NEW anyData
  PROVE  SumOver(Statuses(skills, anyData), StatusCredit) = SumOf(Credits(skills, anyData))
<1> DEFINE s == Statuses(skills, anyData)
<1>1. DOMAIN s = DOMAIN skills /\ \A i \in DOMAIN skills : s[i] = MapSingleSkill(skills[i], anyData)
  BY DEF Statuses
<1>2. SumOver(s, StatusCredit) = SumOf([i \in DOMAIN s |-> StatusCredit(s[i])])
  BY Zenon DEF SumOver
<1>3. [i \in DOMAIN s |-> StatusCredit(s[i])] = Credits(skills, anyData)
  <2> HIDE DEF s
  <2> QED BY <1>1, Zenon DEF Credits
<1> QED BY <1>2, <1>3, Zenon

LEMMA CreditsBounds ==
  ASSUME NEW X, NEW skills \in Seq(X), NEW anyData
  PROVE  /\ Credits(skills, anyData) \in Seq(Int) /\ Len(Credits(skills, anyData)) = Len(skills)
         /\ SumOf(Credits(skills, anyData)) \in Nat
         /\ SumOf(Credits(skills, anyData)) <= 10 * Len(skills)
<1> DEFINE f == Credits(skills, anyData)
<1> DEFINE credit(i) == StatusCredit(MapSingleSkill(skills[i], anyData))
<1>1. /\ \A i \in DOMAIN skills : credit(i) \in {0, 5, 10}
      /\ f = [i \in DOMAIN skills |-> credit(i)]
  <2>1. ASSUME NEW i \in DOMAIN skills PROVE credit(i) \in {0, 5, 10}
    BY CreditIs, Zenon
  <2> QED BY <2>1, Zenon DEF Credits
<1> HIDE DEF f, credit
<1>2. f \in Seq(Int) /\ Len(f) = Len(skills) /\ \A i \in 1..Len(f) : 0 <= f[i] /\ f[i] <= 10
  <2>1. \A i \in DOMAIN skills : credit(i) \in Int /\ 0 <= credit(i) /\ credit(i) <= 10
    BY <1>1
  <2>2. DOMAIN skills = 1..Len(skills) /\ Len(skills) \in Nat
    OBVIOUS
  <2> QED BY <1>1, <2>1, <2>2
<1>3. SumOf(f) \in Nat /\ SumOf(f) <= 10 * Len(f)
  <2>1. 10 \in Int
    OBVIOUS
  <2> QED BY <1>2, <2>1, SumUpTo, Zenon
<1> QED BY <1>2, <1>3, Zenon DEF f

\* One more find of one skill.
LEMMA CreditsGrow ==
  ASSUME NEW skills \in Seq(SUBSET Place), NEW i \in DOMAIN skills, NEW p \in Place
  PROVE  LET more == [skills EXCEPT ![i] = @ \cup {p}]
         IN /\ more \in Seq(SUBSET Place) /\ Len(more) = Len(skills)
            /\ SumOf(Credits(skills, TRUE)) <= SumOf(Credits(more, TRUE))
<1> DEFINE more == [skills EXCEPT ![i] = @ \cup {p}]
           f == Credits(skills, TRUE)
           g == Credits(more, TRUE)
<1>1. /\ more \in Seq(SUBSET Place) /\ Len(more) = Len(skills) /\ DOMAIN more = DOMAIN skills
      /\ more[i] = skills[i] \cup {p} /\ \A j \in DOMAIN skills \ {i} : more[j] = skills[j]
  OBVIOUS
<1> HIDE DEF more
<1>2. /\ f \in Seq(Int) /\ Len(f) = Len(skills) /\ g \in Seq(Int) /\ Len(g) = Len(skills)
  BY <1>1, CreditsBounds
<1>3. ASSUME NEW j \in DOMAIN skills PROVE f[j] <= g[j]
  <2>1. /\ f[j] = StatusCredit(MapSingleSkill(skills[j], TRUE))
        /\ g[j] = StatusCredit(MapSingleSkill(more[j], TRUE))
    BY <1>1 DEF Credits
  <2>2. more[j] = skills[j] \/ more[j] = skills[j] \cup {p}
    BY <1>1
  <2> HIDE DEF f, g
  <2>3. skills[j] \subseteq more[j]
    BY <2>2
  <2> QED BY <2>1, <2>3 DEF StatusCredit, MapSingleSkill
<1>4. DOMAIN skills = 1..Len(f)
  BY <1>2
<1> HIDE DEF f, g
<1>5. SumOf(f) <= SumOf(g)
  BY <1>2, <1>3, <1>4, SumMono
<1> QED BY <1>1, <1>5, Zenon DEF f, g, more

\* The months of relevant employments.
Jobs == [months : Nat \cup {Missing}, relevant : BOOLEAN]
MonthsOf(j) == IF j.relevant /\ j.months # Missing THEN j.months ELSE 0
RelevantMonths(jobs) == SumOf([i \in DOMAIN jobs |-> MonthsOf(jobs[i])])
Dated(jobs) == \E i \in DOMAIN jobs : jobs[i].months # Missing

LEMMA AlignmentIs ==
  ASSUME NEW jobs, NEW minYears
  PROVE  AlignExperience(jobs, minYears) =
           IF minYears = Missing \/ ~ Dated(jobs) THEN "unknown"
           ELSE IF Round(10 * RelevantMonths(jobs), 12) > 0
                     /\ Round(10 * RelevantMonths(jobs), 12) >= 10 * minYears THEN "match"
           ELSE "partial"
BY Zenon DEF AlignExperience, SumOver, RelevantMonths, Dated, MonthsOf

LEMMA MonthsGrow ==
  ASSUME NEW jobs \in Seq(Jobs), NEW j \in Jobs
  PROVE  /\ RelevantMonths(jobs) \in Nat /\ RelevantMonths(Append(jobs, j)) \in Nat
         /\ RelevantMonths(jobs) <= RelevantMonths(Append(jobs, j))
         /\ Dated(jobs) => Dated(Append(jobs, j))
<1> DEFINE more == Append(jobs, j)
           f == [i \in DOMAIN jobs |-> MonthsOf(jobs[i])]
           g == [i \in DOMAIN more |-> MonthsOf(more[i])]
<1>1. ASSUME NEW k \in Jobs PROVE MonthsOf(k) \in Nat
  BY DEF MonthsOf, Jobs
<1>2. /\ more \in Seq(Jobs) /\ Len(more) = Len(jobs) + 1 /\ Len(jobs) \in Nat
      /\ DOMAIN jobs = 1..Len(jobs) /\ DOMAIN more = 1..Len(more)
      /\ \A i \in 1..Len(jobs) : more[i] = jobs[i] /\ jobs[i] \in Jobs
      /\ \A i \in 1..Len(more) : more[i] \in Jobs
  OBVIOUS
<1> HIDE DEF more
<1>3. /\ f \in Seq(Int) /\ Len(f) = Len(jobs) /\ \A i \in 1..Len(f) : f[i] >= 0
      /\ g \in Seq(Int) /\ Len(g) = Len(more) /\ \A i \in 1..Len(g) : g[i] >= 0
  BY <1>1, <1>2
<1>4. /\ \A i \in 1..Len(f) : g[i] = f[i]
      /\ g[Len(g)] >= 0 /\ g[Len(g)] \in Int /\ Len(g) = Len(f) + 1
  <2>1. \A i \in 1..Len(jobs) : g[i] = f[i]
    BY <1>2
  <2> HIDE DEF f, g
  <2> QED BY <1>2, <1>3, <2>1
<1> HIDE DEF f, g
<1>5. SumOf(g) = SumOf(f) + g[Len(g)]
  BY <1>3, <1>4, SumStep
<1>6. SumOf(f) \in Nat /\ SumOf(g) \in Nat
  BY <1>3, SumNat
<1>7. RelevantMonths(jobs) = SumOf(f) /\ RelevantMonths(more) = SumOf(g)
  BY Zenon DEF RelevantMonths, f, g
<1>8. Dated(jobs) => Dated(more)
  <2>1. \A i \in DOMAIN jobs : i \in DOMAIN more /\ more[i] = jobs[i]
    BY <1>2
  <2> QED BY <2>1, Zenon DEF Dated
<1>9. SumOf(f) <= SumOf(g)
  BY <1>4, <1>5, <1>6
<1> QED BY <1>6, <1>7, <1>8, <1>9, Zenon DEF more

\* One more employment.
LEMMA ExperienceGrows ==
  ASSUME NEW jobs \in Seq(Jobs), NEW j \in Jobs, NEW minYears \in Int
  PROVE  StatusCredit(AlignExperience(jobs, minYears))
           <= StatusCredit(AlignExperience(Append(jobs, j), minYears))
<1> DEFINE more == Append(jobs, j)
           y == Round(10 * RelevantMonths(jobs), 12)
           z == Round(10 * RelevantMonths(more), 12)
<1>1. y \in Int /\ z \in Int /\ y <= z
  <2> DEFINE m == 10 * RelevantMonths(jobs)
             n == 10 * RelevantMonths(more)
  <2>1. m \in Int /\ n \in Int /\ m <= n /\ m * 12 <= n * 12
    BY MonthsGrow
  <2> HIDE DEF m, n
  <2>2. 12 \in Nat \ {0}
    OBVIOUS
  <2>3. Round(m, 12) \in Int /\ Round(n, 12) \in Int
    BY <2>1, <2>2, RoundInt, Zenon
  <2>4. Round(m, 12) <= Round(n, 12)
    BY <2>1, <2>2, RoundMono, Zenon
  <2> QED BY <2>3, <2>4 DEF m, n
<1>2. Dated(jobs) => Dated(more)
  BY MonthsGrow
<1>3. /\ AlignExperience(jobs, minYears)
           = IF minYears = Missing \/ ~ Dated(jobs) THEN "unknown"
             ELSE IF y > 0 /\ y >= 10 * minYears THEN "match" ELSE "partial"
      /\ AlignExperience(more, minYears)
           = IF minYears = Missing \/ ~ Dated(more) THEN "unknown"
             ELSE IF z > 0 /\ z >= 10 * minYears THEN "match" ELSE "partial"
  BY AlignmentIs, Zenon
<1> HIDE DEF y, z, more
<1>4. AlignExperience(jobs, minYears) = "match" => AlignExperience(more, minYears) = "match"
  BY <1>1, <1>2, <1>3
<1>5. /\ AlignExperience(jobs, minYears) \in {"match", "partial", "unknown"}
      /\ AlignExperience(more, minYears) \in {"match", "partial", "unknown"}
  BY <1>3
<1>6. StatusCredit(AlignExperience(jobs, minYears))
        <= StatusCredit(AlignExperience(more, minYears))
  BY <1>4, <1>5 DEF StatusCredit
<1> QED BY <1>6, Zenon DEF more

LEMMA ExperienceCredit ==
  ASSUME NEW jobs, NEW minYears
  PROVE  StatusCredit(AlignExperience(jobs, minYears)) \in {5, 10}
<1>1. AlignExperience(jobs, minYears) \in {"match", "partial", "unknown"}
  BY AlignmentIs, Zenon
<1> QED BY <1>1 DEF StatusCredit

\* The credits of responsibilities.
Duties == [best : Int, raw : Int]
CreditFor(best, raw) ==
  IF best < 25 THEN IF raw >= 25 THEN 4 ELSE 1
  ELSE IF best >= 45 THEN 10 ELSE IF best >= 35 THEN 7 ELSE 4
DutyCredit(r) == ResponsibilityCredit(AlignResponsibility(r.best, r.raw))
DutyCredits(duties) == [i \in DOMAIN duties |-> DutyCredit(duties[i])]

LEMMA DutyCreditIs ==
  ASSUME NEW r
  PROVE  DutyCredit(r) = CreditFor(r.best, r.raw) /\ DutyCredit(r) \in {1, 4, 7, 10}
BY DEF DutyCredit, ResponsibilityCredit, AlignResponsibility, CreditFor

LEMMA CreditForMore ==
  ASSUME NEW b \in Int, NEW c \in Int, NEW v \in Int, NEW w \in Int, b <= c, v <= w
  PROVE  CreditFor(b, v) <= CreditFor(c, w)
BY DEF CreditFor

LEMMA DutyCreditsAre ==
  ASSUME NEW duties
  PROVE  SumOver(duties, LAMBDA r : ResponsibilityCredit(AlignResponsibility(r.best, r.raw)))
           = SumOf(DutyCredits(duties))
BY Zenon DEF SumOver, DutyCredits, DutyCredit

LEMMA DutyCreditsBounds ==
  ASSUME NEW duties \in Seq(Duties)
  PROVE  /\ DutyCredits(duties) \in Seq(Int) /\ Len(DutyCredits(duties)) = Len(duties)
         /\ SumOf(DutyCredits(duties)) \in Nat
         /\ SumOf(DutyCredits(duties)) <= 10 * Len(duties)
<1> DEFINE f == DutyCredits(duties)
<1>1. \A i \in DOMAIN duties : DutyCredit(duties[i]) \in {1, 4, 7, 10}
  BY DutyCreditIs, Zenon
<1>2. f \in Seq(Int) /\ Len(f) = Len(duties) /\ \A i \in 1..Len(f) : 0 <= f[i] /\ f[i] <= 10
  <2>1. /\ \A i \in DOMAIN duties : /\ DutyCredit(duties[i]) \in Int
                                    /\ 0 <= DutyCredit(duties[i]) /\ DutyCredit(duties[i]) <= 10
        /\ DOMAIN duties = 1..Len(duties) /\ Len(duties) \in Nat
    BY <1>1
  <2> QED BY <2>1 DEF DutyCredits
<1> HIDE DEF f
<1>3. SumOf(f) \in Nat /\ SumOf(f) <= 10 * Len(f)
  <2>1. 10 \in Int
    OBVIOUS
  <2> QED BY <1>2, <2>1, SumUpTo, Zenon
<1> QED BY <1>2, <1>3, Zenon DEF f

\* A responsibility that is met better.
LEMMA DutyCreditsGrow ==
  ASSUME NEW duties \in Seq(Duties), NEW more \in Seq(Duties), Len(more) = Len(duties),
         \A i \in DOMAIN duties : duties[i].best <= more[i].best /\ duties[i].raw <= more[i].raw
  PROVE  SumOf(DutyCredits(duties)) <= SumOf(DutyCredits(more))
<1> DEFINE f == DutyCredits(duties)
           g == DutyCredits(more)
<1>1. /\ f \in Seq(Int) /\ Len(f) = Len(duties) /\ g \in Seq(Int) /\ Len(g) = Len(more)
      /\ DOMAIN duties = 1..Len(duties) /\ DOMAIN more = 1..Len(duties)
  BY DutyCreditsBounds
<1>2. ASSUME NEW i \in 1..Len(duties) PROVE f[i] <= g[i]
  <2> DEFINE r == duties[i]
             s == more[i]
  <2>1. r \in Duties /\ s \in Duties /\ r.best <= s.best /\ r.raw <= s.raw
    OBVIOUS
  <2>2. f[i] = DutyCredit(r) /\ g[i] = DutyCredit(s)
    BY <1>1, Zenon DEF DutyCredits
  <2> HIDE DEF r, s, f, g
  <2>3. DutyCredit(r) <= DutyCredit(s)
    <3>1. r.best \in Int /\ r.raw \in Int /\ s.best \in Int /\ s.raw \in Int
      BY <2>1 DEF Duties
    <3>2. CreditFor(r.best, r.raw) <= CreditFor(s.best, s.raw)
      BY <2>1, <3>1, CreditForMore
    <3> QED BY <3>2, DutyCreditIs
  <2> QED BY <2>2, <2>3
<1> HIDE DEF f, g
<1>3. SumOf(f) <= SumOf(g)
  BY <1>1, <1>2, SumMono
<1> QED BY <1>3, Zenon DEF f, g

\* The credits of a resume.
Part == {"required", "experience", "responsibilities", "preferred"}

LEMMA CreditOf ==
  ASSUME NEW doc
  PROVE  /\ Credit(doc, "required") = SumOf(Credits(doc.required, doc.anyData))
         /\ Credit(doc, "experience") = StatusCredit(AlignExperience(doc.jobs, doc.minYears))
         /\ Credit(doc, "responsibilities") = SumOf(DutyCredits(doc.responsibilities))
         /\ Credit(doc, "preferred") = SumOf(Credits(doc.preferred, doc.anyData))
<1>1. /\ Credit(doc, "required") = SumOver(Statuses(doc.required, doc.anyData), StatusCredit)
      /\ Credit(doc, "experience") = StatusCredit(AlignExperience(doc.jobs, doc.minYears))
      /\ Credit(doc, "responsibilities")
           = SumOver(doc.responsibilities,
                     LAMBDA r : ResponsibilityCredit(AlignResponsibility(r.best, r.raw)))
      /\ Credit(doc, "preferred") = SumOver(Statuses(doc.preferred, doc.anyData), StatusCredit)
  BY Zenon DEF Credit
<1> QED BY <1>1, CreditsAre, DutyCreditsAre, Zenon

\* What a component counts for: no more than ten for each of its items.
LEMMA CreditBounds ==
  ASSUME NEW doc \in Docs, NEW component \in Part
  PROVE  /\ Items(doc, component) \in Nat /\ Credit(doc, component) \in Nat
         /\ Items(doc, component) # 0 => Credit(doc, component) <= 10 * Items(doc, component)
<1>1. /\ doc.required \in Seq(SUBSET Place) /\ doc.preferred \in Seq(SUBSET Place)
      /\ doc.responsibilities \in Seq(Duties)
  BY DEF Docs, Duties
<1>2. /\ Len(doc.required) \in Nat /\ Len(doc.preferred) \in Nat
      /\ Len(doc.responsibilities) \in Nat
  BY <1>1
<1>3. CASE component = "required"
  <2>1. /\ SumOf(Credits(doc.required, doc.anyData)) \in Nat
        /\ SumOf(Credits(doc.required, doc.anyData)) <= 10 * Len(doc.required)
    BY <1>1, CreditsBounds, Zenon
  <2> QED BY <1>2, <1>3, <2>1, CreditOf DEF Items
<1>4. CASE component = "experience"
  <2>1. Credit(doc, "experience") \in {5, 10}
    BY CreditOf, ExperienceCredit, Zenon
  <2> QED BY <1>4, <2>1 DEF Items
<1>5. CASE component = "responsibilities"
  <2>1. /\ SumOf(DutyCredits(doc.responsibilities)) \in Nat
        /\ SumOf(DutyCredits(doc.responsibilities)) <= 10 * Len(doc.responsibilities)
    BY <1>1, DutyCreditsBounds, Zenon
  <2> QED BY <1>2, <1>5, <2>1, CreditOf DEF Items
<1>6. CASE component = "preferred"
  <2>1. /\ SumOf(Credits(doc.preferred, doc.anyData)) \in Nat
        /\ SumOf(Credits(doc.preferred, doc.anyData)) <= 10 * Len(doc.preferred)
    BY <1>1, CreditsBounds, Zenon
  <2> QED BY <1>2, <1>6, <2>1, CreditOf DEF Items
<1> QED BY <1>3, <1>4, <1>5, <1>6 DEF Part

----------------------------------------------------------------------------
\* More evidence is no less credit.

\* A resume with no less credit for what is asked.
NoLessCredit(doc, better) ==
  /\ better \in Docs
  /\ \A c \in Part : Items(better, c) = Items(doc, c) /\ Credit(doc, c) <= Credit(better, c)

\* That is one of these: with better finds, more employments, or responsibilities met better.
LEMMA CountedMore ==
  ASSUME NEW doc \in Docs, NEW better \in Docs, better.minYears = doc.minYears,
         Len(better.required) = Len(doc.required), Len(better.preferred) = Len(doc.preferred),
         Len(better.responsibilities) = Len(doc.responsibilities),
         SumOf(Credits(doc.required, doc.anyData)) <= SumOf(Credits(better.required, better.anyData)),
         SumOf(Credits(doc.preferred, doc.anyData)) <= SumOf(Credits(better.preferred, better.anyData)),
         StatusCredit(AlignExperience(doc.jobs, doc.minYears))
           <= StatusCredit(AlignExperience(better.jobs, better.minYears)),
         SumOf(DutyCredits(doc.responsibilities)) <= SumOf(DutyCredits(better.responsibilities))
  PROVE  NoLessCredit(doc, better)
<1>1. \A c \in Part : Items(better, c) = Items(doc, c)
  BY DEF Items, Part
<1>2. /\ Credit(doc, "required") <= Credit(better, "required")
      /\ Credit(doc, "preferred") <= Credit(better, "preferred")
      /\ Credit(doc, "experience") <= Credit(better, "experience")
      /\ Credit(doc, "responsibilities") <= Credit(better, "responsibilities")
  <2>1. /\ Credit(doc, "required") = SumOf(Credits(doc.required, doc.anyData))
        /\ Credit(doc, "experience") = StatusCredit(AlignExperience(doc.jobs, doc.minYears))
        /\ Credit(doc, "responsibilities") = SumOf(DutyCredits(doc.responsibilities))
        /\ Credit(doc, "preferred") = SumOf(Credits(doc.preferred, doc.anyData))
    BY CreditOf, Zenon
  <2>2. /\ Credit(better, "required") = SumOf(Credits(better.required, better.anyData))
        /\ Credit(better, "experience") = StatusCredit(AlignExperience(better.jobs, better.minYears))
        /\ Credit(better, "responsibilities") = SumOf(DutyCredits(better.responsibilities))
        /\ Credit(better, "preferred") = SumOf(Credits(better.preferred, better.anyData))
    BY CreditOf, Zenon
  <2> QED BY <2>1, <2>2, Zenon
<1>3. \A c \in Part : Credit(doc, c) <= Credit(better, c)
  BY <1>2 DEF Part
<1> QED BY <1>1, <1>3 DEF NoLessCredit

\* The parts of a resume count for what they do.
LEMMA CountedSame ==
  ASSUME NEW doc \in Docs
  PROVE  /\ SumOf(Credits(doc.required, doc.anyData)) <= SumOf(Credits(doc.required, doc.anyData))
         /\ SumOf(Credits(doc.preferred, doc.anyData)) <= SumOf(Credits(doc.preferred, doc.anyData))
         /\ StatusCredit(AlignExperience(doc.jobs, doc.minYears))
              <= StatusCredit(AlignExperience(doc.jobs, doc.minYears))
         /\ SumOf(DutyCredits(doc.responsibilities)) <= SumOf(DutyCredits(doc.responsibilities))
<1>1. /\ doc.required \in Seq(SUBSET Place) /\ doc.preferred \in Seq(SUBSET Place)
      /\ doc.responsibilities \in Seq(Duties)
  BY DEF Docs, Duties
<1>2. SumOf(Credits(doc.required, doc.anyData)) \in Nat
  BY <1>1, CreditsBounds, Zenon
<1>3. SumOf(Credits(doc.preferred, doc.anyData)) \in Nat
  BY <1>1, CreditsBounds, Zenon
<1>4. SumOf(DutyCredits(doc.responsibilities)) \in Nat
  BY <1>1, DutyCreditsBounds, Zenon
<1>5. StatusCredit(AlignExperience(doc.jobs, doc.minYears)) \in {5, 10}
  BY ExperienceCredit, Zenon
<1> QED BY <1>2, <1>3, <1>4, <1>5

LEMMA MoreFound ==
  ASSUME NEW doc \in Docs, doc.anyData, NEW p \in Place
  PROVE  /\ \A i \in DOMAIN doc.required :
              NoLessCredit(doc, [doc EXCEPT !["required"][i] = @ \cup {p}])
         /\ \A i \in DOMAIN doc.preferred :
              NoLessCredit(doc, [doc EXCEPT !["preferred"][i] = @ \cup {p}])
<1>1. /\ doc.required \in Seq(SUBSET Place) /\ doc.preferred \in Seq(SUBSET Place)
      /\ doc.anyData = TRUE
  BY DEF Docs
<1>2. ASSUME NEW i \in DOMAIN doc.required
      PROVE  NoLessCredit(doc, [doc EXCEPT !["required"][i] = @ \cup {p}])
  <2> DEFINE more == [doc.required EXCEPT ![i] = @ \cup {p}]
             better == [doc EXCEPT !["required"][i] = @ \cup {p}]
  <2>1. /\ more \in Seq(SUBSET Place) /\ Len(more) = Len(doc.required)
        /\ SumOf(Credits(doc.required, TRUE)) <= SumOf(Credits(more, TRUE))
    BY <1>1, CreditsGrow, Zenon
  <2>2. better = [doc EXCEPT !.required = more]
    OBVIOUS
  <2> HIDE DEF more, better
  <2>3. /\ better \in Docs /\ better.required = more /\ better.preferred = doc.preferred
        /\ better.anyData = doc.anyData /\ better.minYears = doc.minYears
        /\ better.jobs = doc.jobs /\ better.responsibilities = doc.responsibilities
    BY <2>1, <2>2 DEF Docs
  <2>4. NoLessCredit(doc, better)
    BY <1>1, <2>1, <2>3, CountedSame, CountedMore
  <2> QED BY <2>4, Zenon DEF better
<1>3. ASSUME NEW i \in DOMAIN doc.preferred
      PROVE  NoLessCredit(doc, [doc EXCEPT !["preferred"][i] = @ \cup {p}])
  <2> DEFINE more == [doc.preferred EXCEPT ![i] = @ \cup {p}]
             better == [doc EXCEPT !["preferred"][i] = @ \cup {p}]
  <2>1. /\ more \in Seq(SUBSET Place) /\ Len(more) = Len(doc.preferred)
        /\ SumOf(Credits(doc.preferred, TRUE)) <= SumOf(Credits(more, TRUE))
    BY <1>1, CreditsGrow, Zenon
  <2>2. better = [doc EXCEPT !.preferred = more]
    OBVIOUS
  <2> HIDE DEF more, better
  <2>3. /\ better \in Docs /\ better.preferred = more /\ better.required = doc.required
        /\ better.anyData = doc.anyData /\ better.minYears = doc.minYears
        /\ better.jobs = doc.jobs /\ better.responsibilities = doc.responsibilities
    BY <2>1, <2>2 DEF Docs
  <2>4. NoLessCredit(doc, better)
    BY <1>1, <2>1, <2>3, CountedSame, CountedMore
  <2> QED BY <2>4, Zenon DEF better
<1> QED BY <1>2, <1>3, Zenon

LEMMA MoreJobs ==
  ASSUME NEW doc \in Docs, NEW j \in Jobs
  PROVE  NoLessCredit(doc, [doc EXCEPT !.jobs = Append(@, j)])
<1> DEFINE more == Append(doc.jobs, j)
           better == [doc EXCEPT !.jobs = Append(@, j)]
<1>1. doc.jobs \in Seq(Jobs) /\ doc.minYears \in Int
  BY DEF Docs, Jobs
<1>2. /\ more \in Seq(Jobs)
      /\ StatusCredit(AlignExperience(doc.jobs, doc.minYears))
           <= StatusCredit(AlignExperience(more, doc.minYears))
  <2>1. more \in Seq(Jobs)
    BY <1>1
  <2>2. StatusCredit(AlignExperience(doc.jobs, doc.minYears))
          <= StatusCredit(AlignExperience(more, doc.minYears))
    BY <1>1, ExperienceGrows, Zenon
  <2> QED BY <2>1, <2>2, Zenon
<1>3. better = [doc EXCEPT !.jobs = more]
  OBVIOUS
<1> HIDE DEF more, better
<1>4. /\ better \in Docs /\ better.jobs = more /\ better.required = doc.required
      /\ better.preferred = doc.preferred /\ better.anyData = doc.anyData
      /\ better.minYears = doc.minYears /\ better.responsibilities = doc.responsibilities
  BY <1>2, <1>3 DEF Docs, Jobs
<1>5. NoLessCredit(doc, better)
  BY <1>2, <1>4, CountedSame, CountedMore
<1> QED BY <1>5, Zenon DEF better

LEMMA DutiesMet ==
  ASSUME NEW doc \in Docs, NEW more \in Seq(Duties), Len(more) = Len(doc.responsibilities),
         \A i \in DOMAIN doc.responsibilities :
           /\ doc.responsibilities[i].best <= more[i].best
           /\ doc.responsibilities[i].raw <= more[i].raw
  PROVE  NoLessCredit(doc, [doc EXCEPT !.responsibilities = more])
<1> DEFINE better == [doc EXCEPT !.responsibilities = more]
<1>1. doc.responsibilities \in Seq(Duties)
  BY DEF Docs, Duties
<1>2. SumOf(DutyCredits(doc.responsibilities)) <= SumOf(DutyCredits(more))
  BY <1>1, DutyCreditsGrow, Zenon
<1>3. /\ better \in Docs /\ better.responsibilities = more /\ better.required = doc.required
      /\ better.preferred = doc.preferred /\ better.anyData = doc.anyData
      /\ better.minYears = doc.minYears /\ better.jobs = doc.jobs
  BY DEF Docs, Duties
<1> HIDE DEF better
<1>4. NoLessCredit(doc, better)
  BY <1>2, <1>3, CountedSame, CountedMore
<1> QED BY <1>4, Zenon DEF better

LEMMA MoreDuties ==
  ASSUME NEW doc \in Docs, NEW i \in DOMAIN doc.responsibilities
  PROVE  /\ NoLessCredit(doc, [doc EXCEPT !.responsibilities[i].best = Greatest(@, 45)])
         /\ NoLessCredit(doc, [doc EXCEPT !.responsibilities[i].raw = Greatest(@, 25)])
<1> DEFINE duties == doc.responsibilities
           higher == [duties EXCEPT ![i].best = Greatest(@, 45)]
           rawer == [duties EXCEPT ![i].raw = Greatest(@, 25)]
<1>1. duties \in Seq(Duties) /\ duties[i] \in Duties /\ \A j \in DOMAIN duties : duties[j] \in Duties
  <2>1. doc.responsibilities \in Seq(Duties)
    BY DEF Docs, Duties
  <2> QED BY <2>1
<1>2. /\ [doc EXCEPT !.responsibilities[i].best = Greatest(@, 45)] = [doc EXCEPT !.responsibilities = higher]
      /\ [doc EXCEPT !.responsibilities[i].raw = Greatest(@, 25)] = [doc EXCEPT !.responsibilities = rawer]
  OBVIOUS
<1>3. \A x \in Int : \A n \in {45, 25} : Greatest(x, n) \in Int /\ x <= Greatest(x, n)
  BY DEF Greatest
<1>4. higher = [duties EXCEPT ![i] = [duties[i] EXCEPT !.best = Greatest(duties[i].best, 45)]]
  OBVIOUS
<1>5. rawer = [duties EXCEPT ![i] = [duties[i] EXCEPT !.raw = Greatest(duties[i].raw, 25)]]
  OBVIOUS
<1> HIDE DEF duties, higher, rawer
<1>6. /\ higher \in Seq(Duties) /\ Len(higher) = Len(duties)
      /\ \A j \in DOMAIN duties : duties[j].best <= higher[j].best /\ duties[j].raw <= higher[j].raw
  <2> DEFINE r == [duties[i] EXCEPT !.best = Greatest(duties[i].best, 45)]
  <2>1. r \in Duties /\ duties[i].best <= r.best /\ duties[i].raw = r.raw
    BY <1>1, <1>3 DEF Duties
  <2>2. higher = [duties EXCEPT ![i] = r]
    BY <1>4
  <2> HIDE DEF r
  <2>3. higher \in Seq(Duties) /\ Len(higher) = Len(duties) /\ i \in DOMAIN duties
    BY <1>1, <2>1, <2>2 DEF duties
  <2>4. \A j \in DOMAIN duties : higher[j] = IF j = i THEN r ELSE duties[j]
    BY <1>1, <2>2
  <2>5. \A j \in DOMAIN duties : duties[j].best \in Int /\ duties[j].raw \in Int
    BY <1>1 DEF Duties
  <2> QED BY <2>1, <2>3, <2>4, <2>5
<1>7. /\ rawer \in Seq(Duties) /\ Len(rawer) = Len(duties)
      /\ \A j \in DOMAIN duties : duties[j].best <= rawer[j].best /\ duties[j].raw <= rawer[j].raw
  <2> DEFINE r == [duties[i] EXCEPT !.raw = Greatest(duties[i].raw, 25)]
  <2>1. r \in Duties /\ duties[i].best = r.best /\ duties[i].raw <= r.raw
    BY <1>1, <1>3 DEF Duties
  <2>2. rawer = [duties EXCEPT ![i] = r]
    BY <1>5
  <2> HIDE DEF r
  <2>3. rawer \in Seq(Duties) /\ Len(rawer) = Len(duties) /\ i \in DOMAIN duties
    BY <1>1, <2>1, <2>2 DEF duties
  <2>4. \A j \in DOMAIN duties : rawer[j] = IF j = i THEN r ELSE duties[j]
    BY <1>1, <2>2
  <2>5. \A j \in DOMAIN duties : duties[j].best \in Int /\ duties[j].raw \in Int
    BY <1>1 DEF Duties
  <2> QED BY <2>1, <2>3, <2>4, <2>5
<1>8. /\ NoLessCredit(doc, [doc EXCEPT !.responsibilities = higher])
      /\ NoLessCredit(doc, [doc EXCEPT !.responsibilities = rawer])
  <2>1. duties = doc.responsibilities
    BY DEF duties
  <2>2. NoLessCredit(doc, [doc EXCEPT !.responsibilities = higher])
    BY <1>6, <2>1, DutiesMet, Zenon
  <2>3. NoLessCredit(doc, [doc EXCEPT !.responsibilities = rawer])
    BY <1>7, <2>1, DutiesMet, Zenon
  <2> QED BY <2>2, <2>3
<1> QED BY <1>2, <1>8

\* Whatever the piece of evidence.
LEMMA EnrichedCounts ==
  ASSUME NEW doc \in Docs, doc.anyData, NEW better \in Enriched(doc)
  PROVE  NoLessCredit(doc, better)
<1>1. CASE \E p \in Place, i \in DOMAIN doc["required"] :
             better = [doc EXCEPT !["required"][i] = @ \cup {p}]
  BY <1>1, MoreFound
<1>2. CASE \E p \in Place, i \in DOMAIN doc["preferred"] :
             better = [doc EXCEPT !["preferred"][i] = @ \cup {p}]
  BY <1>2, MoreFound
<1>3. ASSUME NEW m \in {Missing, 1, 12, 60}, NEW b \in BOOLEAN
      PROVE  NoLessCredit(doc, [doc EXCEPT !.jobs = Append(@, [months |-> m, relevant |-> b])])
  <2> DEFINE j == [months |-> m, relevant |-> b]
  <2>1. j \in Jobs
    BY DEF Jobs
  <2> HIDE DEF j
  <2>2. NoLessCredit(doc, [doc EXCEPT !.jobs = Append(@, j)])
    BY <2>1, MoreJobs, Zenon
  <2> QED BY <2>2, Zenon DEF j
<1>4. CASE \E i \in DOMAIN doc.responsibilities :
             \/ better = [doc EXCEPT !.responsibilities[i].best = Greatest(@, 45)]
             \/ better = [doc EXCEPT !.responsibilities[i].raw = Greatest(@, 25)]
  BY <1>4, MoreDuties, Zenon
<1>5. CASE \E level \in {"required", "preferred"} :
             better \in {[doc EXCEPT ![level][i] = @ \cup {p}] : p \in Place, i \in DOMAIN doc[level]}
  <2>1. PICK level \in {"required", "preferred"} :
          \E p \in Place : \E i \in DOMAIN doc[level] :
            better = [doc EXCEPT ![level][i] = @ \cup {p}]
    BY <1>5
  <2>2. CASE level = "required"
    BY <1>1, <2>1, <2>2, Zenon
  <2>3. CASE level = "preferred"
    BY <1>2, <2>1, <2>3, Zenon
  <2> QED BY <2>2, <2>3
<1> DEFINE job(m, b) == [doc EXCEPT !.jobs = Append(@, [months |-> m, relevant |-> b])]
<1>6. CASE better \in {job(m, b) : m \in {Missing, 1, 12, 60}, b \in BOOLEAN}
  <2>1. \A m \in {Missing, 1, 12, 60}, b \in BOOLEAN : NoLessCredit(doc, job(m, b))
    BY <1>3, Zenon
  <2> HIDE DEF job
  <2> QED BY <1>6, <2>1
<1>7. CASE \E i \in DOMAIN doc.responsibilities :
             better \in {[doc EXCEPT !.responsibilities[i].best = Greatest(@, 45)],
                         [doc EXCEPT !.responsibilities[i].raw = Greatest(@, 25)]}
  BY <1>4, <1>7, Zenon
<1> DEFINE finds == {{[doc EXCEPT ![level][i] = @ \cup {p}] : p \in Place, i \in DOMAIN doc[level]} :
                      level \in {"required", "preferred"}}
           jobs == {job(m, b) : m \in {Missing, 1, 12, 60}, b \in BOOLEAN}
           duties == {{[doc EXCEPT !.responsibilities[i].best = Greatest(@, 45)],
                       [doc EXCEPT !.responsibilities[i].raw = Greatest(@, 25)]} :
                         i \in DOMAIN doc.responsibilities}
<1>8. (\E S \in finds : better \in S) \/ better \in jobs \/ (\E S \in duties : better \in S)
  <2>1. Enriched(doc) = (UNION finds) \cup jobs \cup (UNION duties)
    BY DEF Enriched
  <2> HIDE DEF finds, jobs, duties
  <2> QED BY <2>1
<1>9. CASE \E S \in finds : better \in S
  BY <1>5, <1>9
<1>10. CASE \E S \in duties : better \in S
  BY <1>7, <1>10, Zenon
<1>11. CASE better \in jobs
  <2> HIDE DEF job, finds, duties
  <2> QED BY <1>6, <1>11 DEF jobs
<1> HIDE DEF finds, jobs, duties
<1> QED BY <1>8, <1>9, <1>10, <1>11, Zenon

----------------------------------------------------------------------------
\* The score of a fit.

\* The common denominator is a multiple of those of the components.
LEMMA CommonIs ==
  ASSUME NEW doc \in Docs
  PROVE  /\ Common(doc) \in Nat \ {0}
         /\ \A c \in Part : Divisor(doc, c) \in Nat \ {0}
<1>1. \A c \in Part : Divisor(doc, c) \in Nat \ {0}
  <2> SUFFICES ASSUME NEW c \in Part PROVE Divisor(doc, c) \in Nat \ {0}
    OBVIOUS
  <2>1. Items(doc, c) \in Nat
    BY CreditBounds
  <2> QED BY <2>1 DEF Divisor, Greatest
<1>2. \A a, b \in Nat \ {0} : a * b \in Nat \ {0}
  OBVIOUS
<1>3. /\ Divisor(doc, "required") \in Nat \ {0}
      /\ Divisor(doc, "responsibilities") \in Nat \ {0}
      /\ Divisor(doc, "preferred") \in Nat \ {0}
  BY <1>1 DEF Part
<1> QED BY <1>1, <1>2, <1>3, Zenon DEF Common

\* What a component adds to the score, over the common denominator.
Adds(doc, c) == ActiveWeight(doc, c) * (Common(doc) \div Divisor(doc, c)) * Credit(doc, c)
Weights(doc) == [i \in DOMAIN Components |-> ActiveWeight(doc, Components[i])]
Added(doc) == [i \in DOMAIN Components |-> Adds(doc, Components[i])]

LEMMA ScoreIs ==
  ASSUME NEW doc
  PROVE  Score(doc) = IF SumOf(Weights(doc)) = 0 THEN 0
                      ELSE Round(10 * SumOf(Added(doc)), SumOf(Weights(doc)) * Common(doc))
BY Zenon DEF Score, SumOver, Weights, Added, Adds

LEMMA ComponentsAre ==
  DOMAIN Components = 1..4 /\ \A i \in 1..4 : Components[i] \in Part
<1>1. DOMAIN Components = 1..4
  BY DEF Components
<1>2. /\ Components[1] \in Part /\ Components[2] \in Part
      /\ Components[3] \in Part /\ Components[4] \in Part
  BY DEF Components, Part
<1>3. 1..4 = {1, 2, 3, 4}
  OBVIOUS
<1> QED BY <1>1, <1>2, <1>3, Zenon

LEMMA WeightsAre ==
  ASSUME NEW doc \in Docs, NEW c \in Part
  PROVE  /\ ActiveWeight(doc, c) \in Nat
         /\ ActiveWeight(doc, c) # 0 => Items(doc, c) # 0
<1>1. Weight(c) \in Nat
  BY DEF Weight, Part
<1> QED BY <1>1 DEF ActiveWeight

\* Neither less than nothing nor more than ten for its weight.
LEMMA AddsBounds ==
  ASSUME NEW doc \in Docs, NEW c \in Part
  PROVE  /\ Adds(doc, c) \in Nat
         /\ Adds(doc, c) <= (10 * Common(doc)) * ActiveWeight(doc, c)
<1> DEFINE w == ActiveWeight(doc, c)
           m == Common(doc)
           d == Divisor(doc, c)
           k == m \div d
           x == Credit(doc, c)
           items == Items(doc, c)
<1>1. w \in Nat /\ (w # 0 => items # 0)
  BY WeightsAre
<1>2. m \in Nat \ {0} /\ d \in Nat \ {0}
  BY CommonIs, Zenon
<1>3. items \in Nat /\ x \in Nat /\ (items # 0 => x <= 10 * items)
  BY CreditBounds, Zenon
<1>4. items # 0 => d = items
  BY <1>3 DEF Divisor, Greatest
<1>5. Adds(doc, c) = w * k * x
  BY DEF Adds
<1> HIDE DEF w, m, d, x, items
<1>6. k \in Nat /\ k * d <= m
  <2>1. k \in Int /\ m % d \in Int /\ m = (d * k) + (m % d) /\ 0 <= m % d /\ m % d < d
    BY <1>2, Division
  <2> DEFINE r == m % d
  <2> HIDE DEF k, r
  <2>2. r \in Int /\ 0 <= r /\ r < d /\ m = d * k + r
    BY <2>1 DEF r
  <2>3. d * k <= m /\ d * k = k * d
    BY <1>2, <2>1, <2>2
  <2>4. k >= 0
    <3> SUFFICES ASSUME k <= -1 PROVE FALSE
      BY <2>1
    <3>1. d * k <= d * (-1)
      BY <1>2, <2>1
    <3> QED BY <1>2, <2>1, <2>2, <3>1
  <2> QED BY <2>1, <2>3, <2>4
<1> HIDE DEF k
<1>7. w * k \in Nat /\ w * k * x \in Nat
  BY <1>1, <1>3, <1>6
<1>8. CASE w = 0
  <2>1. w * k * x = 0 /\ (10 * m) * w = 0
    BY <1>2, <1>3, <1>6, <1>8
  <2> QED BY <1>5, <2>1 DEF m, w
<1>9. CASE w # 0
  <2>1. x <= 10 * d
    BY <1>1, <1>3, <1>4, <1>9
  <2>2. k * x <= k * (10 * d)
    BY <1>2, <1>3, <1>6, <2>1
  <2>3. k * (10 * d) = 10 * (k * d) /\ 10 * (k * d) <= 10 * m
    BY <1>2, <1>6
  <2>4. k * x <= 10 * m
    BY <1>2, <1>3, <1>6, <2>2, <2>3
  <2>5. w * (k * x) <= w * (10 * m)
    BY <1>1, <1>2, <1>3, <1>6, <2>4
  <2>6. w * k * x = w * (k * x) /\ w * (10 * m) = (10 * m) * w
    BY <1>1, <1>2, <1>3, <1>6
  <2> QED BY <1>5, <1>7, <2>5, <2>6 DEF m, w
<1> QED BY <1>8, <1>9

LEMMA ListsAre ==
  ASSUME NEW doc \in Docs
  PROVE  /\ Weights(doc) \in Seq(Int) /\ Len(Weights(doc)) = 4
         /\ Added(doc) \in Seq(Int) /\ Len(Added(doc)) = 4
         /\ SumOf(Weights(doc)) \in Nat /\ SumOf(Added(doc)) \in Nat
         /\ SumOf(Added(doc)) <= (10 * Common(doc)) * SumOf(Weights(doc))
<1> DEFINE f == Added(doc)
           g == Weights(doc)
           c == 10 * Common(doc)
<1>1. \A i \in 1..4 : Components[i] \in Part
  BY ComponentsAre, Zenon
<1>2. \A i \in 1..4 : g[i] = ActiveWeight(doc, Components[i]) /\ f[i] = Adds(doc, Components[i])
  BY ComponentsAre, Zenon DEF Weights, Added
<1>3. \A i \in 1..4 : g[i] \in Nat /\ f[i] \in Nat /\ f[i] <= c * g[i]
  BY <1>1, <1>2, WeightsAre, AddsBounds, Zenon
<1>4. /\ f \in Seq(Int) /\ Len(f) = 4 /\ g \in Seq(Int) /\ Len(g) = 4
  <2>1. f = [i \in 1..4 |-> f[i]] /\ g = [i \in 1..4 |-> g[i]]
    BY ComponentsAre DEF Weights, Added
  <2> HIDE DEF f, g
  <2> QED BY <1>3, <2>1
<1>5. c \in Int
  BY CommonIs
<1> HIDE DEF f, g, c
<1>6. SumOf(f) \in Nat /\ SumOf(g) \in Nat
  <2>1. \A i \in 1..4 : g[i] >= 0 /\ f[i] >= 0
    <3>1. \A i \in 1..4 : g[i] \in Nat /\ f[i] \in Nat
      BY <1>3, Zenon
    <3> QED BY <3>1
  <2> QED BY <1>4, <2>1, SumNat
<1>7. SumOf(f) <= c * SumOf(g)
  BY <1>3, <1>4, <1>5, SumBounds
<1> QED BY <1>4, <1>6, <1>7, Zenon DEF f, g, c

\* Between 0 and 100.
LEMMA ScoreBounds ==
  ASSUME NEW doc \in Docs
  PROVE  Score(doc) \in 0..100
<1> DEFINE w == SumOf(Weights(doc))
           n == SumOf(Added(doc))
           m == Common(doc)
<1>1. w \in Nat /\ n \in Nat /\ m \in Nat \ {0} /\ n <= (10 * m) * w
  BY ListsAre, CommonIs, Zenon
<1>2. Score(doc) = IF w = 0 THEN 0 ELSE Round(10 * n, w * m)
  BY ScoreIs, Zenon
<1> HIDE DEF w, n, m
<1>3. CASE w = 0
  BY <1>2, <1>3
<1>4. CASE w # 0
  <2> DEFINE t == 10 * n
             d == w * m
  <2>1. t \in Int /\ d \in Nat \ {0} /\ 0 * d <= t
    BY <1>1, <1>4
  <2>2. t <= 100 * d
    <3>1. t <= 10 * ((10 * m) * w)
      BY <1>1
    <3>2. 10 * ((10 * m) * w) = 100 * d
      BY <1>1
    <3> QED BY <3>1, <3>2
  <2> HIDE DEF t, d
  <2>3. Round(t, d) \in Int /\ 0 <= Round(t, d)
    BY <2>1, RoundInt, RoundAtLeast
  <2>4. Round(t, d) <= 100
    BY <2>1, <2>2, RoundAtMost
  <2>5. Score(doc) = Round(t, d)
    BY <1>2, <1>4, Zenon DEF t, d
  <2> QED BY <2>3, <2>4, <2>5
<1> QED BY <1>3, <1>4

\* No less credit, no lower score.
LEMMA ScoreMono ==
  ASSUME NEW doc \in Docs, NEW better, NoLessCredit(doc, better)
  PROVE  Score(doc) <= Score(better)
<1>1. /\ better \in Docs
      /\ \A c \in Part : Items(better, c) = Items(doc, c) /\ Credit(doc, c) <= Credit(better, c)
  BY DEF NoLessCredit
<1>2. \A c \in Part : /\ Divisor(better, c) = Divisor(doc, c)
                      /\ ActiveWeight(better, c) = ActiveWeight(doc, c)
  BY <1>1, Zenon DEF Divisor, ActiveWeight
<1>3. Common(better) = Common(doc)
  BY <1>2, Zenon DEF Common, Part
<1>4. Weights(better) = Weights(doc)
  <2>1. \A i \in 1..4 : Components[i] \in Part
    BY ComponentsAre, Zenon
  <2> QED BY <1>2, <2>1, ComponentsAre, Zenon DEF Weights
<1>5. ASSUME NEW c \in Part PROVE Adds(doc, c) <= Adds(better, c)
  <2> DEFINE w == ActiveWeight(doc, c)
             k == Common(doc) \div Divisor(doc, c)
             x == Credit(doc, c)
             y == Credit(better, c)
  <2>1. Adds(doc, c) = w * k * x /\ Adds(better, c) = w * k * y
    BY <1>2, <1>3, Zenon DEF Adds
  <2>2. w \in Nat /\ x \in Nat /\ y \in Nat /\ x <= y
    BY <1>1, CreditBounds, WeightsAre, Zenon
  <2>3. k \in Nat
    <3>1. Common(doc) \in Nat \ {0} /\ Divisor(doc, c) \in Nat \ {0}
      BY CommonIs, Zenon
    <3> QED BY <3>1
  <2> HIDE DEF w, k, x, y
  <2> DEFINE v == w * k
  <2>4. v \in Nat
    BY <2>2, <2>3
  <2> HIDE DEF v
  <2>5. v * x <= v * y
    BY <2>2, <2>4, MulMono
  <2> QED BY <2>1, <2>5 DEF v
<1> DEFINE f == Added(doc)
           g == Added(better)
<1>6. f \in Seq(Int) /\ g \in Seq(Int) /\ Len(f) = 4 /\ Len(g) = 4
  BY <1>1, ListsAre
<1>7. \A i \in 1..4 : f[i] <= g[i]
  <2>1. \A i \in 1..4 : /\ Components[i] \in Part
                        /\ f[i] = Adds(doc, Components[i]) /\ g[i] = Adds(better, Components[i])
    BY ComponentsAre, Zenon DEF Added
  <2> QED BY <1>5, <2>1, Zenon
<1>8. SumOf(f) \in Nat /\ SumOf(g) \in Nat
  BY <1>1, ListsAre
<1> HIDE DEF f, g
<1>9. SumOf(f) <= SumOf(g)
  BY <1>6, <1>7, SumMono
<1> DEFINE w == SumOf(Weights(doc))
           m == Common(doc)
<1>10. w \in Nat /\ m \in Nat \ {0}
  BY ListsAre, CommonIs, Zenon
<1>11. /\ Score(doc) = IF w = 0 THEN 0 ELSE Round(10 * SumOf(f), w * m)
       /\ Score(better) = IF w = 0 THEN 0 ELSE Round(10 * SumOf(g), w * m)
  BY <1>3, <1>4, ScoreIs, Zenon DEF f, g
<1> HIDE DEF w, m
<1>12. CASE w = 0
  BY <1>11, <1>12
<1>13. CASE w # 0
  <2> DEFINE s == 10 * SumOf(f)
             t == 10 * SumOf(g)
             d == w * m
  <2>1. s \in Int /\ t \in Int /\ d \in Nat \ {0} /\ s <= t
    BY <1>8, <1>9, <1>10, <1>13
  <2>2. Score(doc) = Round(s, d) /\ Score(better) = Round(t, d)
    BY <1>11, <1>13, Zenon
  <2> HIDE DEF s, t, d
  <2>3. s * d <= t * d
    BY <2>1
  <2>4. Round(s, d) <= Round(t, d)
    BY <2>1, <2>3, RoundMono, Zenon
  <2> QED BY <2>2, <2>4
<1> QED BY <1>12, <1>13

\* One more piece of evidence in a resume, a find of a skill in some place, an employment, or
\* a better overlap with a responsibility, never lowers its score, whatever resumes and jobs
\* are compared, and the score stays between 0 and 100 (fit_engine.py, _compute_overall).
THEOREM EvidenceHelpsHolds ==
  ASSUME Is("fit") => subject \in [kind : {"fit"}, doc : Docs]
  PROVE  EvidenceHelps
<1> SUFFICES ASSUME Is("fit")
             PROVE  /\ Score(subject.doc) \in 0..100
                    /\ subject.doc.anyData =>
                         \A better \in Enriched(subject.doc) : Score(better) >= Score(subject.doc)
  BY Zenon DEF EvidenceHelps
<1> DEFINE doc == subject.doc
<1>1. doc \in Docs
  OBVIOUS
<1> HIDE DEF doc
<1>2. Score(doc) \in 0..100
  BY <1>1, ScoreBounds
<1>3. ASSUME doc.anyData, NEW better \in Enriched(doc) PROVE Score(better) >= Score(doc)
  <2>1. NoLessCredit(doc, better)
    BY <1>1, <1>3, EnrichedCounts, Zenon
  <2>2. Score(doc) <= Score(better)
    BY <1>1, <2>1, ScoreMono, Zenon
  <2>3. Score(better) \in Int
    <3>1. better \in Docs
      BY <2>1 DEF NoLessCredit
    <3> QED BY <3>1, ScoreBounds
  <2> QED BY <1>2, <2>2, <2>3
<1> QED BY <1>2, <1>3 DEF doc

----------------------------------------------------------------------------
\* Rankings.

\* A sum is the last of its partial sums, whatever they are called.
LEMMA SumBySteps ==
  ASSUME NEW f \in Seq(Int), NEW h, h[0] = 0, \A n \in 1..Len(f) : h[n] = h[n - 1] + f[n]
  PROVE  SumOf(f) = h[Len(f)]
<1>1. PICK k : Sums(f, k) /\ SumOf(f) = k[Len(f)]
  BY SumOfIs
<1> DEFINE S == {n \in Nat : n <= Len(f) => h[n] = k[n]}
<1>2. 0 \in S
  BY <1>1, SumsStep
<1>3. ASSUME NEW n \in S PROVE n + 1 \in S
  <2> SUFFICES ASSUME n + 1 <= Len(f) PROVE h[n + 1] = k[n + 1]
    OBVIOUS
  <2>1. n + 1 \in 1..Len(f) /\ (n + 1) - 1 = n /\ h[n] = k[n]
    OBVIOUS
  <2>2. k[n + 1] = k[n] + f[n + 1]
    <3>1. \A m \in 1..Len(f) : k[m] = k[m - 1] + f[m]
      BY <1>1, SumsStep
    <3> QED BY <2>1, <3>1
  <2>3. h[n + 1] = h[n] + f[n + 1]
    BY <2>1
  <2> QED BY <2>1, <2>2, <2>3
<1>4. S = Nat
  <2> HIDE DEF S
  <2>1. S \subseteq Nat
    BY DEF S
  <2> QED BY <1>2, <1>3, <2>1, Inductive
<1>5. Len(f) \in S
  BY <1>4
<1> QED BY <1>1, <1>5

LEMMA PartialSums ==
  ASSUME NEW f \in Seq(Int)
  PROVE  \E h \in [0..Len(f) -> Int] : /\ h[0] = 0 /\ \A n \in 1..Len(f) : h[n] = h[n - 1] + f[n]
                                       /\ SumOf(f) = h[Len(f)]
<1>1. PICK k : Sums(f, k) /\ SumOf(f) = k[Len(f)]
  BY SumOfIs
<1>2. k[0] = 0 /\ \A n \in 1..Len(f) : k[n] = k[n - 1] + f[n]
  BY <1>1, SumsStep, Zenon
<1>3. \A n \in 0..Len(f) : k[n] \in Int
  <2>1. Len(f) \in Nat /\ Len(f) <= Len(f)
    OBVIOUS
  <2>2. \A i \in 1..Len(f) : f[i] = f[i]
    OBVIOUS
  <2>3. \A n \in 0..Len(f) : k[n] = k[n] /\ k[n] \in Int
    BY <1>1, <2>1, <2>2, SumsAgree, Zenon
  <2> QED BY <2>3
<1> DEFINE h == [n \in 0..Len(f) |-> k[n]]
<1>4. h \in [0..Len(f) -> Int]
  BY <1>3
<1>5. h[0] = 0 /\ \A n \in 1..Len(f) : h[n] = h[n - 1] + f[n]
  <2>1. Len(f) \in Nat /\ 0 \in 0..Len(f)
    OBVIOUS
  <2>2. \A n \in 1..Len(f) : n \in 0..Len(f) /\ n - 1 \in 0..Len(f)
    BY <2>1
  <2> QED BY <1>2, <2>1, <2>2
<1>6. SumOf(f) = h[Len(f)]
  <2>1. Len(f) \in 0..Len(f)
    OBVIOUS
  <2> QED BY <1>1, <2>1
<1> HIDE DEF h
<1> QED BY <1>4, <1>5, <1>6

LEMMA ListOf ==
  ASSUME NEW n \in Nat, NEW f, f = [i \in 1..n |-> f[i]], \A i \in 1..n : f[i] \in Int
  PROVE  f \in Seq(Int) /\ Len(f) = n
OBVIOUS

\* The sum of two sequences, and of one with another number in a place.
LEMMA SumAdd ==
  ASSUME NEW N \in Nat, NEW f \in Seq(Int), NEW g \in Seq(Int), Len(f) = N, Len(g) = N
  PROVE  SumOf([i \in 1..N |-> f[i] + g[i]]) = SumOf(f) + SumOf(g)
<1> DEFINE s == [i \in 1..N |-> f[i] + g[i]]
<1>1. \A i \in 1..N : s[i] = f[i] + g[i]
  OBVIOUS
<1>2. \A i \in 1..N : f[i] \in Int /\ g[i] \in Int
  OBVIOUS
<1>3. s \in Seq(Int) /\ Len(s) = N
  BY <1>2
<1> HIDE DEF s
<1>4. PICK h \in [0..Len(f) -> Int] : /\ h[0] = 0 /\ \A n \in 1..Len(f) : h[n] = h[n - 1] + f[n]
                                      /\ SumOf(f) = h[Len(f)]
  BY PartialSums
<1>5. PICK k \in [0..Len(g) -> Int] : /\ k[0] = 0 /\ \A n \in 1..Len(g) : k[n] = k[n - 1] + g[n]
                                      /\ SumOf(g) = k[Len(g)]
  BY PartialSums
<1> DEFINE l == [n \in 0..Len(f) |-> h[n] + k[n]]
<1>6. l[0] = 0 /\ l[Len(f)] = h[Len(f)] + k[Len(f)]
  <2>1. 0 \in 0..Len(f) /\ Len(f) \in 0..Len(f)
    OBVIOUS
  <2> QED BY <1>4, <1>5, <2>1
<1>7. ASSUME NEW n \in 1..Len(s) PROVE l[n] = l[n - 1] + s[n]
  <2>1. n \in 0..Len(f) /\ n - 1 \in 0..Len(f) /\ n \in 1..Len(f) /\ n \in 1..N
    BY <1>3
  <2>2. h[n] = h[n - 1] + f[n] /\ k[n] = k[n - 1] + g[n] /\ s[n] = f[n] + g[n]
    BY <1>4, <1>5, <1>1, <2>1
  <2>3. h[n - 1] \in Int /\ k[n - 1] \in Int /\ f[n] \in Int /\ g[n] \in Int
    <3>1. n \in 1..Len(g) /\ n - 1 \in 0..Len(g)
      BY <2>1
    <3>2. f[n] \in Int /\ g[n] \in Int
      BY <2>1, <3>1
    <3> QED BY <2>1, <3>1, <3>2
  <2>4. l[n] = h[n] + k[n] /\ l[n - 1] = h[n - 1] + k[n - 1]
    BY <2>1, Zenon
  <2> HIDE DEF l
  <2> DEFINE a == h[n - 1]
             b == k[n - 1]
             x == f[n]
             y == g[n]
  <2>5. l[n] = (a + x) + (b + y) /\ l[n - 1] = a + b /\ s[n] = x + y
    BY <2>2, <2>4, Zenon
  <2>6. a \in Int /\ b \in Int /\ x \in Int /\ y \in Int
    BY <2>3, Zenon
  <2> HIDE DEF a, b, x, y
  <2>7. (a + x) + (b + y) = (a + b) + (x + y)
    BY <2>6
  <2> QED BY <2>5, <2>7, Zenon
<1> HIDE DEF l
<1>8. SumOf(s) = l[Len(s)]
  BY <1>6, <1>7, <1>3, SumBySteps, Zenon
<1>9. SumOf(s) = SumOf(f) + SumOf(g)
  BY <1>4, <1>5, <1>6, <1>8, <1>3
<1> QED BY <1>9, Zenon DEF s

Replaced(f, j, v, s) ==
  f \in Seq(Int) /\ j \in 1..Len(f) /\ v \in Int /\ s = [f EXCEPT ![j] = v]

LEMMA SumReplaced ==
  ASSUME NEW f, NEW j, NEW v, NEW s, Replaced(f, j, v, s)
  PROVE  SumOf(s) = (SumOf(f) - f[j]) + v
<1>1. f \in Seq(Int) /\ j \in 1..Len(f) /\ v \in Int /\ s = [f EXCEPT ![j] = v]
  BY Zenon DEF Replaced
<1> DEFINE w == v - f[j]
<1>2. /\ s \in Seq(Int) /\ Len(s) = Len(f) /\ w \in Int /\ f[j] \in Int
      /\ \A n \in 1..Len(f) : s[n] = IF n = j THEN v ELSE f[n]
      /\ Len(f) \in Nat
  BY <1>1
<1>3. PICK h \in [0..Len(f) -> Int] : /\ h[0] = 0 /\ \A n \in 1..Len(f) : h[n] = h[n - 1] + f[n]
                                      /\ SumOf(f) = h[Len(f)]
  BY <1>1, PartialSums
<1> DEFINE l == [n \in 0..Len(f) |-> IF n >= j THEN h[n] + w ELSE h[n]]
<1>4. l[0] = 0 /\ l[Len(f)] = h[Len(f)] + w
  <2>1. 0 \in 0..Len(f) /\ Len(f) \in 0..Len(f) /\ Len(f) >= j /\ ~ (0 >= j)
    BY <1>1, <1>2
  <2> QED BY <1>3, <2>1
<1>5. ASSUME NEW n \in 1..Len(s) PROVE l[n] = l[n - 1] + s[n]
  <2>1. n \in 0..Len(f) /\ n - 1 \in 0..Len(f) /\ n \in 1..Len(f)
    BY <1>2
  <2>2. h[n] = h[n - 1] + f[n] /\ h[n - 1] \in Int /\ f[n] \in Int
    <3>1. h[n] = h[n - 1] + f[n]
      BY <1>3, <2>1
    <3>2. h[n - 1] \in Int
      BY <2>1, Zenon
    <3>3. f[n] \in Int
      BY <1>1, <2>1
    <3> QED BY <3>1, <3>2, <3>3, Zenon
  <2>3. /\ l[n] = IF n >= j THEN h[n] + w ELSE h[n]
        /\ l[n - 1] = IF n - 1 >= j THEN h[n - 1] + w ELSE h[n - 1]
        /\ s[n] = IF n = j THEN v ELSE f[n]
    BY <1>2, <2>1
  <2>4. CASE n = j
    BY <1>1, <1>2, <2>2, <2>3, <2>4
  <2>5. CASE n # j
    <3>1. n >= j <=> n - 1 >= j
      BY <1>1, <2>5
    <3> QED BY <1>1, <1>2, <2>2, <2>3, <2>5, <3>1
  <2> QED BY <2>4, <2>5
<1> HIDE DEF l
<1>6. SumOf(s) = l[Len(s)]
  <2>1. s \in Seq(Int)
    BY <1>2, Zenon
  <2>2. l[0] = 0 /\ \A n \in 1..Len(s) : l[n] = l[n - 1] + s[n]
    BY <1>4, <1>5, Zenon
  <2> QED BY <2>1, <2>2, SumBySteps, Zenon
<1>7. SumOf(s) = SumOf(f) + w /\ SumOf(f) \in Int
  BY <1>2, <1>3, <1>4, <1>6
<1> QED BY <1>1, <1>2, <1>7

\* No number is more than the sum of them all.
LEMMA PartOfSum ==
  ASSUME NEW f \in Seq(Int), \A i \in 1..Len(f) : f[i] >= 0, NEW j \in 1..Len(f)
  PROVE  f[j] <= SumOf(f)
<1> DEFINE s == [f EXCEPT ![j] = 0]
<1>1. s \in Seq(Int) /\ \A i \in 1..Len(s) : s[i] >= 0
  OBVIOUS
<1> DEFINE zero == 0
<1>2. Replaced(f, j, zero, s)
  BY DEF Replaced
<1> HIDE DEF s, zero
<1>3. SumOf(s) = (SumOf(f) - f[j]) + zero
  BY <1>2, SumReplaced, Zenon
<1>4. SumOf(s) = (SumOf(f) - f[j]) + 0
  BY <1>3 DEF zero
<1>5. SumOf(s) \in Nat
  BY <1>1, SumNat
<1>6. SumOf(f) \in Int /\ f[j] \in Int
  BY SumInt
<1> QED BY <1>4, <1>5, <1>6

\* Rankings of n candidates, each rank once; and sums of what depends on the rank.
Rankings(n) ==
  {p \in [1..n -> 1..n] : /\ \A i, j \in 1..n : p[i] = p[j] => i = j
                          /\ \A k \in 1..n : \E i \in 1..n : p[i] = k}
SumByRank(n, p, F) == SumOf([i \in 1..n |-> F[p[i]]])
InOrder(n) == [i \in 1..n |-> i]

\* The ranking of the others when the last candidate takes the place of the one in the last rank.
LEMMA RankingWithout ==
  ASSUME NEW n \in Nat, NEW p \in Rankings(n + 1)
  PROVE  [i \in 1..n |-> IF p[i] = n + 1 THEN p[n + 1] ELSE p[i]] \in Rankings(n)
<1> DEFINE q == [i \in 1..n |-> IF p[i] = n + 1 THEN p[n + 1] ELSE p[i]]
<1>1. /\ \A i \in 1..n + 1 : p[i] \in 1..n + 1
      /\ \A i, j \in 1..n + 1 : p[i] = p[j] => i = j
      /\ \A k \in 1..n + 1 : \E i \in 1..n + 1 : p[i] = k
  BY DEF Rankings
<1>2. \A i \in 1..n : i \in 1..n + 1 /\ i # n + 1
  OBVIOUS
<1>3. n + 1 \in 1..n + 1 /\ \A i \in 1..n + 1 : i # n + 1 => i \in 1..n
  OBVIOUS
<1>4. \A i \in 1..n : q[i] = IF p[i] = n + 1 THEN p[n + 1] ELSE p[i]
  OBVIOUS
<1>5. \A i \in 1..n : q[i] \in 1..n
  <2> SUFFICES ASSUME NEW i \in 1..n PROVE q[i] \in 1..n
    OBVIOUS
  <2>1. q[i] \in 1..n + 1
    BY <1>1, <1>2, <1>3, <1>4
  <2>2. q[i] # n + 1
    BY <1>1, <1>2, <1>3, <1>4
  <2> QED BY <1>3, <2>1, <2>2
<1>6. q \in [1..n -> 1..n]
  BY <1>5
<1> HIDE DEF q
<1>7. ASSUME NEW i \in 1..n, NEW j \in 1..n, q[i] = q[j] PROVE i = j
  <2>1. /\ i \in 1..n + 1 /\ j \in 1..n + 1 /\ n + 1 \in 1..n + 1
        /\ i # n + 1 /\ j # n + 1
    BY <1>2, <1>3, Zenon
  <2>2. /\ q[i] = IF p[i] = n + 1 THEN p[n + 1] ELSE p[i]
        /\ q[j] = IF p[j] = n + 1 THEN p[n + 1] ELSE p[j]
    BY <1>4, Zenon
  <2>3. CASE p[i] = n + 1 /\ p[j] = n + 1
    BY <1>1, <2>1, <2>3, Zenon
  <2>4. CASE p[i] = n + 1 /\ p[j] # n + 1
    <3>1. p[j] = p[n + 1]
      BY <1>7, <2>2, <2>4
    <3> QED BY <1>1, <2>1, <3>1, Zenon
  <2>5. CASE p[i] # n + 1 /\ p[j] = n + 1
    <3>1. p[i] = p[n + 1]
      BY <1>7, <2>2, <2>5
    <3> QED BY <1>1, <2>1, <3>1, Zenon
  <2>6. CASE p[i] # n + 1 /\ p[j] # n + 1
    <3>1. p[i] = p[j]
      BY <1>7, <2>2, <2>6
    <3> QED BY <1>1, <2>1, <3>1, Zenon
  <2> QED BY <2>3, <2>4, <2>5, <2>6
<1>8. ASSUME NEW k \in 1..n PROVE \E i \in 1..n : q[i] = k
  <2>1. PICK i \in 1..n + 1 : p[i] = k
    BY <1>1, <1>2
  <2>2. CASE i # n + 1
    <3>1. i \in 1..n /\ p[i] # n + 1
      BY <1>2, <1>3, <2>1, <2>2
    <3> QED BY <1>4, <2>1, <3>1
  <2>3. CASE i = n + 1
    <3>1. PICK j \in 1..n + 1 : p[j] = n + 1
      BY <1>1, <1>3
    <3>2. j \in 1..n
      BY <1>2, <1>3, <2>1, <2>3, <3>1
    <3> QED BY <1>4, <2>1, <2>3, <3>1, <3>2
  <2> QED BY <2>2, <2>3
<1> QED BY <1>6, <1>7, <1>8, Zenon DEF Rankings, q

LEMMA SumsByRank ==
  \A n \in Nat : \A p \in Rankings(n), F \in [Nat -> Int] :
    SumByRank(n, p, F) = SumByRank(n, InOrder(n), F)
<1> DEFINE S == {n \in Nat : \A p \in Rankings(n), F \in [Nat -> Int] :
                   SumByRank(n, p, F) = SumByRank(n, InOrder(n), F)}
<1>1. 0 \in S
  <2> SUFFICES ASSUME NEW p \in Rankings(0), NEW F \in [Nat -> Int]
               PROVE  SumByRank(0, p, F) = SumByRank(0, InOrder(0), F)
    BY Zenon
  <2>1. 1..0 = {}
    OBVIOUS
  <2>2. [i \in 1..0 |-> F[p[i]]] = [i \in 1..0 |-> F[InOrder(0)[i]]]
    BY <2>1, Zenon
  <2> QED BY <2>2, Zenon DEF SumByRank
<1>2. ASSUME NEW n \in S PROVE n + 1 \in S
  <2> SUFFICES ASSUME NEW p \in Rankings(n + 1), NEW F \in [Nat -> Int]
               PROVE  SumByRank(n + 1, p, F) = SumByRank(n + 1, InOrder(n + 1), F)
    <3>1. n + 1 \in Nat
      OBVIOUS
    <3> QED BY <3>1, Zenon
  <2>1. n \in Nat
    OBVIOUS
  <2> DEFINE q == [i \in 1..n |-> IF p[i] = n + 1 THEN p[n + 1] ELSE p[i]]
  <2>2. q \in Rankings(n)
    BY <2>1, RankingWithout
  <2>3. SumByRank(n, q, F) = SumByRank(n, InOrder(n), F)
    BY <2>2, Zenon
  <2> HIDE DEF S
  <2>4. /\ \A i \in 1..n + 1 : p[i] \in 1..n + 1 /\ p[i] \in Nat
        /\ \A i, j \in 1..n + 1 : p[i] = p[j] => i = j
        /\ \A k \in 1..n + 1 : \E i \in 1..n + 1 : p[i] = k
    <3>1. /\ \A i \in 1..n + 1 : p[i] \in 1..n + 1
          /\ \A i, j \in 1..n + 1 : p[i] = p[j] => i = j
          /\ \A k \in 1..n + 1 : \E i \in 1..n + 1 : p[i] = k
      BY DEF Rankings
    <3>2. \A k \in 1..n + 1 : k \in Nat
      BY <2>1
    <3> QED BY <3>1, <3>2, Zenon
  <2> DEFINE f == [i \in 1..n + 1 |-> F[p[i]]]
             g == [i \in 1..n |-> F[p[i]]]
             e == [i \in 1..n |-> F[q[i]]]
  <2>5. \A i \in 1..n + 1 : F[p[i]] \in Int
    BY <2>4
  <2>6. \A i \in 1..n : i \in 1..n + 1 /\ i # n + 1 /\ n + 1 \in 1..n + 1
    BY <2>1
  <2>7. f \in Seq(Int) /\ Len(f) = n + 1 /\ g \in Seq(Int) /\ Len(g) = n
    BY <2>1, <2>5, <2>6
  <2>8. SumOf(f) = SumOf(g) + F[p[n + 1]]
    <3>1. \A i \in 1..Len(g) : f[i] = g[i]
      BY <2>6, <2>7
    <3>2. f[Len(f)] = F[p[n + 1]]
      BY <2>1, <2>7
    <3> HIDE DEF f, g
    <3> QED BY <2>7, <3>1, <3>2, SumStep
  <2>9. SumOf(f) = SumOf(e) + F[n + 1]
    <3>1. PICK j \in 1..n + 1 : p[j] = n + 1
      BY <2>1, <2>4
    <3>2. CASE j = n + 1
      <4>1. \A i \in 1..n : q[i] = p[i]
        BY <2>4, <2>6, <3>1, <3>2
      <4>2. e = g
        <5> HIDE DEF q
        <5> QED BY <4>1
      <4> QED BY <2>8, <3>1, <3>2, <4>2
    <3>3. CASE j # n + 1
      <4>1. j \in 1..n
        BY <2>1, <3>3
      <4>2. \A i \in 1..n : q[i] = IF i = j THEN p[n + 1] ELSE p[i]
        BY <2>4, <2>6, <3>1, <4>1
      <4>3. e = [g EXCEPT ![j] = F[p[n + 1]]]
        <5> HIDE DEF q
        <5> QED BY <4>1, <4>2
      <4>4. F[p[n + 1]] \in Int /\ F[n + 1] \in Int /\ g[j] = F[n + 1] /\ j \in 1..Len(g)
        BY <2>1, <2>5, <2>6, <2>7, <3>1, <4>1
      <4> HIDE DEF e, g, f, q
      <4>5. SumOf(e) = (SumOf(g) - g[j]) + F[p[n + 1]]
        <5> DEFINE x == F[p[n + 1]]
        <5>1. Replaced(g, j, x, e)
          BY <2>7, <4>3, <4>4, Zenon DEF Replaced
        <5> HIDE DEF x
        <5>2. SumOf(e) = (SumOf(g) - g[j]) + x
          BY <5>1, SumReplaced, Zenon
        <5> QED BY <5>1, <5>2, Zenon DEF x
      <4>6. SumOf(g) \in Int
        BY <2>7, SumInt
      <4> DEFINE x == F[p[n + 1]]
                 y == F[n + 1]
                 k == SumOf(g)
      <4>7. SumOf(e) = (k - y) + x /\ SumOf(f) = k + x
        BY <2>8, <4>4, <4>5, Zenon
      <4>8. x \in Int /\ y \in Int /\ k \in Int
        BY <4>4, <4>6, Zenon
      <4> HIDE DEF x, y, k
      <4>9. k + x = ((k - y) + x) + y
        BY <4>8
      <4> QED BY <4>7, <4>9, Zenon DEF y
    <3> QED BY <3>2, <3>3
  <2> DEFINE a == [i \in 1..n + 1 |-> F[InOrder(n + 1)[i]]]
             b == [i \in 1..n |-> F[InOrder(n)[i]]]
  <2>10. SumOf(a) = SumOf(b) + F[n + 1]
    <3>1. a = [i \in 1..n + 1 |-> F[i]] /\ b = [i \in 1..n |-> F[i]]
      BY DEF InOrder
    <3>2. \A i \in 1..n + 1 : F[i] \in Int
      BY <2>1
    <3>3. a \in Seq(Int) /\ Len(a) = n + 1 /\ b \in Seq(Int) /\ Len(b) = n
      <4> HIDE DEF a, b
      <4> QED BY <2>1, <2>6, <3>1, <3>2
    <3>4. (\A i \in 1..Len(b) : a[i] = b[i]) /\ a[Len(a)] = F[n + 1]
      <4> HIDE DEF a, b
      <4> QED BY <2>1, <2>6, <3>1, <3>3
    <3> HIDE DEF a, b
    <3> QED BY <3>3, <3>4, SumStep
  <2>11. SumOf(e) = SumOf(b)
    BY <2>3, Zenon DEF SumByRank
  <2>12. SumOf(f) = SumOf(a)
    BY <2>9, <2>10, <2>11
  <2> QED BY <2>12, Zenon DEF SumByRank
<1>3. S = Nat
  <2> HIDE DEF S
  <2>1. S \subseteq Nat
    BY DEF S
  <2> QED BY <1>1, <1>2, <2>1, Inductive
<1> QED BY <1>3, Zenon

\* Those ahead of c by the value, then by the number.
Ahead(S, v, c) == {d \in S : v[d] > v[c] \/ (v[d] = v[c] /\ d < c)}
PlaceOf(S, v, c) == Cardinality(Ahead(S, v, c))

LEMMA PlaceBounds ==
  ASSUME NEW S \in SUBSET Nat, IsFiniteSet(S), NEW v \in [S -> Int], NEW c \in S
  PROVE  Cardinality(S) \in Nat \ {0} /\ PlaceOf(S, v, c) \in 0..(Cardinality(S) - 1)
<1>1. Ahead(S, v, c) \in SUBSET (S \ {c})
  BY DEF Ahead
<1>2. /\ IsFiniteSet(S \ {c}) /\ Cardinality(S \ {c}) = Cardinality(S) - 1
      /\ Cardinality(S) \in Nat
  BY FS_RemoveElement, FS_CardinalityType
<1>3. /\ IsFiniteSet(Ahead(S, v, c)) /\ Cardinality(Ahead(S, v, c)) <= Cardinality(S \ {c})
  BY <1>1, <1>2, FS_Subset, Zenon
<1>4. Cardinality(Ahead(S, v, c)) \in Nat
  BY <1>3, FS_CardinalityType, Zenon
<1> QED BY <1>2, <1>3, <1>4 DEF PlaceOf

LEMMA PlaceOnce ==
  ASSUME NEW S \in SUBSET Nat, IsFiniteSet(S), NEW v \in [S -> Int], NEW c \in S, NEW d \in S,
         PlaceOf(S, v, c) = PlaceOf(S, v, d)
  PROVE  c = d
<1>1. ASSUME NEW a \in S, NEW b \in S, a \in Ahead(S, v, b)
      PROVE  PlaceOf(S, v, a) < PlaceOf(S, v, b)
  <2>1. /\ a \in Nat /\ b \in Nat /\ v[a] \in Int /\ v[b] \in Int
        /\ \A e \in S : e \in Nat /\ v[e] \in Int
    OBVIOUS
  <2>2. v[a] > v[b] \/ (v[a] = v[b] /\ a < b)
    BY <1>1 DEF Ahead
  <2>3. Ahead(S, v, a) \cup {a} \in SUBSET Ahead(S, v, b) /\ a \notin Ahead(S, v, a)
    <3>1. \A e \in S : v[e] > v[a] \/ (v[e] = v[a] /\ e < a) => v[e] > v[b] \/ (v[e] = v[b] /\ e < b)
      BY <2>1, <2>2
    <3>2. a \in Ahead(S, v, b) /\ a \in Nat
      BY <1>1, <2>1
    <3>3. Ahead(S, v, a) \subseteq Ahead(S, v, b)
      BY <3>1, Zenon DEF Ahead
    <3>4. a \notin Ahead(S, v, a)
      BY <2>1 DEF Ahead
    <3> QED BY <3>2, <3>3, <3>4
  <2>4. IsFiniteSet(Ahead(S, v, b)) /\ IsFiniteSet(Ahead(S, v, a))
    <3>1. Ahead(S, v, b) \in SUBSET S /\ Ahead(S, v, a) \in SUBSET S
      BY DEF Ahead
    <3> QED BY <3>1, FS_Subset, Zenon
  <2>5. /\ Cardinality(Ahead(S, v, a) \cup {a}) = Cardinality(Ahead(S, v, a)) + 1
        /\ Cardinality(Ahead(S, v, a) \cup {a}) <= Cardinality(Ahead(S, v, b))
    BY <2>3, <2>4, FS_AddElement, FS_Subset, Zenon
  <2>6. Cardinality(Ahead(S, v, a)) \in Nat /\ Cardinality(Ahead(S, v, b)) \in Nat
    BY <2>4, FS_CardinalityType, Zenon
  <2> QED BY <2>5, <2>6 DEF PlaceOf
<1>2. PlaceOf(S, v, c) \in Int /\ PlaceOf(S, v, d) \in Int
  BY PlaceBounds
<1>3. c \notin Ahead(S, v, d) /\ d \notin Ahead(S, v, c)
  BY <1>1, <1>2
<1>4. c \in Nat /\ d \in Nat /\ v[c] \in Int /\ v[d] \in Int
  OBVIOUS
<1> QED BY <1>3, <1>4 DEF Ahead

\* A set of places is as large as the set of those who have them.
LEMMA AsManyPlaces ==
  ASSUME NEW S \in SUBSET Nat, IsFiniteSet(S), NEW v \in [S -> Int], NEW T \in SUBSET S
  PROVE  LET image == {PlaceOf(S, v, c) : c \in T}
         IN IsFiniteSet(image) /\ Cardinality(image) = Cardinality(T) /\ IsFiniteSet(T)
<1> DEFINE place(c) == PlaceOf(S, v, c)
           image == {place(c) : c \in T}
           f == [c \in T |-> place(c)]
<1>1. \A c, d \in T : place(c) = place(d) => c = d
  BY PlaceOnce
<1>2. IsFiniteSet(T)
  BY FS_Subset
<1> HIDE DEF place
<1>3. f \in Injection(T, image) /\ f \in Surjection(T, image)
  <2>1. /\ \A c \in T : place(c) \in image
        /\ \A t \in image : \E c \in T : f[c] = t
        /\ \A c, d \in T : f[c] = f[d] => c = d
    BY <1>1
  <2>2. f \in [T -> image] /\ DOMAIN f = T
    BY <2>1
  <2> HIDE DEF f, image
  <2> QED BY <2>1, <2>2, Zenon DEF Injection, Surjection, IsInjective
<1>4. ExistsBijection(T, image)
  <2> HIDE DEF f, image
  <2> QED BY <1>3, Zenon DEF ExistsBijection, Bijection
<1>5. IsFiniteSet(image) /\ Cardinality(image) = Cardinality(T)
  <2> HIDE DEF image
  <2> QED BY <1>2, <1>4, FS_Bijection, Zenon
<1> QED BY <1>2, <1>5 DEF place

LEMMA EveryPlace ==
  ASSUME NEW S \in SUBSET Nat, IsFiniteSet(S), NEW v \in [S -> Int]
  PROVE  {PlaceOf(S, v, c) : c \in S} = 0..(Cardinality(S) - 1)
<1> DEFINE image == {PlaceOf(S, v, c) : c \in S}
           all == 0..(Cardinality(S) - 1)
<1>1. Cardinality(S) \in Nat
  BY FS_CardinalityType
<1>2. image \in SUBSET all
  BY PlaceBounds
<1>3. Cardinality(image) = Cardinality(S)
  <2>1. S \in SUBSET S
    OBVIOUS
  <2> QED BY <2>1, AsManyPlaces
<1>4. IsFiniteSet(all) /\ Cardinality(all) = Cardinality(S)
  <2>1. Cardinality(S) - 1 \in Int /\ 0 \in Int
    BY <1>1
  <2>2. IsFiniteSet(all) /\ Cardinality(all) = IF 0 > Cardinality(S) - 1 THEN 0
                                               ELSE (Cardinality(S) - 1) - 0 + 1
    BY <2>1, FS_Interval
  <2> HIDE DEF all
  <2> QED BY <1>1, <2>2
<1> HIDE DEF image, all
<1>5. image = all
  BY <1>2, <1>3, <1>4, FS_Subset, Zenon
<1> QED BY <1>5, Zenon DEF image, all

\* The first k of them are k, or all if there are fewer.
LEMMA FirstOf ==
  ASSUME NEW S \in SUBSET Nat, IsFiniteSet(S), NEW v \in [S -> Int], NEW k \in Nat
  PROVE  Cardinality({c \in S : PlaceOf(S, v, c) < k}) = Least(k, Cardinality(S))
<1> DEFINE place(c) == PlaceOf(S, v, c)
           T == {c \in S : place(c) < k}
           image == {place(c) : c \in T}
           m == Cardinality(S)
<1>1. m \in Nat
  BY FS_CardinalityType
<1>2. {place(c) : c \in S} = 0..(m - 1)
  BY EveryPlace
<1>3. Cardinality(image) = Cardinality(T)
  <2>1. T \in SUBSET S
    OBVIOUS
  <2> HIDE DEF T
  <2> QED BY <2>1, AsManyPlaces
<1> HIDE DEF place, m
<1>4. image = {i \in 0..(m - 1) : i < k}
  BY <1>2
<1>5. image = 0..(Least(k, m) - 1) /\ Least(k, m) \in Nat
  <2>1. Least(k, m) \in Nat /\ \A i \in Int : (i <= m - 1 /\ i < k) <=> i <= Least(k, m) - 1
    BY <1>1 DEF Least
  <2> HIDE DEF image
  <2> QED BY <1>1, <1>4, <2>1
<1>6. Cardinality(image) = Least(k, m)
  <2> DEFINE l == Least(k, m)
  <2>1. l - 1 \in Int /\ 0 \in Int /\ l \in Nat /\ image = 0..(l - 1)
    BY <1>5
  <2> HIDE DEF l, image
  <2>2. Cardinality(0..(l - 1)) = IF 0 > l - 1 THEN 0 ELSE (l - 1) - 0 + 1
    BY <2>1, FS_Interval
  <2> QED BY <2>1, <2>2 DEF l
<1> HIDE DEF image, T
<1>7. Cardinality(T) = Least(k, m)
  BY <1>3, <1>6
<1> QED BY <1>7, Zenon DEF T, place, m

----------------------------------------------------------------------------
\* What the rows of an execution are.

LEMMA RankIs ==
  ASSUME NEW n \in Nat, NEW f \in [1..n -> Int], NEW c \in 1..n
  PROVE  Rank(f, c) = 1 + PlaceOf(1..n, f, c)
<1>1. DOMAIN f = 1..n
  OBVIOUS
<1> QED BY <1>1, Zenon DEF Rank, PlaceOf, Ahead

LEMMA RanksAre ==
  ASSUME NEW n \in Nat, NEW f \in [1..n -> Int]
  PROVE  /\ [c \in 1..n |-> Rank(f, c)] \in Rankings(n)
         /\ \A k \in Nat : Cardinality({c \in 1..n : Rank(f, c) <= k}) = Least(k, n)
<1> DEFINE S == 1..n
           place(c) == PlaceOf(S, f, c)
           p == [c \in 1..n |-> Rank(f, c)]
<1>1. S \in SUBSET Nat /\ IsFiniteSet(S) /\ Cardinality(S) = n
  <2>1. IsFiniteSet(1..n) /\ Cardinality(1..n) = IF 1 > n THEN 0 ELSE n - 1 + 1
    BY FS_Interval
  <2> QED BY <2>1
<1>2. \A c \in S : Rank(f, c) = 1 + place(c)
  BY RankIs
<1>3. \A c \in S : place(c) \in 0..(n - 1)
  BY <1>1, PlaceBounds
<1>4. \A c, d \in S : place(c) = place(d) => c = d
  BY <1>1, PlaceOnce
<1>5. {place(c) : c \in S} = 0..(n - 1)
  BY <1>1, EveryPlace
<1>6. \A k \in Nat : Cardinality({c \in S : place(c) < k}) = Least(k, n)
  BY <1>1, FirstOf
<1> HIDE DEF place
<1>7. \A k \in Nat : {c \in S : Rank(f, c) <= k} = {c \in S : place(c) < k}
  BY <1>2, <1>3
<1>8. p \in Rankings(n)
  <2>1. \A c \in S : p[c] = 1 + place(c)
    BY <1>2
  <2>2. p \in [S -> S]
    <3>1. ASSUME NEW c \in S PROVE Rank(f, c) \in S
      <4>1. Rank(f, c) = 1 + place(c) /\ place(c) \in 0..(n - 1)
        BY <1>2, <1>3, Zenon
      <4> QED BY <4>1
    <3> QED BY <3>1
  <2> HIDE DEF p
  <2>3. \A c, d \in S : p[c] = p[d] => c = d
    BY <1>3, <1>4, <2>1
  <2>4. ASSUME NEW k \in S PROVE \E c \in S : p[c] = k
    <3>1. k - 1 \in 0..(n - 1)
      OBVIOUS
    <3>2. PICK c \in S : place(c) = k - 1
      BY <1>5, <3>1
    <3> QED BY <2>1, <3>2
  <2> QED BY <2>2, <2>3, <2>4, Zenon DEF Rankings
<1> QED BY <1>6, <1>7, <1>8, Zenon

\* What the rows of an execution with n candidates are.
ScoreRange == 0..100
Told(rows, n, before, after) ==
  /\ DOMAIN rows = 1..n /\ Len(rows) = n
  /\ [c \in 1..n |-> rows[c].baseline.rank] \in Rankings(n)
  /\ [c \in 1..n |-> rows[c].simulation.rank] \in Rankings(n)
  /\ \A c \in 1..n : /\ rows[c].baseline.score \in ScoreRange /\ rows[c].simulation.score \in ScoreRange
                     /\ rows[c].baseline.qualified \in BOOLEAN
                     /\ rows[c].simulation.qualified \in BOOLEAN
                     /\ rows[c].baseline.listed = (rows[c].baseline.rank <= before)
                     /\ rows[c].simulation.listed = (rows[c].simulation.rank <= after)
  /\ Cardinality({c \in 1..n : rows[c].baseline.rank <= before}) = Least(n, before)
  /\ Cardinality({c \in 1..n : rows[c].simulation.rank <= after}) = Least(n, after)

\* The changes of ranks.
RankChanges(rows) == [c \in DOMAIN rows |-> RankChange(rows[c])]

LEMMA ChangesAre ==
  ASSUME NEW n \in Nat, NEW rows, NEW before, NEW after, Told(rows, n, before, after)
  PROVE  /\ RankChanges(rows) \in Seq(Int) /\ Len(RankChanges(rows)) = n
         /\ DOMAIN RankChanges(rows) = 1..n
         /\ \A c \in 1..n : /\ rows[c].baseline.rank \in 1..n /\ rows[c].simulation.rank \in 1..n
                            /\ RankChanges(rows)[c] = rows[c].baseline.rank - rows[c].simulation.rank
<1> DEFINE p == [c \in 1..n |-> rows[c].baseline.rank]
           q == [c \in 1..n |-> rows[c].simulation.rank]
<1>1. p \in [1..n -> 1..n] /\ q \in [1..n -> 1..n]
  BY DEF Told, Rankings
<1>2. \A c \in 1..n : p[c] \in 1..n /\ q[c] \in 1..n
  <2> HIDE DEF p, q
  <2> QED BY <1>1
<1>3. \A c \in 1..n : rows[c].baseline.rank \in 1..n /\ rows[c].simulation.rank \in 1..n
  BY <1>2
<1>4. DOMAIN rows = 1..n
  BY DEF Told
<1>5. RankChanges(rows) = [c \in 1..n |-> rows[c].baseline.rank - rows[c].simulation.rank]
  BY <1>4 DEF RankChanges, RankChange
<1>6. \A c \in 1..n : rows[c].baseline.rank - rows[c].simulation.rank \in Int
  BY <1>3
<1> QED BY <1>3, <1>5, <1>6

\* The sum of the ranks is the same in every ranking.
LEMMA ChangesBalance ==
  ASSUME NEW n \in Nat, NEW rows, NEW before, NEW after, Told(rows, n, before, after)
  PROVE  SumOf(RankChanges(rows)) = 0
<1> DEFINE p == [c \in 1..n |-> rows[c].baseline.rank]
           q == [c \in 1..n |-> rows[c].simulation.rank]
           id == [k \in Nat |-> k]
           d == RankChanges(rows)
<1>1. p \in Rankings(n) /\ q \in Rankings(n) /\ id \in [Nat -> Int]
  BY DEF Told
<1>2. d \in Seq(Int) /\ Len(d) = n
  BY ChangesAre, Zenon
<1>3. \A c \in 1..n : p[c] \in 1..n /\ q[c] \in 1..n /\ p[c] = d[c] + q[c]
  <2>1. \A c \in 1..n : /\ rows[c].baseline.rank \in 1..n /\ rows[c].simulation.rank \in 1..n
                        /\ d[c] = rows[c].baseline.rank - rows[c].simulation.rank
    BY ChangesAre, Zenon
  <2> QED BY <2>1
<1>4. p \in [1..n -> 1..n] /\ q \in [1..n -> 1..n]
  BY <1>1 DEF Rankings
<1> HIDE DEF p, q, d, id
<1>5. p \in Seq(Int) /\ Len(p) = n /\ q \in Seq(Int) /\ Len(q) = n
  BY <1>4
<1>6. SumByRank(n, p, id) = SumByRank(n, q, id)
  BY <1>1, SumsByRank, Zenon
<1>7. SumByRank(n, p, id) = SumOf(p) /\ SumByRank(n, q, id) = SumOf(q)
  <2>1. [i \in 1..n |-> id[p[i]]] = p /\ [i \in 1..n |-> id[q[i]]] = q
    BY <1>4 DEF id
  <2> QED BY <2>1, Zenon DEF SumByRank
<1>8. SumOf(p) = SumOf(d) + SumOf(q)
  <2>1. p = [c \in 1..n |-> d[c] + q[c]]
    BY <1>3, <1>4
  <2> QED BY <1>2, <1>5, <2>1, SumAdd, Zenon
<1>9. SumOf(p) \in Int /\ SumOf(d) \in Int /\ SumOf(q) \in Int
  BY <1>2, <1>5, SumInt
<1>10. SumOf(d) = 0
  <2>1. SumOf(p) = SumOf(q)
    BY <1>6, <1>7, Zenon
  <2> QED BY <1>8, <1>9, <2>1
<1> QED BY <1>10, Zenon DEF d

\* Those whose rank changes so.
Gaining(rows) == {c \in DOMAIN rows : RankChange(rows[c]) > 0}
Losing(rows) == {c \in DOMAIN rows : RankChange(rows[c]) < 0}

LEMMA MovementIs ==
  ASSUME NEW n \in Nat, NEW rows, NEW before, NEW after, Told(rows, n, before, after)
  PROVE  LET ranks == Movement([c \in DOMAIN rows |-> RankChange(rows[c])])
         IN /\ ranks.up = Cardinality(Gaining(rows)) /\ ranks.down = Cardinality(Losing(rows))
            /\ ranks.total = SumOf(RankChanges(rows))
<1> DEFINE d == [c \in DOMAIN rows |-> RankChange(rows[c])]
<1>1. d = RankChanges(rows) /\ DOMAIN d = DOMAIN rows
  BY DEF RankChanges
<1>2. /\ Movement(d).up = Cardinality({c \in DOMAIN d : d[c] > 0})
      /\ Movement(d).down = Cardinality({c \in DOMAIN d : d[c] < 0})
      /\ Movement(d).total = SumOf([c \in DOMAIN d |-> d[c]])
  <2> HIDE DEF d
  <2> QED BY DEF Movement, Rows, SumOver
<1>3. \A c \in DOMAIN rows : d[c] = RankChange(rows[c])
  OBVIOUS
<1>4. [c \in DOMAIN d |-> d[c]] = d
  OBVIOUS
<1>5. {c \in DOMAIN d : d[c] > 0} = Gaining(rows) /\ {c \in DOMAIN d : d[c] < 0} = Losing(rows)
  BY <1>1, <1>3 DEF Gaining, Losing
<1> QED BY <1>1, <1>2, <1>4, <1>5

LEMMA Balanced ==
  ASSUME NEW n \in Nat, NEW rows, NEW before, NEW after, Told(rows, n, before, after)
  PROVE  RanksBalance(rows)
<1> DEFINE d == RankChanges(rows)
           e == [c \in 1..n |-> -1 * d[c]]
<1>1. d \in Seq(Int) /\ Len(d) = n /\ SumOf(d) = 0 /\ DOMAIN rows = 1..n
  <2>1. DOMAIN rows = 1..n
    BY Zenon DEF Told
  <2> QED BY <2>1, ChangesAre, ChangesBalance, Zenon
<1>2. \A c \in 1..n : d[c] = RankChange(rows[c]) /\ d[c] \in Int
  <2>1. \A c \in 1..n : d[c] = RankChange(rows[c])
    BY <1>1 DEF RankChanges
  <2> HIDE DEF d
  <2> QED BY <1>1, <2>1
<1> HIDE DEF d
<1>3. e \in Seq(Int) /\ Len(e) = n /\ \A c \in 1..n : e[c] = - d[c]
  BY <1>2
<1> HIDE DEF e
<1>4. SumOf(e) = 0
  <2> DEFINE z == [c \in 1..n |-> 0]
  <2>1. z \in Seq(Int) /\ Len(z) = n /\ \A c \in 1..n : z[c] = 0
    OBVIOUS
  <2> HIDE DEF z
  <2>2. SumOf(z) = SumOf(d) + SumOf(e)
    <3>1. z = [i \in 1..n |-> d[i] + e[i]]
      <4>1. \A i \in 1..n : d[i] + e[i] = 0
        BY <1>2, <1>3
      <4> QED BY <4>1, Zenon DEF z
    <3> QED BY <1>1, <1>3, <3>1, SumAdd, Zenon
  <2>3. SumOf(z) = 0
    <3>1. \A i \in 1..Len(z) : z[i] <= 0 * z[i] /\ 0 * z[i] <= z[i]
      BY <2>1
    <3>2. 0 \in Int
      OBVIOUS
    <3>3. SumOf(z) <= 0 * SumOf(z) /\ 0 * SumOf(z) <= SumOf(z)
      BY <2>1, <3>1, <3>2, SumBounds
    <3>4. SumOf(z) \in Int
      BY <2>1, SumInt
    <3> QED BY <3>3, <3>4
  <2>4. SumOf(e) \in Int
    BY <1>3, SumInt
  <2> QED BY <1>1, <2>2, <2>3, <2>4
<1>5. ASSUME \A c \in 1..n : d[c] <= 0 PROVE \A c \in 1..n : d[c] = 0
  <2> SUFFICES ASSUME NEW c \in 1..n PROVE d[c] = 0
    OBVIOUS
  <2>1. e[c] <= SumOf(e)
    <3>1. (\A i \in 1..Len(e) : e[i] >= 0) /\ c \in 1..Len(e)
      BY <1>2, <1>3, <1>5
    <3> QED BY <1>3, <3>1, PartOfSum, Zenon
  <2> QED BY <1>2, <1>3, <1>4, <1>5, <2>1
<1>6. ASSUME \A c \in 1..n : d[c] >= 0 PROVE \A c \in 1..n : d[c] = 0
  <2> SUFFICES ASSUME NEW c \in 1..n PROVE d[c] = 0
    OBVIOUS
  <2>1. d[c] <= SumOf(d)
    <3>1. (\A i \in 1..Len(d) : d[i] >= 0) /\ c \in 1..Len(d)
      BY <1>1, <1>2, <1>6
    <3> QED BY <1>1, <3>1, PartOfSum, Zenon
  <2> QED BY <1>1, <1>2, <1>6, <2>1
<1>7. Gaining(rows) = {} <=> Losing(rows) = {}
  <2>1. ASSUME Gaining(rows) = {} PROVE Losing(rows) = {}
    <3>1. \A c \in 1..n : d[c] <= 0
      BY <1>1, <1>2, <2>1 DEF Gaining
    <3>2. \A c \in 1..n : d[c] = 0
      BY <1>5, <3>1
    <3> QED BY <1>1, <1>2, <3>2 DEF Losing
  <2>2. ASSUME Losing(rows) = {} PROVE Gaining(rows) = {}
    <3>1. \A c \in 1..n : d[c] >= 0
      BY <1>1, <1>2, <2>2 DEF Losing
    <3>2. \A c \in 1..n : d[c] = 0
      BY <1>6, <3>1
    <3> QED BY <1>1, <1>2, <3>2 DEF Gaining
  <2> QED BY <2>1, <2>2
<1>8. IsFiniteSet(Gaining(rows)) /\ IsFiniteSet(Losing(rows))
  <2>1. IsFiniteSet(1..n)
    BY FS_Interval
  <2>2. Gaining(rows) \in SUBSET (1..n) /\ Losing(rows) \in SUBSET (1..n)
    BY <1>1 DEF Gaining, Losing
  <2> QED BY <2>1, <2>2, FS_Subset, Zenon
<1>9. Cardinality(Gaining(rows)) = 0 <=> Cardinality(Losing(rows)) = 0
  BY <1>7, <1>8, FS_EmptySet, Zenon
<1> QED BY <1>1, <1>9, MovementIs, Zenon DEF RanksBalance, d

----------------------------------------------------------------------------
\* The correlation of two rankings.

\* The squares of 2 k - (n + 1) over the ranks k.
LEMMA SumOfSquares ==
  ASSUME NEW n \in Nat, NEW f \in Seq(Int), Len(f) = n,
         \A i \in 1..n : f[i] = (2 * i - (n + 1)) * (2 * i - (n + 1))
  PROVE  3 * SumOf(f) = n * (n * n - 1)
<1> DEFINE m == n + 1
           g == [i \in 1..n |-> 3 * f[i]]
           h == [j \in 0..n |-> (2 * j * (j + 1) * (2 * j + 1) - 6 * m * j * (j + 1)) + 3 * j * m * m]
<1>1. \A i \in 1..n : f[i] \in Int
  OBVIOUS
<1>2. g \in Seq(Int) /\ Len(g) = n /\ \A i \in 1..n : g[i] = 3 * f[i]
  BY <1>1
<1>3. SumOf(g) = 3 * SumOf(f)
  <2> HIDE DEF g
  <2>1. 3 \in Int
    OBVIOUS
  <2> QED BY <1>2, <2>1, SumScaled
<1>4. \A j, k \in Int : k = j - 1 =>
        (2 * j * (j + 1) * (2 * j + 1) - 6 * m * j * (j + 1)) + 3 * j * m * m
          = ((2 * k * (k + 1) * (2 * k + 1) - 6 * m * k * (k + 1)) + 3 * k * m * m)
              + 3 * ((2 * j - m) * (2 * j - m))
  OBVIOUS
<1>5. ASSUME NEW i \in 1..n PROVE h[i] = h[i - 1] + g[i]
  <2>1. i \in Int /\ i - 1 \in Int /\ i \in 0..n /\ i - 1 \in 0..n
    OBVIOUS
  <2>2. /\ h[i] = (2 * i * (i + 1) * (2 * i + 1) - 6 * m * i * (i + 1)) + 3 * i * m * m
        /\ h[i - 1] = (2 * (i - 1) * ((i - 1) + 1) * (2 * (i - 1) + 1)
                        - 6 * m * (i - 1) * ((i - 1) + 1)) + 3 * (i - 1) * m * m
    BY <2>1, Zenon
  <2>3. g[i] = 3 * ((2 * i - m) * (2 * i - m))
    BY <1>2, Zenon
  <2> HIDE DEF h, g, m
  <2> QED BY <1>4, <2>1, <2>2, <2>3, Zenon
<1>6. h[0] = 0
  <2>1. 0 \in 0..n
    OBVIOUS
  <2>2. h[0] = (2 * 0 * (0 + 1) * (2 * 0 + 1) - 6 * m * 0 * (0 + 1)) + 3 * 0 * m * m
    BY <2>1, Zenon
  <2> HIDE DEF h
  <2> QED BY <2>2
<1>7. h[n] = n * (n * n - 1)
  <2>1. n \in 0..n
    OBVIOUS
  <2>2. h[n] = (2 * n * (n + 1) * (2 * n + 1) - 6 * m * n * (n + 1)) + 3 * n * m * m
    BY <2>1, Zenon
  <2> HIDE DEF h
  <2> QED BY <2>2
<1> HIDE DEF h, g
<1>8. SumOf(g) = h[Len(g)]
  BY <1>2, <1>5, <1>6, SumBySteps
<1> QED BY <1>2, <1>3, <1>7, <1>8

\* The squares of the differences of two rankings.
LEMMA Spearman ==
  ASSUME NEW n \in Nat, NEW p \in Rankings(n), NEW q \in Rankings(n), NEW s \in Seq(Int),
         Len(s) = n, \A i \in 1..n : s[i] = (p[i] - q[i]) * (p[i] - q[i])
  PROVE  SumOf(s) \in Nat /\ 3 * SumOf(s) <= n * (n * n - 1)
<1> DEFINE m == n + 1
           sq(x) == x * x
           U == [k \in Nat |-> sq(2 * k - m)]
           a == [i \in 1..n |-> U[p[i]]]
           b == [i \in 1..n |-> U[q[i]]]
           c == [i \in 1..n |-> U[InOrder(n)[i]]]
           e == [i \in 1..n |-> sq((p[i] + q[i]) - m)]
           t == [i \in 1..n |-> a[i] + b[i]]
           w == [i \in 1..n |-> s[i] + e[i]]
<1>1. \A i \in 1..n : p[i] \in 1..n /\ q[i] \in 1..n
  <2>1. p \in [1..n -> 1..n] /\ q \in [1..n -> 1..n]
    BY DEF Rankings
  <2> QED BY <2>1
<1>2. \A x \in Int : sq(x) \in Int /\ sq(x) >= 0
  OBVIOUS
<1>3. \A x, y \in Int : 2 * (sq(x - y) + sq((x + y) - m)) = sq(2 * x - m) + sq(2 * y - m)
  OBVIOUS
<1>4. \A i \in 1..n : s[i] = sq(p[i] - q[i])
  BY <1>1, Zenon
<1>5. \A k \in Nat : U[k] = sq(2 * k - m) /\ 2 * k - m \in Int
  OBVIOUS
<1> HIDE DEF sq
<1>6. U \in [Nat -> Int]
  BY <1>2, <1>5
<1>7. \A i \in 1..n : /\ p[i] \in Nat /\ q[i] \in Nat /\ i \in Nat /\ InOrder(n)[i] = i
                      /\ (p[i] + q[i]) - m \in Int /\ p[i] - q[i] \in Int
  <2>1. \A i \in 1..n : i \in Nat /\ InOrder(n)[i] = i
    BY DEF InOrder
  <2>2. m \in Int /\ \A x \in 1..n : x \in Nat
    OBVIOUS
  <2> HIDE DEF m
  <2>3. \A x, y \in 1..n : x \in Nat /\ y \in Nat /\ (x + y) - m \in Int /\ x - y \in Int
    BY <2>2
  <2> QED BY <1>1, <2>1, <2>3, Zenon
<1> HIDE DEF U, m
<1>8. /\ \A i \in 1..n : a[i] = sq(2 * p[i] - m) /\ a[i] \in Int
      /\ \A i \in 1..n : b[i] = sq(2 * q[i] - m) /\ b[i] \in Int
      /\ \A i \in 1..n : c[i] = sq(2 * i - m) /\ c[i] \in Int
  <2> SUFFICES ASSUME NEW i \in 1..n
               PROVE  /\ a[i] = sq(2 * p[i] - m) /\ a[i] \in Int
                      /\ b[i] = sq(2 * q[i] - m) /\ b[i] \in Int
                      /\ c[i] = sq(2 * i - m) /\ c[i] \in Int
    OBVIOUS
  <2>1. a[i] = U[p[i]] /\ b[i] = U[q[i]] /\ c[i] = U[i]
    BY <1>7, Zenon
  <2> HIDE DEF a, b, c
  <2> QED BY <1>5, <1>6, <1>7, <2>1
<1>9. \A i \in 1..n : e[i] = sq((p[i] + q[i]) - m) /\ e[i] \in Int /\ e[i] >= 0
  <2>1. \A i \in 1..n : e[i] = sq((p[i] + q[i]) - m)
    BY Zenon
  <2> HIDE DEF e
  <2> QED BY <1>2, <1>7, <2>1
<1>10. /\ SumOf(a) = SumOf(c) /\ SumOf(b) = SumOf(c)
  <2>1. /\ SumByRank(n, p, U) = SumByRank(n, InOrder(n), U)
        /\ SumByRank(n, q, U) = SumByRank(n, InOrder(n), U)
    BY <1>6, SumsByRank, Zenon
  <2> QED BY <2>1, Zenon DEF SumByRank
<1>11. /\ a \in Seq(Int) /\ Len(a) = n /\ b \in Seq(Int) /\ Len(b) = n
       /\ c \in Seq(Int) /\ Len(c) = n /\ e \in Seq(Int) /\ Len(e) = n
  <2>1. /\ a = [i \in 1..n |-> a[i]] /\ b = [i \in 1..n |-> b[i]]
        /\ c = [i \in 1..n |-> c[i]] /\ e = [i \in 1..n |-> e[i]]
    OBVIOUS
  <2> HIDE DEF a, b, c, e
  <2> QED BY <1>8, <1>9, <2>1, ListOf, Zenon
<1> HIDE DEF a, b, c, e
<1>12. /\ t \in Seq(Int) /\ Len(t) = n /\ \A i \in 1..n : t[i] = a[i] + b[i]
       /\ w \in Seq(Int) /\ Len(w) = n /\ \A i \in 1..n : w[i] = s[i] + e[i]
  <2>1. \A i \in 1..n : a[i] \in Int /\ b[i] \in Int /\ s[i] \in Int /\ e[i] \in Int
    BY <1>8, <1>9
  <2>2. \A i \in 1..n : a[i] + b[i] \in Int /\ s[i] + e[i] \in Int
    BY <2>1
  <2>3. /\ \A i \in 1..n : t[i] = a[i] + b[i] /\ t[i] \in Int
        /\ \A i \in 1..n : w[i] = s[i] + e[i] /\ w[i] \in Int
    BY <2>2, Zenon
  <2>4. t = [i \in 1..n |-> t[i]] /\ w = [i \in 1..n |-> w[i]]
    OBVIOUS
  <2> HIDE DEF t, w
  <2> QED BY <2>3, <2>4, ListOf, Zenon
<1> HIDE DEF t, w
<1>13. \A i \in 1..n : t[i] = 2 * w[i]
  <2> SUFFICES ASSUME NEW i \in 1..n PROVE t[i] = 2 * w[i]
    OBVIOUS
  <2>1. p[i] \in Int /\ q[i] \in Int
    BY <1>7
  <2>2. 2 * (sq(p[i] - q[i]) + sq((p[i] + q[i]) - m)) = sq(2 * p[i] - m) + sq(2 * q[i] - m)
    BY <1>3, <2>1, Zenon
  <2>3. t[i] = sq(2 * p[i] - m) + sq(2 * q[i] - m)
    BY <1>8, <1>12, Zenon
  <2>4. w[i] = sq(p[i] - q[i]) + sq((p[i] + q[i]) - m)
    BY <1>4, <1>9, <1>12, Zenon
  <2> QED BY <2>2, <2>3, <2>4, Zenon
<1>14. SumOf(t) = SumOf(a) + SumOf(b)
  BY <1>11, SumAdd, Zenon DEF t
<1>15. SumOf(w) = SumOf(s) + SumOf(e)
  BY <1>11, SumAdd, Zenon DEF w
<1>16. SumOf(t) = 2 * SumOf(w)
  <2>1. 2 \in Int /\ Len(t) = Len(w)
    BY <1>12
  <2>2. \A i \in 1..Len(t) : t[i] = 2 * w[i]
    BY <1>13, <1>12, Zenon
  <2> QED BY <1>12, <2>1, <2>2, SumScaled, Zenon
<1>17. SumOf(s) \in Nat /\ SumOf(e) \in Nat
  <2>1. \A i \in 1..Len(s) : s[i] >= 0
    BY <1>2, <1>4, <1>7
  <2>2. SumOf(s) \in Nat
    BY <2>1, SumNat
  <2>3. \A i \in 1..Len(e) : e[i] >= 0
    BY <1>9, <1>11
  <2>4. SumOf(e) \in Nat
    BY <1>11, <2>3, SumNat, Zenon
  <2> QED BY <2>2, <2>4
<1>18. 3 * SumOf(c) = n * (n * n - 1)
  <2>1. \A i \in 1..n : c[i] = (2 * i - (n + 1)) * (2 * i - (n + 1))
    BY <1>8, Zenon DEF sq, m
  <2> QED BY <1>11, <2>1, SumOfSquares, Zenon
<1>19. SumOf(c) \in Int /\ SumOf(w) \in Int
  BY <1>11, <1>12, SumInt, Zenon
<1> DEFINE x == SumOf(s)
           y == SumOf(e)
           z == SumOf(c)
           v == n * (n * n - 1)
<1>20. 2 * (x + y) = z + z
  BY <1>10, <1>14, <1>15, <1>16, Zenon
<1>21. x \in Nat /\ y \in Nat /\ z \in Int /\ 3 * z = v
  BY <1>17, <1>18, <1>19
<1> HIDE DEF x, y, z, v
<1>22. x \in Nat /\ 3 * x <= v
  BY <1>20, <1>21
<1> QED BY <1>22 DEF x, v

\* The ranks of a ranking are those of its candidates.
LEMMA RanksOf ==
  ASSUME NEW n \in Nat, NEW p \in Rankings(n)
  PROVE  {p[c] : c \in 1..n} = 1..n /\ Cardinality({p[c] : c \in 1..n}) = n
<1>1. p \in [1..n -> 1..n] /\ \A k \in 1..n : \E c \in 1..n : p[c] = k
  BY Zenon DEF Rankings
<1>2. {p[c] : c \in 1..n} = 1..n
  BY <1>1
<1>3. Cardinality(1..n) = n
  <2>1. Cardinality(1..n) = IF 1 > n THEN 0 ELSE n - 1 + 1
    BY FS_Interval
  <2> QED BY <2>1
<1> QED BY <1>2, <1>3

Squares(rows) == [c \in DOMAIN rows |-> RankChange(rows[c]) * RankChange(rows[c])]

LEMMA CorrelationIs ==
  ASSUME NEW n \in Nat, NEW rows, NEW before, NEW after, Told(rows, n, before, after)
  PROVE  Correlation(rows) =
           IF n < 2 THEN NoCorrelation
           ELSE [of |-> FourDigits(n * (n * n - 1) - 6 * SumOf(Squares(rows)), n * (n * n - 1)),
                 over |-> Whole]
<1> DEFINE p == [c \in 1..n |-> rows[c].baseline.rank]
           q == [c \in 1..n |-> rows[c].simulation.rank]
<1>1. DOMAIN rows = 1..n /\ p \in Rankings(n) /\ q \in Rankings(n)
  BY Zenon DEF Told
<1>2. Cardinality(DOMAIN rows) = n
  <2>1. Cardinality(1..n) = IF 1 > n THEN 0 ELSE n - 1 + 1
    BY FS_Interval
  <2> QED BY <1>1, <2>1
<1>3. Cardinality({p[c] : c \in 1..n}) = n /\ Cardinality({q[c] : c \in 1..n}) = n
  BY <1>1, RanksOf, Zenon
<1>4. /\ {p[c] : c \in 1..n} = {rows[c].baseline.rank : c \in DOMAIN rows}
      /\ {q[c] : c \in 1..n} = {rows[c].simulation.rank : c \in DOMAIN rows}
  BY <1>1
<1>5. Correlation(rows) =
        IF n < 2 \/ n = 1 \/ n = 1 THEN NoCorrelation
        ELSE [of |-> FourDigits(n * (n * n - 1) - 6 * SumOf(Squares(rows)), n * (n * n - 1)),
              over |-> Whole]
  <2> HIDE DEF p, q
  <2> QED BY <1>2, <1>3, <1>4, Zenon DEF Correlation, SumOver, Squares
<1>6. n < 2 \/ n = 1 \/ n = 1 <=> n < 2
  OBVIOUS
<1> QED BY <1>5, <1>6, Zenon

LEMMA SquaresAre ==
  ASSUME NEW n \in Nat, NEW rows, NEW before, NEW after, Told(rows, n, before, after)
  PROVE  /\ SumOf(Squares(rows)) \in Nat /\ 3 * SumOf(Squares(rows)) <= n * (n * n - 1)
         /\ SumOf(Squares(rows)) = 0 <=> \A c \in 1..n : RankChange(rows[c]) = 0
<1> DEFINE p == [c \in 1..n |-> rows[c].baseline.rank]
           q == [c \in 1..n |-> rows[c].simulation.rank]
           s == Squares(rows)
           d == RankChanges(rows)
           sq(x) == x * x
<1>1. DOMAIN rows = 1..n /\ p \in Rankings(n) /\ q \in Rankings(n)
  BY Zenon DEF Told
<1>2. \A c \in 1..n : /\ d[c] \in Int /\ d[c] = RankChange(rows[c]) /\ d[c] = p[c] - q[c]
  <2>1. /\ d \in Seq(Int) /\ Len(d) = n
        /\ \A c \in 1..n : d[c] = rows[c].baseline.rank - rows[c].simulation.rank
    BY ChangesAre, Zenon
  <2>2. \A c \in 1..n : d[c] = RankChange(rows[c])
    BY <1>1 DEF RankChanges
  <2>3. \A c \in 1..n : p[c] = rows[c].baseline.rank /\ q[c] = rows[c].simulation.rank
    OBVIOUS
  <2> HIDE DEF d, p, q
  <2> QED BY <2>1, <2>2, <2>3
<1>3. s = [c \in 1..n |-> sq(d[c])]
  BY <1>1, <1>2 DEF Squares
<1>4. \A x \in Int : sq(x) \in Int /\ sq(x) >= 0 /\ (sq(x) = 0 <=> x = 0)
  OBVIOUS
<1>5. \A c \in 1..n : s[c] = (p[c] - q[c]) * (p[c] - q[c])
  <2>1. \A c \in 1..n : s[c] = d[c] * d[c]
    <3> HIDE DEF d, p, q, s
    <3> QED BY <1>3, Zenon
  <2> HIDE DEF d, p, q, s
  <2> QED BY <1>2, <2>1, Zenon
<1> HIDE DEF p, q, s, d, sq
<1>6. s \in Seq(Int) /\ Len(s) = n /\ \A c \in 1..n : s[c] >= 0 /\ (s[c] = 0 <=> d[c] = 0)
  <2>1. \A c \in 1..n : s[c] = sq(d[c]) /\ s[c] \in Int /\ s[c] >= 0 /\ (s[c] = 0 <=> d[c] = 0)
    BY <1>2, <1>3, <1>4
  <2>2. s = [c \in 1..n |-> s[c]]
    BY <1>3
  <2> QED BY <2>1, <2>2, ListOf, Zenon
<1>7. SumOf(s) \in Nat /\ 3 * SumOf(s) <= n * (n * n - 1)
  BY <1>1, <1>5, <1>6, Spearman, Zenon
<1>8. ASSUME SumOf(s) = 0 PROVE \A c \in 1..n : d[c] = 0
  <2> SUFFICES ASSUME NEW c \in 1..n PROVE d[c] = 0
    OBVIOUS
  <2>1. s[c] <= SumOf(s)
    <3>1. (\A i \in 1..Len(s) : s[i] >= 0) /\ c \in 1..Len(s)
      BY <1>6
    <3> QED BY <1>6, <3>1, PartOfSum, Zenon
  <2>2. s[c] >= 0 /\ s[c] \in Int
    BY <1>6
  <2>3. s[c] = 0
    BY <1>8, <2>1, <2>2
  <2> QED BY <1>6, <2>3, Zenon
<1>9. ASSUME \A c \in 1..n : d[c] = 0 PROVE SumOf(s) = 0
  <2>1. \A i \in 1..Len(s) : s[i] <= 0 * s[i] /\ 0 * s[i] <= s[i]
    <3>1. \A i \in 1..Len(s) : s[i] = 0
      BY <1>6, <1>9, Zenon
    <3> QED BY <3>1
  <2>2. 0 \in Int
    OBVIOUS
  <2>3. SumOf(s) <= 0 * SumOf(s) /\ 0 * SumOf(s) <= SumOf(s)
    BY <1>6, <2>1, <2>2, SumBounds
  <2> QED BY <1>7, <2>3
<1>10. SumOf(s) = 0 <=> \A c \in 1..n : RankChange(rows[c]) = 0
  BY <1>2, <1>8, <1>9
<1> QED BY <1>7, <1>10, Zenon DEF s

\* Their sum is even, as the sum of the changes is zero.
LEMMA SquaresEven ==
  ASSUME NEW n \in Nat, NEW rows, NEW before, NEW after, Told(rows, n, before, after)
  PROVE  SumOf(Squares(rows)) # 1
<1> DEFINE s == Squares(rows)
           d == RankChanges(rows)
           half(x) == (x * x - x) \div 2
           h == [c \in 1..n |-> half(d[c])]
           t == [c \in 1..n |-> 2 * h[c]]
<1>1. DOMAIN rows = 1..n
  BY Zenon DEF Told
<1>2. d \in Seq(Int) /\ Len(d) = n /\ SumOf(d) = 0
  BY ChangesAre, ChangesBalance, Zenon
<1>3. \A c \in 1..n : d[c] \in Int
  BY <1>2
<1>4. \A x \in Int : half(x) \in Int /\ x * x = x + 2 * half(x)
  <2> SUFFICES ASSUME NEW x \in Int PROVE half(x) \in Int /\ x * x = x + 2 * half(x)
    OBVIOUS
  <2>1. PICK k \in Int : x = 2 * k \/ x = 2 * k + 1
    <3>1. x \div 2 \in Int /\ (x = 2 * (x \div 2) \/ x = 2 * (x \div 2) + 1)
      OBVIOUS
    <3> QED BY <3>1
  <2>2. \E m \in Int : x * x - x = 2 * m
    <3>1. CASE x = 2 * k
      <4>1. x * x - x = 2 * (k * (2 * k) - k) /\ k * (2 * k) - k \in Int
        BY <3>1
      <4> QED BY <4>1
    <3>2. CASE x = 2 * k + 1
      <4>1. x * x - x = 2 * (k * (2 * k + 1)) /\ k * (2 * k + 1) \in Int
        BY <3>2
      <4> QED BY <4>1
    <3> QED BY <2>1, <3>1, <3>2
  <2>3. PICK m \in Int : x * x - x = 2 * m
    BY <2>2
  <2>4. \A y \in Int : y = 2 * m => y \div 2 = m
    OBVIOUS
  <2>5. x * x - x \in Int /\ x * x \in Int
    OBVIOUS
  <2>6. half(x) = m
    BY <2>3, <2>4, <2>5
  <2> HIDE DEF half
  <2> QED BY <2>3, <2>5, <2>6
<1>5. \A c \in 1..n : s[c] = d[c] * d[c]
  BY <1>1 DEF Squares, RankChanges
<1>6. s = [c \in 1..n |-> s[c]]
  BY <1>1 DEF Squares
<1> HIDE DEF s, d, half
<1>7. \A c \in 1..n : h[c] \in Int /\ t[c] = 2 * h[c] /\ t[c] \in Int /\ s[c] = d[c] + t[c]
  <2> SUFFICES ASSUME NEW c \in 1..n
               PROVE  h[c] \in Int /\ t[c] = 2 * h[c] /\ t[c] \in Int /\ s[c] = d[c] + t[c]
    OBVIOUS
  <2>1. h[c] = half(d[c]) /\ t[c] = 2 * h[c]
    BY Zenon
  <2>2. half(d[c]) \in Int /\ s[c] = d[c] + 2 * half(d[c])
    BY <1>3, <1>4, <1>5, Zenon
  <2> HIDE DEF h, t
  <2> QED BY <1>3, <2>1, <2>2
<1>8. h = [c \in 1..n |-> h[c]] /\ t = [c \in 1..n |-> t[c]]
  OBVIOUS
<1> HIDE DEF h, t
<1>9. h \in Seq(Int) /\ Len(h) = n /\ t \in Seq(Int) /\ Len(t) = n
  BY <1>7, <1>8, ListOf, Zenon
<1>10. SumOf(t) = 2 * SumOf(h)
  <2>1. 2 \in Int /\ Len(t) = Len(h) /\ \A c \in 1..Len(t) : t[c] = 2 * h[c]
    BY <1>7, <1>9
  <2> QED BY <1>9, <2>1, SumScaled, Zenon
<1>11. SumOf(s) = SumOf(d) + SumOf(t)
  <2>1. s = [c \in 1..n |-> d[c] + t[c]]
    BY <1>6, <1>7, Zenon
  <2> QED BY <1>2, <1>9, <2>1, SumAdd, Zenon
<1>12. SumOf(h) \in Int
  BY <1>9, SumInt
<1>13. SumOf(s) # 1
  BY <1>2, <1>10, <1>11, <1>12
<1> QED BY <1>13, Zenon DEF s

\* Where v is such that a difference of two shows in four digits.
Few(v) == v <= 238266

\* The correlation of ranks whose squared differences sum to x, with v = n * (n * n - 1).
LEMMA RhoIs ==
  ASSUME NEW v \in Nat \ {0}, NEW x \in Nat, 3 * x <= v
  PROVE  /\ FourDigits(v - 6 * x, v) \in -Whole..Whole
         /\ x = 0 => FourDigits(v - 6 * x, v) = Whole
         /\ x >= 2 /\ Few(v) => FourDigits(v - 6 * x, v) # Whole
<1> DEFINE n == 10000 * (v - 6 * x)
<1>1. n \in Int /\ n <= 10000 * v /\ (-10000) * v <= n /\ (x = 0 => n = 10000 * v)
  OBVIOUS
<1>2. x >= 2 /\ v <= 238266 => 2 * n < 2 * (v * 9999) + v
  OBVIOUS
<1> HIDE DEF n
<1>3. Round(n, v) \in Int
  BY <1>1, RoundInt
<1>4. Round(n, v) <= 10000
  <2>1. 10000 \in Int
    OBVIOUS
  <2> QED BY <1>1, <2>1, RoundAtMost
<1>5. -10000 <= Round(n, v)
  <2>1. -10000 \in Int
    OBVIOUS
  <2> QED BY <1>1, <2>1, RoundAtLeast
<1>6. x = 0 => Round(n, v) = 10000
  <2>1. x = 0 => 10000 * v <= n
    BY <1>1
  <2>2. 10000 \in Int
    OBVIOUS
  <2>3. x = 0 => 10000 <= Round(n, v)
    BY <1>1, <2>1, <2>2, RoundAtLeast
  <2> QED BY <1>3, <1>4, <2>3
<1>7. x >= 2 /\ v <= 238266 => Round(n, v) <= 9999
  <2>1. 9999 \in Int
    OBVIOUS
  <2> QED BY <1>1, <1>2, <2>1, RoundDown
<1> DEFINE r == Round(n, v)
           rho == FourDigits(v - 6 * x, v)
<1>8. rho = r
  <2>1. n = Whole * (v - 6 * x)
    BY DEF n, Whole
  <2> QED BY <2>1, Zenon DEF FourDigits
<1>9. Few(v) => v <= 238266
  BY DEF Few
<1> HIDE DEF r, rho
<1>10. Whole \in Int /\ r \in Int /\ r <= Whole /\ 0 - Whole <= r
  <2>1. r \in Int /\ r <= 10000 /\ -10000 <= r
    BY <1>3, <1>4, <1>5 DEF r
  <2> QED BY <2>1 DEF Whole
<1>11. x = 0 => r = Whole
  <2>1. x = 0 => r = 10000
    BY <1>6 DEF r
  <2> QED BY <2>1 DEF Whole
<1>12. x >= 2 /\ Few(v) => r # Whole
  <2> SUFFICES ASSUME x >= 2, Few(v) PROVE r # Whole
    OBVIOUS
  <2>1. r <= 9999
    BY <1>7, <1>9 DEF r
  <2> QED BY <1>10, <2>1 DEF Whole
<1>13. r \in -Whole..Whole
  BY <1>10
<1> QED BY <1>8, <1>11, <1>12, <1>13, Zenon DEF rho

LEMMA Correlated ==
  ASSUME NEW n \in Nat, NEW rows, NEW before, NEW after, Told(rows, n, before, after)
  PROVE  CorrelationFits(rows)
<1> DEFINE x == SumOf(Squares(rows))
           v == n * (n * n - 1)
           rho == FourDigits(v - 6 * x, v)
           still == {c \in DOMAIN rows : RankChange(rows[c]) = 0}
<1>1. DOMAIN rows = 1..n /\ Len(rows) = n
  BY Zenon DEF Told
<1>2. /\ x \in Nat /\ 3 * x <= v /\ x # 1
      /\ x = 0 <=> \A c \in 1..n : RankChange(rows[c]) = 0
  BY SquaresAre, SquaresEven, Zenon
<1>3. n >= 2 => v \in Nat \ {0} /\ (n <= 62 => Few(v))
  <2> SUFFICES ASSUME n >= 2 PROVE v \in Nat \ {0} /\ (n <= 62 => Few(v))
    OBVIOUS
  <2>1. n * n \in Int /\ n * n - 1 \in Int
    OBVIOUS
  <2>2. 2 * n <= n * n
    BY MulMono
  <2>3. n * n - 1 >= 3
    BY <2>1, <2>2
  <2>4. n * n - 1 <= n * (n * n - 1)
    <3> DEFINE m == n * n - 1
    <3>1. m \in Nat
      BY <2>1, <2>3
    <3> HIDE DEF m
    <3>2. 1 * m <= n * m
      BY <3>1, MulMono
    <3> QED BY <3>1, <3>2 DEF m
  <2>5. ASSUME n <= 62 PROVE v <= 238266
    <3>1. n * n <= 62 * n
      BY <2>5, MulMono
    <3>2. n * n - 1 <= 3843
      BY <2>1, <2>5, <3>1
    <3> DEFINE m == n * n - 1
    <3>3. m \in Nat /\ m <= 3843
      BY <2>1, <2>3, <3>2
    <3> HIDE DEF m
    <3>4. n * m <= 62 * m
      BY <2>5, <3>3, MulMono
    <3>5. n * m <= 238266
      <4>1. n * m \in Int
        BY <3>3
      <4> QED BY <3>3, <3>4, <4>1
    <3> QED BY <3>5 DEF m
  <2>6. v \in Int
    OBVIOUS
  <2> HIDE DEF v
  <2>7. v >= 3
    BY <2>1, <2>3, <2>4, <2>6 DEF v
  <2> QED BY <2>5, <2>6, <2>7 DEF Few
<1>4. Correlation(rows) = IF n < 2 THEN NoCorrelation ELSE [of |-> rho, over |-> Whole]
  BY CorrelationIs, Zenon
<1>5. /\ Stability(rows).unchanged = Cardinality(still)
      /\ Stability(rows).correlation = Correlation(rows)
  BY DEF Stability, Rows
<1>6. Cardinality(still) = n <=> \A c \in 1..n : RankChange(rows[c]) = 0
  <2>1. IsFiniteSet(1..n) /\ Cardinality(1..n) = n
    <3>1. IsFiniteSet(1..n) /\ Cardinality(1..n) = IF 1 > n THEN 0 ELSE n - 1 + 1
      BY FS_Interval
    <3> QED BY <3>1
  <2>2. still \in SUBSET (1..n)
    BY <1>1
  <2>3. still = 1..n <=> \A c \in 1..n : RankChange(rows[c]) = 0
    BY <1>1
  <2> HIDE DEF still
  <2>4. Cardinality(still) = n <=> still = 1..n
    BY <2>1, <2>2, FS_Subset, Zenon
  <2> QED BY <2>3, <2>4
<1> HIDE DEF x, v, still, rho
<1>7. n >= 2 => /\ rho \in -Whole..Whole
                /\ x = 0 => rho = Whole
                /\ n <= 62 /\ rho = Whole => x = 0
  <2> SUFFICES ASSUME n >= 2
               PROVE  /\ rho \in -Whole..Whole
                      /\ x = 0 => rho = Whole
                      /\ n <= 62 /\ rho = Whole => x = 0
    OBVIOUS
  <2>1. /\ rho \in -Whole..Whole
        /\ x = 0 => rho = Whole
        /\ x >= 2 /\ Few(v) => rho # Whole
    BY <1>2, <1>3, RhoIs, Zenon DEF rho
  <2>2. x = 0 \/ x >= 2
    BY <1>2
  <2> QED BY <1>3, <2>1, <2>2
<1>8. CASE n < 2
  <2>1. Correlation(rows) = NoCorrelation /\ ~ (Len(rows) > 1) /\ Len(rows) \notin 2..62
    BY <1>1, <1>4, <1>8
  <2> QED BY <1>5, <2>1 DEF CorrelationFits
<1>9. CASE ~ (n < 2)
  <2>1. Correlation(rows).of = rho /\ Correlation(rows).over = Whole
    BY <1>4, <1>9
  <2> QED BY <1>1, <1>2, <1>5, <1>6, <1>7, <1>9, <2>1 DEF CorrelationFits
<1> QED BY <1>8, <1>9

----------------------------------------------------------------------------
\* The sections of an analysis.

\* The numbers of the candidates are finite in number, and so are some of them.
LEMMA SomeOf ==
  ASSUME NEW n \in Nat, NEW S \in SUBSET (1..n)
  PROVE  IsFiniteSet(S) /\ Cardinality(S) \in Nat
<1>1. IsFiniteSet(1..n)
  BY FS_Interval
<1>2. IsFiniteSet(S)
  BY <1>1, FS_Subset, Zenon
<1> QED BY <1>2, FS_CardinalityType, Zenon

Splits(n, U, S, T) ==
  S \in SUBSET (1..n) /\ T \in SUBSET (1..n) /\ S \cap T = {} /\ U = S \cup T

LEMMA Apart ==
  ASSUME NEW n \in Nat, NEW U, NEW S, NEW T, Splits(n, U, S, T)
  PROVE  /\ Cardinality(U) = Cardinality(S) + Cardinality(T)
         /\ Cardinality(S) \in Nat /\ Cardinality(T) \in Nat
<1>1. S \in SUBSET (1..n) /\ T \in SUBSET (1..n) /\ S \cap T = {} /\ U = S \cup T
  BY Zenon DEF Splits
<1>2. IsFiniteSet(S) /\ IsFiniteSet(T) /\ Cardinality(S) \in Nat /\ Cardinality(T) \in Nat
  BY <1>1, SomeOf, Zenon
<1>3. Cardinality(S \cup T) = Cardinality(S) + Cardinality(T) - Cardinality(S \cap T)
  BY <1>2, FS_Union, Zenon
<1>4. Cardinality(S \cap T) = 0
  <2>1. Cardinality({}) = 0
    BY FS_EmptySet
  <2> QED BY <1>1, <2>1
<1> QED BY <1>1, <1>2, <1>3, <1>4

LEMMA Shortlisted ==
  ASSUME NEW n \in Nat, NEW rows, NEW before \in Nat, NEW after \in Nat,
         Told(rows, n, before, after)
  PROVE  ShortlistAddsUp(rows, before, after)
<1> DEFINE was == {c \in DOMAIN rows : rows[c].baseline.listed}
           is == {c \in DOMAIN rows : rows[c].simulation.listed}
           both == {c \in DOMAIN rows : rows[c].baseline.listed /\ rows[c].simulation.listed}
           w == Cardinality(was)
           i == Cardinality(is)
           b == Cardinality(both)
<1>1. DOMAIN rows = 1..n /\ Len(rows) = n
  BY Zenon DEF Told
<1>2. /\ was = {c \in 1..n : rows[c].baseline.rank <= before}
      /\ is = {c \in 1..n : rows[c].simulation.rank <= after}
  <2>1. \A c \in 1..n : /\ rows[c].baseline.listed = (rows[c].baseline.rank <= before)
                        /\ rows[c].simulation.listed = (rows[c].simulation.rank <= after)
    BY Zenon DEF Told
  <2> QED BY <1>1, <2>1
<1>3. w = Least(n, before) /\ i = Least(n, after)
  <2> HIDE DEF was, is
  <2> QED BY <1>2, Zenon DEF Told
<1>4. w \in Nat /\ i \in Nat
  BY <1>3 DEF Least
<1>5. b \in Nat /\ b <= w
  <2>1. both \in SUBSET was /\ was \in SUBSET (1..n) /\ both \in SUBSET (1..n)
    BY <1>1
  <2>2. IsFiniteSet(was) /\ b \in Nat
    <3> HIDE DEF was, both
    <3> QED BY <2>1, SomeOf, Zenon
  <2> HIDE DEF was, both
  <2> QED BY <2>1, <2>2, FS_Subset, Zenon
<1>6. b <= i
  <2>1. both \in SUBSET is /\ is \in SUBSET (1..n)
    BY <1>1
  <2>2. IsFiniteSet(is)
    <3> HIDE DEF is
    <3> QED BY <2>1, SomeOf, Zenon
  <2> HIDE DEF is, both
  <2> QED BY <2>1, <2>2, FS_Subset, Zenon
<1>7. /\ ShortlistImpact(rows).entering = i - b /\ ShortlistImpact(rows).leaving = w - b
      /\ ShortlistImpact(rows).expansion = i - w
      /\ ShortlistImpact(rows).jaccard.of = b /\ ShortlistImpact(rows).jaccard.over = (i - b) + w
  BY DEF ShortlistImpact, Rows
<1>8. Least(Len(rows), after) = i /\ Least(Len(rows), before) = w
  BY <1>1, <1>3
<1> HIDE DEF w, i, b
<1>9. i - w = (i - b) - (w - b) /\ b <= (i - b) + w
  BY <1>4, <1>5, <1>6
<1> QED BY <1>7, <1>8, <1>9, Zenon DEF ShortlistAddsUp

LEMMA Qualifying ==
  ASSUME NEW n \in Nat, NEW rows, NEW before, NEW after, Told(rows, n, before, after)
  PROVE  QualifiedAddUp(rows)
<1> DEFINE cell(was, is) == {c \in DOMAIN rows : /\ rows[c].baseline.qualified = was
                                                 /\ rows[c].simulation.qualified = is}
           W == {c \in DOMAIN rows : rows[c].baseline.qualified}
           I == {c \in DOMAIN rows : rows[c].simulation.qualified}
           FT == cell(FALSE, TRUE)
           TF == cell(TRUE, FALSE)
           TT == cell(TRUE, TRUE)
<1>1. DOMAIN rows = 1..n
  BY Zenon DEF Told
<1>2. \A c \in 1..n : rows[c].baseline.qualified \in BOOLEAN /\ rows[c].simulation.qualified \in BOOLEAN
  BY Zenon DEF Told
<1>3. /\ FT \in SUBSET (1..n) /\ TF \in SUBSET (1..n) /\ TT \in SUBSET (1..n)
      /\ FT \cap TT = {} /\ TF \cap TT = {}
  BY <1>1
<1>4. W = TF \cup TT /\ I = FT \cup TT
  BY <1>1, <1>2
<1>5. /\ QualificationMatrix(rows)[FALSE][TRUE] = Cardinality(FT)
      /\ QualificationMatrix(rows)[TRUE][FALSE] = Cardinality(TF)
  <2>1. QualificationMatrix(rows) =
          [was \in BOOLEAN |-> [is \in BOOLEAN |-> Cardinality(cell(was, is))]]
    BY Zenon DEF QualificationMatrix, Rows
  <2> HIDE DEF cell
  <2> QED BY <2>1
<1>6. Splits(n, I, FT, TT) /\ Splits(n, W, TF, TT)
  BY <1>3, <1>4, Zenon DEF Splits
<1> HIDE DEF FT, TF, TT, W, I
<1>7. /\ Cardinality(I) = Cardinality(FT) + Cardinality(TT)
      /\ Cardinality(W) = Cardinality(TF) + Cardinality(TT)
      /\ Cardinality(FT) \in Nat /\ Cardinality(TF) \in Nat /\ Cardinality(TT) \in Nat
  <2>1. /\ Cardinality(I) = Cardinality(FT) + Cardinality(TT)
        /\ Cardinality(FT) \in Nat /\ Cardinality(TT) \in Nat
    BY <1>6, Apart, Zenon
  <2>2. /\ Cardinality(W) = Cardinality(TF) + Cardinality(TT)
        /\ Cardinality(TF) \in Nat /\ Cardinality(TT) \in Nat
    BY <1>6, Apart, Zenon
  <2> QED BY <2>1, <2>2, Zenon
<1>8. Cardinality(FT) - Cardinality(TF) = Cardinality(I) - Cardinality(W)
  BY <1>7
<1>9. /\ Rows(rows, LAMBDA r : r.simulation.qualified) = Cardinality(I)
      /\ Rows(rows, LAMBDA r : r.baseline.qualified) = Cardinality(W)
  BY Zenon DEF Rows, I, W
<1> QED BY <1>5, <1>8, <1>9, Zenon DEF QualifiedAddUp

LEMMA TopMoversAre ==
  ASSUME NEW n \in Nat, NEW rows, NEW before, NEW after, Told(rows, n, before, after),
         NEW up \in BOOLEAN
  PROVE  Cardinality(TopMovers(rows, up, 5))
           = Least(5, Cardinality(IF up THEN Gaining(rows) ELSE Losing(rows)))
<1> DEFINE S == IF up THEN Gaining(rows) ELSE Losing(rows)
           gain(c) == IF up THEN RankChange(rows[c]) ELSE - RankChange(rows[c])
           v == [c \in S |-> gain(c)]
<1>1. DOMAIN rows = 1..n
  BY Zenon DEF Told
<1>2. \A c \in 1..n : RankChange(rows[c]) \in Int
  <2>1. \A c \in 1..n : rows[c].baseline.rank \in 1..n /\ rows[c].simulation.rank \in 1..n
    BY ChangesAre, Zenon
  <2> QED BY <2>1 DEF RankChange
<1>3. \A c \in 1..n : gain(c) \in Int
  BY <1>2
<1>4. S = {c \in 1..n : gain(c) > 0}
  BY <1>1, <1>2 DEF Gaining, Losing
<1>5. S \in SUBSET Nat /\ IsFiniteSet(S)
  <2>1. S \in SUBSET (1..n) /\ 1..n \subseteq Nat
    BY <1>4
  <2> HIDE DEF S
  <2>2. IsFiniteSet(S)
    BY <2>1, SomeOf, Zenon
  <2> QED BY <2>1, <2>2
<1>6. TopMovers(rows, up, 5) =
        {c \in S : Cardinality({d \in S : gain(d) > gain(c) \/ (gain(d) = gain(c) /\ d < c)}) < 5}
  <2>1. S = {c \in DOMAIN rows : gain(c) > 0}
    BY <1>1, <1>4
  <2> HIDE DEF S
  <2> QED BY <2>1, Zenon DEF TopMovers
<1> HIDE DEF gain, S
<1>7. v \in [S -> Int] /\ \A c \in S : v[c] = gain(c)
  BY <1>3, <1>4
<1> HIDE DEF v
<1>8. \A c \in S : {d \in S : gain(d) > gain(c) \/ (gain(d) = gain(c) /\ d < c)} = Ahead(S, v, c)
  BY <1>7, Zenon DEF Ahead
<1>9. TopMovers(rows, up, 5) = {c \in S : PlaceOf(S, v, c) < 5}
  BY <1>6, <1>8, Zenon DEF PlaceOf
<1>10. Cardinality({c \in S : PlaceOf(S, v, c) < 5}) = Least(5, Cardinality(S))
  <2>1. 5 \in Nat
    OBVIOUS
  <2> QED BY <1>5, <1>7, <2>1, FirstOf
<1> QED BY <1>9, <1>10, Zenon DEF S

LEMMA Moving ==
  ASSUME NEW n \in Nat, NEW rows, NEW before, NEW after, Told(rows, n, before, after)
  PROVE  MoversAgree(rows)
<1>1. DOMAIN rows = 1..n
  BY Zenon DEF Told
<1>2. \A c \in 1..n : RankChange(rows[c]) \in Int
  <2>1. \A c \in 1..n : rows[c].baseline.rank \in 1..n /\ rows[c].simulation.rank \in 1..n
    BY ChangesAre, Zenon
  <2> QED BY <2>1 DEF RankChange
<1>3. \A k \in Int : k >= 3 \/ k <= -3 <=> MovementCategory(k) # "unchanged"
  BY DEF MovementCategory
<1>4. {c \in DOMAIN rows : RankChange(rows[c]) >= 3 \/ RankChange(rows[c]) <= -3}
        = {c \in DOMAIN rows : MovementCategory(RankChange(rows[c])) # "unchanged"}
  BY <1>1, <1>2, <1>3
<1>5. Stability(rows).meaningful
        = Rows(rows, LAMBDA r : MovementCategory(RankChange(r)) # "unchanged")
  BY <1>4 DEF Stability, Rows
<1> DEFINE ranks == Movement([c \in DOMAIN rows |-> RankChange(rows[c])])
<1>6. ranks.up = Cardinality(Gaining(rows)) /\ ranks.down = Cardinality(Losing(rows))
  BY MovementIs, Zenon
<1> HIDE DEF ranks
<1>7. \A up \in BOOLEAN : Cardinality(TopMovers(rows, up, 5))
                            = Least(5, IF up THEN ranks.up ELSE ranks.down)
  <2> SUFFICES ASSUME NEW up \in BOOLEAN
               PROVE  Cardinality(TopMovers(rows, up, 5))
                        = Least(5, IF up THEN ranks.up ELSE ranks.down)
    OBVIOUS
  <2>1. Cardinality(TopMovers(rows, up, 5))
          = Least(5, Cardinality(IF up THEN Gaining(rows) ELSE Losing(rows)))
    BY TopMoversAre, Zenon
  <2> QED BY <1>6, <2>1, Zenon
<1> QED BY <1>5, <1>7, Zenon DEF MoversAgree, ranks

\* Counts of the values between one cut and the next add up to all of them.
Parted(n, m, v, cut, f) ==
  /\ v \in [1..n -> Int] /\ cut \in [0..m -> Int]
  /\ \A b \in 1..m : cut[b - 1] <= cut[b]
  /\ \A c \in 1..n : cut[0] <= v[c] /\ v[c] < cut[m]
  /\ f = [b \in 1..m |-> Cardinality({c \in 1..n : cut[b - 1] <= v[c] /\ v[c] < cut[b]})]

LEMMA PartsAddUp ==
  ASSUME NEW n \in Nat, NEW m \in Nat, NEW v, NEW cut, NEW f, Parted(n, m, v, cut, f)
  PROVE  Altogether(f) = n
<1>1. /\ v \in [1..n -> Int] /\ cut \in [0..m -> Int]
      /\ \A b \in 1..m : cut[b - 1] <= cut[b]
      /\ \A c \in 1..n : cut[0] <= v[c] /\ v[c] < cut[m]
      /\ f = [b \in 1..m |-> Cardinality({c \in 1..n : cut[b - 1] <= v[c] /\ v[c] < cut[b]})]
  BY Zenon DEF Parted
<1> DEFINE below(b) == {c \in 1..n : v[c] < cut[b]}
           between(b) == {c \in 1..n : cut[b - 1] <= v[c] /\ v[c] < cut[b]}
           h == [b \in 0..m |-> Cardinality(below(b))]
<1>2. \A b \in 1..m : b \in 0..m /\ b - 1 \in 0..m
  OBVIOUS
<1>3. 0 \in 0..m /\ m \in 0..m
  OBVIOUS
<1>4. below(0) = {} /\ below(m) = 1..n
  <2>1. cut[0] \in Int /\ \A c \in 1..n : v[c] \in Int /\ cut[0] <= v[c] /\ v[c] < cut[m]
    BY <1>1, <1>3
  <2> QED BY <2>1
<1>5. Cardinality(1..n) = n /\ Cardinality({}) = 0
  <2>1. Cardinality(1..n) = IF 1 > n THEN 0 ELSE n - 1 + 1
    BY FS_Interval
  <2>2. Cardinality({}) = 0
    BY FS_EmptySet
  <2> QED BY <2>1, <2>2
<1>6. h[0] = 0 /\ h[m] = n
  <2>1. h[0] = Cardinality(below(0)) /\ h[m] = Cardinality(below(m))
    BY <1>3
  <2> QED BY <1>4, <1>5, <2>1, Zenon
<1>7. ASSUME NEW b \in 1..m
      PROVE  h[b] = h[b - 1] + f[b] /\ f[b] \in Int
  <2>1. below(b) = below(b - 1) \cup between(b) /\ below(b - 1) \cap between(b) = {}
    <3>1. cut[b - 1] <= cut[b] /\ cut[b] \in Int /\ cut[b - 1] \in Int
      BY <1>1, <1>2
    <3>2. \A c \in 1..n : v[c] \in Int
      BY <1>1
    <3>3. \A c \in 1..n : /\ v[c] < cut[b] <=> (v[c] < cut[b - 1] \/ (cut[b - 1] <= v[c] /\ v[c] < cut[b]))
                          /\ ~ (v[c] < cut[b - 1] /\ cut[b - 1] <= v[c])
      BY <3>1, <3>2
    <3> QED BY <3>3, Zenon
  <2>2. below(b - 1) \in SUBSET (1..n) /\ between(b) \in SUBSET (1..n)
    OBVIOUS
  <2>3. f[b] = Cardinality(between(b))
    BY <1>1, Zenon
  <2>4. h[b] = Cardinality(below(b)) /\ h[b - 1] = Cardinality(below(b - 1))
    BY <1>2
  <2> HIDE DEF below, between, h
  <2>5. /\ Cardinality(below(b - 1) \cup between(b)) = Cardinality(below(b - 1)) + Cardinality(between(b))
        /\ Cardinality(between(b)) \in Nat
    <3> DEFINE S == below(b - 1)
               T == between(b)
               U == S \cup T
    <3>1. Splits(n, U, S, T)
      BY <2>1, <2>2, Zenon DEF Splits
    <3> HIDE DEF S, T, U
    <3>2. /\ Cardinality(U) = Cardinality(S) + Cardinality(T)
          /\ Cardinality(S) \in Nat /\ Cardinality(T) \in Nat
      BY <3>1, Apart, Zenon
    <3> QED BY <3>2, Zenon DEF S, T, U
  <2>6. f[b] \in Int
    BY <2>3, <2>5
  <2> QED BY <2>1, <2>3, <2>4, <2>5, <2>6, Zenon
<1> HIDE DEF h
<1>8. f \in Seq(Int) /\ Len(f) = m
  <2>1. f = [b \in 1..m |-> f[b]]
    BY <1>1
  <2> QED BY <1>7, <2>1, ListOf, Zenon
<1>9. SumOf(f) = h[m]
  <2>1. \A b \in 1..Len(f) : h[b] = h[b - 1] + f[b]
    BY <1>7, <1>8
  <2> QED BY <1>6, <1>8, <2>1, SumBySteps
<1>10. Altogether(f) = SumOf(f)
  <2>1. DOMAIN f = 1..m /\ [b \in 1..m |-> f[b]] = f
    BY <1>8
  <2> QED BY <2>1, Zenon DEF Altogether, SumOver
<1> QED BY <1>6, <1>9, <1>10

Cut(bounds, top) ==
  [b \in 0..Len(bounds) |-> IF b = Len(bounds) THEN top ELSE bounds[b + 1].lower]

\* Buckets that leave no number between them and end before the top hold all the values.
Adjoining(bounds, m, top) ==
  /\ DOMAIN bounds = 1..m /\ Len(bounds) = m
  /\ \A b \in 1..m : bounds[b].lower \in Int /\ bounds[b].upper \in Int
  /\ \A b \in 1..m : b < m => /\ bounds[b].upper # Unset
                              /\ bounds[b].upper + 1 = bounds[b + 1].lower
                              /\ bounds[b].lower <= bounds[b + 1].lower
  /\ bounds[m].upper = Unset \/ bounds[m].upper + 1 = top
  /\ bounds[m].lower <= top

LEMMA Distributed ==
  ASSUME NEW n \in Nat, NEW m \in Nat \ {0}, NEW v \in [1..n -> Int], NEW bounds, NEW top \in Int,
         Adjoining(bounds, m, top), \A c \in 1..n : bounds[1].lower <= v[c] /\ v[c] < top
  PROVE  Altogether(Distribution(v, bounds)) = n
<1>1. /\ DOMAIN bounds = 1..m /\ Len(bounds) = m
      /\ \A b \in 1..m : bounds[b].lower \in Int /\ bounds[b].upper \in Int
      /\ \A b \in 1..m : b < m => /\ bounds[b].upper # Unset
                                  /\ bounds[b].upper + 1 = bounds[b + 1].lower
                                  /\ bounds[b].lower <= bounds[b + 1].lower
      /\ bounds[m].upper = Unset \/ bounds[m].upper + 1 = top
      /\ bounds[m].lower <= top
  BY Zenon DEF Adjoining
<1> DEFINE cut == Cut(bounds, top)
           f == Distribution(v, bounds)
<1>2. cut = [b \in 0..m |-> IF b = m THEN top ELSE bounds[b + 1].lower]
  BY <1>1, Zenon DEF Cut
<1> HIDE DEF cut
<1>3. \A b \in 0..m : b # m => b + 1 \in 1..m
  OBVIOUS
<1>4. cut \in [0..m -> Int]
  BY <1>1, <1>2, <1>3
<1>5. cut[0] = bounds[1].lower /\ cut[m] = top
  BY <1>2
<1>6. \A b \in 1..m : cut[b - 1] = bounds[b].lower /\ cut[b] = IF b = m THEN top ELSE bounds[b + 1].lower
  BY <1>2
<1>7. \A b \in 1..m : cut[b - 1] <= cut[b]
  <2> SUFFICES ASSUME NEW b \in 1..m PROVE cut[b - 1] <= cut[b]
    OBVIOUS
  <2>1. CASE b = m
    BY <1>1, <1>6, <2>1
  <2>2. CASE b < m
    BY <1>1, <1>6, <2>2
  <2> QED BY <2>1, <2>2
<1>8. \A c \in 1..n : v[c] \in Int /\ cut[0] <= v[c] /\ v[c] < cut[m]
  BY <1>5
<1>9. f = [b \in 1..m |-> Cardinality({c \in 1..n : /\ bounds[b].lower <= v[c]
                                                    /\ bounds[b].upper = Unset \/ v[c] <= bounds[b].upper})]
  <2>1. DOMAIN v = 1..n
    OBVIOUS
  <2> QED BY <1>1, <2>1, Zenon DEF Distribution, Rows
<1>10. ASSUME NEW b \in 1..m
      PROVE  f[b] = Cardinality({c \in 1..n : cut[b - 1] <= v[c] /\ v[c] < cut[b]})
  <2>1. ASSUME NEW c \in 1..n
        PROVE  (bounds[b].lower <= v[c] /\ (bounds[b].upper = Unset \/ v[c] <= bounds[b].upper))
                 <=> (cut[b - 1] <= v[c] /\ v[c] < cut[b])
    <3> DEFINE x == v[c]
               u == bounds[b].upper
               l == bounds[b].lower
    <3>1. cut[b - 1] = l
      BY <1>6, Zenon
    <3>2. u \in Int /\ x \in Int
      BY <1>1, <1>8, Zenon
    <3>3. CASE b = m
      <4>1. cut[b] = top /\ x < top
        BY <1>5, <1>6, <1>8, <3>3
      <4>2. u = Unset \/ u + 1 = top
        BY <1>1, <3>3
      <4> HIDE DEF x, u, l
      <4>3. (l <= x /\ (u = Unset \/ x <= u)) <=> (cut[b - 1] <= x /\ x < cut[b])
        BY <3>1, <3>2, <4>1, <4>2
      <4> QED BY <4>3, Zenon DEF x, u, l
    <3>4. CASE b < m
      <4>1. cut[b] = bounds[b + 1].lower
        BY <1>6, <3>4
      <4>2. u # Unset /\ u + 1 = cut[b]
        BY <1>1, <3>4, <4>1, Zenon
      <4> HIDE DEF x, u, l
      <4>3. (l <= x /\ (u = Unset \/ x <= u)) <=> (cut[b - 1] <= x /\ x < cut[b])
        BY <3>1, <3>2, <4>2
      <4> QED BY <4>3, Zenon DEF x, u, l
    <3> QED BY <3>3, <3>4
  <2>2. {c \in 1..n : /\ bounds[b].lower <= v[c]
                      /\ bounds[b].upper = Unset \/ v[c] <= bounds[b].upper}
          = {c \in 1..n : cut[b - 1] <= v[c] /\ v[c] < cut[b]}
    BY <2>1, Zenon
  <2>3. f[b] = Cardinality({c \in 1..n : /\ bounds[b].lower <= v[c]
                                         /\ bounds[b].upper = Unset \/ v[c] <= bounds[b].upper})
    <3> HIDE DEF f
    <3> QED BY <1>9, Zenon
  <2> QED BY <2>2, <2>3, Zenon
<1>11. f = [b \in 1..m |-> Cardinality({c \in 1..n : cut[b - 1] <= v[c] /\ v[c] < cut[b]})]
  <2> HIDE DEF f
  <2> QED BY <1>9, <1>10
<1> HIDE DEF f
<1>12. Parted(n, m, v, cut, f)
  BY <1>4, <1>7, <1>8, <1>11, Zenon DEF Parted
<1>13. m \in Nat
  OBVIOUS
<1>14. Altogether(f) = n
  BY <1>12, <1>13, PartsAddUp, Zenon
<1> QED BY <1>14, Zenon DEF f

----------------------------------------------------------------------------
\* The analysis of any execution.

LEMMA BucketsAdjoin ==
  ASSUME NEW n \in Nat
  PROVE  /\ Adjoining(RankBuckets, 5, n + 52) /\ RankBuckets[1].lower = 1
         /\ Adjoining(ScoreBands, 6, 101) /\ ScoreBands[1].lower = 0
<1>1. Adjoining(RankBuckets, 5, n + 52) /\ RankBuckets[1].lower = 1
  <2>1. /\ DOMAIN RankBuckets = 1..5 /\ Len(RankBuckets) = 5
        /\ RankBuckets[1] = [lower |-> 1, upper |-> 5]
        /\ RankBuckets[2] = [lower |-> 6, upper |-> 10]
        /\ RankBuckets[3] = [lower |-> 11, upper |-> 20]
        /\ RankBuckets[4] = [lower |-> 21, upper |-> 50]
        /\ RankBuckets[5] = [lower |-> 51, upper |-> Unset]
    BY DEF RankBuckets
  <2>2. \A b \in 1..5 : b = 1 \/ b = 2 \/ b = 3 \/ b = 4 \/ b = 5
    OBVIOUS
  <2> QED BY <2>1, <2>2 DEF Adjoining, Unset
<1>2. Adjoining(ScoreBands, 6, 101) /\ ScoreBands[1].lower = 0
  <2>1. /\ DOMAIN ScoreBands = 1..6 /\ Len(ScoreBands) = 6
        /\ ScoreBands[1] = [lower |-> 0, upper |-> 49]
        /\ ScoreBands[2] = [lower |-> 50, upper |-> 59]
        /\ ScoreBands[3] = [lower |-> 60, upper |-> 69]
        /\ ScoreBands[4] = [lower |-> 70, upper |-> 79]
        /\ ScoreBands[5] = [lower |-> 80, upper |-> 89]
        /\ ScoreBands[6] = [lower |-> 90, upper |-> 100]
    BY DEF ScoreBands
  <2>2. \A b \in 1..6 : b = 1 \/ b = 2 \/ b = 3 \/ b = 4 \/ b = 5 \/ b = 6
    OBVIOUS
  <2> QED BY <2>1, <2>2 DEF Adjoining, Unset
<1> QED BY <1>1, <1>2

LEMMA Placed ==
  ASSUME NEW n \in Nat, NEW rows, NEW before, NEW after, Told(rows, n, before, after)
  PROVE  EveryoneIsPlaced(rows)
<1> SUFFICES ASSUME NEW h \in Halves
             PROVE  /\ Altogether(Distribution([c \in DOMAIN rows |-> rows[c][h].rank], RankBuckets)) = Len(rows)
                    /\ Altogether(Distribution([c \in DOMAIN rows |-> rows[c][h].score], ScoreBands)) = Len(rows)
  BY Zenon DEF EveryoneIsPlaced
<1> DEFINE r == [c \in DOMAIN rows |-> rows[c][h].rank]
           s == [c \in DOMAIN rows |-> rows[c][h].score]
<1>1. DOMAIN rows = 1..n /\ Len(rows) = n
  BY Zenon DEF Told
<1>2. \A c \in 1..n : rows[c][h].rank \in 1..n
  <2>1. \A c \in 1..n : rows[c].baseline.rank \in 1..n /\ rows[c].simulation.rank \in 1..n
    BY ChangesAre, Zenon
  <2>2. h = "baseline" \/ h = "simulation"
    BY DEF Halves
  <2> QED BY <2>1, <2>2, Zenon
<1>3. \A c \in 1..n : rows[c][h].score \in ScoreRange
  <2>1. \A c \in 1..n : rows[c].baseline.score \in ScoreRange /\ rows[c].simulation.score \in ScoreRange
    BY Zenon DEF Told
  <2>2. h = "baseline" \/ h = "simulation"
    BY DEF Halves
  <2> QED BY <2>1, <2>2, Zenon
<1>4. /\ r \in [1..n -> Int] /\ \A c \in 1..n : RankBuckets[1].lower <= r[c] /\ r[c] < n + 52
  <2>1. \A c \in 1..n : r[c] = rows[c][h].rank /\ r[c] \in 1..n
    BY <1>1, <1>2
  <2>2. r = [c \in 1..n |-> r[c]]
    BY <1>1
  <2>3. RankBuckets[1].lower = 1
    BY BucketsAdjoin
  <2> HIDE DEF r
  <2> QED BY <2>1, <2>2, <2>3
<1>5. s \in [1..n -> Int] /\ \A c \in 1..n : ScoreBands[1].lower <= s[c] /\ s[c] < 101
  <2>1. \A c \in 1..n : s[c] = rows[c][h].score /\ s[c] \in ScoreRange
    BY <1>1, <1>3
  <2>2. s = [c \in 1..n |-> s[c]]
    BY <1>1
  <2>3. ScoreBands[1].lower = 0
    BY BucketsAdjoin, Zenon
  <2> HIDE DEF r, s
  <2>4. \A c \in 1..n : s[c] \in Int /\ 0 <= s[c] /\ s[c] < 101
    BY <2>1 DEF ScoreRange
  <2>5. s \in [1..n -> Int]
    BY <2>2, <2>4
  <2> QED BY <2>3, <2>4, <2>5
<1> HIDE DEF r, s
<1> DEFINE top == 101
<1>6. 5 \in Nat \ {0} /\ 6 \in Nat \ {0} /\ n + 52 \in Int /\ top \in Int
  OBVIOUS
<1>7. Adjoining(RankBuckets, 5, n + 52) /\ Adjoining(ScoreBands, 6, top)
  BY BucketsAdjoin, Zenon
<1>8. \A c \in 1..n : ScoreBands[1].lower <= s[c] /\ s[c] < top
  BY <1>5, Zenon
<1> HIDE DEF top
<1>9. Altogether(Distribution(s, ScoreBands)) = n
  BY <1>5, <1>6, <1>7, <1>8, Distributed, Zenon
<1> DEFINE end == n + 52
<1>10. end \in Int /\ Adjoining(RankBuckets, 5, end)
       /\ \A c \in 1..n : RankBuckets[1].lower <= r[c] /\ r[c] < end
  BY <1>4, <1>6, <1>7, Zenon
<1> HIDE DEF end
<1>11. Altogether(Distribution(r, RankBuckets)) = n
  BY <1>4, <1>6, <1>10, Distributed, Zenon
<1> QED BY <1>1, <1>9, <1>11, Zenon DEF r, s

\* What an execution says of its candidates.
LEMMA OverallBounds ==
  ASSUME NEW Names, NEW candidate \in Candidates(Names), NEW config \in Configurations(Names)
  PROVE  Evaluate(candidate, config).overall \in ScoreRange
<1> DEFINE s == <<"skill", "experience", "education", "project", "certification",
                  "location", "employment_type", "semantic">>
           f == Scored(candidate, config)
           w == config.weights
<1>1. s \in Seq(Dimensions)
  BY DEF Dimensions
<1>2. OverallScore(f, w) = Clamp(Weighted(s, w, f) \div 1000, 0, 100)
  BY Zenon DEF OverallScore, SumOver, Weighted
<1>3. f \in [Dimensions -> Int] /\ w \in [Dimensions -> Nat]
  <2>1. w \in [Dimensions -> Nat]
    BY DEF Configurations
  <2> QED BY <2>1, ScoredInt
<1> HIDE DEF s, f, w
<1>4. \A d \in Dimensions : f[d] <= f[d]
  BY <1>3
<1>5. Weighted(s, w, f) \in Int
  BY <1>1, <1>3, <1>4, WeightedMono
<1>6. \A m \in Int : m \div 1000 \in Int
  OBVIOUS
<1>7. \A m \in Int : Clamp(m, 0, 100) \in ScoreRange
  BY DEF ScoreRange, Clamp, Least, Greatest
<1>8. OverallScore(f, w) \in ScoreRange
  BY <1>2, <1>5, <1>6, <1>7
<1> QED BY <1>8, OverallIs, Zenon DEF f, w

\* What half a row says.
RowHalf(candidates, config, c) ==
  LET overall == [d \in DOMAIN candidates |-> Evaluate(candidates[d], config).overall]
      rank == Rank(overall, c)
  IN [score |-> overall[c], rank |-> rank, qualified |-> overall[c] >= config.threshold,
      listed |-> rank <= config.shortlist]

SameHalf(half, told) ==
  /\ half.score = told.score /\ half.rank = told.rank
  /\ half.qualified = told.qualified /\ half.listed = told.listed

LEMMA HalvesAre ==
  ASSUME NEW candidates, NEW baseline, NEW simulation, NEW c \in DOMAIN candidates
  PROVE  /\ SameHalf(ResultRows(candidates, baseline, simulation)[c].baseline,
                     RowHalf(candidates, baseline, c))
         /\ SameHalf(ResultRows(candidates, baseline, simulation)[c].simulation,
                     RowHalf(candidates, simulation, c))
<1> DEFINE base == [d \in DOMAIN candidates |-> Evaluate(candidates[d], baseline)]
           sim == [d \in DOMAIN candidates |-> Evaluate(candidates[d], simulation)]
           b == Rank([d \in DOMAIN candidates |-> base[d].overall], c)
           s == Rank([d \in DOMAIN candidates |-> sim[d].overall], c)
           row == ResultRows(candidates, baseline, simulation)[c]
<1>1. /\ row.baseline.score = base[c].overall /\ row.baseline.rank = b
      /\ row.baseline.qualified = base[c].qualified
      /\ row.baseline.listed = (b <= baseline.shortlist)
      /\ row.simulation.score = sim[c].overall /\ row.simulation.rank = s
      /\ row.simulation.qualified = sim[c].qualified
      /\ row.simulation.listed = (s <= simulation.shortlist)
  BY DEF ResultRows
<1>2. /\ base[c].qualified = (Evaluate(candidates[c], baseline).overall >= baseline.threshold)
      /\ sim[c].qualified = (Evaluate(candidates[c], simulation).overall >= simulation.threshold)
  BY DEF Evaluate
<1>3. /\ [d \in DOMAIN candidates |-> base[d].overall]
           = [d \in DOMAIN candidates |-> Evaluate(candidates[d], baseline).overall]
      /\ [d \in DOMAIN candidates |-> sim[d].overall]
           = [d \in DOMAIN candidates |-> Evaluate(candidates[d], simulation).overall]
  BY Zenon
<1>4. base[c].overall = Evaluate(candidates[c], baseline).overall
      /\ sim[c].overall = Evaluate(candidates[c], simulation).overall
  BY Zenon
<1> QED BY <1>1, <1>2, <1>3, <1>4 DEF RowHalf, SameHalf

LEMMA RowsTell ==
  ASSUME NEW Names, NEW candidates \in Seq(Candidates(Names)),
         NEW baseline \in Configurations(Names), NEW simulation \in Configurations(Names),
         baseline.shortlist \in Nat, simulation.shortlist \in Nat
  PROVE  Told(ResultRows(candidates, baseline, simulation), Len(candidates),
              baseline.shortlist, simulation.shortlist)
<1> DEFINE n == Len(candidates)
           rows == ResultRows(candidates, baseline, simulation)
           was == [d \in DOMAIN candidates |-> Evaluate(candidates[d], baseline).overall]
           is == [d \in DOMAIN candidates |-> Evaluate(candidates[d], simulation).overall]
           old == baseline.shortlist
           new == simulation.shortlist
<1>1. n \in Nat /\ DOMAIN candidates = 1..n /\ \A c \in 1..n : candidates[c] \in Candidates(Names)
  OBVIOUS
<1>2. DOMAIN rows = 1..n /\ Len(rows) = n
  <2>1. DOMAIN rows = DOMAIN candidates /\ rows = [c \in DOMAIN candidates |-> rows[c]]
    BY DEF ResultRows
  <2> HIDE DEF rows, n
  <2> QED BY <1>1, <2>1
<1>3. \A c \in 1..n : /\ was[c] \in ScoreRange /\ is[c] \in ScoreRange
  <2>1. \A c \in 1..n : was[c] = Evaluate(candidates[c], baseline).overall
                        /\ is[c] = Evaluate(candidates[c], simulation).overall
    BY <1>1, Zenon
  <2> HIDE DEF was, is, n
  <2> QED BY <1>1, <2>1, OverallBounds, Zenon
<1>4. was \in [1..n -> Int] /\ is \in [1..n -> Int]
  <2>1. was = [c \in 1..n |-> was[c]] /\ is = [c \in 1..n |-> is[c]]
    BY <1>1
  <2> HIDE DEF was, is, n, rows, old, new
  <2>2. \A c \in 1..n : was[c] \in Int /\ is[c] \in Int
    <3>1. \A k \in ScoreRange : k \in Int
      BY DEF ScoreRange
    <3> QED BY <1>3, <3>1, Zenon
  <2> QED BY <2>1, <2>2
<1>5. \A c \in 1..n :
        /\ rows[c].baseline.score = was[c] /\ rows[c].baseline.rank = Rank(was, c)
        /\ rows[c].baseline.qualified = (was[c] >= baseline.threshold)
        /\ rows[c].baseline.listed = (Rank(was, c) <= old)
        /\ rows[c].simulation.score = is[c] /\ rows[c].simulation.rank = Rank(is, c)
        /\ rows[c].simulation.qualified = (is[c] >= simulation.threshold)
        /\ rows[c].simulation.listed = (Rank(is, c) <= new)
  <2> SUFFICES ASSUME NEW c \in DOMAIN candidates
               PROVE
        /\ rows[c].baseline.score = was[c] /\ rows[c].baseline.rank = Rank(was, c)
        /\ rows[c].baseline.qualified = (was[c] >= baseline.threshold)
        /\ rows[c].baseline.listed = (Rank(was, c) <= old)
        /\ rows[c].simulation.score = is[c] /\ rows[c].simulation.rank = Rank(is, c)
        /\ rows[c].simulation.qualified = (is[c] >= simulation.threshold)
        /\ rows[c].simulation.listed = (Rank(is, c) <= new)
    BY <1>1, Zenon
  <2>1. LET half == RowHalf(candidates, baseline, c)
        IN /\ half.score = was[c] /\ half.rank = Rank(was, c)
           /\ half.qualified = (was[c] >= baseline.threshold)
           /\ half.listed = (Rank(was, c) <= old)
    <3> HIDE DEF was
    <3>1. RowHalf(candidates, baseline, c) =
            [score |-> was[c], rank |-> Rank(was, c), qualified |-> was[c] >= baseline.threshold,
             listed |-> Rank(was, c) <= old]
      BY Zenon DEF RowHalf, was
    <3> QED BY <3>1
  <2>2. LET half == RowHalf(candidates, simulation, c)
        IN /\ half.score = is[c] /\ half.rank = Rank(is, c)
           /\ half.qualified = (is[c] >= simulation.threshold)
           /\ half.listed = (Rank(is, c) <= new)
    <3> HIDE DEF is
    <3>1. RowHalf(candidates, simulation, c) =
            [score |-> is[c], rank |-> Rank(is, c), qualified |-> is[c] >= simulation.threshold,
             listed |-> Rank(is, c) <= new]
      BY Zenon DEF RowHalf, is
    <3> QED BY <3>1
  <2> HIDE DEF was, is, old, new
  <2>3. /\ SameHalf(rows[c].baseline, RowHalf(candidates, baseline, c))
        /\ SameHalf(rows[c].simulation, RowHalf(candidates, simulation, c))
    BY HalvesAre, Zenon
  <2> QED BY <2>1, <2>2, <2>3, Zenon DEF SameHalf
<1> HIDE DEF rows, was, is, n, old, new
<1>6. /\ [c \in 1..n |-> Rank(was, c)] \in Rankings(n)
      /\ [c \in 1..n |-> Rank(is, c)] \in Rankings(n)
      /\ \A k \in Nat : /\ Cardinality({c \in 1..n : Rank(was, c) <= k}) = Least(k, n)
                        /\ Cardinality({c \in 1..n : Rank(is, c) <= k}) = Least(k, n)
  BY <1>1, <1>4, RanksAre, Zenon
<1>7. /\ [c \in 1..n |-> rows[c].baseline.rank] = [c \in 1..n |-> Rank(was, c)]
      /\ [c \in 1..n |-> rows[c].simulation.rank] = [c \in 1..n |-> Rank(is, c)]
  BY <1>5, Zenon
<1>8. old \in Nat /\ new \in Nat
  BY DEF old, new
<1>9. /\ Cardinality({c \in 1..n : rows[c].baseline.rank <= old}) = Least(n, old)
      /\ Cardinality({c \in 1..n : rows[c].simulation.rank <= new}) = Least(n, new)
  <2>1. /\ {c \in 1..n : rows[c].baseline.rank <= old} = {c \in 1..n : Rank(was, c) <= old}
        /\ {c \in 1..n : rows[c].simulation.rank <= new} = {c \in 1..n : Rank(is, c) <= new}
    BY <1>5, Zenon
  <2>2. Least(old, n) = Least(n, old) /\ Least(new, n) = Least(n, new)
    BY <1>1, <1>8 DEF Least
  <2> QED BY <1>6, <1>8, <2>1, <2>2, Zenon
<1>10. \A c \in 1..n : /\ rows[c].baseline.score \in ScoreRange /\ rows[c].simulation.score \in ScoreRange
                       /\ rows[c].baseline.listed = (rows[c].baseline.rank <= old)
                       /\ rows[c].simulation.listed = (rows[c].simulation.rank <= new)
  BY <1>3, <1>5, Zenon
<1>11. \A c \in 1..n : rows[c].baseline.qualified \in BOOLEAN /\ rows[c].simulation.qualified \in BOOLEAN
  <2>1. \A c \in 1..n : /\ rows[c].baseline.qualified = (was[c] >= baseline.threshold)
                        /\ rows[c].simulation.qualified = (is[c] >= simulation.threshold)
    BY <1>5, Zenon
  <2>2. \A a, b : (a >= b) \in BOOLEAN
    OBVIOUS
  <2> QED BY <2>1, <2>2, Zenon
<1>12. Told(rows, n, old, new)
  BY <1>2, <1>6, <1>7, <1>9, <1>10, <1>11, Zenon DEF Told
<1> QED BY <1>12, Zenon DEF rows, n, old, new

\* Whatever the candidates, the weights and the requirements, the sections of the analysis of
\* a simulation add up.
THEOREM ImpactAddsUpHolds ==
  ASSUME NEW Names,
         Is("simulation") => /\ subject \in Pooled(Names)
                             /\ subject.baseline.shortlist \in Nat
                             /\ subject.simulation.shortlist \in Nat
  PROVE  ImpactAddsUp
<1> SUFFICES ASSUME subject \in Pooled(Names), subject.baseline.shortlist \in Nat,
                    subject.simulation.shortlist \in Nat,
                    NEW rows,
                    rows = ResultRows(subject.candidates, subject.baseline, subject.simulation)
             PROVE  /\ RanksBalance(rows) /\ EveryoneIsPlaced(rows) /\ CorrelationFits(rows)
                    /\ ShortlistAddsUp(rows, subject.baseline.shortlist, subject.simulation.shortlist)
                    /\ QualifiedAddUp(rows) /\ MoversAgree(rows)
  BY Zenon DEF ImpactAddsUp
<1> DEFINE n == Len(subject.candidates)
           before == subject.baseline.shortlist
           after == subject.simulation.shortlist
<1>1. /\ subject.candidates \in Seq(Candidates(Names)) /\ n \in Nat
      /\ subject.baseline \in Configurations(Names)
      /\ subject.simulation \in Configurations(Names)
  BY DEF Pooled
<1>2. Told(rows, n, before, after)
  BY <1>1, RowsTell, Zenon
<1>3. before \in Nat /\ after \in Nat /\ n \in Nat
  BY <1>1
<1> HIDE DEF n, before, after
<1>4. ShortlistAddsUp(rows, before, after)
  BY <1>2, <1>3, Shortlisted, Zenon
<1>5. /\ RanksBalance(rows) /\ EveryoneIsPlaced(rows) /\ CorrelationFits(rows)
      /\ QualifiedAddUp(rows) /\ MoversAgree(rows)
  BY <1>2, <1>3, Balanced, Placed, Correlated, Qualifying, Moving, Zenon
<1> QED BY <1>4, <1>5, Zenon DEF before, after
===============================================================================
