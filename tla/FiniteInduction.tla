-------------------------- MODULE FiniteInduction --------------------------
(***************************************************************************)
(* Facts about the numbers up to a bound that the proofs of the components *)
(* share.  They are stated with sets, so that no prover has to instantiate *)
(* an operator.                                                            *)
(***************************************************************************)
EXTENDS Integers, FiniteSetsExt, TLAPS, FiniteSetTheorems, SequenceTheorems, WellFoundedInduction

\* The minimum of a non-empty set of natural numbers.
LEMMA MinIn ==
  ASSUME NEW S, S \subseteq Nat, S # {}
  PROVE  Min(S) \in S /\ \A y \in S : Min(S) <= y
<1> DEFINE R == OpToRel(<, Nat)
<1>1. \A x, y \in Nat : y < x => <<y, x>> \in R
  BY DEF OpToRel
<1>2. IsWellFoundedOn(R, Nat)
  BY NatLessThanWellFounded
<1> HIDE DEF R
<1>3. PICK x \in S : \A y \in S : ~(<<y, x>> \in R)
  BY <1>2, WFMin, Zenon
<1>4. \A y \in S : x =< y
  <2> TAKE y \in S
  <2>1. x \in Nat /\ y \in Nat /\ ~(y < x)
    BY <1>1, <1>3
  <2>. QED BY <2>1
<1>. QED BY <1>4, Zenon DEF Min

\* The maximum of a non-empty set of numbers up to n.
LEMMA MaxIn ==
  ASSUME NEW n \in Nat, NEW S, S \subseteq 0 .. n, S # {}
  PROVE  Max(S) \in S /\ \A y \in S : Max(S) >= y
<1> DEFINE T == {n - k : k \in S}
<1>1. T \subseteq Nat /\ T # {}
  <2>1. T \subseteq Nat
    OBVIOUS
  <2>2. PICK k \in S : TRUE
    OBVIOUS
  <2>3. n - k \in T
    BY <2>2
  <2> HIDE DEF T
  <2>. QED BY <2>1, <2>3
<1>2. Min(T) \in T /\ \A y \in T : Min(T) <= y
  <2> HIDE DEF T
  <2>. QED BY <1>1, MinIn
<1>3. PICK k \in S : Min(T) = n - k
  BY <1>2
<1>4. \A y \in S : k >= y
  <2> TAKE y \in S
  <2>1. n - y \in T
    OBVIOUS
  <2> HIDE DEF T
  <2>. QED BY <1>2, <1>3, <2>1
<1> HIDE DEF T
<1>. QED BY <1>4, Zenon DEF Max

\* Induction up to n over the numbers in a set.
LEMMA UpTo ==
  ASSUME NEW n \in Nat, NEW T, 0 \in T, \A k \in 0 .. n - 1 : k \in T => k + 1 \in T
  PROVE  \A k \in 0 .. n : k \in T
<1> DEFINE Bad == {k \in 0 .. n : k \notin T}
<1> SUFFICES ASSUME Bad # {} PROVE FALSE
  OBVIOUS
<1>1. Bad \subseteq Nat
  OBVIOUS
<1> DEFINE m == Min(Bad)
<1>2. m \in Bad /\ \A y \in Bad : m <= y
  <2> HIDE DEF Bad
  <2>. QED BY <1>1, MinIn
<1> HIDE DEF m
<1>3. m \in 0 .. n /\ m # 0 /\ m \notin T
  BY <1>2
<1>4. m - 1 \in 0 .. n - 1 /\ m - 1 \in 0 .. n /\ ~(m <= m - 1) /\ m = (m - 1) + 1
  BY <1>3
<1>5. m - 1 \in T
  BY <1>2, <1>4
<1>. QED BY <1>3, <1>4, <1>5

\* f holds what b has become after each of the first n steps.
Stepwise(f, n, b, h) == f[0] = b /\ \A k \in 1 .. n : f[k] = h[k][f[k - 1]]

\* What is applied step by step to a value of X has a value of X after every
\* step.
LEMMA StepsExist ==
  ASSUME NEW n \in Nat, NEW X, NEW b \in X, NEW h \in [1 .. n -> [X -> X]]
  PROVE  \E f \in [0 .. n -> X] : Stepwise(f, n, b, h)
<1> DEFINE T == {m \in 0 .. n : \E f \in [0 .. m -> X] : Stepwise(f, m, b, h)}
<1>1. 0 \in T
  <2> DEFINE g == [k \in 0 .. 0 |-> b]
  <2>1. g \in [0 .. 0 -> X] /\ g[0] = b
    OBVIOUS
  <2> HIDE DEF g
  <2>. QED BY <2>1 DEF Stepwise
<1>2. ASSUME NEW m \in 0 .. n - 1, m \in T PROVE m + 1 \in T
  <2>1. PICK f \in [0 .. m -> X] : Stepwise(f, m, b, h)
    BY <1>2
  <2> DEFINE g == [k \in 0 .. m + 1 |-> IF k = m + 1 THEN h[m + 1][f[m]] ELSE f[k]]
  <2>2. m \in 0 .. m /\ m + 1 \in 1 .. n /\ f[m] \in X
    OBVIOUS
  <2>3. h[m + 1] \in [X -> X]
    BY <2>2
  <2>4. h[m + 1][f[m]] \in X
    BY <2>2, <2>3
  <2>5. \A k \in 0 .. m : g[k] = f[k]
    OBVIOUS
  <2>6. g[m + 1] = h[m + 1][f[m]]
    BY <2>2
  <2>7. g \in [0 .. m + 1 -> X]
    BY <2>4
  <2> HIDE DEF g
  <2>8. g[0] = b
    BY <2>1, <2>5 DEF Stepwise
  <2>9. ASSUME NEW k \in 1 .. m + 1 PROVE g[k] = h[k][g[k - 1]]
    <3>1. k - 1 \in 0 .. m
      OBVIOUS
    <3>2. CASE k = m + 1
      BY <2>5, <2>6, <3>1, <3>2
    <3>3. CASE k # m + 1
      <4>1. k \in 1 .. m /\ k \in 0 .. m
        BY <3>3
      <4>. QED BY <2>1, <2>5, <3>1, <4>1 DEF Stepwise
    <3>. QED BY <3>2, <3>3
  <2>10. m + 1 \in 0 .. n
    OBVIOUS
  <2>. QED BY <2>7, <2>8, <2>9, <2>10 DEF Stepwise
<1>3. n \in T
  <2> HIDE DEF T
  <2>1. \A k \in 0 .. n : k \in T
    BY <1>1, <1>2, UpTo
  <2>. QED BY <2>1
<1>. QED BY <1>3
=============================================================================
