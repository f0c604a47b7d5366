----------------------------- MODULE OrderProof -----------------------------
(***************************************************************************)
(* The order of the transaction elements, for every set of graphs.         *)
(***************************************************************************)
EXTENDS Order, FiniteInduction

(***************************************************************************)
(* Sequences.                                                              *)
(***************************************************************************)
\* How Those goes through a sequence.
ThoseSteps(f, s, A) ==
  f = [i \in 0 .. Len(s) |->
         IF i = 0 THEN <<>>
         ELSE IF s[i] \in A THEN Append(f[i - 1], s[i]) ELSE f[i - 1]]

LEMMA ThoseStepsExist ==
  ASSUME NEW S, NEW s \in Seq(S), NEW A
  PROVE  \E f : ThoseSteps(f, s, A)
<1> DEFINE h == [i \in 1 .. Len(s) |-> [x \in Seq(S) |-> IF s[i] \in A THEN Append(x, s[i]) ELSE x]]
<1>1. h \in [1 .. Len(s) -> [Seq(S) -> Seq(S)]]
  <2>1. \A i \in 1 .. Len(s) : s[i] \in S
    OBVIOUS
  <2>. QED BY <2>1
<1>2. Len(s) \in Nat /\ <<>> \in Seq(S)
  OBVIOUS
<1>3. PICK f \in [0 .. Len(s) -> Seq(S)] : Stepwise(f, Len(s), <<>>, h)
  <2> HIDE DEF h
  <2>. QED BY <1>1, <1>2, StepsExist
<1> DEFINE F(i) == IF i = 0 THEN <<>> ELSE IF s[i] \in A THEN Append(f[i - 1], s[i]) ELSE f[i - 1]
<1>4. ASSUME NEW i \in 0 .. Len(s) PROVE f[i] = F(i)
  <2>1. CASE i = 0
    BY <1>3, <2>1 DEF Stepwise
  <2>2. CASE i # 0
    <3>1. i \in 1 .. Len(s) /\ i - 1 \in 0 .. Len(s)
      BY <2>2
    <3>2. f[i - 1] \in Seq(S)
      BY <3>1
    <3>3. h[i][f[i - 1]] = F(i)
      BY <2>2, <3>1, <3>2
    <3>. QED BY <1>3, <3>1, <3>3 DEF Stepwise
  <2>. QED BY <2>1, <2>2
<1>5. f = [i \in 0 .. Len(s) |-> F(i)]
  <2> HIDE DEF F
  <2>. QED BY <1>4
<1>. QED BY <1>5 DEF ThoseSteps

\* g says where the elements of t come from in s.
Picks(g, t, s, A, m) ==
  /\ g \in [1 .. Len(t) -> 1 .. m]
  /\ \A k \in 1 .. Len(t) : t[k] = s[g[k]] /\ t[k] \in A
  /\ \A j, k \in 1 .. Len(t) : j < k => g[j] < g[k]
  /\ \A i \in 1 .. m : s[i] \in A => \E k \in 1 .. Len(t) : g[k] = i

\* Those keeps the members of A, and their order.
LEMMA ThosePicks ==
  ASSUME NEW S, NEW s \in Seq(S), NEW A
  PROVE  Those(s, A) \in Seq(S) /\ \E g : Picks(g, Those(s, A), s, A, Len(s))
<1> DEFINE f == CHOOSE x : ThoseSteps(x, s, A)
           n == Len(s)
<1>1. ThoseSteps(f, s, A)
  BY ThoseStepsExist, Zenon
<1>2. Those(s, A) = f[n]
  BY Zenon DEF Those, ThoseSteps
<1> HIDE DEF f
<1>3. n \in Nat
  OBVIOUS
<1>4. f[0] = <<>> /\ \A i \in 1 .. n : f[i] = IF s[i] \in A THEN Append(f[i - 1], s[i]) ELSE f[i - 1]
  <2>1. \A i \in 0 .. n : f[i] = IF i = 0 THEN <<>>
                                 ELSE IF s[i] \in A THEN Append(f[i - 1], s[i]) ELSE f[i - 1]
    BY <1>1 DEF ThoseSteps
  <2>2. 0 \in 0 .. n /\ \A i \in 1 .. n : i \in 0 .. n /\ i # 0
    BY <1>3
  <2>. QED BY <2>1, <2>2
<1> DEFINE T == {m \in 0 .. n : f[m] \in Seq(S) /\ \E g : Picks(g, f[m], s, A, m)}
<1>5. 0 \in T
  <2> DEFINE g == [k \in 1 .. 0 |-> 1]
  <2>1. f[0] \in Seq(S) /\ Len(f[0]) = 0
    BY <1>4
  <2>2. Picks(g, f[0], s, A, 0)
    BY <2>1 DEF Picks
  <2>. QED BY <1>3, <2>1, <2>2
<1>6. ASSUME NEW m \in 0 .. n - 1, m \in T PROVE m + 1 \in T
  <2>1. f[m] \in Seq(S)
    BY <1>6
  <2>2. PICK g : Picks(g, f[m], s, A, m)
    BY <1>6
  <2>3. m + 1 \in 1 .. n /\ m + 1 \in 0 .. n /\ s[m + 1] \in S /\ (m + 1) - 1 = m
    BY <1>3
  <2> DEFINE t == f[m]
             l == Len(t)
  <2>4. l \in Nat
    BY <2>1
  <2>5. CASE s[m + 1] \in A
    <3> DEFINE g1 == [k \in 1 .. l + 1 |-> IF k = l + 1 THEN m + 1 ELSE g[k]]
               u == Append(t, s[m + 1])
    <3>1. f[m + 1] = u
      BY <1>4, <2>3, <2>5
    <3>2. u \in Seq(S) /\ Len(u) = l + 1 /\ u[l + 1] = s[m + 1]
      BY <2>1, <2>3
    <3>3. \A k \in 1 .. l : u[k] = t[k] /\ g1[k] = g[k] /\ g[k] \in 1 .. m
      BY <2>1, <2>2, <2>4 DEF Picks
    <3>4. g1[l + 1] = m + 1
      BY <2>4
    <3>5. g1 \in [1 .. l + 1 -> 1 .. m + 1]
      BY <2>2, <2>4 DEF Picks
    <3>6. \A k \in 1 .. l + 1 : k \in 1 .. l \/ k = l + 1
      BY <2>4
    <3> HIDE DEF g1, u
    <3>7. \A k \in 1 .. l + 1 : u[k] = s[g1[k]] /\ u[k] \in A
      BY <2>2, <2>5, <3>2, <3>3, <3>4, <3>6 DEF Picks
    <3>8. \A j, k \in 1 .. l + 1 : j < k => g1[j] < g1[k]
      <4> SUFFICES ASSUME NEW j \in 1 .. l + 1, NEW k \in 1 .. l + 1, j < k PROVE g1[j] < g1[k]
        OBVIOUS
      <4>1. j \in 1 .. l
        BY <2>4
      <4>2. CASE k = l + 1
        BY <3>3, <3>4, <4>1, <4>2
      <4>3. CASE k \in 1 .. l
        BY <2>2, <3>3, <4>1, <4>3 DEF Picks
      <4>. QED BY <3>6, <4>2, <4>3
    <3>9. \A i \in 1 .. m + 1 : s[i] \in A => \E k \in 1 .. l + 1 : g1[k] = i
      <4> SUFFICES ASSUME NEW i \in 1 .. m + 1, s[i] \in A PROVE \E k \in 1 .. l + 1 : g1[k] = i
        OBVIOUS
      <4>1. CASE i = m + 1
        BY <2>4, <3>4, <4>1
      <4>2. CASE i # m + 1
        <5>1. i \in 1 .. m
          BY <4>2
        <5>2. PICK k \in 1 .. l : g[k] = i
          BY <2>2, <5>1 DEF Picks
        <5>. QED BY <2>4, <3>3, <5>2
      <4>. QED BY <4>1, <4>2
    <3>10. Picks(g1, u, s, A, m + 1)
      BY <3>2, <3>5, <3>7, <3>8, <3>9 DEF Picks
    <3>. QED BY <2>3, <3>1, <3>2, <3>10
  <2>6. CASE s[m + 1] \notin A
    <3>1. f[m + 1] = t
      BY <1>4, <2>3, <2>6
    <3>2. Picks(g, t, s, A, m + 1)
      <4>3. Picks(g, t, s, A, m)
        BY <2>2
      <4>1. g \in [1 .. l -> 1 .. m + 1]
        BY <2>2 DEF Picks
      <4>2. \A i \in 1 .. m + 1 : s[i] \in A => i \in 1 .. m
        BY <2>6
      <4> HIDE DEF t
      <4>. QED BY <4>1, <4>2, <4>3 DEF Picks
    <3>. QED BY <2>1, <2>3, <3>1, <3>2
  <2>. QED BY <2>5, <2>6
<1>7. n \in T
  <2> HIDE DEF T, n
  <2>1. \A k \in 0 .. n : k \in T
    BY <1>3, <1>5, <1>6, UpTo
  <2>. QED BY <1>3, <2>1
<1>. QED BY <1>2, <1>7

LEMMA ThoseFacts ==
  ASSUME NEW S, NEW s \in Seq(S), NEW A
  PROVE  /\ Those(s, A) \in Seq(S)
         /\ Range(Those(s, A)) = Range(s) \cap A
         /\ IsInjective(s) => IsInjective(Those(s, A))
<1> DEFINE t == Those(s, A)
<1>1. t \in Seq(S) /\ \E g : Picks(g, t, s, A, Len(s))
  BY ThosePicks
<1> HIDE DEF t
<1>2. PICK g : Picks(g, t, s, A, Len(s))
  BY <1>1
<1>3. DOMAIN s = 1 .. Len(s) /\ DOMAIN t = 1 .. Len(t)
  BY <1>1
<1>4. Range(t) \subseteq Range(s) \cap A
  BY <1>2, <1>3 DEF Range, Picks
<1>5. Range(s) \cap A \subseteq Range(t)
  <2> SUFFICES ASSUME NEW i \in 1 .. Len(s), s[i] \in A PROVE s[i] \in Range(t)
    BY <1>3 DEF Range
  <2>1. PICK k \in 1 .. Len(t) : g[k] = i
    BY <1>2 DEF Picks
  <2>. QED BY <1>2, <1>3, <2>1 DEF Range, Picks
<1>6. IsInjective(s) => IsInjective(t)
  <2> SUFFICES ASSUME IsInjective(s), NEW j \in 1 .. Len(t), NEW k \in 1 .. Len(t), t[j] = t[k]
               PROVE  j = k
    BY <1>3 DEF IsInjective
  <2>1. s[g[j]] = s[g[k]] /\ g[j] \in 1 .. Len(s) /\ g[k] \in 1 .. Len(s)
    BY <1>2 DEF Picks
  <2>2. g[j] = g[k]
    BY <1>3, <2>1 DEF IsInjective
  <2>. QED BY <1>1, <1>2, <2>1, <2>2 DEF Picks
<1>. QED BY <1>1, <1>4, <1>5, <1>6 DEF t

LEMMA ReverseFacts ==
  ASSUME NEW S, NEW s \in Seq(S)
  PROVE  /\ Reverse(s) \in Seq(S)
         /\ Range(Reverse(s)) = Range(s)
         /\ IsInjective(s) => IsInjective(Reverse(s))
<1> DEFINE t == Reverse(s)
           n == Len(s)
<1>1. n \in Nat /\ DOMAIN s = 1 .. n
  OBVIOUS
<1>2. t \in Seq(S) /\ DOMAIN t = 1 .. n /\ \A i \in 1 .. n : t[i] = s[n - i + 1] /\ n - i + 1 \in 1 .. n
  BY DEF Reverse
<1> HIDE DEF t, n
<1>3. Range(t) \subseteq Range(s)
  BY <1>1, <1>2 DEF Range
<1>4. Range(s) \subseteq Range(t)
  <2> SUFFICES ASSUME NEW i \in 1 .. n PROVE s[i] \in Range(t)
    BY <1>1 DEF Range
  <2>1. n - i + 1 \in 1 .. n /\ n - (n - i + 1) + 1 = i
    BY <1>1
  <2>2. t[n - i + 1] = s[i]
    BY <1>2, <2>1
  <2>. QED BY <1>2, <2>1, <2>2 DEF Range
<1>5. IsInjective(s) => IsInjective(t)
  <2> SUFFICES ASSUME IsInjective(s), NEW j \in 1 .. n, NEW k \in 1 .. n, t[j] = t[k]
               PROVE  j = k
    BY <1>2 DEF IsInjective
  <2>1. s[n - j + 1] = s[n - k + 1] /\ n - j + 1 \in 1 .. n /\ n - k + 1 \in 1 .. n
    BY <1>2
  <2>2. n - j + 1 = n - k + 1
    BY <1>1, <2>1 DEF IsInjective
  <2>. QED BY <1>1, <2>2
<1>. QED BY <1>2, <1>3, <1>4, <1>5 DEF t

LEMMA ConcatFacts ==
  ASSUME NEW S, NEW s \in Seq(S), NEW t \in Seq(S)
  PROVE  /\ s \o t \in Seq(S)
         /\ Range(s \o t) = Range(s) \cup Range(t)
         /\ IsInjective(s) /\ IsInjective(t) /\ Range(s) \cap Range(t) = {} => IsInjective(s \o t)
<1> DEFINE u == s \o t
           m == Len(s)
           n == Len(t)
<1>1. m \in Nat /\ n \in Nat /\ DOMAIN s = 1 .. m /\ DOMAIN t = 1 .. n
  OBVIOUS
<1>2. u \in Seq(S) /\ DOMAIN u = 1 .. m + n /\ \A i \in 1 .. m + n : u[i] = IF i <= m THEN s[i] ELSE t[i - m]
  OBVIOUS
<1> HIDE DEF u, m, n
<1>3. \A i \in 1 .. m + n : IF i <= m THEN i \in 1 .. m ELSE i - m \in 1 .. n
  BY <1>1
<1>4. Range(u) \subseteq Range(s) \cup Range(t)
  BY <1>1, <1>2, <1>3 DEF Range
<1>5. Range(s) \subseteq Range(u)
  <2>1. \A i \in 1 .. m : i \in 1 .. m + n /\ u[i] = s[i]
    BY <1>1, <1>2
  <2>. QED BY <1>1, <1>2, <2>1 DEF Range
<1>6. Range(t) \subseteq Range(u)
  <2>1. \A i \in 1 .. n : i + m \in 1 .. m + n /\ ~(i + m <= m) /\ (i + m) - m = i
    BY <1>1
  <2>2. \A i \in 1 .. n : i + m \in 1 .. m + n /\ u[i + m] = t[i]
    BY <1>2, <2>1
  <2>3. \A i \in DOMAIN t : t[i] \in Range(u)
    BY <1>1, <1>2, <2>2 DEF Range
  <2>. QED BY <2>3 DEF Range
<1>7. ASSUME IsInjective(s), IsInjective(t), Range(s) \cap Range(t) = {} PROVE IsInjective(u)
  <2> SUFFICES ASSUME NEW j \in 1 .. m + n, NEW k \in 1 .. m + n, u[j] = u[k] PROVE j = k
    BY <1>2 DEF IsInjective
  <2>1. CASE j <= m /\ k <= m
    BY <1>1, <1>2, <1>3, <1>7, <2>1 DEF IsInjective
  <2>2. CASE ~(j <= m) /\ ~(k <= m)
    <3>1. t[j - m] = t[k - m] /\ j - m \in 1 .. n /\ k - m \in 1 .. n
      BY <1>2, <1>3, <2>2
    <3>2. j - m = k - m
      BY <1>1, <1>7, <3>1 DEF IsInjective
    <3>. QED BY <1>1, <3>2
  <2>3. CASE j <= m /\ ~(k <= m)
    BY <1>1, <1>2, <1>3, <1>7, <2>3 DEF Range
  <2>4. CASE ~(j <= m) /\ k <= m
    BY <1>1, <1>2, <1>3, <1>7, <2>4 DEF Range
  <2>. QED BY <2>1, <2>2, <2>3, <2>4
<1>. QED BY <1>2, <1>4, <1>5, <1>6, <1>7 DEF u

LEMMA AppendFacts ==
  ASSUME NEW S, NEW s \in Seq(S), NEW x \in S
  PROVE  /\ Append(s, x) \in Seq(S)
         /\ Range(Append(s, x)) = Range(s) \cup {x}
         /\ IsInjective(s) /\ x \notin Range(s) => IsInjective(Append(s, x))
<1> DEFINE u == Append(s, x)
           m == Len(s)
<1>1. m \in Nat /\ DOMAIN s = 1 .. m
  OBVIOUS
<1>2. u \in Seq(S) /\ DOMAIN u = 1 .. m + 1 /\ u[m + 1] = x /\ \A i \in 1 .. m : u[i] = s[i]
  OBVIOUS
<1> HIDE DEF u, m
<1>3. \A i \in 1 .. m + 1 : i \in 1 .. m \/ i = m + 1
  BY <1>1
<1>4. m + 1 \in 1 .. m + 1 /\ \A i \in 1 .. m : i \in 1 .. m + 1
  BY <1>1
<1>. QED BY <1>1, <1>2, <1>3, <1>4 DEF Range, IsInjective, u

LEMMA Slice ==
  ASSUME NEW S, NEW s \in Seq(S), NEW a \in 1 .. Len(s) + 1, NEW b \in 0 .. Len(s), a <= b + 1
  PROVE  /\ SubSeq(s, a, b) \in Seq(S) /\ Len(SubSeq(s, a, b)) = b - a + 1
         /\ \A k \in 1 .. b - a + 1 : SubSeq(s, a, b)[k] = s[a + k - 1] /\ a + k - 1 \in 1 .. Len(s)
<1>1. \A i \in a .. b : s[i] \in S
  OBVIOUS
<1>2. a \in Int /\ b \in Int /\ Len(s) \in Nat
  OBVIOUS
<1>3. /\ SubSeq(s, a, b) \in Seq(S)
      /\ Len(SubSeq(s, a, b)) = IF a <= b THEN b - a + 1 ELSE 0
      /\ \A i \in 1 .. b - a + 1 : SubSeq(s, a, b)[i] = s[a + i - 1]
  BY <1>1, <1>2, SubSeqProperties
<1>4. \A k \in 1 .. b - a + 1 : a + k - 1 \in 1 .. Len(s)
  OBVIOUS
<1>5. (IF a <= b THEN b - a + 1 ELSE 0) = b - a + 1
  BY <1>2
<1>. QED BY <1>3, <1>4, <1>5

LEMMA TailFacts ==
  ASSUME NEW S, NEW s \in Seq(S), s # <<>>
  PROVE  /\ Head(s) \in S /\ Tail(s) \in Seq(S)
         /\ Range(s) = {Head(s)} \cup Range(Tail(s))
         /\ IsInjective(s) => IsInjective(Tail(s)) /\ Head(s) \notin Range(Tail(s))
<1> DEFINE L == Len(s)
           t == Tail(s)
<1>1. /\ Head(s) \in S /\ t \in Seq(S) /\ L \in Nat \ {0} /\ Head(s) = s[1] /\ Len(t) = L - 1
      /\ \A k \in 1 .. L - 1 : t[k] = s[k + 1]
  OBVIOUS
<1>2. DOMAIN s = 1 .. L /\ DOMAIN t = 1 .. L - 1
  BY <1>1
<1> HIDE DEF L, t
<1>3. 1 \in 1 .. L /\ \A j \in 1 .. L - 1 : j + 1 \in 1 .. L /\ j + 1 # 1
  BY <1>1
<1>4. \A k \in 1 .. L : k = 1 \/ \E j \in 1 .. L - 1 : k = j + 1
  <2> SUFFICES ASSUME NEW k \in 1 .. L, k # 1 PROVE k - 1 \in 1 .. L - 1 /\ k = (k - 1) + 1
    BY Zenon
  <2>. QED BY <1>1
<1>5. Range(s) \subseteq {Head(s)} \cup Range(t)
  <2> SUFFICES ASSUME NEW k \in 1 .. L, k # 1 PROVE s[k] \in Range(t)
    BY <1>1, <1>2 DEF Range
  <2>1. PICK j \in 1 .. L - 1 : k = j + 1
    BY <1>4
  <2>2. t[j] = s[k] /\ j \in DOMAIN t
    BY <1>1, <1>2, <2>1
  <2>. QED BY <2>2 DEF Range
<1>6. {Head(s)} \cup Range(t) \subseteq Range(s)
  BY <1>1, <1>2, <1>3 DEF Range
<1>7. ASSUME IsInjective(s) PROVE IsInjective(t) /\ Head(s) \notin Range(t)
  <2>1. \A j, k \in 1 .. L : s[j] = s[k] => j = k
    BY <1>2, <1>7 DEF IsInjective
  <2>2. ASSUME NEW j \in 1 .. L - 1, NEW k \in 1 .. L - 1, t[j] = t[k] PROVE j = k
    <3>1. s[j + 1] = s[k + 1] /\ j + 1 \in 1 .. L /\ k + 1 \in 1 .. L
      BY <1>1, <1>3, <2>2
    <3>2. j + 1 = k + 1
      BY <2>1, <3>1
    <3>. QED BY <3>2
  <2>3. ASSUME NEW j \in 1 .. L - 1 PROVE t[j] # s[1]
    <3>1. t[j] = s[j + 1] /\ j + 1 \in 1 .. L /\ j + 1 # 1
      BY <1>1, <1>3
    <3>. QED BY <1>3, <2>1, <3>1
  <2>. QED BY <1>1, <1>2, <2>2, <2>3 DEF IsInjective, Range
<1>. QED BY <1>1, <1>5, <1>6, <1>7 DEF t

LEMMA RemoveFacts ==
  ASSUME NEW S, NEW s \in Seq(S), NEW j \in 1 .. Len(s)
  PROVE  /\ RemoveAt(s, j) \in Seq(S)
         /\ s[j] \in Range(s)
         /\ Range(RemoveAt(s, j)) \subseteq Range(s)
         /\ Range(s) \subseteq Range(RemoveAt(s, j)) \cup {s[j]}
         /\ IsInjective(s) => IsInjective(RemoveAt(s, j)) /\ s[j] \notin Range(RemoveAt(s, j))
<1> DEFINE t == RemoveAt(s, j)
           m == Len(s)
<1>1. m \in Nat /\ DOMAIN s = 1 .. m
  OBVIOUS
<1>2. SubSeq(s, 1, j - 1) \in Seq(S) /\ Len(SubSeq(s, 1, j - 1)) = j - 1
      /\ SubSeq(s, j + 1, m) \in Seq(S) /\ Len(SubSeq(s, j + 1, m)) = m - j
  OBVIOUS
<1>3. \A i \in 1 .. j - 1 : SubSeq(s, 1, j - 1)[i] = s[i]
  OBVIOUS
<1>4. \A i \in 1 .. m - j : SubSeq(s, j + 1, m)[i] = s[i + j]
  OBVIOUS
<1>5. t \in Seq(S) /\ DOMAIN t = 1 .. m - 1
  <2> DEFINE a == SubSeq(s, 1, j - 1)
             b == SubSeq(s, j + 1, m)
  <2>1. t = a \o b
    BY DEF RemoveAt
  <2>2. a \in Seq(S) /\ Len(a) = j - 1 /\ b \in Seq(S) /\ Len(b) = m - j
    BY <1>2
  <2> HIDE DEF a, b, t
  <2>3. t \in Seq(S) /\ Len(t) = Len(a) + Len(b)
    BY <2>1, <2>2, ConcatProperties
  <2>4. DOMAIN t = 1 .. Len(t)
    BY <2>3
  <2>. QED BY <1>1, <2>2, <2>3, <2>4
<1>6. \A i \in 1 .. m - 1 : t[i] = IF i < j THEN s[i] ELSE s[i + 1]
  <2> DEFINE a == SubSeq(s, 1, j - 1)
             b == SubSeq(s, j + 1, m)
  <2>1. t = a \o b
    BY DEF RemoveAt
  <2>2. a \in Seq(S) /\ Len(a) = j - 1 /\ b \in Seq(S) /\ Len(b) = m - j
    BY <1>2
  <2>3. \A i \in 1 .. j - 1 : a[i] = s[i]
    BY <1>3
  <2>4. \A i \in 1 .. m - j : b[i] = s[i + j]
    BY <1>4
  <2> HIDE DEF a, b, t, m
  <2> SUFFICES ASSUME NEW i \in 1 .. m - 1 PROVE t[i] = IF i < j THEN s[i] ELSE s[i + 1]
    OBVIOUS
  <2>5. j \in 1 .. m
    BY DEF m
  <2>6. CASE i < j
    <3>1. i \in 1 .. j - 1
      BY <1>1, <2>5, <2>6
    <3>2. t[i] = a[i]
      BY <2>1, <2>2, <3>1
    <3>. QED BY <2>3, <2>6, <3>1, <3>2
  <2>7. CASE ~(i < j)
    <3>1. i - (j - 1) \in 1 .. m - j /\ (i - (j - 1)) + j = i + 1
      BY <1>1, <2>5, <2>7
    <3>2. t[i] = b[i - (j - 1)]
      BY <1>1, <2>1, <2>2, <2>5, <2>7, <3>1
    <3>. QED BY <2>4, <2>7, <3>1, <3>2
  <2>. QED BY <2>6, <2>7
<1>7. j \in 1 .. m
  OBVIOUS
<1> HIDE DEF t, m
<1>8. \A i \in 1 .. m - 1 : i \in 1 .. m /\ i + 1 \in 1 .. m /\ i \in Int
  BY <1>1, <1>7
<1>9. Range(t) \subseteq Range(s)
  BY <1>1, <1>5, <1>6, <1>8 DEF Range
<1>10. Range(s) \subseteq Range(t) \cup {s[j]}
  <2> SUFFICES ASSUME NEW i \in 1 .. m, s[i] # s[j] PROVE s[i] \in Range(t)
    BY <1>1 DEF Range
  <2>1. CASE i < j
    <3>1. i \in 1 .. m - 1
      BY <1>1, <1>7, <2>1
    <3>. QED BY <1>5, <1>6, <2>1, <3>1 DEF Range
  <2>2. CASE i > j
    <3>1. i - 1 \in 1 .. m - 1 /\ ~(i - 1 < j) /\ (i - 1) + 1 = i
      BY <1>1, <1>7, <2>2
    <3>2. t[i - 1] = s[i]
      BY <1>6, <3>1
    <3>. QED BY <1>5, <3>1, <3>2 DEF Range
  <2>. QED BY <1>1, <1>7, <2>1, <2>2
<1>11. ASSUME IsInjective(s) PROVE IsInjective(t) /\ s[j] \notin Range(t)
  <2> DEFINE at(i) == IF i < j THEN i ELSE i + 1
  <2>1. \A i \in 1 .. m - 1 : at(i) \in 1 .. m /\ t[i] = s[at(i)] /\ at(i) # j
    BY <1>6, <1>7, <1>8
  <2>2. \A i, k \in 1 .. m - 1 : at(i) = at(k) => i = k
    BY <1>7, <1>8
  <2> HIDE DEF at
  <2>3. \A i \in 1 .. m - 1 : s[at(i)] # s[j]
    BY <1>1, <1>7, <1>11, <2>1 DEF IsInjective
  <2>4. \A i, k \in 1 .. m - 1 : t[i] = t[k] => at(i) = at(k)
    BY <1>1, <1>11, <2>1 DEF IsInjective
  <2>. QED BY <1>5, <2>1, <2>2, <2>3, <2>4 DEF Range, IsInjective
<1>. QED BY <1>1, <1>5, <1>7, <1>9, <1>10, <1>11 DEF t, Range

(***************************************************************************)
(* The graph.                                                              *)
(***************************************************************************)
Edge(E) == [to : E, type : SUBSET Types]

\* The edges of n elements: they lead from an element to another one, and
\* there is only one to each.
Shaped(es, n) ==
  /\ es \in [1 .. n -> Seq(Edge(1 .. n))]
  /\ \A x \in 1 .. n : \A i, j \in DOMAIN es[x] : es[x][i].to = es[x][j].to => i = j
  /\ \A x \in 1 .. n : \A i \in DOMAIN es[x] : es[x][i].to # x

Targets(es, x) == {es[x][i].to : i \in DOMAIN es[x]}

LEMMA UnbrokenFacts ==
  ASSUME NEW n \in Nat, NEW es, Shaped(es, n), NEW x \in 1 .. n
  PROVE  /\ Unbroken(es, x) \subseteq 1 .. n /\ x \notin Unbroken(es, x)
         /\ Unbroken(es, x) \subseteq Targets(es, x) /\ Targets(es, x) \subseteq 1 .. n
         /\ \A y \in Targets(es, x) : \E i \in DOMAIN es[x] : es[x][i].to = y /\ EdgeType(es, x, y) = es[x][i].type
         /\ \A i \in DOMAIN es[x] : EdgeType(es, x, es[x][i].to) = es[x][i].type
         /\ \A y : y \in Unbroken(es, x) <=> y \in Targets(es, x) /\ TYPE_BROKEN \notin EdgeType(es, x, y)
         /\ \A y \in Targets(es, x) : EdgeType(es, x, y) \subseteq Types
<1> DEFINE q == es[x]
<1>1. q \in Seq(Edge(1 .. n)) /\ \A i \in DOMAIN q : q[i] \in Edge(1 .. n)
  BY DEF Shaped
<1>2. \A i \in DOMAIN q : q[i].to \in 1 .. n /\ q[i].to # x /\ q[i].type \subseteq Types
  BY <1>1 DEF Shaped, Edge
<1>3. \A i, j \in DOMAIN q : q[i].to = q[j].to => i = j
  BY DEF Shaped
<1>4. ASSUME NEW i \in DOMAIN q PROVE EdgeType(es, x, q[i].to) = q[i].type
  <2> DEFINE j == CHOOSE j \in EdgeIndex(es, x, q[i].to) : TRUE
  <2>1. i \in EdgeIndex(es, x, q[i].to)
    BY DEF EdgeIndex
  <2>2. j \in EdgeIndex(es, x, q[i].to)
    BY <2>1
  <2>3. j \in DOMAIN q /\ q[j].to = q[i].to
    BY <2>2 DEF EdgeIndex
  <2>4. j = i
    BY <1>3, <2>3
  <2>. QED BY <2>4 DEF EdgeType
<1>5. Unbroken(es, x) = {q[i].to : i \in {j \in DOMAIN q : TYPE_BROKEN \notin q[j].type}}
  BY DEF Unbroken
<1>6. Targets(es, x) = {q[i].to : i \in DOMAIN q}
  BY DEF Targets
<1> HIDE DEF q
<1>7. \A y \in Targets(es, x) : \E i \in DOMAIN q : q[i].to = y /\ EdgeType(es, x, y) = q[i].type
  BY <1>4, <1>6
<1>8. \A y : y \in Unbroken(es, x) <=> y \in Targets(es, x) /\ TYPE_BROKEN \notin EdgeType(es, x, y)
  BY <1>4, <1>5, <1>6
<1>. QED BY <1>2, <1>4, <1>5, <1>6, <1>7, <1>8 DEF q

\* What an addteedge call with a type does.
LEMMA AddOne ==
  ASSUME NEW n \in Nat, NEW es, Shaped(es, n), NEW from \in 1 .. n, NEW to \in 1 .. n,
         from # to, NEW type \in SUBSET Types
  PROVE  LET fs == addteedge(es, from, to, type) IN
         /\ Shaped(fs, n)
         /\ \A x \in 1 .. n \ {from} : fs[x] = es[x]
         /\ Targets(fs, from) = Targets(es, from) \cup {to}
         /\ \A y \in Targets(es, from) \ {to} : EdgeType(fs, from, y) = EdgeType(es, from, y)
         /\ EdgeType(fs, from, to) = IF to \in Targets(es, from) THEN EdgeType(es, from, to) \cup type ELSE type
<1> DEFINE fs == addteedge(es, from, to, type)
           q == es[from]
           r == fs[from]
           E == 1 .. n
<1>1. DOMAIN es = E /\ q \in Seq(Edge(E)) /\ \A i \in DOMAIN q : q[i] \in Edge(E) /\ q[i].to # from
  BY DEF Shaped
<1>2. \A i, j \in DOMAIN q : q[i].to = q[j].to => i = j
  BY DEF Shaped
<1>3. /\ DOMAIN fs = E /\ \A x \in E \ {from} : fs[x] = es[x]
      /\ r = IF EdgeIndex(es, from, to) = {} THEN Append(q, [to |-> to, type |-> type])
             ELSE WithType(es, from, to, type)
  BY <1>1 DEF addteedge
<1>4. fs = [es EXCEPT ![from] = r]
  BY <1>1, <1>3 DEF addteedge
<1>5. Targets(es, from) = {q[i].to : i \in DOMAIN q}
  BY DEF Targets
<1>6. EdgeIndex(es, from, to) = {i \in DOMAIN q : q[i].to = to}
  BY DEF EdgeIndex
<1>7. /\ r \in Seq(Edge(E))
      /\ \A i \in DOMAIN r : r[i].to # from
      /\ \A i, j \in DOMAIN r : r[i].to = r[j].to => i = j
      /\ {r[i].to : i \in DOMAIN r} = Targets(es, from) \cup {to}
      /\ \A i \in DOMAIN q : i \in DOMAIN r /\ r[i].to = q[i].to /\ (q[i].to # to => r[i].type = q[i].type)
      /\ \A i \in DOMAIN r : r[i].to = to => r[i].type = IF to \in Targets(es, from) THEN EdgeType(es, from, to) \cup type ELSE type
  <2> DEFINE e == [to |-> to, type |-> type]
  <2>1. e \in Edge(E) /\ e.to = to /\ e.type = type
    BY DEF Edge
  <2>2. CASE EdgeIndex(es, from, to) = {}
    <3>1. \A i \in DOMAIN q : q[i].to # to
      BY <1>6, <2>2
    <3>2. r = Append(q, e) /\ to \notin Targets(es, from)
      BY <1>3, <1>5, <2>2, <3>1
    <3> HIDE DEF e, r, q
    <3>3. Len(q) \in Nat /\ DOMAIN q = 1 .. Len(q) /\ DOMAIN r = 1 .. Len(q) + 1 /\ r[Len(q) + 1] = e
          /\ \A i \in 1 .. Len(q) : r[i] = q[i]
      BY <1>1, <2>1, <3>2
    <3>4. \A i \in DOMAIN r : (i \in DOMAIN q /\ r[i] = q[i]) \/ (i = Len(q) + 1 /\ r[i] = e)
      <4>1. \A i \in 1 .. Len(q) + 1 : i \in 1 .. Len(q) \/ i = Len(q) + 1
        BY <3>3
      <4> SUFFICES ASSUME NEW i \in DOMAIN r PROVE (i \in DOMAIN q /\ r[i] = q[i]) \/ (i = Len(q) + 1 /\ r[i] = e)
        OBVIOUS
      <4>2. i \in 1 .. Len(q) \/ i = Len(q) + 1
        BY <3>3, <4>1
      <4>. QED BY <3>3, <4>2
    <3>5. r \in Seq(Edge(E))
      BY <1>1, <2>1, <3>2
    <3>6. \A i \in DOMAIN q : i \in DOMAIN r
      BY <3>3
    <3>7. Len(q) + 1 \in DOMAIN r
      BY <3>3
    <3>8. {r[i].to : i \in DOMAIN r} = Targets(es, from) \cup {to}
      <4>1. \A i \in DOMAIN r : r[i].to \in Targets(es, from) \cup {to}
        BY <1>5, <2>1, <3>4
      <4>2. \A i \in DOMAIN q : q[i].to \in {r[j].to : j \in DOMAIN r}
        BY <3>3, <3>6
      <4>3. to \in {r[j].to : j \in DOMAIN r}
        BY <2>1, <3>3, <3>7
      <4>. QED BY <1>5, <4>1, <4>2, <4>3
    <3>. QED BY <1>1, <1>2, <2>1, <3>1, <3>2, <3>3, <3>4, <3>5, <3>6, <3>8
  <2>3. CASE EdgeIndex(es, from, to) # {}
    <3> DEFINE R(i) == IF q[i].to = to THEN [to |-> to, type |-> q[i].type \cup type] ELSE q[i]
    <3>1. r = [i \in DOMAIN q |-> R(i)]
      BY <1>3, <2>3 DEF WithType
    <3>2. PICK k \in DOMAIN q : q[k].to = to
      BY <1>6, <2>3
    <3>3. to \in Targets(es, from) /\ EdgeType(es, from, to) = q[k].type
      <4>1. \A i \in DOMAIN q : EdgeType(es, from, q[i].to) = q[i].type
        BY UnbrokenFacts
      <4>. QED BY <1>5, <3>2, <4>1
    <3>4. DOMAIN r = DOMAIN q /\ \A i \in DOMAIN q : r[i] = R(i)
      BY <3>1
    <3>5. \A i \in DOMAIN q : R(i) \in Edge(E) /\ R(i).to = q[i].to
      BY <1>1 DEF Edge
    <3>6. \A i \in DOMAIN q : q[i].to = to => R(i).type = q[i].type \cup type
      OBVIOUS
    <3>7. \A i \in DOMAIN q : q[i].to # to => R(i).type = q[i].type
      OBVIOUS
    <3> HIDE DEF R, r, q
    <3>8. r \in Seq(Edge(E))
      <4>1. DOMAIN q = 1 .. Len(q) /\ Len(q) \in Nat
        BY <1>1
      <4>. QED BY <3>1, <3>5, <4>1, IsASeq
    <3>9. \A i \in DOMAIN r : r[i].to = q[i].to
      BY <3>4, <3>5
    <3>10. \A i \in DOMAIN r : r[i].to = to => i = k
      BY <1>2, <3>2, <3>4, <3>9
    <3>11. {r[i].to : i \in DOMAIN r} = Targets(es, from)
      BY <1>5, <3>4, <3>9
    <3>12. r[k].type = q[k].type \cup type
      BY <3>2, <3>4, <3>6
    <3>. QED BY <1>1, <1>2, <3>3, <3>4, <3>7, <3>8, <3>9, <3>10, <3>11, <3>12
  <2>. QED BY <2>2, <2>3
<1>8. Shaped(fs, n)
  <2>1. fs \in [E -> Seq(Edge(E))]
    <3>1. es \in [E -> Seq(Edge(E))]
      BY DEF Shaped
    <3>2. r \in Seq(Edge(E))
      BY <1>7
    <3> HIDE DEF r, fs
    <3>. QED BY <1>4, <3>1, <3>2
  <2> SUFFICES ASSUME NEW x \in E
               PROVE  /\ \A i, j \in DOMAIN fs[x] : fs[x][i].to = fs[x][j].to => i = j
                      /\ \A i \in DOMAIN fs[x] : fs[x][i].to # x
    BY <2>1 DEF Shaped
  <2>2. CASE x = from
    BY <1>7, <2>2
  <2>3. CASE x # from
    <3>1. fs[x] = es[x]
      BY <1>3, <2>3
    <3> HIDE DEF fs
    <3>. QED BY <3>1 DEF Shaped
  <2>. QED BY <2>2, <2>3
<1>9. Targets(fs, from) = Targets(es, from) \cup {to}
  BY <1>7 DEF Targets
<1>10. \A i \in DOMAIN r : EdgeType(fs, from, r[i].to) = r[i].type
  <2> HIDE DEF fs
  <2>. QED BY <1>8, UnbrokenFacts
<1>11. \A i \in DOMAIN q : EdgeType(es, from, q[i].to) = q[i].type
  BY UnbrokenFacts
<1> HIDE DEF fs, q, r
<1>12. \A y \in Targets(es, from) \ {to} : EdgeType(fs, from, y) = EdgeType(es, from, y)
  <2> SUFFICES ASSUME NEW i \in DOMAIN q, q[i].to # to PROVE EdgeType(fs, from, q[i].to) = EdgeType(es, from, q[i].to)
    BY <1>5
  <2>. QED BY <1>7, <1>10, <1>11
<1>13. EdgeType(fs, from, to) = IF to \in Targets(es, from) THEN EdgeType(es, from, to) \cup type ELSE type
  <2>0. to \in {r[i].to : i \in DOMAIN r}
    BY <1>7
  <2>1. PICK i \in DOMAIN r : r[i].to = to
    BY <2>0
  <2>2. EdgeType(fs, from, to) = r[i].type
    BY <1>10, <2>1
  <2>. QED BY <1>7, <2>1, <2>2
<1>. QED BY <1>3, <1>8, <1>9, <1>12, <1>13 DEF fs

Call(n) == (1 .. n) \X (1 .. n) \X SUBSET Types

\* What the first m calls, whose types are in U, make of the graph es.
Extended(es, fs, n, calls, m, U) ==
  /\ Shaped(fs, n)
  /\ \A x \in 1 .. n :
       /\ Targets(es, x) \subseteq Targets(fs, x)
       /\ \A y \in Targets(fs, x) \ Targets(es, x) :
            /\ \E k \in 1 .. m : calls[k][1] = x /\ calls[k][2] = y
            /\ EdgeType(fs, x, y) \subseteq U
       /\ \A y \in Targets(es, x) :
            /\ EdgeType(es, x, y) \subseteq EdgeType(fs, x, y)
            /\ EdgeType(fs, x, y) \subseteq EdgeType(es, x, y) \cup U
  /\ \A k \in 1 .. m : calls[k][1] # calls[k][2] => calls[k][2] \in Targets(fs, calls[k][1])

LEMMA AddStep ==
  ASSUME NEW n \in Nat, NEW es, Shaped(es, n), NEW calls \in Seq(Call(n)), NEW U,
         \A k \in DOMAIN calls : calls[k][3] \subseteq U,
         NEW m \in Nat, m + 1 \in DOMAIN calls, NEW fs, Extended(es, fs, n, calls, m, U)
  PROVE  Extended(es, addteedge(fs, calls[m + 1][1], calls[m + 1][2], calls[m + 1][3]),
                  n, calls, m + 1, U)
<1> DEFINE from == calls[m + 1][1]
           to == calls[m + 1][2]
           type == calls[m + 1][3]
           gs == addteedge(fs, from, to, type)
<1>1. from \in 1 .. n /\ to \in 1 .. n /\ type \in SUBSET Types /\ type \subseteq U
  <2>1. calls[m + 1] \in Call(n)
    OBVIOUS
  <2>. QED BY <2>1 DEF Call
<1>2. \A k \in 1 .. m + 1 : k \in 1 .. m \/ k = m + 1
  OBVIOUS
<1>3. \A k \in 1 .. m : k \in 1 .. m + 1
  OBVIOUS
<1>4. m + 1 \in 1 .. m + 1
  OBVIOUS
<1>5. CASE from = to
  <2>1. gs = fs
    BY <1>5 DEF addteedge
  <2>2. \A x \in 1 .. n : \A y \in Targets(fs, x) \ Targets(es, x) :
          \E k \in 1 .. m + 1 : calls[k][1] = x /\ calls[k][2] = y
    BY <1>3 DEF Extended
  <2>3. \A k \in 1 .. m + 1 : calls[k][1] # calls[k][2] => calls[k][2] \in Targets(fs, calls[k][1])
    BY <1>2, <1>5 DEF Extended
  <2> HIDE DEF gs, from, to, type
  <2>4. Extended(es, gs, n, calls, m + 1, U)
    BY <2>1, <2>2, <2>3 DEF Extended
  <2>. QED BY <2>4 DEF gs, from, to, type
<1>6. CASE from # to
  <2>0. Shaped(fs, n)
    BY DEF Extended
  <2>1. /\ Shaped(gs, n)
        /\ \A x \in 1 .. n \ {from} : gs[x] = fs[x]
        /\ Targets(gs, from) = Targets(fs, from) \cup {to}
        /\ \A y \in Targets(fs, from) \ {to} : EdgeType(gs, from, y) = EdgeType(fs, from, y)
        /\ EdgeType(gs, from, to) = IF to \in Targets(fs, from) THEN EdgeType(fs, from, to) \cup type ELSE type
    <3> HIDE DEF from, to, type
    <3>. QED BY <1>1, <1>6, <2>0, AddOne
  <2> HIDE DEF gs, from, to, type
  <2>2. \A x \in 1 .. n \ {from} : Targets(gs, x) = Targets(fs, x) /\ \A y : EdgeType(gs, x, y) = EdgeType(fs, x, y)
    <3> SUFFICES ASSUME NEW x \in 1 .. n \ {from}
                 PROVE  Targets(gs, x) = Targets(fs, x) /\ \A y : EdgeType(gs, x, y) = EdgeType(fs, x, y)
      OBVIOUS
    <3>1. gs[x] = fs[x]
      BY <2>1
    <3>2. Targets(gs, x) = Targets(fs, x)
      BY <3>1 DEF Targets
    <3>3. \A y : EdgeIndex(gs, x, y) = EdgeIndex(fs, x, y)
      BY <3>1 DEF EdgeIndex
    <3>4. ASSUME NEW y PROVE EdgeType(gs, x, y) = EdgeType(fs, x, y)
      <4>1. EdgeIndex(gs, x, y) = EdgeIndex(fs, x, y)
        BY <3>3
      <4>. QED BY <3>1, <4>1, Zenon DEF EdgeType
    <3>. QED BY <3>2, <3>4
  <2>3. calls[m + 1][1] = from /\ calls[m + 1][2] = to
    BY DEF from, to
  <2>4. ASSUME NEW x \in 1 .. n
        PROVE  /\ Targets(es, x) \subseteq Targets(gs, x)
               /\ \A y \in Targets(gs, x) \ Targets(es, x) :
                    /\ \E k \in 1 .. m + 1 : calls[k][1] = x /\ calls[k][2] = y
                    /\ EdgeType(gs, x, y) \subseteq U
               /\ \A y \in Targets(es, x) :
                    /\ EdgeType(es, x, y) \subseteq EdgeType(gs, x, y)
                    /\ EdgeType(gs, x, y) \subseteq EdgeType(es, x, y) \cup U
    <3>1. CASE x # from
      <4>1. Targets(gs, x) = Targets(fs, x) /\ \A y : EdgeType(gs, x, y) = EdgeType(fs, x, y)
        BY <2>2, <3>1
      <4>. QED BY <1>3, <4>1 DEF Extended
    <3>2. CASE x = from
      <4>1. Targets(es, x) \subseteq Targets(gs, x)
        BY <2>1, <3>2 DEF Extended
      <4>2. ASSUME NEW y \in Targets(gs, x) \ Targets(es, x)
            PROVE  /\ \E k \in 1 .. m + 1 : calls[k][1] = x /\ calls[k][2] = y
                   /\ EdgeType(gs, x, y) \subseteq U
        <5>1. CASE y = to
          <6>1. EdgeType(gs, x, y) \subseteq U
            BY <1>1, <2>1, <3>2, <4>2, <5>1 DEF Extended
          <6>. QED BY <1>4, <2>3, <3>2, <5>1, <6>1
        <5>2. CASE y # to
          <6>1. y \in Targets(fs, x) \ Targets(es, x) /\ EdgeType(gs, x, y) = EdgeType(fs, x, y)
            BY <2>1, <3>2, <4>2, <5>2
          <6>2. EdgeType(fs, x, y) \subseteq U /\ \E k \in 1 .. m : calls[k][1] = x /\ calls[k][2] = y
            BY <6>1 DEF Extended
          <6>. QED BY <1>3, <6>1, <6>2
        <5>. QED BY <5>1, <5>2
      <4>3. ASSUME NEW y \in Targets(es, x)
            PROVE  /\ EdgeType(es, x, y) \subseteq EdgeType(gs, x, y)
                   /\ EdgeType(gs, x, y) \subseteq EdgeType(es, x, y) \cup U
        <5>1. y \in Targets(fs, x) /\ EdgeType(es, x, y) \subseteq EdgeType(fs, x, y)
              /\ EdgeType(fs, x, y) \subseteq EdgeType(es, x, y) \cup U
          BY DEF Extended
        <5>2. CASE y = to
          BY <1>1, <2>1, <3>2, <5>1, <5>2
        <5>3. CASE y # to
          BY <2>1, <3>2, <5>1, <5>3
        <5>. QED BY <5>2, <5>3
      <4>. QED BY <4>1, <4>2, <4>3
    <3>. QED BY <3>1, <3>2
  <2>5. \A k \in 1 .. m + 1 : calls[k][1] # calls[k][2] => calls[k][2] \in Targets(gs, calls[k][1])
    <3> SUFFICES ASSUME NEW k \in 1 .. m + 1, calls[k][1] # calls[k][2] PROVE calls[k][2] \in Targets(gs, calls[k][1])
      OBVIOUS
    <3>1. CASE k = m + 1
      BY <2>1, <2>3, <3>1
    <3>2. CASE k # m + 1
      <4>1. k \in 1 .. m /\ k \in DOMAIN calls
        BY <1>2, <3>2
      <4>2. calls[k][2] \in Targets(fs, calls[k][1])
        BY <4>1 DEF Extended
      <4>3. calls[k] \in Call(n)
        BY <4>1
      <4>4. calls[k][1] \in 1 .. n
        BY <4>3 DEF Call
      <4>. QED BY <2>1, <2>2, <4>2, <4>4
    <3>. QED BY <3>1, <3>2
  <2>6. Extended(es, gs, n, calls, m + 1, U)
    BY <2>1, <2>4, <2>5 DEF Extended
  <2>. QED BY <2>6 DEF gs, from, to, type
<1>. QED BY <1>5, <1>6

\* How addteedges makes its calls.
CallSteps(f, es, calls) ==
  f = [k \in 0 .. Len(calls) |->
         IF k = 0 THEN es
         ELSE addteedge(f[k - 1], calls[k][1], calls[k][2], calls[k][3])]

Graph(n) == {fs \in [1 .. n -> Seq(Edge(1 .. n))] : Shaped(fs, n)}

LEMMA CallStepsExist ==
  ASSUME NEW n \in Nat, NEW es, Shaped(es, n), NEW calls \in Seq(Call(n))
  PROVE  \E f : CallSteps(f, es, calls)
<1> DEFINE X == Graph(n)
           l == Len(calls)
           add(k, fs) == addteedge(fs, calls[k][1], calls[k][2], calls[k][3])
           h == [k \in 1 .. l |-> [fs \in X |-> add(k, fs)]]
<1>1. \A fs : fs \in X <=> Shaped(fs, n)
  BY DEF Graph, Shaped
<1>2. ASSUME NEW k \in 1 .. l, NEW fs \in X PROVE add(k, fs) \in X
  <2>1. calls[k] \in Call(n)
    OBVIOUS
  <2>2. calls[k][1] \in 1 .. n /\ calls[k][2] \in 1 .. n /\ calls[k][3] \in SUBSET Types
    BY <2>1 DEF Call
  <2>3. Shaped(fs, n)
    BY <1>1
  <2>4. CASE calls[k][1] = calls[k][2]
    BY <2>4 DEF addteedge
  <2>5. CASE calls[k][1] # calls[k][2]
    <3>1. Shaped(add(k, fs), n)
      BY <2>2, <2>3, <2>5, AddOne
    <3> HIDE DEF add
    <3>. QED BY <1>1, <3>1
  <2>. QED BY <2>4, <2>5
<1> HIDE DEF X, add
<1>3. h \in [1 .. l -> [X -> X]]
  BY <1>2
<1>4. l \in Nat /\ es \in X
  BY <1>1
<1>5. PICK f \in [0 .. l -> X] : Stepwise(f, l, es, h)
  <2> HIDE DEF h, l
  <2>. QED BY <1>3, <1>4, StepsExist
<1> DEFINE F(k) == IF k = 0 THEN es ELSE add(k, f[k - 1])
<1>6. ASSUME NEW k \in 0 .. l PROVE f[k] = F(k)
  <2>1. CASE k = 0
    BY <1>5, <2>1 DEF Stepwise
  <2>2. CASE k # 0
    <3>1. k \in 1 .. l /\ k - 1 \in 0 .. l
      BY <1>4, <2>2
    <3>2. f[k - 1] \in X
      BY <1>5, <3>1
    <3>3. h[k][f[k - 1]] = add(k, f[k - 1])
      BY <3>1, <3>2
    <3>. QED BY <1>5, <2>2, <3>1, <3>3 DEF Stepwise
  <2>. QED BY <2>1, <2>2
<1>7. f = [k \in 0 .. l |-> F(k)]
  <2> HIDE DEF F, l
  <2>. QED BY <1>5, <1>6
<1>. QED BY <1>7 DEF CallSteps, add

\* What addteedges does, when the types of the calls are in U.
LEMMA AddMany ==
  ASSUME NEW n \in Nat, NEW es, Shaped(es, n), NEW calls \in Seq(Call(n)), NEW U,
         \A k \in DOMAIN calls : calls[k][3] \subseteq U
  PROVE  Extended(es, addteedges(es, calls), n, calls, Len(calls), U)
<1> DEFINE f == CHOOSE x : CallSteps(x, es, calls)
           l == Len(calls)
<1>1. CallSteps(f, es, calls)
  BY CallStepsExist, Zenon
<1>2. addteedges(es, calls) = f[l]
  BY Zenon DEF addteedges, CallSteps
<1> HIDE DEF f
<1>3. l \in Nat /\ DOMAIN calls = 1 .. l
  OBVIOUS
<1>4. f[0] = es /\ \A k \in 1 .. l : f[k] = addteedge(f[k - 1], calls[k][1], calls[k][2], calls[k][3])
  <2>1. \A k \in 0 .. l : f[k] = IF k = 0 THEN es ELSE addteedge(f[k - 1], calls[k][1], calls[k][2], calls[k][3])
    BY <1>1 DEF CallSteps
  <2>2. 0 \in 0 .. l /\ \A i \in 1 .. l : i \in 0 .. l /\ i # 0
    BY <1>3
  <2> HIDE DEF l
  <2>. QED BY <2>1, <2>2
<1> DEFINE T == {m \in 0 .. l : Extended(es, f[m], n, calls, m, U)}
<1>5. 0 \in T
  <2>1. Extended(es, es, n, calls, 0, U)
    BY DEF Extended
  <2>. QED BY <1>3, <1>4, <2>1
<1>6. ASSUME NEW m \in 0 .. l - 1, m \in T PROVE m + 1 \in T
  <2>1. m \in Nat /\ m + 1 \in 1 .. l /\ m + 1 \in 0 .. l /\ (m + 1) - 1 = m
    BY <1>3
  <2>2. Extended(es, f[m], n, calls, m, U)
    BY <1>6
  <2>3. f[m + 1] = addteedge(f[m], calls[m + 1][1], calls[m + 1][2], calls[m + 1][3])
    BY <1>4, <2>1
  <2>4. Extended(es, addteedge(f[m], calls[m + 1][1], calls[m + 1][2], calls[m + 1][3]), n, calls, m + 1, U)
    <3> HIDE DEF T, l
    <3>. QED BY <1>3, <2>1, <2>2, AddStep
  <2>. QED BY <2>1, <2>3, <2>4
<1>7. l \in T
  <2> HIDE DEF T, l
  <2>1. \A k \in 0 .. l : k \in T
    BY <1>3, <1>5, <1>6, UpTo
  <2>. QED BY <1>3, <2>1
<1>. QED BY <1>2, <1>7

-----------------------------------------------------------------------------
(***************************************************************************)
(* Reachability and the absence of cycles.                                 *)
(***************************************************************************)
Closed(es, T) == \A y \in T : Unbroken(es, y) \subseteq T

LEMMA ReachFacts ==
  ASSUME NEW n \in Nat, NEW es, Shaped(es, n), NEW S, S \subseteq 1 .. n
  PROVE  /\ Reach(es, S) \subseteq 1 .. n /\ S \subseteq Reach(es, S)
         /\ Closed(es, Reach(es, S))
         /\ \A T : S \subseteq T /\ T \subseteq 1 .. n /\ Closed(es, T) => Reach(es, S) \subseteq T
<1>1. DOMAIN es = 1 .. n
  BY DEF Shaped
<1> DEFINE In(x) == \A T \in SUBSET (1 .. n) : S \subseteq T /\ (\A y \in T : Unbroken(es, y) \subseteq T) => x \in T
<1>2. Reach(es, S) = {x \in 1 .. n : In(x)}
  BY <1>1 DEF Reach
<1>3. ASSUME NEW y \in Reach(es, S) PROVE Unbroken(es, y) \subseteq Reach(es, S)
  <2> SUFFICES ASSUME NEW z \in Unbroken(es, y) PROVE z \in Reach(es, S)
    OBVIOUS
  <2>1. y \in 1 .. n /\ In(y)
    BY <1>2
  <2>2. z \in 1 .. n
    BY <2>1, UnbrokenFacts
  <2>3. In(z)
    BY <2>1
  <2>. QED BY <1>2, <2>2, <2>3
<1>. QED BY <1>2, <1>3 DEF Closed

\* More edges, or more elements to start from, reach more.
LEMMA ReachGrows ==
  ASSUME NEW n \in Nat, NEW es, Shaped(es, n), NEW fs, Shaped(fs, n),
         \A x \in 1 .. n : Unbroken(es, x) \subseteq Unbroken(fs, x),
         NEW S, NEW T, S \subseteq T, T \subseteq 1 .. n
  PROVE  Reach(es, S) \subseteq Reach(fs, T)
<1> DEFINE R == Reach(fs, T)
<1>1. R \subseteq 1 .. n /\ T \subseteq R /\ Closed(fs, R)
  BY ReachFacts
<1>2. Closed(es, R)
  BY <1>1 DEF Closed
<1> HIDE DEF R
<1>3. Reach(es, S) \subseteq R
  BY <1>1, <1>2, ReachFacts
<1>. QED BY <1>3 DEF R

\* A numbering, with numbers below m, in which an element of D comes after
\* everything it needs.
Numbers(rank, es, n, D, m) ==
  /\ rank \in [1 .. n -> 0 .. m]
  /\ \A x \in D : \A y \in Unbroken(es, x) : rank[y] < rank[x]

Ranked(es, n, D) == \E m \in Nat : \E rank : Numbers(rank, es, n, D, m)

\* With a numbering of all elements there is no cycle.
LEMMA RankedAcyclic ==
  ASSUME NEW n \in Nat, NEW es, Shaped(es, n), Ranked(es, n, 1 .. n), NEW x \in 1 .. n
  PROVE  x \notin Reach(es, Unbroken(es, x))
<1>1. PICK m \in Nat : \E rank : Numbers(rank, es, n, 1 .. n, m)
  BY DEF Ranked
<1>2. PICK rank : Numbers(rank, es, n, 1 .. n, m)
  BY <1>1
<1> DEFINE T == {y \in 1 .. n : rank[y] < rank[x]}
<1>3. \A y \in 1 .. n : rank[y] \in Int
  BY <1>2 DEF Numbers
<1>4. \A y \in 1 .. n : Unbroken(es, y) \subseteq 1 .. n
  BY UnbrokenFacts
<1>5. Unbroken(es, x) \subseteq T
  BY <1>2, <1>4 DEF Numbers
<1>6. Closed(es, T)
  <2> SUFFICES ASSUME NEW y \in T, NEW z \in Unbroken(es, y) PROVE z \in T
    BY DEF Closed
  <2>1. z \in 1 .. n /\ y \in 1 .. n /\ rank[z] < rank[y] /\ rank[y] < rank[x]
    BY <1>2, <1>4 DEF Numbers
  <2>. QED BY <1>3, <2>1
<1>7. x \notin T
  BY <1>3
<1>8. T \subseteq 1 .. n
  OBVIOUS
<1> HIDE DEF T
<1>9. Reach(es, Unbroken(es, x)) \subseteq T
  BY <1>4, <1>5, <1>6, <1>8, ReachFacts
<1>. QED BY <1>7, <1>9

\* A numbering stays one when the elements of an upper part (which nothing
\* outside needs) are moved up; then they may need anything outside.
LEMMA RankedLift ==
  ASSUME NEW n \in Nat, NEW es, Shaped(es, n), Ranked(es, n, 1 .. n),
         NEW fs, Shaped(fs, n), NEW Upper, Upper \subseteq 1 .. n,
         \A x \in 1 .. n : \A y \in Unbroken(es, x) : y \in Upper => x \in Upper,
         \A x \in 1 .. n : \A y \in Unbroken(fs, x) \ Unbroken(es, x) : x \in Upper /\ y \notin Upper
  PROVE  Ranked(fs, n, 1 .. n)
<1>1. PICK m \in Nat : \E rank : Numbers(rank, es, n, 1 .. n, m)
  BY DEF Ranked
<1>2. PICK rank : Numbers(rank, es, n, 1 .. n, m)
  BY <1>1
<1> DEFINE up(x) == IF x \in Upper THEN rank[x] + m + 1 ELSE rank[x]
           r == [x \in 1 .. n |-> up(x)]
<1>3. \A x \in 1 .. n : rank[x] \in 0 .. m
  BY <1>2 DEF Numbers
<1>4. r \in [1 .. n -> 0 .. 2 * m + 1]
  BY <1>3
<1>5. ASSUME NEW x \in 1 .. n, NEW y \in Unbroken(fs, x) PROVE r[y] < r[x]
  <2>1. y \in 1 .. n
    BY UnbrokenFacts
  <2>2. r[x] = up(x) /\ r[y] = up(y) /\ rank[x] \in 0 .. m /\ rank[y] \in 0 .. m
    BY <1>3, <2>1
  <2> HIDE DEF r
  <2>3. CASE y \in Unbroken(es, x)
    <3>1. rank[y] < rank[x] /\ (y \in Upper => x \in Upper)
      BY <1>2, <2>3 DEF Numbers
    <3>. QED BY <2>2, <3>1
  <2>4. CASE y \notin Unbroken(es, x)
    BY <2>2, <2>4
  <2>. QED BY <2>3, <2>4
<1>6. 2 * m + 1 \in Nat
  OBVIOUS
<1> HIDE DEF r, up
<1>7. Numbers(r, fs, n, 1 .. n, 2 * m + 1)
  BY <1>4, <1>5 DEF Numbers
<1>. QED BY <1>6, <1>7 DEF Ranked

\* Fewer edges keep a numbering.
LEMMA RankedFewer ==
  ASSUME NEW n \in Nat, NEW es, NEW fs, NEW D, NEW D1, Ranked(es, n, D), D1 \subseteq D,
         \A x \in D1 : Unbroken(fs, x) \subseteq Unbroken(es, x)
  PROVE  Ranked(fs, n, D1)
  BY DEF Ranked, Numbers

\* An element that needs numbered elements only gets the next number.
LEMMA RankedMore ==
  ASSUME NEW n \in Nat, NEW es, Shaped(es, n), NEW D, D \subseteq 1 .. n, Ranked(es, n, D), NEW x \in 1 .. n,
         x \notin D, Unbroken(es, x) \subseteq D, \A y \in D : Unbroken(es, y) \subseteq D
  PROVE  Ranked(es, n, D \cup {x})
<1>1. PICK m \in Nat : \E rank : Numbers(rank, es, n, D, m)
  BY DEF Ranked
<1>2. PICK rank : Numbers(rank, es, n, D, m)
  BY <1>1
<1> DEFINE r == [rank EXCEPT ![x] = m + 1]
<1>3. rank \in [1 .. n -> 0 .. m]
  BY <1>2 DEF Numbers
<1>4. r \in [1 .. n -> 0 .. m + 1] /\ r[x] = m + 1 /\ \A y \in D : r[y] = rank[y] /\ rank[y] \in 0 .. m
  BY <1>3
<1> HIDE DEF r
<1>5. ASSUME NEW y \in D \cup {x}, NEW z \in Unbroken(es, y) PROVE r[z] < r[y]
  <2>1. z \in D
    BY <1>5
  <2>2. CASE y = x
    BY <1>4, <2>1, <2>2
  <2>3. CASE y \in D
    BY <1>2, <1>4, <2>1, <2>3 DEF Numbers
  <2>. QED BY <2>2, <2>3
<1>6. m + 1 \in Nat
  OBVIOUS
<1>7. Numbers(r, es, n, D \cup {x}, m + 1)
  BY <1>4, <1>5 DEF Numbers
<1>. QED BY <1>6, <1>7 DEF Ranked

-----------------------------------------------------------------------------
(***************************************************************************)
(* The search for cycles.                                                  *)
(***************************************************************************)
Abs(x) == IF x < 0 THEN -x ELSE x

Stack(n) == Seq((1 .. n) \cup {-i : i \in 1 .. n})

\* q is above p and no end of edges is between them.
NextTo(st, p, q) == p < q /\ \A r \in 1 .. Len(st) : p < r /\ r < q => st[r] > 0

\* The elements marked 1 are those whose end of edges is on the stack.
OnStack(mk, st, n) ==
  /\ \A x \in 1 .. n : mk[x] = 1 <=> \E p \in 1 .. Len(st) : st[p] = -x
  /\ \A p, q \in 1 .. Len(st) : st[p] < 0 /\ st[p] = st[q] => p = q

\* What is above the end of the edges of an element is needed by it, ...
Path(es, st) ==
  \A p, q \in 1 .. Len(st) : st[p] < 0 /\ NextTo(st, p, q) => Abs(st[q]) \in Unbroken(es, -st[p])

\* ... and what it needs is finished or above it.
Children(es, mk, st) ==
  \A p \in 1 .. Len(st) : st[p] < 0 =>
    \A y \in Unbroken(es, -st[p]) :
      mk[y] = 2 \/ \E q \in 1 .. Len(st) : NextTo(st, p, q) /\ Abs(st[q]) = y

\* The finished elements need finished ones only, without a cycle.
Finished(es, mk, n) ==
  /\ \A x \in 1 .. n : mk[x] = 2 => \A y \in Unbroken(es, x) : mk[y] = 2
  /\ Ranked(es, n, {x \in 1 .. n : mk[x] = 2})

\* An element that is not finished is where StartOrder has put it.
Base(mk, st, n) ==
  \A x \in 1 .. n : mk[x] # 2 =>
    /\ n + 1 - x \in 1 .. Len(st)
    /\ Abs(st[n + 1 - x]) = x
    /\ \A q \in 1 .. n - x : st[q] > 0

Search(es, mk, st, n) ==
  /\ Shaped(es, n)
  /\ mk \in [1 .. n -> 0 .. 2]
  /\ st \in Stack(n)
  /\ OnStack(mk, st, n)
  /\ Path(es, st)
  /\ Children(es, mk, st)
  /\ Finished(es, mk, n)
  /\ Base(mk, st, n)

LEMMA StackEntry ==
  ASSUME NEW n \in Nat, NEW st \in Stack(n), NEW q \in 1 .. Len(st)
  PROVE  /\ st[q] \in Int /\ Abs(st[q]) \in 1 .. n
         /\ st[q] < 0 \/ st[q] > 0
         /\ st[q] < 0 => -st[q] \in 1 .. n /\ Abs(st[q]) = -st[q] /\ st[q] = -Abs(st[q])
         /\ st[q] > 0 => st[q] \in 1 .. n /\ Abs(st[q]) = st[q]
<1>1. st[q] \in (1 .. n) \cup {-i : i \in 1 .. n}
  BY DEF Stack
<1>2. st[q] \in 1 .. n \/ \E i \in 1 .. n : st[q] = -i
  BY <1>1
<1>. QED BY <1>2 DEF Abs

LEMMA StackTop ==
  ASSUME NEW n \in Nat, NEW st \in Stack(n), st # <<>>
  PROVE  /\ Len(st) \in Nat \ {0} /\ Last(st) = st[Len(st)]
         /\ Front(st) \in Stack(n) /\ Len(Front(st)) = Len(st) - 1
         /\ \A q \in 1 .. Len(st) - 1 : Front(st)[q] = st[q]
<1> DEFINE S == (1 .. n) \cup {-i : i \in 1 .. n}
<1>1. st \in Seq(S)
  BY DEF Stack
<1> HIDE DEF S
<1>2. Len(st) \in Nat \ {0}
  BY <1>1
<1>3. Front(st) = SubSeq(st, 1, Len(st) - 1)
  BY DEF Front
<1>4. 1 \in 1 .. Len(st) + 1 /\ Len(st) - 1 \in 0 .. Len(st) /\ 1 <= (Len(st) - 1) + 1
  BY <1>2
<1>5. \A q \in 1 .. Len(st) - 1 : q \in 1 .. (Len(st) - 1) - 1 + 1 /\ 1 + q - 1 = q
  BY <1>2
<1>6. (Len(st) - 1) - 1 + 1 = Len(st) - 1
  BY <1>2
<1>7. /\ SubSeq(st, 1, Len(st) - 1) \in Seq(S) /\ Len(SubSeq(st, 1, Len(st) - 1)) = (Len(st) - 1) - 1 + 1
      /\ \A k \in 1 .. (Len(st) - 1) - 1 + 1 : SubSeq(st, 1, Len(st) - 1)[k] = st[1 + k - 1]
  BY <1>1, <1>4, Slice
<1>8. \A q \in 1 .. Len(st) - 1 : SubSeq(st, 1, Len(st) - 1)[q] = st[q]
  BY <1>7, <1>5
<1>9. Last(st) = st[Len(st)]
  BY DEF Last
<1>. QED BY <1>2, <1>3, <1>7, <1>6, <1>8, <1>9 DEF Stack, S

\* The top of the stack is finished and removed.
LEMMA SearchPop ==
  ASSUME NEW n \in Nat, NEW es, NEW mk, NEW st, Search(es, mk, st, n), st # <<>>,
         NEW a, a = Abs(Last(st)), Last(st) > 0 => mk[a] # 1,
         \A y \in Unbroken(es, a) : mk[y] = 2
  PROVE  Search(es, [mk EXCEPT ![a] = 2], Front(st), n)
<1> DEFINE L == Len(st)
           b == Front(st)
           m == [mk EXCEPT ![a] = 2]
<1>1. /\ Shaped(es, n) /\ mk \in [1 .. n -> 0 .. 2] /\ st \in Stack(n)
      /\ OnStack(mk, st, n) /\ Path(es, st) /\ Children(es, mk, st)
      /\ Finished(es, mk, n) /\ Base(mk, st, n)
  BY DEF Search
<1>2. /\ L \in Nat \ {0} /\ Last(st) = st[L] /\ b \in Stack(n) /\ Len(b) = L - 1
      /\ \A q \in 1 .. L - 1 : b[q] = st[q]
  BY <1>1, StackTop
<1>3. L \in 1 .. L /\ a \in 1 .. n /\ (st[L] < 0 \/ st[L] > 0) /\ (st[L] < 0 => st[L] = -a)
  <2>1. L \in 1 .. L
    BY <1>2
  <2>. QED BY <1>1, <1>2, <2>1, StackEntry
<1>4. m \in [1 .. n -> 0 .. 2] /\ m[a] = 2 /\ \A x \in 1 .. n : x # a => m[x] = mk[x]
  BY <1>1, <1>3
<1>5. \A x \in 1 .. n : mk[x] = 2 => m[x] = 2
  BY <1>4
<1>6. \A x \in 1 .. n : Unbroken(es, x) \subseteq 1 .. n
  BY <1>1, UnbrokenFacts
<1>7. \A q \in 1 .. L - 1 : q \in 1 .. L /\ q # L /\ q \in Int
  BY <1>2
<1>8. \A q \in 1 .. L : q \in 1 .. L - 1 \/ q = L
  BY <1>2
<1> HIDE DEF L, b, m
<1>9. ASSUME NEW p \in 1 .. L - 1, NEW q \in 1 .. L - 1
      PROVE  NextTo(b, p, q) <=> NextTo(st, p, q)
  <2>1. \A r \in 1 .. L : p < r /\ r < q => r \in 1 .. L - 1
    BY <1>2
  <2>. QED BY <1>2, <1>7, <2>1 DEF NextTo, L
<1>10. OnStack(m, b, n)
  <2>1. ASSUME NEW x \in 1 .. n PROVE m[x] = 1 <=> \E p \in 1 .. L - 1 : b[p] = -x
    <3>1. CASE x = a
      <4>1. ASSUME NEW p \in 1 .. L - 1, st[p] = -a PROVE FALSE
        <5>1. mk[a] = 1
          BY <1>1, <1>3, <1>7, <4>1 DEF OnStack, L
        <5>2. st[L] = -a
          BY <1>2, <1>3, <5>1
        <5>3. st[p] < 0
          BY <1>3, <4>1
        <5>. QED BY <1>1, <1>3, <1>7, <4>1, <5>2, <5>3 DEF OnStack, L
      <4>. QED BY <1>2, <1>4, <3>1, <4>1
    <3>2. CASE x # a
      <4>1. mk[x] = 1 <=> \E p \in 1 .. L : st[p] = -x
        BY <1>1 DEF OnStack, L
      <4>2. st[L] # -x
        BY <1>3, <3>2
      <4>3. (\E p \in 1 .. L : st[p] = -x) <=> \E p \in 1 .. L - 1 : b[p] = -x
        BY <1>2, <1>7, <1>8, <4>2
      <4>. QED BY <1>4, <3>2, <4>1, <4>3
    <3>. QED BY <3>1, <3>2
  <2>2. \A p, q \in 1 .. L - 1 : b[p] < 0 /\ b[p] = b[q] => p = q
    BY <1>1, <1>2, <1>7 DEF OnStack, L
  <2>. QED BY <1>2, <2>1, <2>2 DEF OnStack
<1>11. Path(es, b)
  <2> SUFFICES ASSUME NEW p \in 1 .. L - 1, NEW q \in 1 .. L - 1, b[p] < 0, NextTo(b, p, q)
               PROVE  Abs(b[q]) \in Unbroken(es, -b[p])
    BY <1>2 DEF Path
  <2>1. NextTo(st, p, q) /\ st[p] = b[p] /\ st[q] = b[q]
    BY <1>2, <1>9
  <2>. QED BY <1>1, <1>7, <2>1 DEF Path, L
<1>12. Children(es, m, b)
  <2> SUFFICES ASSUME NEW p \in 1 .. L - 1, b[p] < 0, NEW y \in Unbroken(es, -b[p]), m[y] # 2
               PROVE  \E q \in 1 .. L - 1 : NextTo(b, p, q) /\ Abs(b[q]) = y
    BY <1>2 DEF Children
  <2>1. st[p] = b[p] /\ p \in 1 .. L
    BY <1>2, <1>7
  <2>2. y \in 1 .. n
    BY <1>1, <1>6, <2>1, StackEntry DEF L
  <2>3. mk[y] # 2
    BY <1>5, <2>2
  <2>4. PICK q \in 1 .. L : NextTo(st, p, q) /\ Abs(st[q]) = y
    BY <1>1, <2>1, <2>3 DEF Children, L
  <2>5. q # L
    BY <1>2, <1>4, <2>4
  <2>6. q \in 1 .. L - 1
    BY <1>8, <2>5
  <2>. QED BY <1>2, <1>9, <2>4, <2>6
<1>13. Finished(es, m, n)
  <2>1. ASSUME NEW x \in 1 .. n, m[x] = 2, NEW y \in Unbroken(es, x) PROVE m[y] = 2
    <3>1. mk[y] = 2
      <4>1. CASE x = a
        BY <4>1
      <4>2. CASE x # a
        BY <1>1, <1>4, <2>1, <4>2 DEF Finished
      <4>. QED BY <4>1, <4>2
    <3>. QED BY <1>5, <1>6, <3>1
  <2> DEFINE D == {x \in 1 .. n : mk[x] = 2}
  <2>2. {x \in 1 .. n : m[x] = 2} = D \cup {a}
    BY <1>3, <1>4
  <2>3. Ranked(es, n, D) /\ D \subseteq 1 .. n
    BY <1>1 DEF Finished
  <2>4. Unbroken(es, a) \subseteq D
    BY <1>3, <1>6
  <2>5. \A x \in D : Unbroken(es, x) \subseteq D
    BY <1>1, <1>6 DEF Finished
  <2> HIDE DEF D
  <2>6. Ranked(es, n, D \cup {a})
    <3>1. CASE a \in D
      <4>1. D \cup {a} = D
        BY <3>1
      <4>. QED BY <2>3, <4>1
    <3>2. CASE a \notin D
      BY <1>1, <1>3, <2>3, <2>4, <2>5, <3>2, RankedMore
    <3>. QED BY <3>1, <3>2
  <2>. QED BY <2>1, <2>2, <2>6 DEF Finished
<1>14. Base(m, b, n)
  <2> SUFFICES ASSUME NEW x \in 1 .. n, m[x] # 2
               PROVE  /\ n + 1 - x \in 1 .. L - 1
                      /\ Abs(b[n + 1 - x]) = x
                      /\ \A q \in 1 .. n - x : b[q] > 0
    BY <1>2 DEF Base
  <2>1. x # a /\ mk[x] # 2
    BY <1>4
  <2>2. n + 1 - x \in 1 .. L /\ Abs(st[n + 1 - x]) = x /\ \A q \in 1 .. n - x : st[q] > 0
    BY <1>1, <2>1 DEF Base, L
  <2>3. n + 1 - x # L
    BY <1>2, <2>1, <2>2
  <2>4. n + 1 - x \in 1 .. L - 1
    BY <1>8, <2>2, <2>3
  <2>5. \A q \in 1 .. n - x : q \in 1 .. L - 1
    BY <1>2, <2>4
  <2>. QED BY <1>2, <2>2, <2>4, <2>5
<1>. QED BY <1>1, <1>2, <1>4, <1>10, <1>11, <1>12, <1>13, <1>14 DEF Search, m, b

\* The top of the stack is visited: what it needs goes above it.
LEMMA SearchPush ==
  ASSUME NEW n \in Nat, NEW es, NEW mk, NEW st, Search(es, mk, st, n), st # <<>>,
         NEW i, i = Last(st), i > 0, mk[i] = 0, NEW open \in Seq(1 .. n),
         Range(open) \subseteq Unbroken(es, i),
         \A y \in Unbroken(es, i) : mk[y] = 2 \/ y \in Range(open)
  PROVE  Search(es, [mk EXCEPT ![i] = 1], Front(st) \o <<-i>> \o open, n)
<1> DEFINE L == Len(st)
           b == Front(st) \o <<-i>> \o open
           m == [mk EXCEPT ![i] = 1]
           B == L + Len(open)
<1>1. /\ Shaped(es, n) /\ mk \in [1 .. n -> 0 .. 2] /\ st \in Stack(n)
      /\ OnStack(mk, st, n) /\ Path(es, st) /\ Children(es, mk, st)
      /\ Finished(es, mk, n) /\ Base(mk, st, n)
  BY DEF Search
<1>2. /\ L \in Nat \ {0} /\ Last(st) = st[L] /\ Front(st) \in Stack(n) /\ Len(Front(st)) = L - 1
      /\ \A q \in 1 .. L - 1 : Front(st)[q] = st[q]
  BY <1>1, StackTop
<1>3. L \in 1 .. L /\ i \in 1 .. n /\ st[L] = i /\ Abs(i) = i /\ Abs(-i) = i
  <2>1. L \in 1 .. L /\ st[L] = i
    BY <1>2
  <2>2. i \in 1 .. n
    BY <1>1, <2>1, StackEntry
  <2>. QED BY <2>1, <2>2 DEF Abs
<1>4. /\ b \in Stack(n) /\ Len(b) = B /\ B \in Nat
      /\ \A q \in 1 .. L - 1 : b[q] = st[q]
      /\ b[L] = -i
      /\ \A k \in 1 .. Len(open) : b[L + k] = open[k]
  <2> DEFINE S == (1 .. n) \cup {-x : x \in 1 .. n}
             f == Front(st)
             c == f \o <<-i>>
             e == <<-i>>
  <2>1. f \in Seq(S) /\ Len(f) = L - 1 /\ L - 1 \in Nat
    BY <1>2 DEF Stack
  <2>2. e \in Seq(S) /\ Len(e) = 1 /\ e[1] = -i
    BY <1>3
  <2>3. open \in Seq(S) /\ Len(open) \in Nat
    <3>1. \A k \in 1 .. Len(open) : open[k] \in S
      OBVIOUS
    <3>. QED BY <3>1
  <2> HIDE DEF S, f, e
  <2>4. /\ c \in Seq(S) /\ Len(c) = Len(f) + Len(e)
        /\ \A q \in 1 .. Len(f) : c[q] = f[q]
        /\ \A q \in 1 .. Len(e) : c[Len(f) + q] = e[q]
    BY <2>1, <2>2, ConcatProperties DEF e
  <2>5. \A q \in 1 .. L - 1 : f[q] = st[q]
    BY <1>2 DEF f
  <2>6. Len(c) = L /\ (\A q \in 1 .. L - 1 : c[q] = st[q]) /\ c[L] = -i
    <3>1. 1 \in 1 .. Len(e) /\ (L - 1) + 1 = L
      BY <1>2, <2>2
    <3>. QED BY <2>1, <2>2, <2>4, <2>5, <3>1
  <2> HIDE DEF c
  <2>7. b = c \o open
    BY DEF c, f, e
  <2>8. /\ b \in Seq(S) /\ Len(b) = Len(c) + Len(open)
        /\ \A q \in 1 .. Len(c) : b[q] = c[q]
        /\ \A q \in 1 .. Len(open) : b[Len(c) + q] = open[q]
    <3> HIDE DEF b
    <3>1. c \in Seq(S) /\ open \in Seq(S)
      BY <2>3, <2>4
    <3>2. /\ c \o open \in Seq(S) /\ Len(c \o open) = Len(c) + Len(open)
          /\ \A q \in 1 .. Len(c) : (c \o open)[q] = c[q]
          /\ \A q \in 1 .. Len(open) : (c \o open)[Len(c) + q] = open[q]
      BY <3>1, ConcatProperties
    <3>. QED BY <2>7, <3>2
  <2>9. \A q \in 1 .. L - 1 : q \in 1 .. L
    BY <1>2
  <2> HIDE DEF b, L
  <2>. QED BY <1>2, <1>3, <2>3, <2>6, <2>8, <2>9 DEF Stack, S
<1>5. m \in [1 .. n -> 0 .. 2] /\ m[i] = 1 /\ \A x \in 1 .. n : x # i => m[x] = mk[x]
  BY <1>1, <1>3
<1>6. \A x \in 1 .. n : m[x] = 2 <=> mk[x] = 2
  BY <1>5
<1>7. \A x \in 1 .. n : Unbroken(es, x) \subseteq 1 .. n
  BY <1>1, UnbrokenFacts
<1>8. Len(open) \in Nat /\ \A k \in 1 .. Len(open) : open[k] \in 1 .. n /\ open[k] \in Range(open)
  BY DEF Range
<1> HIDE DEF L, b, m, B
<1>9. \A q \in 1 .. B : q \in 1 .. L - 1 \/ q = L \/ \E k \in 1 .. Len(open) : q = L + k
  <2> SUFFICES ASSUME NEW q \in 1 .. B, ~(q <= L) PROVE \E k \in 1 .. Len(open) : q = L + k
    BY <1>2
  <2>1. q - L \in 1 .. Len(open) /\ q = L + (q - L)
    BY <1>2, <1>8 DEF B
  <2>. QED BY <2>1
<1>10. \A q \in 1 .. L : q \in 1 .. B /\ (q \in 1 .. L - 1 \/ q = L)
  BY <1>2, <1>8 DEF B
<1>11. \A q \in 1 .. L - 1 : q \in 1 .. L /\ q \in Int /\ q < L /\ ~(L < q)
  BY <1>2
<1>12. \A k \in 1 .. Len(open) : L + k \in 1 .. B /\ b[L + k] > 0 /\ L < L + k /\ Abs(b[L + k]) = open[k]
  BY <1>2, <1>4, <1>8 DEF B, Abs
<1>13. \A q \in 1 .. L : Abs(b[q]) = Abs(st[q])
  BY <1>3, <1>4, <1>10
<1>14. \A p \in 1 .. B : b[p] < 0 => p \in 1 .. L
  <2> SUFFICES ASSUME NEW p \in 1 .. B, b[p] < 0, p \notin 1 .. L PROVE FALSE
    OBVIOUS
  <2>1. PICK k \in 1 .. Len(open) : p = L + k
    BY <1>3, <1>9, <1>11
  <2>2. b[p] > 0 /\ b[p] \in Int
    BY <1>4, <1>8, <1>12, <2>1
  <2>. QED BY <2>2
<1>15. ASSUME NEW p \in 1 .. L, NEW q \in 1 .. L
       PROVE  NextTo(b, p, q) <=> NextTo(st, p, q)
  <2>1. \A r \in Int : r < q => r # L
    BY <1>2
  <2>2. \A r \in 1 .. B : r < q => r \in 1 .. L - 1
    BY <1>2
  <2>3. \A r \in 1 .. L : r < q => r \in 1 .. L - 1
    BY <1>2
  <2>. QED BY <1>4, <1>10, <1>11, <2>2, <2>3 DEF NextTo, L
<1>16. OnStack(m, b, n)
  <2>1. ASSUME NEW p \in 1 .. L, st[p] = -i PROVE FALSE
    <3>1. mk[i] = 1 <=> \E q \in 1 .. L : st[q] = -i
      BY <1>1, <1>3 DEF OnStack, L
    <3>. QED BY <2>1, <3>1
  <2>2. ASSUME NEW x \in 1 .. n PROVE m[x] = 1 <=> \E p \in 1 .. B : b[p] = -x
    <3>1. CASE x = i
      BY <1>3, <1>4, <1>5, <1>10, <3>1
    <3>2. CASE x # i
      <4>1. mk[x] = 1 <=> \E p \in 1 .. L : st[p] = -x
        BY <1>1 DEF OnStack, L
      <4>2. ASSUME NEW p \in 1 .. L, st[p] = -x PROVE \E q \in 1 .. B : b[q] = -x
        <5>1. p # L
          BY <1>3, <4>2
        <5>. QED BY <1>4, <1>10, <4>2, <5>1
      <4>3. ASSUME NEW q \in 1 .. B, b[q] = -x PROVE \E p \in 1 .. L : st[p] = -x
        <5>1. q \in 1 .. L
          BY <1>14, <4>3
        <5>2. q # L
          BY <1>3, <1>4, <3>2, <4>3
        <5>. QED BY <1>4, <1>10, <4>3, <5>1, <5>2
      <4>. QED BY <1>5, <3>2, <4>1, <4>2, <4>3
    <3>. QED BY <3>1, <3>2
  <2>3. ASSUME NEW p \in 1 .. B, NEW q \in 1 .. B, b[p] < 0, b[p] = b[q] PROVE p = q
    <3>1. p \in 1 .. L /\ q \in 1 .. L
      BY <1>14, <2>3
    <3>2. CASE p = L
      BY <1>4, <1>10, <2>1, <2>3, <3>1, <3>2
    <3>3. CASE q = L
      BY <1>4, <1>10, <2>1, <2>3, <3>1, <3>3
    <3>4. CASE p # L /\ q # L
      <4>1. p \in 1 .. L - 1 /\ q \in 1 .. L - 1
        BY <1>10, <3>1, <3>4
      <4>2. st[p] < 0 /\ st[p] = st[q]
        BY <1>4, <2>3, <4>1
      <4>. QED BY <1>1, <3>1, <4>2 DEF OnStack, L
    <3>. QED BY <3>2, <3>3, <3>4
  <2>. QED BY <1>4, <2>2, <2>3 DEF OnStack
<1>17. Path(es, b)
  <2> SUFFICES ASSUME NEW p \in 1 .. B, NEW q \in 1 .. B, b[p] < 0, NextTo(b, p, q)
               PROVE  Abs(b[q]) \in Unbroken(es, -b[p])
    BY <1>4 DEF Path
  <2>1. p \in 1 .. L
    BY <1>14
  <2>2. CASE q \in 1 .. L
    <3>1. p \in 1 .. L - 1
      BY <1>2, <2>1, <2>2 DEF NextTo
    <3>2. b[p] = st[p] /\ NextTo(st, p, q)
      BY <1>4, <1>15, <2>1, <2>2, <3>1
    <3>3. Abs(st[q]) \in Unbroken(es, -st[p])
      BY <1>1, <2>1, <2>2, <3>2 DEF Path, L
    <3>. QED BY <1>13, <2>2, <3>2, <3>3
  <2>3. CASE q \notin 1 .. L
    <3>1. PICK k \in 1 .. Len(open) : q = L + k
      BY <1>3, <1>9, <1>11, <2>3
    <3>2. p = L
      <4> SUFFICES ASSUME p # L PROVE FALSE
        OBVIOUS
      <4>1. p < L /\ L < q /\ L \in 1 .. B
        BY <1>3, <1>10, <1>11, <1>12, <2>1, <3>1
      <4>2. b[L] > 0
        BY <1>4, <4>1 DEF NextTo
      <4>. QED BY <1>3, <1>4, <4>2
    <3>3. Abs(b[q]) \in Unbroken(es, i)
      BY <1>8, <1>12, <3>1
    <3>4. -b[p] = i
      BY <1>3, <1>4, <3>2
    <3>. QED BY <3>3, <3>4
  <2>. QED BY <2>2, <2>3
<1>18. Children(es, m, b)
  <2> SUFFICES ASSUME NEW p \in 1 .. B, b[p] < 0, NEW y \in Unbroken(es, -b[p]), m[y] # 2
               PROVE  \E q \in 1 .. B : NextTo(b, p, q) /\ Abs(b[q]) = y
    BY <1>4 DEF Children
  <2>1. p \in 1 .. L
    BY <1>14
  <2>2. CASE p = L
    <3>1. y \in Unbroken(es, i)
      BY <1>3, <1>4, <2>2
    <3>2. mk[y] # 2
      BY <1>3, <1>6, <1>7, <3>1
    <3>3. y \in Range(open)
      BY <3>1, <3>2
    <3>4. PICK k \in 1 .. Len(open) : y = open[k]
      BY <3>3 DEF Range
    <3>5. \A r \in 1 .. B : L < r => b[r] > 0
      BY <1>2, <1>9, <1>11, <1>12
    <3>6. NextTo(b, p, L + k)
      BY <1>4, <1>12, <2>2, <3>5 DEF NextTo
    <3>. QED BY <1>12, <3>4, <3>6
  <2>3. CASE p # L
    <3>1. b[p] = st[p]
      BY <1>4, <1>10, <2>1, <2>3
    <3>2. -b[p] \in 1 .. n
      BY <1>1, <2>1, <3>1, StackEntry DEF L
    <3>3. mk[y] # 2
      BY <1>6, <1>7, <3>2
    <3>4. PICK q \in 1 .. L : NextTo(st, p, q) /\ Abs(st[q]) = y
      BY <1>1, <2>1, <3>1, <3>3 DEF Children, L
    <3>. QED BY <1>10, <1>13, <1>15, <2>1, <3>4
  <2>. QED BY <2>2, <2>3
<1>19. Finished(es, m, n)
  <2>1. {x \in 1 .. n : m[x] = 2} = {x \in 1 .. n : mk[x] = 2}
    BY <1>6
  <2>. QED BY <1>1, <1>6, <1>7, <2>1 DEF Finished
<1>20. Base(m, b, n)
  <2> SUFFICES ASSUME NEW x \in 1 .. n, m[x] # 2
               PROVE  /\ n + 1 - x \in 1 .. B
                      /\ Abs(b[n + 1 - x]) = x
                      /\ \A q \in 1 .. n - x : b[q] > 0
    BY <1>4 DEF Base
  <2>1. mk[x] # 2
    BY <1>6
  <2>2. n + 1 - x \in 1 .. L /\ Abs(st[n + 1 - x]) = x /\ \A q \in 1 .. n - x : st[q] > 0
    BY <1>1, <2>1 DEF Base, L
  <2>3. \A q \in 1 .. n - x : q \in 1 .. L - 1
    BY <1>2, <2>2
  <2>. QED BY <1>4, <1>10, <1>13, <2>2, <2>3
<1>. QED BY <1>1, <1>4, <1>5, <1>16, <1>17, <1>18, <1>19, <1>20 DEF Search, m, b

\* A cycle was met, its members are C: with the edges fs the stack becomes b,
\* which starts over at c, where the end of the edges of i was.
Restarts(es, st, n, i, c, C, fs, b) ==
  /\ st # <<>> /\ i = Last(st) /\ i > 0
  /\ c \in 1 .. Len(st) - 1 /\ st[c] = -i
  /\ C \subseteq 1 .. n
  /\ \A x \in 1 .. n : x \in C <=> \E p \in c .. Len(st) - 1 : st[p] = -x
  /\ Shaped(fs, n)
  /\ \A x \in 1 .. n : Unbroken(fs, x) \subseteq Unbroken(es, x)
  /\ \A x \in 1 .. n \ C : Unbroken(fs, x) = Unbroken(es, x)
  /\ b \in Stack(n) /\ Len(b) = c /\ b[c] = i /\ \A q \in 1 .. c - 1 : b[q] = st[q]

LEMMA SearchRestart ==
  ASSUME NEW n \in Nat, NEW es, NEW mk, NEW st, Search(es, mk, st, n),
         NEW i, NEW c, NEW C, NEW fs, NEW b, Restarts(es, st, n, i, c, C, fs, b)
  PROVE  Search(fs, [x \in 1 .. n |-> IF x \in C THEN 0 ELSE mk[x]], b, n)
<1>0. /\ st # <<>> /\ i = Last(st) /\ i > 0
      /\ c \in 1 .. Len(st) - 1 /\ st[c] = -i
      /\ C \subseteq 1 .. n
      /\ \A x \in 1 .. n : x \in C <=> \E p \in c .. Len(st) - 1 : st[p] = -x
      /\ Shaped(fs, n)
      /\ \A x \in 1 .. n : Unbroken(fs, x) \subseteq Unbroken(es, x)
      /\ \A x \in 1 .. n \ C : Unbroken(fs, x) = Unbroken(es, x)
      /\ b \in Stack(n) /\ Len(b) = c /\ b[c] = i /\ \A q \in 1 .. c - 1 : b[q] = st[q]
  BY DEF Restarts
<1> USE <1>0
<1> DEFINE L == Len(st)
           m == [x \in 1 .. n |-> IF x \in C THEN 0 ELSE mk[x]]
<1>1. /\ Shaped(es, n) /\ mk \in [1 .. n -> 0 .. 2] /\ st \in Stack(n)
      /\ OnStack(mk, st, n) /\ Path(es, st) /\ Children(es, mk, st)
      /\ Finished(es, mk, n) /\ Base(mk, st, n)
  BY DEF Search
<1>2. /\ L \in Nat \ {0} /\ Last(st) = st[L]
  BY <1>1, StackTop
<1>3. L \in 1 .. L /\ c \in 1 .. L - 1 /\ c \in 1 .. L /\ c < L /\ i \in 1 .. n /\ st[L] = i /\ Abs(i) = i /\ Abs(-i) = i
  <2>1. L \in 1 .. L /\ st[L] = i
    BY <1>2
  <2>2. i \in 1 .. n
    BY <1>1, <2>1, StackEntry
  <2>. QED BY <1>2, <2>1, <2>2 DEF Abs
<1>4. \A x \in 1 .. n : (x \in C => m[x] = 0) /\ (x \notin C => m[x] = mk[x])
  OBVIOUS
<1>5. m \in [1 .. n -> 0 .. 2]
  BY <1>1
<1>6. \A p \in 1 .. L : p \in c .. L - 1 \/ p \in 1 .. c - 1 \/ p = L
  BY <1>2, <1>3
<1>7. \A p \in 1 .. c : p \in 1 .. L /\ (p \in 1 .. c - 1 \/ p = c)
  BY <1>2, <1>3
<1>8. \A p \in 1 .. c - 1 : p \in 1 .. L /\ p \in 1 .. c /\ p < c /\ p # c /\ p \notin c .. L - 1
  BY <1>2, <1>3
<1>9. \A p \in c .. L - 1 : p \in 1 .. L
  BY <1>2, <1>3
<1> HIDE DEF L, m
<1>10. \A x \in C : mk[x] = 1
  <2> SUFFICES ASSUME NEW x \in C PROVE mk[x] = 1
    OBVIOUS
  <2>1. x \in 1 .. n
    OBVIOUS
  <2>2. PICK p \in c .. L - 1 : st[p] = -x
    BY <2>1 DEF L
  <2>. QED BY <1>1, <1>9, <2>1, <2>2 DEF OnStack, L
<1>11. ASSUME NEW x \in 1 .. n PROVE m[x] = 2 <=> mk[x] = 2
  <2>1. CASE x \in C
    <3>1. m[x] = 0 /\ mk[x] = 1
      BY <1>4, <1>10, <2>1
    <3>. QED BY <3>1
  <2>2. CASE x \notin C
    BY <1>4, <2>2
  <2>. QED BY <2>1, <2>2
<1>12. \A p \in 1 .. c - 1 : st[p] < 0 => -st[p] \in 1 .. n /\ -st[p] \notin C
  <2> SUFFICES ASSUME NEW p \in 1 .. c - 1, st[p] < 0 PROVE -st[p] \in 1 .. n /\ -st[p] \notin C
    OBVIOUS
  <2>1. st[p] \in Int /\ -st[p] \in 1 .. n
    BY <1>1, <1>8, StackEntry DEF L
  <2>2. ASSUME -st[p] \in C PROVE FALSE
    <3>1. PICK q \in c .. L - 1 : st[q] = -(-st[p])
      BY <2>1, <2>2 DEF L
    <3>2. st[q] = st[p]
      BY <2>1, <3>1
    <3>3. p = q
      BY <1>1, <1>8, <1>9, <3>2 DEF OnStack, L
    <3>. QED BY <1>8, <3>3
  <2>. QED BY <2>1, <2>2
<1>13. \A q \in 1 .. c : Abs(b[q]) = Abs(st[q])
  BY <1>3, <1>7
<1>14. \A p \in 1 .. c : b[p] < 0 => p \in 1 .. c - 1 /\ b[p] = st[p]
  <2>1. ~(i < 0)
    BY <1>3
  <2>. QED BY <1>7, <2>1
<1>15. ASSUME NEW p \in 1 .. c, NEW q \in 1 .. c
       PROVE  NextTo(b, p, q) <=> NextTo(st, p, q)
  <2>1. \A r \in 1 .. L : r < q => r \in 1 .. c - 1
    BY <1>2
  <2>2. \A r \in 1 .. c : r < q => r \in 1 .. c - 1
    BY <1>2
  <2>. QED BY <1>7, <1>8, <2>1, <2>2 DEF NextTo, L
<1>16. OnStack(m, b, n)
  <2>1. ASSUME NEW x \in 1 .. n PROVE m[x] = 1 <=> \E p \in 1 .. c : b[p] = -x
    <3>1. ASSUME m[x] = 1 PROVE \E p \in 1 .. c : b[p] = -x
      <4>1. x \notin C /\ mk[x] = 1
        BY <1>4, <3>1
      <4>2. PICK p \in 1 .. L : st[p] = -x
        BY <1>1, <4>1 DEF OnStack, L
      <4>3. p \notin c .. L - 1
        BY <4>1, <4>2 DEF L
      <4>4. p # L
        BY <1>3, <4>2
      <4>5. p \in 1 .. c - 1
        BY <1>6, <4>3, <4>4
      <4>. QED BY <1>8, <4>2, <4>5
    <3>2. ASSUME NEW p \in 1 .. c, b[p] = -x PROVE m[x] = 1
      <4>1. b[p] < 0
        BY <3>2
      <4>2. p \in 1 .. c - 1 /\ st[p] = -x
        BY <1>14, <3>2, <4>1
      <4>3. mk[x] = 1
        BY <1>1, <1>8, <4>2 DEF OnStack, L
      <4>4. x \notin C
        <5>1. -(-x) = x /\ st[p] < 0
          BY <3>2, <4>2
        <5>. QED BY <1>12, <4>2, <5>1
      <4>. QED BY <1>4, <4>3, <4>4
    <3>. QED BY <3>1, <3>2
  <2>2. \A p, q \in 1 .. c : b[p] < 0 /\ b[p] = b[q] => p = q
    BY <1>1, <1>7, <1>14 DEF OnStack, L
  <2>. QED BY <2>1, <2>2 DEF OnStack
<1>17. Path(fs, b)
  <2> SUFFICES ASSUME NEW p \in 1 .. c, NEW q \in 1 .. c, b[p] < 0, NextTo(b, p, q)
               PROVE  Abs(b[q]) \in Unbroken(fs, -b[p])
    BY DEF Path
  <2>1. p \in 1 .. c - 1 /\ b[p] = st[p] /\ NextTo(st, p, q)
    BY <1>14, <1>15
  <2>2. Abs(st[q]) \in Unbroken(es, -st[p])
    BY <1>1, <1>7, <2>1 DEF Path, L
  <2>3. Unbroken(fs, -st[p]) = Unbroken(es, -st[p])
    BY <1>12, <2>1
  <2>. QED BY <1>13, <2>1, <2>2, <2>3
<1>18. Children(fs, m, b)
  <2> SUFFICES ASSUME NEW p \in 1 .. c, b[p] < 0, NEW y \in Unbroken(fs, -b[p]), m[y] # 2
               PROVE  \E q \in 1 .. c : NextTo(b, p, q) /\ Abs(b[q]) = y
    BY DEF Children
  <2>1. p \in 1 .. c - 1 /\ b[p] = st[p] /\ -st[p] \in 1 .. n
    BY <1>12, <1>14
  <2>2. y \in Unbroken(es, -st[p]) /\ y \in 1 .. n
    BY <1>1, <2>1, UnbrokenFacts
  <2>3. mk[y] # 2
    BY <1>11, <2>2
  <2>4. PICK q \in 1 .. L : NextTo(st, p, q) /\ Abs(st[q]) = y
    BY <1>1, <1>8, <2>1, <2>2, <2>3 DEF Children, L
  <2>5. q \in 1 .. c
    <3> SUFFICES ASSUME q \notin 1 .. c PROVE FALSE
      OBVIOUS
    <3>1. p < c /\ c < q /\ c \in 1 .. L
      BY <1>2, <1>3, <1>8, <2>1
    <3>2. st[c] > 0
      BY <2>4, <3>1 DEF NextTo, L
    <3>. QED BY <1>3, <3>2
  <2>. QED BY <1>13, <1>15, <2>4, <2>5
<1>19. Finished(fs, m, n)
  <2> DEFINE D == {x \in 1 .. n : mk[x] = 2}
  <2>1. {x \in 1 .. n : m[x] = 2} = D
    BY <1>11
  <2>2. Ranked(es, n, D)
    BY <1>1 DEF Finished
  <2>3. \A x \in D : Unbroken(fs, x) \subseteq Unbroken(es, x)
    OBVIOUS
  <2> HIDE DEF D
  <2>4. Ranked(fs, n, D)
    BY <2>2, <2>3, RankedFewer
  <2>5. \A x \in 1 .. n : Unbroken(es, x) \subseteq 1 .. n
    BY <1>1, UnbrokenFacts
  <2>6. ASSUME NEW x \in 1 .. n, m[x] = 2, NEW y \in Unbroken(fs, x) PROVE m[y] = 2
    <3>1. y \in Unbroken(es, x) /\ y \in 1 .. n /\ mk[x] = 2
      BY <1>11, <2>5, <2>6
    <3>. QED BY <1>1, <1>11, <3>1 DEF Finished
  <2>. QED BY <2>1, <2>4, <2>6 DEF Finished
<1>20. Base(m, b, n)
  <2> SUFFICES ASSUME NEW x \in 1 .. n, m[x] # 2
               PROVE  /\ n + 1 - x \in 1 .. c
                      /\ Abs(b[n + 1 - x]) = x
                      /\ \A q \in 1 .. n - x : b[q] > 0
    BY DEF Base
  <2>1. mk[x] # 2
    BY <1>11
  <2>2. n + 1 - x \in 1 .. L /\ Abs(st[n + 1 - x]) = x /\ \A q \in 1 .. n - x : st[q] > 0
    BY <1>1, <2>1 DEF Base, L
  <2>3. c \notin 1 .. n - x
    BY <1>3, <2>2
  <2>4. n + 1 - x \in 1 .. c
    BY <1>3, <2>2, <2>3
  <2>5. \A q \in 1 .. n - x : q \in 1 .. c - 1
    BY <1>3, <2>4
  <2>. QED BY <1>13, <2>2, <2>4, <2>5
<1>. QED BY <1>5, <1>16, <1>17, <1>18, <1>19, <1>20 DEF Search, m

LEMMA ModSmall ==
  ASSUME NEW n \in Nat \ {0}
  PROVE  /\ \A x \in 0 .. n - 1 : x % n = x
         /\ \A x \in n .. 2 * n - 1 : x % n = x - n
<1>1. ASSUME NEW x \in 0 .. n - 1 PROVE x % n = x
  OBVIOUS
<1>2. ASSUME NEW x \in n .. 2 * n - 1 PROVE x % n = x - n
  OBVIOUS
<1>. QED BY <1>1, <1>2

LEMMA SuccFacts ==
  ASSUME NEW S, NEW s \in Seq(S), NEW k \in 1 .. Len(s)
  PROVE  Succ(s, k) = IF k = Len(s) THEN s[1] ELSE s[k + 1]
<1> DEFINE m == Len(s)
<1>1. m \in Nat \ {0} /\ k \in 1 .. m
  OBVIOUS
<1> HIDE DEF m
<1>2. CASE k = m
  <2>1. k \in m .. 2 * m - 1 /\ m - m = 0
    BY <1>1, <1>2
  <2>2. k % m = 0
    BY <1>1, <1>2, <2>1, ModSmall
  <2>. QED BY <1>2, <2>2 DEF Succ, m
<1>3. CASE k # m
  <2>1. k \in 0 .. m - 1
    BY <1>1, <1>3
  <2>2. k % m = k
    BY <1>1, <2>1, ModSmall
  <2>. QED BY <1>3, <2>2 DEF Succ, m
<1>. QED BY <1>2, <1>3

\* An element that is met again closes a cycle of elements on the stack.
LEMMA CycleFacts ==
  ASSUME NEW n \in Nat, TEs = 1 .. n, Search(edges, mark, todo, n), todo # <<>>,
         NEW i, i = Last(todo), i > 0, mark[i] = 1
  PROVE  LET c == CycleStart(Front(todo), i)
             cyc == CyclePath(Front(todo), i)
         IN  /\ c \in 1 .. Len(todo) - 1 /\ todo[c] = -i
             /\ cyc \in Seq(1 .. n) /\ Len(cyc) > 1
             /\ \A k \in 1 .. Len(cyc) : mark[cyc[k]] = 1 /\ Succ(cyc, k) \in Unbroken(edges, cyc[k])
             /\ \A x \in 1 .. n : x \in Range(cyc) <=> \E p \in c .. Len(todo) - 1 : todo[p] = -x
<1> DEFINE L == Len(todo)
           S == Front(todo)
           c == CycleStart(S, i)
           cyc == CyclePath(S, i)
<1>1. /\ Shaped(edges, n) /\ mark \in [1 .. n -> 0 .. 2] /\ todo \in Stack(n)
      /\ OnStack(mark, todo, n) /\ Path(edges, todo)
  BY DEF Search
<1>2. /\ L \in Nat \ {0} /\ Last(todo) = todo[L] /\ S \in Stack(n) /\ Len(S) = L - 1
      /\ \A q \in 1 .. L - 1 : S[q] = todo[q]
  BY <1>1, StackTop
<1>3. L \in 1 .. L /\ todo[L] = i /\ i \in 1 .. n /\ Abs(todo[L]) = i
  <2>1. L \in 1 .. L /\ todo[L] = i
    BY <1>2
  <2>. QED BY <1>1, <2>1, StackEntry
<1> DEFINE Z == (1 .. n) \cup {-x : x \in 1 .. n}
<1>4. S \in Seq(Z) /\ DOMAIN S = 1 .. L - 1
  BY <1>2 DEF Stack
<1> HIDE DEF L, S, Z
<1>5. c \in 1 .. L - 1 /\ todo[c] = -i
  <2> DEFINE J == {j \in DOMAIN S : S[j] = -i} \cup {0}
  <2>1. J \subseteq 0 .. L - 1 /\ J # {} /\ L - 1 \in Nat
    BY <1>2, <1>4
  <2>2. \A j \in J : j = 0 \/ (j \in 1 .. L - 1 /\ todo[j] = -i)
    BY <1>2, <1>4
  <2>3. PICK p \in 1 .. L : todo[p] = -i
    BY <1>1, <1>3 DEF OnStack, L
  <2>4. p \in 1 .. L - 1
    <3>1. p # L
      <4> SUFFICES ASSUME p = L PROVE FALSE
        OBVIOUS
      <4>1. i = -i /\ i \in 1 .. n
        BY <1>3, <2>3
      <4>. QED BY <4>1
    <3>. QED BY <1>2, <3>1
  <2>5. p \in J
    BY <1>2, <1>4, <2>3, <2>4
  <2>6. c = Max(J)
    BY DEF CycleStart
  <2> HIDE DEF J
  <2>7. Max(J) \in J /\ Max(J) >= p
    BY <2>1, <2>5, MaxIn
  <2>. QED BY <2>2, <2>4, <2>6, <2>7
<1> HIDE DEF c
<1> DEFINE T == SubSeq(S, c, L - 1)
           Neg == {-x : x \in 1 .. n}
           open == Those(T, Neg)
           m == Len(open)
<1>6. /\ T \in Seq(Z) /\ Len(T) = L - c
      /\ \A k \in 1 .. L - c : T[k] = todo[c + k - 1] /\ c + k - 1 \in c .. L - 1
  <2>1. c \in 1 .. Len(S) + 1 /\ L - 1 \in 0 .. Len(S) /\ c <= (L - 1) + 1 /\ (L - 1) - c + 1 = L - c
    BY <1>2, <1>5
  <2>2. /\ T \in Seq(Z) /\ Len(T) = (L - 1) - c + 1
        /\ \A k \in 1 .. (L - 1) - c + 1 : T[k] = S[c + k - 1] /\ c + k - 1 \in 1 .. Len(S)
    BY <1>4, <2>1, Slice
  <2> HIDE DEF T
  <2>3. \A k \in 1 .. L - c : c + k - 1 \in c .. L - 1 /\ c + k - 1 \in 1 .. L - 1
    BY <1>2, <1>5
  <2>. QED BY <1>2, <2>1, <2>2, <2>3
<1>7. open \in Seq(Z) /\ \E g : Picks(g, open, T, Neg, Len(T))
  <2> HIDE DEF T, Neg
  <2>. QED BY <1>6, ThosePicks
<1>8. PICK g : Picks(g, open, T, Neg, Len(T))
  BY <1>7
<1>9. m \in Nat /\ DOMAIN open = 1 .. m
  BY <1>7
<1>10. cyc = [k \in 1 .. m |-> -open[k]]
  <2>1. TEs = 1 .. n /\ Len(S) = L - 1
    BY <1>2
  <2>2. cyc = [k \in DOMAIN open |-> -open[k]]
    BY <2>1 DEF CyclePath, c
  <2>. QED BY <1>9, <2>2
<1> HIDE DEF T, open, m, cyc
<1> DEFINE at(k) == c + g[k] - 1
<1>11. \A k \in 1 .. m : g[k] \in 1 .. L - c /\ open[k] = T[g[k]] /\ open[k] \in Neg
  BY <1>6, <1>8 DEF Picks, m
<1>12. \A j, k \in 1 .. m : j < k => at(j) < at(k)
  <2> SUFFICES ASSUME NEW j \in 1 .. m, NEW k \in 1 .. m, j < k PROVE at(j) < at(k)
    OBVIOUS
  <2>1. g[j] < g[k]
    BY <1>8 DEF Picks, m
  <2>. QED BY <1>5, <1>11, <2>1
<1>13. \A k \in 1 .. m : at(k) \in c .. L - 1 /\ todo[at(k)] = open[k]
  BY <1>6, <1>11
<1>14. ASSUME NEW p \in c .. L - 1, todo[p] < 0 PROVE \E k \in 1 .. m : at(k) = p
  <2>1. p - c + 1 \in 1 .. L - c /\ c + (p - c + 1) - 1 = p /\ p \in 1 .. L
    BY <1>2, <1>5
  <2>2. T[p - c + 1] = todo[p]
    BY <1>6, <2>1
  <2>3. -todo[p] \in 1 .. n /\ todo[p] \in Int
    BY <1>1, <1>14, <2>1, StackEntry DEF L
  <2>4. todo[p] \in Neg
    BY <2>3
  <2>5. PICK k \in 1 .. m : g[k] = p - c + 1
    BY <1>6, <1>8, <2>1, <2>2, <2>4 DEF Picks, m
  <2>. QED BY <2>1, <2>5
<1>15. \A k \in 1 .. m : cyc[k] \in 1 .. n /\ todo[at(k)] = -cyc[k] /\ todo[at(k)] < 0 /\ Abs(todo[at(k)]) = cyc[k] /\ -todo[at(k)] = cyc[k]
  <2> SUFFICES ASSUME NEW k \in 1 .. m
               PROVE  cyc[k] \in 1 .. n /\ todo[at(k)] = -cyc[k] /\ todo[at(k)] < 0 /\ Abs(todo[at(k)]) = cyc[k] /\ -todo[at(k)] = cyc[k]
    OBVIOUS
  <2>1. todo[at(k)] = open[k] /\ cyc[k] = -open[k] /\ open[k] \in Neg
    BY <1>10, <1>11, <1>13
  <2>2. PICK x \in 1 .. n : open[k] = -x
    BY <2>1
  <2> HIDE DEF at
  <2>. QED BY <2>1, <2>2 DEF Abs
<1>16. cyc \in Seq(1 .. n) /\ Len(cyc) = m
  BY <1>9, <1>10, <1>15
<1>17. \A k \in 1 .. m : at(k) \in 1 .. L /\ at(k) < L
  BY <1>2, <1>5, <1>13
<1> HIDE DEF at
<1>18. \A k \in 1 .. m : mark[cyc[k]] = 1
  BY <1>1, <1>15, <1>17 DEF OnStack, L
<1>19. \A x \in 1 .. n : x \in Range(cyc) <=> \E p \in c .. L - 1 : todo[p] = -x
  <2> SUFFICES ASSUME NEW x \in 1 .. n PROVE x \in Range(cyc) <=> \E p \in c .. L - 1 : todo[p] = -x
    OBVIOUS
  <2>1. ASSUME NEW k \in 1 .. m, cyc[k] = x PROVE \E p \in c .. L - 1 : todo[p] = -x
    BY <1>13, <1>15, <2>1
  <2>2. ASSUME NEW p \in c .. L - 1, todo[p] = -x PROVE \E k \in 1 .. m : cyc[k] = x
    <3>1. todo[p] < 0 /\ -todo[p] = x
      BY <2>2
    <3>2. PICK k \in 1 .. m : at(k) = p
      BY <1>14, <3>1
    <3>. QED BY <1>15, <3>1, <3>2
  <2>3. x \in Range(cyc) <=> \E k \in 1 .. m : cyc[k] = x
    BY <1>16 DEF Range
  <2>. QED BY <2>1, <2>2, <2>3
<1>20. m > 0 /\ cyc[1] = i
  <2>1. c \in c .. L - 1 /\ todo[c] < 0
    BY <1>3, <1>5
  <2>2. PICK k \in 1 .. m : at(k) = c
    BY <1>14, <2>1
  <2>3. 1 \in 1 .. m
    BY <1>9, <2>2
  <2>4. k = 1
    <3> SUFFICES ASSUME k # 1 PROVE FALSE
      OBVIOUS
    <3>1. at(1) < at(k)
      BY <1>12, <2>2, <2>3
    <3>. QED BY <1>5, <1>13, <2>2, <2>3, <3>1
  <2>5. todo[c] = -cyc[1] /\ cyc[1] \in 1 .. n
    BY <1>15, <2>2, <2>3, <2>4
  <2>6. -cyc[1] = -i
    BY <1>5, <2>5
  <2>7. cyc[1] = i
    BY <1>3, <2>5, <2>6
  <2>8. m > 0
    BY <1>9, <2>3
  <2>. QED BY <2>7, <2>8
<1>21. ASSUME NEW k \in 1 .. m PROVE Succ(cyc, k) \in Unbroken(edges, cyc[k])
  <2>1. Succ(cyc, k) = IF k = m THEN cyc[1] ELSE cyc[k + 1]
    BY <1>16, SuccFacts
  <2>2. ASSUME NEW r \in 1 .. L, at(k) < r, r < L, todo[r] < 0 PROVE \E j \in 1 .. m : at(j) = r
    <3>1. r \in c .. L - 1
      BY <1>2, <1>5, <1>13, <2>2
    <3>. QED BY <1>14, <2>2, <3>1
  <2>3. \A r \in 1 .. L : todo[r] < 0 \/ todo[r] > 0
    BY <1>1, StackEntry DEF L
  <2>4. \A j \in 1 .. m : at(j) \in Int
    BY <1>17
  <2>5. ASSUME NEW j \in 1 .. m, at(k) < at(j) PROVE k < j
    <3> SUFFICES ASSUME ~(k < j) PROVE FALSE
      OBVIOUS
    <3>1. j = k \/ j < k
      OBVIOUS
    <3>2. at(j) = at(k) \/ at(j) < at(k)
      BY <1>12, <3>1
    <3>. QED BY <2>4, <2>5, <3>2
  <2>6. CASE k = m
    <3>1. NextTo(todo, at(k), L)
      <4> SUFFICES ASSUME NEW r \in 1 .. L, at(k) < r, r < L, todo[r] < 0 PROVE FALSE
        BY <1>17, <2>3 DEF NextTo, L
      <4>1. PICK j \in 1 .. m : at(j) = r
        BY <2>2
      <4>. QED BY <1>9, <2>5, <2>6, <4>1
    <3>2. Abs(todo[L]) \in Unbroken(edges, -todo[at(k)])
      BY <1>1, <1>3, <1>15, <1>17, <3>1 DEF Path, L
    <3>. QED BY <1>3, <1>15, <1>20, <2>1, <2>6, <3>2
  <2>7. CASE k # m
    <3>1. k + 1 \in 1 .. m /\ k < k + 1
      BY <1>9, <2>7
    <3>2. NextTo(todo, at(k), at(k + 1))
      <4>1. at(k) < at(k + 1)
        BY <1>12, <3>1
      <4> SUFFICES ASSUME NEW r \in 1 .. L, at(k) < r, r < at(k + 1), todo[r] < 0 PROVE FALSE
        BY <2>3, <4>1 DEF NextTo, L
      <4>2. r < L
        BY <1>2, <1>17, <3>1
      <4>3. PICK j \in 1 .. m : at(j) = r
        BY <2>2, <4>2
      <4>4. k < j
        BY <2>5, <4>3
      <4>5. j = k + 1 \/ k + 1 < j
        BY <4>4
      <4>6. at(j) = at(k + 1) \/ at(k + 1) < at(j)
        BY <1>12, <3>1, <4>5
      <4>. QED BY <2>4, <3>1, <4>3, <4>6
    <3>3. Abs(todo[at(k + 1)]) \in Unbroken(edges, -todo[at(k)])
      BY <1>1, <1>15, <1>17, <3>1, <3>2 DEF Path, L
    <3>. QED BY <1>15, <2>1, <2>7, <3>1, <3>3
  <2>. QED BY <2>6, <2>7
<1>22. m > 1
  <2> SUFFICES ASSUME ~(m > 1) PROVE FALSE
    OBVIOUS
  <2>1. m = 1 /\ 1 \in 1 .. m
    BY <1>9, <1>20
  <2>2. Succ(cyc, 1) = cyc[1]
    BY <1>16, <2>1, SuccFacts
  <2>3. cyc[1] \in Unbroken(edges, cyc[1]) /\ cyc[1] \in 1 .. n
    BY <1>15, <1>21, <2>1, <2>2
  <2>. QED BY <1>1, <2>3, UnbrokenFacts
<1>. QED BY <1>5, <1>16, <1>18, <1>19, <1>21, <1>22 DEF L, S, c, cyc

-----------------------------------------------------------------------------
(***************************************************************************)
(* The edge of a cycle that is broken.                                     *)
(***************************************************************************)
LEMMA LessOrder ==
  ASSUME NEW t \in SUBSET Int, NEW u \in SUBSET Int, NEW v \in SUBSET Int
  PROVE  ~Less(t, t) /\ (Less(t, u) /\ Less(u, v) => Less(t, v))
<1>1. ~Less(t, t)
  BY DEF Less
<1>2. ASSUME Less(t, u), Less(u, v) PROVE Less(t, v)
  <2>1. PICK a \in u \ t : \A c \in t \ u : c < a
    BY <1>2 DEF Less
  <2>2. PICK b \in v \ u : \A c \in u \ v : c < b
    BY <1>2 DEF Less
  <2>3. a \in Int /\ b \in Int /\ a # b
    OBVIOUS
  <2>4. CASE a < b
    <3>1. b \notin t
      BY <2>1, <2>3, <2>4
    <3>2. \A c \in t \ v : c < b
      <4> SUFFICES ASSUME NEW c \in t \ v PROVE c < b
        OBVIOUS
      <4>1. c \in Int
        OBVIOUS
      <4>. QED BY <2>1, <2>2, <2>3, <2>4, <4>1
    <3>. QED BY <3>1, <3>2 DEF Less
  <2>5. CASE b < a
    <3>1. a \in v
      BY <2>2, <2>3, <2>5
    <3>2. \A c \in t \ v : c < a
      <4> SUFFICES ASSUME NEW c \in t \ v PROVE c < a
        OBVIOUS
      <4>1. c \in Int
        OBVIOUS
      <4>. QED BY <2>1, <2>2, <2>3, <2>5, <4>1
    <3>. QED BY <3>1, <3>2 DEF Less
  <2>. QED BY <2>3, <2>4, <2>5
<1>. QED BY <1>1, <1>2

\* Among finitely many masks there is a least and a greatest one.
LEMMA Extremes ==
  ASSUME NEW n \in Nat \ {0}, NEW f \in [1 .. n -> SUBSET Int]
  PROVE  /\ \E k \in 1 .. n : \A j \in 1 .. n : ~Less(f[j], f[k])
         /\ \E k \in 1 .. n : \A j \in 1 .. n : ~Less(f[k], f[j])
<1> DEFINE Least(m) == \E k \in 1 .. m : \A j \in 1 .. m : ~Less(f[j], f[k])
           Most(m) == \E k \in 1 .. m : \A j \in 1 .. m : ~Less(f[k], f[j])
           T == {m \in 0 .. n : m = 0 \/ (Least(m) /\ Most(m))}
<1>0. n \in Nat
  OBVIOUS
<1>1. 0 \in T
  OBVIOUS
<1>2. ASSUME NEW m \in 0 .. n - 1, m \in T PROVE m + 1 \in T
  <2>1. m + 1 \in 0 .. n /\ m + 1 \in 1 .. m + 1 /\ \A j \in 1 .. m + 1 : j \in 1 .. n /\ (j \in 1 .. m \/ j = m + 1)
    OBVIOUS
  <2>2. \A j \in 1 .. m : j \in 1 .. m + 1
    OBVIOUS
  <2>3. \A j \in 1 .. m + 1 : f[j] \in SUBSET Int
    BY <2>1
  <2>4. \A j \in 1 .. m + 1 : ~Less(f[j], f[j])
    BY <2>3, LessOrder
  <2>5. \A i, j, k \in 1 .. m + 1 : Less(f[i], f[j]) /\ Less(f[j], f[k]) => Less(f[i], f[k])
    BY <2>3, LessOrder
  <2>6. CASE m = 0
    <3>1. \A j \in 1 .. m + 1 : j = m + 1
      BY <2>6
    <3>. QED BY <2>1, <2>4, <3>1
  <2>7. CASE m # 0
    <3>1. Least(m + 1)
      <4>1. PICK k \in 1 .. m : \A j \in 1 .. m : ~Less(f[j], f[k])
        BY <1>2, <2>7
      <4>2. CASE Less(f[m + 1], f[k])
        <5>1. \A j \in 1 .. m : ~Less(f[j], f[m + 1])
          BY <2>1, <2>2, <2>5, <4>1, <4>2
        <5>. QED BY <2>1, <2>4, <5>1
      <4>3. CASE ~Less(f[m + 1], f[k])
        BY <2>1, <2>2, <4>1, <4>3
      <4>. QED BY <4>2, <4>3
    <3>2. Most(m + 1)
      <4>1. PICK k \in 1 .. m : \A j \in 1 .. m : ~Less(f[k], f[j])
        BY <1>2, <2>7
      <4>2. CASE Less(f[k], f[m + 1])
        <5>1. \A j \in 1 .. m : ~Less(f[m + 1], f[j])
          BY <2>1, <2>2, <2>5, <4>1, <4>2
        <5>. QED BY <2>1, <2>4, <5>1
      <4>3. CASE ~Less(f[k], f[m + 1])
        BY <2>1, <2>2, <4>1, <4>3
      <4>. QED BY <4>2, <4>3
    <3>. QED BY <2>1, <3>1, <3>2
  <2>. QED BY <2>6, <2>7
<1>3. n \in T
  <2> HIDE DEF T
  <2>1. \A k \in 0 .. n : k \in T
    BY <1>0, <1>1, <1>2, UpTo
  <2>. QED BY <1>0, <2>1
<1>. QED BY <1>3

LEMMA DegreeFacts ==
  ASSUME NEW t \in SUBSET DepTypes
  PROVE  /\ Degree(t) \in SUBSET Int /\ Plain(t) = t
         /\ Less(Degree(t), {TYPE_REQ}) <=> t \cap {TYPE_REQ, TYPE_PREREQ} = {}
         /\ TYPE_PREREQ \in Degree(t) <=> TYPE_PREREQ \in t
<1> USE DEF TYPE_BROKEN, TYPE_CON, TYPE_REQ_UI, TYPE_PREREQ_UI, TYPE_REQ_UU, TYPE_PREREQ_UU,
            TYPE_SUG, TYPE_REC, TYPE_REQ, TYPE_PREREQ, TYPE_CYCLETAIL, TYPE_CYCLEHEAD
<1>1. \A b \in t : b \in {1, 4, 5, 6, 7, 8, 9, 10, 11}
  BY DEF DepTypes
<1>2. \A b \in Degree(t) : b \in {1, 4, 5, 8, 9, 10, 11}
  BY <1>1 DEF Degree
<1>3. (10 \in Degree(t) <=> 10 \in t) /\ (11 \in Degree(t) <=> 11 \in t)
  BY DEF Degree
<1>4. Plain(t) = t
  <2>1. \A b \in t : b \notin {0, 16, 17}
    BY <1>1
  <2>. QED BY <2>1 DEF Plain
<1> DEFINE d == Degree(t)
<1>5. Less(d, {10}) <=> 10 \notin d /\ 11 \notin d
  <2> HIDE DEF d
  <2>1. \A b \in d : b \in {1, 4, 5, 8, 9, 10, 11}
    BY <1>2 DEF d
  <2>2. Less(d, {10}) <=> 10 \notin d /\ \A c \in d \ {10} : c < 10
    BY DEF Less
  <2>3. (\A c \in d \ {10} : c < 10) <=> 11 \notin d
    BY <2>1
  <2>. QED BY <2>2, <2>3
<1>6. Degree(t) \in SUBSET Int
  BY <1>2
<1>. QED BY <1>3, <1>4, <1>5, <1>6

\* breakcycle takes an edge with the least degree.
LEMMA EdgeToBreakFacts ==
  ASSUME NEW cyc, NEW m \in Nat \ {0}, DOMAIN cyc = 1 .. m,
         \A k \in 1 .. m : CycleEdge(cyc, k) \in SUBSET DepTypes
  PROVE  /\ EdgeToBreak(cyc) \in 1 .. m
         /\ \A j \in 1 .. m : ~Less(Degree(CycleEdge(cyc, j)), Degree(CycleEdge(cyc, EdgeToBreak(cyc))))
<1> DEFINE deg(k) == Degree(CycleEdge(cyc, k))
           f == [k \in 1 .. m |-> deg(k)]
           least == {k \in 1 .. m : \A j \in 1 .. m : ~Less(deg(j), deg(k))}
           harmless == {k \in least : ~scriptletedge(cyc, k)}
           some == IF harmless = {} THEN least ELSE harmless
<1>1. \A k \in 1 .. m : deg(k) \in SUBSET Int
  BY DegreeFacts
<1>2. f \in [1 .. m -> SUBSET Int] /\ \A k \in 1 .. m : f[k] = deg(k)
  BY <1>1
<1>3. \E k \in 1 .. m : \A j \in 1 .. m : ~Less(f[j], f[k])
  <2> HIDE DEF f
  <2>. QED BY <1>2, Extremes
<1>4. least # {}
  <2> HIDE DEF deg, f
  <2>. QED BY <1>2, <1>3
<1>5. EdgeToBreak(cyc) = Min(some)
  BY DEF EdgeToBreak
<1>6. some \subseteq least /\ some # {} /\ least \subseteq 1 .. m /\ 1 .. m \subseteq Nat
  BY <1>4
<1> HIDE DEF some
<1>7. Min(some) \in some
  BY <1>6, MinIn
<1>8. Min(some) \in least
  BY <1>6, <1>7
<1>. QED BY <1>5, <1>8

\* The plain type of an edge of a recorded cycle.
PlainEdge(es, c, j) == Plain(EdgeType(es, c[j], Succ(c, j)))

\* What BrokenEdgesAreWeakest says of the record of a cycle.
Recorded(es, n, cycle) ==
  LET c == cycle.tes
      m == Len(c)
  IN  /\ c \in Seq(1 .. n) /\ m > 1
      /\ \A j \in 1 .. m : Succ(c, j) \in Targets(es, c[j])
      /\ TYPE_BROKEN \in EdgeType(es, c[m], c[1])
      /\ \A j \in 1 .. m : ~Less(Degree(PlainEdge(es, c, j)), Degree(PlainEdge(es, c, m)))
      /\ Less(cycle.min, {TYPE_REQ}) <=>
           \E j \in 1 .. m : PlainEdge(es, c, j) \cap {TYPE_REQ, TYPE_PREREQ} = {}
      /\ TYPE_PREREQ \in cycle.max <=> \E j \in 1 .. m : TYPE_PREREQ \in PlainEdge(es, c, j)

\* Edges may be added, broken edges stay broken, and the plain types stay.
Grown(es, fs, n) ==
  \A x \in 1 .. n : \A y \in Targets(es, x) :
    /\ y \in Targets(fs, x)
    /\ Plain(EdgeType(fs, x, y)) = Plain(EdgeType(es, x, y))
    /\ TYPE_BROKEN \in EdgeType(es, x, y) => TYPE_BROKEN \in EdgeType(fs, x, y)

LEMMA RecordKept ==
  ASSUME NEW n \in Nat, NEW es, NEW fs, Grown(es, fs, n), NEW cycle, Recorded(es, n, cycle)
  PROVE  Recorded(fs, n, cycle)
<1> DEFINE c == cycle.tes
           m == Len(c)
<1>1. c \in Seq(1 .. n) /\ m > 1 /\ m \in Nat
  BY DEF Recorded
<1>2. \A j \in 1 .. m : c[j] \in 1 .. n /\ Succ(c, j) \in Targets(es, c[j])
  BY <1>1 DEF Recorded
<1>3. \A j \in 1 .. m : Succ(c, j) \in Targets(fs, c[j]) /\ PlainEdge(fs, c, j) = PlainEdge(es, c, j)
  <2> SUFFICES ASSUME NEW j \in 1 .. m
               PROVE  Succ(c, j) \in Targets(fs, c[j]) /\ PlainEdge(fs, c, j) = PlainEdge(es, c, j)
    OBVIOUS
  <2>1. c[j] \in 1 .. n /\ Succ(c, j) \in Targets(es, c[j])
    BY <1>2
  <2> HIDE DEF c
  <2>. QED BY <2>1 DEF Grown, PlainEdge
<1>4. m \in 1 .. m
  BY <1>1
<1>5. Succ(c, m) = c[1]
  BY <1>1, <1>4, SuccFacts
<1>6. TYPE_BROKEN \in EdgeType(fs, c[m], c[1])
  <2>1. c[m] \in 1 .. n /\ c[1] \in Targets(es, c[m]) /\ TYPE_BROKEN \in EdgeType(es, c[m], c[1])
    BY <1>2, <1>4, <1>5 DEF Recorded
  <2> HIDE DEF c, m
  <2>. QED BY <2>1 DEF Grown
<1>7. /\ \A j \in 1 .. m : ~Less(Degree(PlainEdge(es, c, j)), Degree(PlainEdge(es, c, m)))
      /\ Less(cycle.min, {TYPE_REQ}) <=>
           \E j \in 1 .. m : PlainEdge(es, c, j) \cap {TYPE_REQ, TYPE_PREREQ} = {}
      /\ TYPE_PREREQ \in cycle.max <=> \E j \in 1 .. m : TYPE_PREREQ \in PlainEdge(es, c, j)
  BY DEF Recorded
<1> HIDE DEF c, m
<1>8. /\ \A j \in 1 .. m : ~Less(Degree(PlainEdge(fs, c, j)), Degree(PlainEdge(fs, c, m)))
      /\ Less(cycle.min, {TYPE_REQ}) <=>
           \E j \in 1 .. m : PlainEdge(fs, c, j) \cap {TYPE_REQ, TYPE_PREREQ} = {}
      /\ TYPE_PREREQ \in cycle.max <=> \E j \in 1 .. m : TYPE_PREREQ \in PlainEdge(fs, c, j)
  BY <1>3, <1>4, <1>7
<1>. QED BY <1>1, <1>3, <1>6, <1>8 DEF Recorded, c, m

\* The record of a broken cycle is the cycle, turned so that the broken edge
\* comes last.
Turn(l, k, m) == IF l + k <= m THEN l + k ELSE l + k - m

Rotated(cyc, l, m) == [k \in 1 .. m |-> cyc[((l + k - 1) % m) + 1]]

IsTurned(tes, cyc, l, m) ==
  /\ Len(tes) = m
  /\ \A k \in 1 .. m : /\ Turn(l, k, m) \in 1 .. m
                       /\ tes[k] = cyc[Turn(l, k, m)]
                       /\ Succ(tes, k) = Succ(cyc, Turn(l, k, m))
  /\ \A j \in 1 .. m : \E k \in 1 .. m : Turn(l, k, m) = j
  /\ Turn(l, m, m) = l

LEMMA Turned ==
  ASSUME NEW S, NEW cyc \in Seq(S), NEW m, m = Len(cyc), NEW l \in 1 .. m
  PROVE  Rotated(cyc, l, m) \in Seq(S) /\ IsTurned(Rotated(cyc, l, m), cyc, l, m)
<1> DEFINE tes == Rotated(cyc, l, m)
           at(k) == IF l + k <= m THEN l + k ELSE l + k - m
<1>1. m \in Nat \ {0} /\ l \in 1 .. m
  OBVIOUS
<1>2. tes = [k \in 1 .. m |-> cyc[((l + k - 1) % m) + 1]]
  BY DEF Rotated
<1> HIDE DEF tes
<1>3. \A k \in 1 .. m : cyc[k] \in S
  OBVIOUS
<1>4. ASSUME NEW k \in 1 .. m PROVE ((l + k - 1) % m) + 1 = at(k) /\ at(k) \in 1 .. m
  <2>1. CASE l + k <= m
    <3>1. l + k - 1 \in 0 .. m - 1
      BY <1>1, <2>1
    <3>2. (l + k - 1) % m = l + k - 1
      BY <1>1, <3>1, ModSmall
    <3>. QED BY <1>1, <2>1, <3>2
  <2>2. CASE ~(l + k <= m)
    <3> DEFINE x == l + k - 1
    <3>1. x \in m .. 2 * m - 1
      BY <1>1, <2>2
    <3> HIDE DEF x
    <3>2. x % m = x - m
      BY <1>1, <3>1, ModSmall
    <3>3. (x % m) + 1 = l + k - m
      BY <1>1, <3>2 DEF x
    <3>4. ((l + k - 1) % m) + 1 = l + k - m
      BY <3>3 DEF x
    <3>. QED BY <1>1, <2>2, <3>4
  <2>. QED BY <2>1, <2>2
<1>5. \A k \in 1 .. m : tes[k] = cyc[at(k)]
  BY <1>2, <1>4
<1>6. tes \in Seq(S) /\ Len(tes) = m
  <2>1. tes = [k \in 1 .. m |-> cyc[at(k)]]
    BY <1>2, <1>4
  <2>2. \A k \in 1 .. m : cyc[at(k)] \in S
    BY <1>3, <1>4
  <2> HIDE DEF at
  <2>. QED BY <1>1, <2>1, <2>2
<1>7. ASSUME NEW k \in 1 .. m PROVE Succ(tes, k) = Succ(cyc, at(k))
  <2>1. Succ(tes, k) = IF k = m THEN tes[1] ELSE tes[k + 1]
    BY <1>6, SuccFacts
  <2>2. Succ(cyc, at(k)) = IF at(k) = m THEN cyc[1] ELSE cyc[at(k) + 1]
    <3> HIDE DEF at
    <3>. QED BY <1>4, SuccFacts
  <2>3. 1 \in 1 .. m /\ (k # m => k + 1 \in 1 .. m)
    BY <1>1
  <2>4. CASE k = m
    <3>1. at(k) = l /\ (l = m => at(1) = 1) /\ (l # m => at(1) = l + 1)
      BY <1>1, <2>4
    <3> HIDE DEF at
    <3>. QED BY <1>5, <2>1, <2>2, <2>3, <2>4, <3>1
  <2>5. CASE k # m
    <3>1. (at(k) = m => at(k + 1) = 1) /\ (at(k) # m => at(k + 1) = at(k) + 1)
      BY <1>1, <2>5
    <3> HIDE DEF at
    <3>. QED BY <1>5, <2>1, <2>2, <2>3, <2>5, <3>1
  <2>. QED BY <2>4, <2>5
<1>8. ASSUME NEW j \in 1 .. m PROVE \E k \in 1 .. m : at(k) = j
  <2>1. CASE l < j
    <3>1. j - l \in 1 .. m /\ at(j - l) = j
      BY <1>1, <2>1
    <3> HIDE DEF at
    <3>. QED BY <3>1
  <2>2. CASE ~(l < j)
    <3>1. j - l + m \in 1 .. m /\ at(j - l + m) = j
      BY <1>1, <2>2
    <3> HIDE DEF at
    <3>. QED BY <3>1
  <2>. QED BY <2>1, <2>2
<1>9. at(m) = l
  BY <1>1
<1>10. \A k \in 1 .. m : Turn(l, k, m) \in 1 .. m
  BY <1>4 DEF Turn
<1>11. \A k \in 1 .. m : tes[k] = cyc[Turn(l, k, m)]
  BY <1>5 DEF Turn
<1>12. \A k \in 1 .. m : Succ(tes, k) = Succ(cyc, Turn(l, k, m))
  BY <1>7 DEF Turn
<1>13. \A j \in 1 .. m : \E k \in 1 .. m : Turn(l, k, m) = j
  BY <1>8 DEF Turn
<1>14. Turn(l, m, m) = l
  BY <1>9 DEF Turn
<1> HIDE DEF at
<1>. QED BY <1>6, <1>10, <1>11, <1>12, <1>13, <1>14 DEF IsTurned, tes

\* breakcycle records the cycle it breaks.
LEMMA CycleRecorded ==
  ASSUME NEW n \in Nat, NEW cyc \in Seq(1 .. n), Len(cyc) > 1, NEW l \in 1 .. Len(cyc),
         \A k \in 1 .. Len(cyc) : /\ Succ(cyc, k) \in Targets(edges, cyc[k])
                                  /\ CycleEdge(cyc, k) \in SUBSET DepTypes
                                  /\ ~Less(Degree(CycleEdge(cyc, k)), Degree(CycleEdge(cyc, l))),
         NEW fs, Grown(edges, fs, n), TYPE_BROKEN \in EdgeType(fs, cyc[l], Succ(cyc, l))
  PROVE  LET tes == BrokenCycle(cyc, l).tes
         IN  /\ Recorded(fs, n, BrokenCycle(cyc, l))
             /\ tes[Len(tes)] = cyc[l] /\ tes[1] = Succ(cyc, l)
<1> DEFINE m == Len(cyc)
           at(k) == Turn(l, k, m)
           rec == BrokenCycle(cyc, l)
           c == rec.tes
           type(k) == CycleEdge(cyc, k)
<1>1. m \in Nat \ {0} /\ m > 1 /\ m \in 1 .. m
  OBVIOUS
<1>2. /\ c \in Seq(1 .. n) /\ Len(c) = m
      /\ \A k \in 1 .. m : at(k) \in 1 .. m /\ c[k] = cyc[at(k)] /\ Succ(c, k) = Succ(cyc, at(k))
      /\ \A j \in 1 .. m : \E k \in 1 .. m : at(k) = j
      /\ at(m) = l
  <2>1. l \in 1 .. m
    OBVIOUS
  <2>2. m = Len(cyc) /\ c = Rotated(cyc, l, m) /\ cyc \in Seq(1 .. n)
    BY DEF BrokenCycle, Rotated
  <2> HIDE DEF m, c, rec, type, at
  <2>3. c \in Seq(1 .. n) /\ IsTurned(c, cyc, l, m)
    BY <2>1, <2>2, Turned, Zenon
  <2>. QED BY <2>3 DEF at, IsTurned
<1>3. \A k \in 1 .. m : type(k) \in SUBSET DepTypes /\ cyc[k] \in 1 .. n
  OBVIOUS
<1>4. \A k \in 1 .. m : /\ Degree(type(k)) \in SUBSET Int /\ Plain(type(k)) = type(k)
                        /\ Less(Degree(type(k)), {TYPE_REQ}) <=> type(k) \cap {TYPE_REQ, TYPE_PREREQ} = {}
                        /\ TYPE_PREREQ \in Degree(type(k)) <=> TYPE_PREREQ \in type(k)
  BY <1>3, DegreeFacts
<1>5. \A k \in 1 .. m : type(k) = EdgeType(edges, cyc[k], Succ(cyc, k))
  BY DEF CycleEdge
<1>6. rec.min = Degree(type(l))
  BY DEF BrokenCycle
<1>7. PICK d \in 1 .. m : rec.max = Degree(type(d)) /\ \A k \in 1 .. m : ~Less(Degree(type(d)), Degree(type(k)))
  <2> DEFINE degs == {Degree(type(k)) : k \in 1 .. m}
             f == [k \in 1 .. m |-> Degree(type(k))]
  <2>1. f \in [1 .. m -> SUBSET Int] /\ \A k \in 1 .. m : f[k] = Degree(type(k))
    BY <1>4
  <2>2. PICK k \in 1 .. m : \A j \in 1 .. m : ~Less(f[k], f[j])
    <3> HIDE DEF f, m
    <3>. QED BY <1>1, <2>1, Extremes
  <2> HIDE DEF f
  <2>3. Degree(type(k)) \in degs /\ \A e \in degs : ~Less(Degree(type(k)), e)
    <3> HIDE DEF type
    <3>. QED BY <2>1, <2>2
  <2>4. rec.max = CHOOSE e \in degs : \A g \in degs : ~Less(e, g)
    BY DEF BrokenCycle
  <2>5. rec.max \in degs /\ \A e \in degs : ~Less(rec.max, e)
    <3> HIDE DEF degs, rec
    <3>. QED BY <2>3, <2>4
  <2>. QED BY <2>5
<1>8. \A k \in 1 .. m : /\ Succ(cyc, k) \in Targets(edges, cyc[k])
                        /\ ~Less(Degree(type(k)), Degree(type(l)))
  OBVIOUS
<1> HIDE DEF m, rec, c, type
<1>9. ASSUME NEW k \in 1 .. m
      PROVE  Succ(c, k) \in Targets(fs, c[k]) /\ PlainEdge(fs, c, k) = type(at(k))
  <2>1. at(k) \in 1 .. m /\ c[k] = cyc[at(k)] /\ Succ(c, k) = Succ(cyc, at(k))
    BY <1>2
  <2> DEFINE j == at(k)
  <2>2. j \in 1 .. m /\ c[k] = cyc[j] /\ Succ(c, k) = Succ(cyc, j)
    BY <2>1
  <2> HIDE DEF j
  <2>3. Succ(cyc, j) \in Targets(fs, cyc[j]) /\ Plain(EdgeType(fs, cyc[j], Succ(cyc, j))) = Plain(EdgeType(edges, cyc[j], Succ(cyc, j)))
    BY <1>3, <1>8, <2>2 DEF Grown
  <2>4. Plain(EdgeType(edges, cyc[j], Succ(cyc, j))) = type(j)
    BY <1>4, <1>5, <2>2
  <2>5. PlainEdge(fs, c, k) = Plain(EdgeType(fs, cyc[j], Succ(cyc, j)))
    BY <2>2 DEF PlainEdge
  <2>6. PlainEdge(fs, c, k) = type(j) /\ Succ(c, k) \in Targets(fs, c[k])
    BY <2>2, <2>3, <2>4, <2>5
  <2>. QED BY <2>6 DEF j
<1> HIDE DEF at
<1>10. c[m] = cyc[l] /\ c[1] = Succ(cyc, l) /\ TYPE_BROKEN \in EdgeType(fs, c[m], c[1])
  <2>1. Succ(c, m) = c[1]
    BY <1>1, <1>2, SuccFacts
  <2>. QED BY <1>1, <1>2, <2>1
<1>11. \A k \in 1 .. m : ~Less(Degree(PlainEdge(fs, c, k)), Degree(PlainEdge(fs, c, m)))
  BY <1>1, <1>2, <1>8, <1>9
<1>12. Less(rec.min, {TYPE_REQ}) <=> \E k \in 1 .. m : PlainEdge(fs, c, k) \cap {TYPE_REQ, TYPE_PREREQ} = {}
  <2>1. (\E k \in 1 .. m : PlainEdge(fs, c, k) \cap {TYPE_REQ, TYPE_PREREQ} = {})
        <=> \E j \in 1 .. m : type(j) \cap {TYPE_REQ, TYPE_PREREQ} = {}
    <3>1. ASSUME NEW k \in 1 .. m, PlainEdge(fs, c, k) \cap {TYPE_REQ, TYPE_PREREQ} = {}
          PROVE  \E j \in 1 .. m : type(j) \cap {TYPE_REQ, TYPE_PREREQ} = {}
      <4>1. type(at(k)) \cap {TYPE_REQ, TYPE_PREREQ} = {} /\ at(k) \in 1 .. m
        BY <1>2, <1>9, <3>1
      <4>. QED BY <4>1
    <3>2. ASSUME NEW j \in 1 .. m, type(j) \cap {TYPE_REQ, TYPE_PREREQ} = {}
          PROVE  \E k \in 1 .. m : PlainEdge(fs, c, k) \cap {TYPE_REQ, TYPE_PREREQ} = {}
      <4>1. PICK k \in 1 .. m : at(k) = j
        BY <1>2
      <4>2. PlainEdge(fs, c, k) = type(j)
        BY <1>9, <4>1
      <4>. QED BY <3>2, <4>2
    <3>. QED BY <3>1, <3>2
  <2>2. ASSUME NEW j \in 1 .. m, type(j) \cap {TYPE_REQ, TYPE_PREREQ} = {} PROVE Less(rec.min, {TYPE_REQ})
    <3> SUFFICES ASSUME ~Less(Degree(type(l)), {TYPE_REQ}) PROVE FALSE
      BY <1>6
    <3>1. Less(Degree(type(j)), {TYPE_REQ})
      BY <1>4, <2>2
    <3>2. Less(Degree(type(j)), Degree(type(l)))
      <4>1. l \in 1 .. m
        BY DEF m
      <4> DEFINE a == Degree(type(j))
                 b == Degree(type(l))
      <4>2. a \in SUBSET Int /\ b \in SUBSET Int
        BY <1>4, <4>1
      <4>3. type(l) \cap {TYPE_REQ, TYPE_PREREQ} # {}
        BY <1>4, <4>1
      <4>4. \E h \in {10, 11} : h \in b
        <5>1. type(l) \in SUBSET DepTypes
          BY <1>3, <4>1
        <5> HIDE DEF b
        <5>. QED BY <4>3, <5>1 DEF b, Degree, TYPE_REQ, TYPE_PREREQ, TYPE_REQ_UU, TYPE_PREREQ_UU
      <4>5. \A x \in a : x < 10
        <5>1. PICK z \in {TYPE_REQ} \ a : \A x \in a \ {TYPE_REQ} : x < z
          BY <3>1 DEF Less
        <5>. QED BY <5>1 DEF TYPE_REQ
      <4> HIDE DEF a, b
      <4>6. PICK h \in {10, 11} : h \in b
        BY <4>4
      <4>7. h \notin a /\ \A x \in a : x < h
        BY <4>2, <4>5
      <4>8. Less(a, b)
        BY <4>6, <4>7 DEF Less
      <4>. QED BY <4>8 DEF a, b
    <3>. QED BY <1>8, <3>2
  <2>3. ASSUME Less(rec.min, {TYPE_REQ}) PROVE \E j \in 1 .. m : type(j) \cap {TYPE_REQ, TYPE_PREREQ} = {}
    <3>1. l \in 1 .. m
      BY DEF m
    <3>. QED BY <1>4, <1>6, <2>3, <3>1
  <2>. QED BY <2>1, <2>2, <2>3
<1>13. TYPE_PREREQ \in rec.max <=> \E k \in 1 .. m : TYPE_PREREQ \in PlainEdge(fs, c, k)
  <2>1. (\E k \in 1 .. m : TYPE_PREREQ \in PlainEdge(fs, c, k)) <=> \E j \in 1 .. m : TYPE_PREREQ \in type(j)
    <3>1. ASSUME NEW k \in 1 .. m, TYPE_PREREQ \in PlainEdge(fs, c, k)
          PROVE  \E j \in 1 .. m : TYPE_PREREQ \in type(j)
      <4>1. TYPE_PREREQ \in type(at(k)) /\ at(k) \in 1 .. m
        BY <1>2, <1>9, <3>1
      <4>. QED BY <4>1
    <3>2. ASSUME NEW j \in 1 .. m, TYPE_PREREQ \in type(j)
          PROVE  \E k \in 1 .. m : TYPE_PREREQ \in PlainEdge(fs, c, k)
      <4>1. PICK k \in 1 .. m : at(k) = j
        BY <1>2
      <4>2. PlainEdge(fs, c, k) = type(j)
        BY <1>9, <4>1
      <4>. QED BY <3>2, <4>2
    <3>. QED BY <3>1, <3>2
  <2>2. TYPE_PREREQ \in rec.max => TYPE_PREREQ \in type(d)
    BY <1>4, <1>7
  <2>3. ASSUME NEW j \in 1 .. m, TYPE_PREREQ \in type(j), TYPE_PREREQ \notin rec.max PROVE FALSE
    <3> DEFINE a == Degree(type(d))
               b == Degree(type(j))
    <3>1. 11 \in b /\ 11 \notin a
      BY <1>4, <1>7, <2>3 DEF TYPE_PREREQ
    <3>2. \A x \in a : x < 11
      <4>1. type(d) \in SUBSET DepTypes
        BY <1>3
      <4>2. \A x \in type(d) : x \in {1, 4, 5, 6, 7, 8, 9, 10, 11}
        BY <4>1 DEF DepTypes, TYPE_CON, TYPE_REQ_UI, TYPE_PREREQ_UI, TYPE_REQ_UU, TYPE_PREREQ_UU,
                    TYPE_SUG, TYPE_REC, TYPE_REQ, TYPE_PREREQ
      <4>3. \A x \in a : x \in {1, 4, 5, 6, 7, 8, 9, 10, 11}
        BY <4>2 DEF Degree, TYPE_REQ_UI, TYPE_PREREQ_UI
      <4> HIDE DEF a, b
      <4> SUFFICES ASSUME NEW x \in a PROVE x < 11
        OBVIOUS
      <4>4. x \in {1, 4, 5, 6, 7, 8, 9, 10, 11} /\ x # 11
        BY <3>1, <4>3
      <4>. QED BY <4>4
    <3> HIDE DEF a, b
    <3>3. Less(a, b)
      BY <3>1, <3>2 DEF Less
    <3>. QED BY <1>7, <3>3 DEF a, b
  <2>. QED BY <2>1, <2>2, <2>3
<1>. QED BY <1>1, <1>2, <1>9, <1>10, <1>11, <1>12, <1>13 DEF Recorded, c, rec

-----------------------------------------------------------------------------
(***************************************************************************)
(* The inductive invariant.                                                *)
(***************************************************************************)
N == Len(edges)

\* The graph and the elements.
ShapeInv ==
  /\ N \in Nat /\ Shaped(edges, N)
  /\ el.uninst \subseteq 1 .. N /\ el.scripts \subseteq 1 .. N
  /\ el.repo \in [1 .. N -> Nat \ {0}] /\ el.media \in [1 .. N -> Nat]
  /\ opc \in {"idle", "break", "cycle", "order", "done", "choices"}
  /\ IF opc = "idle" THEN N = 0 ELSE N > 0

\* What the variables hold.
ValueInv ==
  /\ mark \in [1 .. N -> Int]
  /\ todo \in Stack(N)
  /\ uninstq \in Seq(1 .. N) /\ samerepoq \in Seq(1 .. N)
  /\ order \in Seq(1 .. N) /\ choices \in Seq(1 .. N)
  /\ lastte \in 0 .. N
  /\ early \subseteq chosen /\ chosen \subseteq 1 .. N

\* Every broken edge has a record, and the records are right.
RecordInv ==
  /\ cycles \in Seq(Range(cycles)) /\ cycq \in Seq(Range(cycles))
  /\ \A c \in Range(cycles) : Recorded(edges, N, c)
  /\ \A x \in 1 .. N : \A y \in Targets(edges, x) :
       TYPE_BROKEN \in EdgeType(edges, x, y) =>
         \E c \in Range(cycles) : c.tes[Len(c.tes)] = x /\ c.tes[1] = y

SearchInv ==
  opc = "break" =>
    /\ Search(edges, mark, todo, N)
    /\ \A x \in 1 .. N : \A y \in Targets(edges, x) :
         EdgeType(edges, x, y) \subseteq DepTypes \cup {TYPE_BROKEN}

\* What addcycleedges has done for a cycle.
Requiring(es, x) == {y \in Unbroken(es, x) : Plain(EdgeType(es, x, y)) # {}}

Processed(es, n, c) ==
  LET C == Range(c)
  IN  /\ \A x \in 1 .. n : x \notin Reach(es, C) /\ Requiring(es, x) \cap C # {} => c[1] \in Targets(es, x)
      /\ \A x \in C : \A k \in Requiring(es, x) : Reach(es, {k}) \cap C = {} => k \in Targets(es, c[Len(c)])

CycleInv ==
  /\ opc \in {"cycle", "order"} => Ranked(edges, N, 1 .. N)
  /\ opc \in {"order", "done", "choices"} => cycq = <<>>
  /\ opc \in {"cycle", "order", "done"} =>
       \A c \in Range(cycles) : c \in Range(cycq) \/ Processed(edges, N, c.tes)

\* What was output comes after what it needs.
OutputInv ==
  /\ IsInjective(order)
  /\ \A y \in Range(order) : \A x \in Unbroken(edges, y) : Before(x, y)
  /\ opc \in {"idle", "break", "cycle"} => order = <<>>
  /\ opc \in {"done", "choices"} => Range(order) = 1 .. N
  /\ opc = "done" => \A x \in 1 .. N : mark[x] = 0

\* mark counts what an element waits for, the queues hold what waits for
\* nothing.
Waiting(x) == Cardinality(Unbroken(edges, x) \ Range(order))

QueueInv ==
  opc = "order" =>
    /\ todo \in Seq(1 .. N)
    /\ \A x \in 1 .. N : mark[x] = Waiting(x)
    /\ IsInjective(uninstq) /\ IsInjective(samerepoq) /\ IsInjective(todo)
    /\ Range(uninstq) \cap Range(samerepoq) = {}
    /\ Range(uninstq) \cap Range(todo) = {}
    /\ Range(samerepoq) \cap Range(todo) = {}
    /\ \A x \in 1 .. N : x \in Ready <=> mark[x] = 0 /\ x \notin Range(order)
    /\ \A x \in Range(todo) : ~(el.repo[x] = lastrepo /\ el.media[x] = lastmedia)

\* The same for the choices of the application.
ChoiceInv ==
  IF opc = "choices"
  THEN /\ \A x \in 1 .. N : mark[x] = IF x \in early THEN -1 ELSE Cardinality(Unbroken(edges, x) \ chosen)
       /\ IsInjective(choices)
       /\ Range(choices) = {x \in (1 .. N) \ early : mark[x] = 0}
  ELSE chosen = {} /\ early = {}

OrderInductive ==
  /\ ShapeInv /\ ValueInv /\ RecordInv /\ SearchInv
  /\ CycleInv /\ OutputInv /\ QueueInv /\ ChoiceInv

LEMMA ElementNumbers ==
  ASSUME ShapeInv
  PROVE  TEs = 1 .. N
  BY DEF ShapeInv, Shaped, TEs

\* A step of the search that breaks nothing.
LEMMA SearchStep ==
  ASSUME OrderInductive, opc = "break", UNCHANGED <<el, edges, cycles, cycq, queueVars, choiceVars, opc>>,
         Search(edges, mark', todo', N)
  PROVE  OrderInductive'
<1>1. N' = N
  BY DEF N
<1>2. ShapeInv'
  BY <1>1 DEF OrderInductive, ShapeInv
<1>3. ValueInv'
  <2>1. mark' \in [1 .. N -> 0 .. 2] /\ todo' \in Stack(N)
    BY DEF Search
  <2>2. mark' \in [1 .. N -> Int]
    BY <2>1
  <2>. QED BY <1>1, <2>1, <2>2 DEF OrderInductive, ValueInv, queueVars, choiceVars
<1>4. RecordInv'
  BY <1>1 DEF OrderInductive, RecordInv
<1>5. SearchInv'
  BY <1>1 DEF OrderInductive, SearchInv
<1>6. CycleInv'
  BY <1>1 DEF OrderInductive, CycleInv
<1>7. OutputInv'
  BY <1>1 DEF OrderInductive, OutputInv, Before, queueVars
<1>8. QueueInv'
  BY DEF QueueInv
<1>9. ChoiceInv'
  BY DEF OrderInductive, ChoiceInv, choiceVars
<1>. QED BY <1>2, <1>3, <1>4, <1>5, <1>6, <1>7, <1>8, <1>9 DEF OrderInductive

LEMMA EndOfEdgesKeeps ==
  ASSUME OrderInductive, EndOfEdges
  PROVE  OrderInductive'
<1> DEFINE a == -Last(todo)
           L == Len(todo)
<1>1. /\ opc = "break" /\ todo # <<>> /\ Last(todo) < 0
      /\ mark' = [mark EXCEPT ![a] = 2] /\ todo' = Front(todo)
      /\ UNCHANGED <<el, edges, cycles, cycq, queueVars, choiceVars, opc>>
  BY DEF EndOfEdges, Searching
<1>2. Search(edges, mark, todo, N) /\ N \in Nat /\ todo \in Stack(N)
  BY <1>1 DEF OrderInductive, SearchInv, ShapeInv, Search
<1>3. L \in 1 .. L /\ Last(todo) = todo[L]
  BY <1>1, <1>2, StackTop
<1>4. a = Abs(Last(todo)) /\ a = -todo[L] /\ todo[L] < 0
  BY <1>1, <1>3 DEF Abs
<1>5. \A y \in Unbroken(edges, a) : mark[y] = 2
  <2> SUFFICES ASSUME NEW y \in Unbroken(edges, a), mark[y] # 2 PROVE FALSE
    OBVIOUS
  <2>1. PICK q \in 1 .. L : NextTo(todo, L, q)
    BY <1>2, <1>3, <1>4 DEF Search, Children
  <2>. QED BY <1>3, <2>1 DEF NextTo
<1>6. ~(Last(todo) > 0)
  <2>1. todo[L] \in Int
    BY <1>2, <1>3, StackEntry
  <2>. QED BY <1>3, <1>4, <2>1
<1> HIDE DEF a
<1>7. Search(edges, [mark EXCEPT ![a] = 2], Front(todo), N)
  BY <1>1, <1>2, <1>4, <1>5, <1>6, SearchPop
<1>. QED BY <1>1, <1>7, SearchStep DEF a

LEMMA AlreadyFinishedKeeps ==
  ASSUME OrderInductive, AlreadyFinished
  PROVE  OrderInductive'
<1> DEFINE a == Last(todo)
           L == Len(todo)
<1>1. /\ opc = "break" /\ todo # <<>> /\ a > 0 /\ mark[a] = 2
      /\ mark' = mark /\ todo' = Front(todo)
      /\ UNCHANGED <<el, edges, cycles, cycq, queueVars, choiceVars, opc>>
  BY DEF AlreadyFinished, Searching
<1>2. Search(edges, mark, todo, N) /\ N \in Nat /\ todo \in Stack(N)
  BY <1>1 DEF OrderInductive, SearchInv, ShapeInv, Search
<1>3. L \in 1 .. L /\ a = todo[L]
  BY <1>1, <1>2, StackTop
<1>4. a \in 1 .. N /\ Abs(a) = a
  BY <1>1, <1>2, <1>3, StackEntry
<1>5. \A y \in Unbroken(edges, a) : mark[y] = 2
  BY <1>1, <1>2, <1>4 DEF Search, Finished
<1>6. [mark EXCEPT ![a] = 2] = mark
  <2>1. mark \in [1 .. N -> 0 .. 2]
    BY <1>2 DEF Search
  <2> HIDE DEF a
  <2>. QED BY <1>1, <1>4, <2>1
<1>7. Search(edges, [mark EXCEPT ![a] = 2], Front(todo), N)
  <2>1. a = Abs(Last(todo)) /\ (Last(todo) > 0 => mark[a] # 1)
    BY <1>1, <1>4
  <2> HIDE DEF a
  <2>. QED BY <1>1, <1>2, <1>5, <2>1, SearchPop
<1>. QED BY <1>1, <1>6, <1>7, SearchStep

LEMMA VisitEdgesKeeps ==
  ASSUME OrderInductive, VisitEdges
  PROVE  OrderInductive'
<1> DEFINE i == Last(todo)
           L == Len(todo)
           A == {e \in Range(edges[i]) : TYPE_BROKEN \notin e.type /\ mark[e.to] # 2}
           open == Those(edges[i], A)
           targets == [k \in DOMAIN open |-> open[k].to]
<1>1. /\ opc = "break" /\ todo # <<>> /\ i > 0 /\ mark[i] = 0
      /\ UNCHANGED <<el, edges, cycles, cycq, queueVars, choiceVars, opc>>
  BY DEF VisitEdges, Searching
<1>2. IF open = <<>> THEN mark' = [mark EXCEPT ![i] = 2] /\ todo' = Front(todo)
      ELSE mark' = [mark EXCEPT ![i] = 1] /\ todo' = Front(todo) \o <<-i>> \o targets
  BY DEF VisitEdges
<1>3. Search(edges, mark, todo, N) /\ N \in Nat /\ todo \in Stack(N) /\ Shaped(edges, N)
  BY <1>1 DEF OrderInductive, SearchInv, ShapeInv, Search
<1>4. L \in 1 .. L /\ i = todo[L]
  BY <1>1, <1>3, StackTop
<1>5. i \in 1 .. N /\ Abs(i) = i
  BY <1>1, <1>3, <1>4, StackEntry
<1>6. edges[i] \in Seq(Edge(1 .. N))
  BY <1>3, <1>5 DEF Shaped
<1>7. open \in Seq(Edge(1 .. N)) /\ Range(open) = Range(edges[i]) \cap A
  BY <1>6, ThoseFacts
<1>8. Range(open) = A
  BY <1>7
<1> HIDE DEF open
<1>9. targets \in Seq(1 .. N) /\ Len(targets) = Len(open) /\ DOMAIN open = 1 .. Len(open)
      /\ \A k \in 1 .. Len(open) : targets[k] = open[k].to
  <2>1. \A k \in 1 .. Len(open) : open[k].to \in 1 .. N
    <3>1. \A k \in 1 .. Len(open) : open[k] \in Edge(1 .. N)
      BY <1>7
    <3>. QED BY <3>1 DEF Edge
  <2>2. Len(open) \in Nat /\ DOMAIN open = 1 .. Len(open)
    BY <1>7
  <2>. QED BY <2>1, <2>2
<1> HIDE DEF targets
<1>10. \A y \in Unbroken(edges, i) : mark[y] = 2 \/ y \in Range(targets)
  <2> SUFFICES ASSUME NEW y \in Unbroken(edges, i), mark[y] # 2 PROVE y \in Range(targets)
    OBVIOUS
  <2>1. PICK j \in DOMAIN edges[i] : TYPE_BROKEN \notin edges[i][j].type /\ edges[i][j].to = y
    BY DEF Unbroken
  <2>2. edges[i][j] \in A
    BY <2>1 DEF Range
  <2>3. PICK k \in 1 .. Len(open) : open[k] = edges[i][j]
    BY <1>8, <1>9, <2>2 DEF Range
  <2>4. targets[k] = y /\ k \in DOMAIN targets
    BY <1>9, <2>1, <2>3
  <2>. QED BY <2>4 DEF Range
<1>11. Range(targets) \subseteq Unbroken(edges, i)
  <2> SUFFICES ASSUME NEW k \in 1 .. Len(open) PROVE targets[k] \in Unbroken(edges, i)
    BY <1>9 DEF Range
  <2>1. open[k] \in A
    BY <1>8, <1>9 DEF Range
  <2>2. PICK j \in DOMAIN edges[i] : edges[i][j] = open[k] /\ TYPE_BROKEN \notin edges[i][j].type
    BY <2>1 DEF Range
  <2>. QED BY <1>9, <2>2 DEF Unbroken
<1> HIDE DEF A
<1>12. CASE open = <<>>
  <2>1. \A y \in Unbroken(edges, i) : mark[y] = 2
    <3>1. Len(targets) = 0 /\ DOMAIN targets = 1 .. Len(targets)
      BY <1>9, <1>12
    <3>2. Range(targets) = {}
      BY <3>1 DEF Range
    <3>. QED BY <1>10, <3>2
  <2>2. Search(edges, [mark EXCEPT ![i] = 2], Front(todo), N)
    <3>1. i = Abs(Last(todo)) /\ (Last(todo) > 0 => mark[i] # 1)
      BY <1>1, <1>5
    <3> HIDE DEF i
    <3>. QED BY <1>1, <1>3, <2>1, <3>1, SearchPop
  <2>. QED BY <1>1, <1>2, <1>12, <2>2, SearchStep
<1>13. CASE open # <<>>
  <2>1. Search(edges, [mark EXCEPT ![i] = 1], Front(todo) \o <<-i>> \o targets, N)
    <3>1. i = Last(todo)
      OBVIOUS
    <3>2. targets \in Seq(1 .. N)
      BY <1>9
    <3> HIDE DEF i
    <3>. QED BY <1>1, <1>3, <1>10, <1>11, <3>1, <3>2, SearchPush
  <2>. QED BY <1>1, <1>2, <1>13, <2>1, SearchStep
<1>. QED BY <1>12, <1>13

LEMMA SeqGrows ==
  ASSUME NEW S, NEW T, S \subseteq T, NEW s \in Seq(S)
  PROVE  s \in Seq(T)
<1>1. \A k \in 1 .. Len(s) : s[k] \in T
  OBVIOUS
<1>. QED BY <1>1

LEMMA ShapedLen ==
  ASSUME NEW n \in Nat, NEW es, Shaped(es, n)
  PROVE  Len(es) = n /\ DOMAIN es = 1 .. n
  BY DEF Shaped

\* Breaking an edge changes nothing else.
OneBroken(es, fs, n, from, to) ==
  /\ Shaped(fs, n) /\ Grown(es, fs, n)
  /\ \A x \in 1 .. n : Targets(fs, x) = Targets(es, x)
  /\ \A x \in 1 .. n : \A y \in Targets(es, x) :
       EdgeType(fs, x, y) = IF x = from /\ y = to THEN EdgeType(es, x, y) \cup {TYPE_BROKEN}
                            ELSE EdgeType(es, x, y)
  /\ \A x \in 1 .. n : x # from => Unbroken(fs, x) = Unbroken(es, x)
  /\ Unbroken(fs, from) = Unbroken(es, from) \ {to}

LEMMA BreakEdge ==
  ASSUME NEW n \in Nat, NEW es, Shaped(es, n), NEW from \in 1 .. n, NEW to \in Targets(es, from)
  PROVE  OneBroken(es, addteedge(es, from, to, {TYPE_BROKEN}), n, from, to)
<1> DEFINE fs == addteedge(es, from, to, {TYPE_BROKEN})
<1>1. to \in 1 .. n /\ to # from
  <2>1. Targets(es, from) \subseteq 1 .. n
    BY UnbrokenFacts
  <2>2. \A i \in DOMAIN es[from] : es[from][i].to # from
    BY DEF Shaped
  <2>. QED BY <2>1, <2>2 DEF Targets
<1>2. {TYPE_BROKEN} \in SUBSET Types
  BY DEF Types
<1>3. /\ Shaped(fs, n)
      /\ \A x \in 1 .. n \ {from} : fs[x] = es[x]
      /\ Targets(fs, from) = Targets(es, from) \cup {to}
      /\ \A y \in Targets(es, from) \ {to} : EdgeType(fs, from, y) = EdgeType(es, from, y)
      /\ EdgeType(fs, from, to) = IF to \in Targets(es, from) THEN EdgeType(es, from, to) \cup {TYPE_BROKEN} ELSE {TYPE_BROKEN}
  BY <1>1, <1>2, AddOne
<1> HIDE DEF fs
<1>4. ASSUME NEW x \in 1 .. n, x # from
      PROVE  Targets(fs, x) = Targets(es, x) /\ Unbroken(fs, x) = Unbroken(es, x)
  <2>1. fs[x] = es[x]
    BY <1>3, <1>4
  <2>. QED BY <2>1 DEF Targets, Unbroken
<1>5. \A x \in 1 .. n : x # from => \A y : EdgeType(fs, x, y) = EdgeType(es, x, y)
  <2> SUFFICES ASSUME NEW x \in 1 .. n, x # from, NEW y PROVE EdgeType(fs, x, y) = EdgeType(es, x, y)
    OBVIOUS
  <2>1. fs[x] = es[x]
    BY <1>3
  <2>2. EdgeIndex(fs, x, y) = EdgeIndex(es, x, y)
    BY <2>1 DEF EdgeIndex
  <2>. QED BY <2>1, <2>2, Zenon DEF EdgeType
<1>6. \A x \in 1 .. n : Targets(fs, x) = Targets(es, x)
  BY <1>3, <1>4
<1>7. ASSUME NEW x \in 1 .. n, NEW y \in Targets(es, x)
      PROVE  EdgeType(fs, x, y) = IF x = from /\ y = to THEN EdgeType(es, x, y) \cup {TYPE_BROKEN}
                                  ELSE EdgeType(es, x, y)
  BY <1>3, <1>5
<1>8. Grown(es, fs, n)
  <2> SUFFICES ASSUME NEW x \in 1 .. n, NEW y \in Targets(es, x)
               PROVE  /\ y \in Targets(fs, x)
                      /\ Plain(EdgeType(fs, x, y)) = Plain(EdgeType(es, x, y))
                      /\ TYPE_BROKEN \in EdgeType(es, x, y) => TYPE_BROKEN \in EdgeType(fs, x, y)
    BY DEF Grown
  <2>1. \/ EdgeType(fs, x, y) = EdgeType(es, x, y)
        \/ EdgeType(fs, x, y) = EdgeType(es, x, y) \cup {TYPE_BROKEN}
    BY <1>7
  <2>. QED BY <1>6, <2>1 DEF Plain
<1>9. Unbroken(fs, from) = Unbroken(es, from) \ {to}
  <2>1. \A y : y \in Unbroken(fs, from) <=> y \in Targets(fs, from) /\ TYPE_BROKEN \notin EdgeType(fs, from, y)
    BY <1>3, UnbrokenFacts
  <2>2. \A y : y \in Unbroken(es, from) <=> y \in Targets(es, from) /\ TYPE_BROKEN \notin EdgeType(es, from, y)
    BY UnbrokenFacts
  <2>3. ASSUME NEW y PROVE y \in Unbroken(fs, from) <=> y \in Unbroken(es, from) /\ y # to
    <3>1. y \in Targets(fs, from) <=> y \in Targets(es, from)
      BY <1>6
    <3>2. CASE y = to
      BY <1>7, <2>1, <3>2
    <3>3. CASE y # to
      BY <1>3, <2>1, <2>2, <3>1, <3>3
    <3>. QED BY <3>2, <3>3
  <2>. QED BY <2>3
<1>. QED BY <1>3, <1>4, <1>6, <1>7, <1>8, <1>9 DEF fs, OneBroken

\* The cycle that BreakCycle has met, and where it starts on the stack.
MetCycle == CyclePath(Front(todo), Last(todo))
MetStart == CycleStart(Front(todo), Last(todo))

LEMMA MetCycleFacts ==
  ASSUME OrderInductive, BreakCycle
  PROVE  /\ MetStart \in 1 .. Len(todo) - 1 /\ todo[MetStart] = -Last(todo)
         /\ MetCycle \in Seq(1 .. N) /\ Len(MetCycle) > 1
         /\ Len(MetCycle) \in Nat \ {0} /\ DOMAIN MetCycle = 1 .. Len(MetCycle)
         /\ \A k \in 1 .. Len(MetCycle) : /\ MetCycle[k] \in 1 .. N
                                          /\ Succ(MetCycle, k) \in Unbroken(edges, MetCycle[k])
                                          /\ Succ(MetCycle, k) \in Targets(edges, MetCycle[k])
                                          /\ CycleEdge(MetCycle, k) \in SUBSET DepTypes
         /\ \A x \in 1 .. N : x \in Range(MetCycle) <=> \E p \in MetStart .. Len(todo) - 1 : todo[p] = -x
         /\ EdgeToBreak(MetCycle) \in 1 .. Len(MetCycle)
         /\ \A j \in 1 .. Len(MetCycle) :
              ~Less(Degree(CycleEdge(MetCycle, j)), Degree(CycleEdge(MetCycle, EdgeToBreak(MetCycle))))
<1> DEFINE i == Last(todo)
           L == Len(todo)
           c == MetStart
           cyc == MetCycle
           m == Len(cyc)
<1>1. opc = "break" /\ todo # <<>> /\ i > 0 /\ mark[i] = 1
  BY DEF BreakCycle, Searching
<1>2. /\ Search(edges, mark, todo, N) /\ N \in Nat /\ Shaped(edges, N) /\ TEs = 1 .. N
      /\ \A x \in 1 .. N : \A y \in Targets(edges, x) : EdgeType(edges, x, y) \subseteq DepTypes \cup {TYPE_BROKEN}
  BY <1>1, ElementNumbers DEF OrderInductive, SearchInv, ShapeInv
<1>3. /\ c \in 1 .. L - 1 /\ todo[c] = -i
      /\ cyc \in Seq(1 .. N) /\ m > 1
      /\ \A k \in 1 .. m : mark[cyc[k]] = 1 /\ Succ(cyc, k) \in Unbroken(edges, cyc[k])
      /\ \A x \in 1 .. N : x \in Range(cyc) <=> \E p \in c .. L - 1 : todo[p] = -x
  <2>1. i = Last(todo)
    OBVIOUS
  <2> HIDE DEF i
  <2>. QED BY <1>1, <1>2, <2>1, CycleFacts DEF MetStart, MetCycle, i
<1>4. m \in Nat \ {0} /\ DOMAIN cyc = 1 .. m /\ \A k \in 1 .. m : cyc[k] \in 1 .. N
  <2> HIDE DEF cyc
  <2>1. cyc \in Seq(1 .. N) /\ Len(cyc) > 1
    BY <1>3
  <2>2. Len(cyc) \in Nat /\ DOMAIN cyc = 1 .. Len(cyc)
    BY <2>1
  <2>3. \A k \in 1 .. Len(cyc) : cyc[k] \in 1 .. N
    <3> DEFINE E == 1 .. N
    <3>1. cyc \in Seq(E)
      BY <2>1
    <3> HIDE DEF E
    <3>2. \A k \in 1 .. Len(cyc) : cyc[k] \in E
      BY <3>1
    <3>. QED BY <3>2 DEF E
  <2>. QED BY <2>1, <2>2, <2>3
<1>5. \A k \in 1 .. m : Succ(cyc, k) \in Targets(edges, cyc[k]) /\ CycleEdge(cyc, k) \in SUBSET DepTypes
  <2> SUFFICES ASSUME NEW k \in 1 .. m
               PROVE  Succ(cyc, k) \in Targets(edges, cyc[k]) /\ CycleEdge(cyc, k) \in SUBSET DepTypes
    OBVIOUS
  <2> DEFINE x == cyc[k]
             y == Succ(cyc, k)
  <2>1. x \in 1 .. N /\ y \in Unbroken(edges, x)
    BY <1>3, <1>4
  <2>2. CycleEdge(cyc, k) = EdgeType(edges, x, y)
    BY DEF CycleEdge
  <2> HIDE DEF x, y
  <2>3. y \in Targets(edges, x) /\ TYPE_BROKEN \notin EdgeType(edges, x, y)
    BY <1>2, <2>1, UnbrokenFacts
  <2>4. EdgeType(edges, x, y) \subseteq DepTypes \cup {TYPE_BROKEN}
    BY <1>2, <2>1, <2>3
  <2>. QED BY <2>2, <2>3, <2>4 DEF x, y
<1> HIDE DEF i, L, c, cyc, m
<1>6. EdgeToBreak(cyc) \in 1 .. m
      /\ \A j \in 1 .. m : ~Less(Degree(CycleEdge(cyc, j)), Degree(CycleEdge(cyc, EdgeToBreak(cyc))))
  BY <1>4, <1>5, EdgeToBreakFacts
<1>. QED BY <1>3, <1>4, <1>5, <1>6 DEF i, L, c, cyc, m

LEMMA BreakCycleKeeps ==
  ASSUME OrderInductive, BreakCycle
  PROVE  OrderInductive'
<1> DEFINE i == Last(todo)
           stack == Front(todo)
           L == Len(todo)
           c == CycleStart(stack, i)
           cyc == CyclePath(stack, i)
           m == Len(cyc)
           l == EdgeToBreak(cyc)
           rec == BrokenCycle(cyc, l)
           from == cyc[l]
           to == Succ(cyc, l)
           C == Range(cyc)
<1>1. /\ opc = "break" /\ todo # <<>> /\ i > 0 /\ mark[i] = 1
      /\ cycles' = Append(cycles, rec)
      /\ edges' = addteedge(edges, from, to, {TYPE_BROKEN})
      /\ mark' = [x \in TEs |-> IF x \in C THEN 0 ELSE mark[x]]
      /\ todo' = Append(SubSeq(stack, 1, c - 1), i)
      /\ UNCHANGED <<el, cycq, queueVars, choiceVars, opc>>
  BY DEF BreakCycle, Searching
<1>2. /\ Search(edges, mark, todo, N) /\ N \in Nat /\ todo \in Stack(N) /\ Shaped(edges, N) /\ TEs = 1 .. N
      /\ \A x \in 1 .. N : \A y \in Targets(edges, x) : EdgeType(edges, x, y) \subseteq DepTypes \cup {TYPE_BROKEN}
  BY <1>1, ElementNumbers DEF OrderInductive, SearchInv, ShapeInv, Search
<1>3. /\ c \in 1 .. L - 1 /\ todo[c] = -i
      /\ cyc \in Seq(1 .. N) /\ m > 1 /\ m \in Nat \ {0} /\ DOMAIN cyc = 1 .. m
      /\ \A k \in 1 .. m : /\ cyc[k] \in 1 .. N
                          /\ Succ(cyc, k) \in Targets(edges, cyc[k])
                          /\ CycleEdge(cyc, k) \in SUBSET DepTypes
      /\ \A x \in 1 .. N : x \in C <=> \E p \in c .. L - 1 : todo[p] = -x
      /\ l \in 1 .. m /\ \A j \in 1 .. m : ~Less(Degree(CycleEdge(cyc, j)), Degree(CycleEdge(cyc, l)))
  BY MetCycleFacts DEF MetCycle, MetStart
<1> HIDE DEF i, stack, L, c, cyc, m
<1> HIDE DEF l
<1>4. from \in 1 .. N /\ to \in Targets(edges, from)
  BY <1>3
<1> HIDE DEF from, to
<1> DEFINE fs == addteedge(edges, from, to, {TYPE_BROKEN})
<1>5. /\ Shaped(fs, N) /\ Grown(edges, fs, N)
      /\ \A x \in 1 .. N : Targets(fs, x) = Targets(edges, x)
      /\ \A x \in 1 .. N : \A y \in Targets(edges, x) :
           EdgeType(fs, x, y) = IF x = from /\ y = to THEN EdgeType(edges, x, y) \cup {TYPE_BROKEN}
                                ELSE EdgeType(edges, x, y)
      /\ \A x \in 1 .. N : x # from => Unbroken(fs, x) = Unbroken(edges, x)
      /\ Unbroken(fs, from) = Unbroken(edges, from) \ {to}
  <2>1. OneBroken(edges, fs, N, from, to)
    BY <1>2, <1>4, BreakEdge
  <2> HIDE DEF fs
  <2>. QED BY <2>1 DEF OneBroken
<1>6. fs = edges'
  BY <1>1
<1> HIDE DEF fs
<1>7. N' = N
  BY <1>2, <1>5, <1>6, ShapedLen DEF N
<1> HIDE DEF C
<1>8. C \subseteq 1 .. N /\ from \in C
  BY <1>3 DEF C, Range, from
<1>9. Search(fs, mark', todo', N)
  <2> DEFINE b == Append(SubSeq(stack, 1, c - 1), i)
  <2>1. /\ L \in Nat \ {0} /\ stack \in Stack(N) /\ Len(stack) = L - 1
        /\ \A q \in 1 .. L - 1 : stack[q] = todo[q]
    BY <1>1, <1>2, StackTop DEF L, stack
  <2>2. i \in 1 .. N
    <3>1. L \in 1 .. L /\ i = todo[L]
      BY <1>1, <1>2, StackTop DEF L, i
    <3>. QED BY <1>1, <1>2, <3>1, StackEntry DEF L
  <2>3. b \in Stack(N) /\ Len(b) = c /\ b[c] = i /\ \A q \in 1 .. c - 1 : b[q] = todo[q]
    <3> DEFINE S == (1 .. N) \cup {-x : x \in 1 .. N}
               t == SubSeq(stack, 1, c - 1)
    <3>1. 1 \in 1 .. Len(stack) + 1 /\ c - 1 \in 0 .. Len(stack) /\ 1 <= (c - 1) + 1 /\ (c - 1) - 1 + 1 = c - 1
          /\ \A q \in 1 .. c - 1 : 1 + q - 1 = q /\ q \in 1 .. L - 1
      BY <1>3, <2>1
    <3>2. stack \in Seq(S)
      BY <2>1 DEF Stack
    <3> HIDE DEF S
    <3>3. /\ t \in Seq(S) /\ Len(t) = (c - 1) - 1 + 1
          /\ \A q \in 1 .. (c - 1) - 1 + 1 : t[q] = stack[1 + q - 1]
      BY <3>1, <3>2, Slice
    <3> HIDE DEF t
    <3>4. t \in Seq(S) /\ Len(t) = c - 1 /\ \A q \in 1 .. c - 1 : t[q] = todo[q]
      BY <2>1, <3>1, <3>3
    <3>5. i \in S
      BY <2>2 DEF S
    <3>6. b = Append(t, i)
      BY DEF t
    <3> HIDE DEF b
    <3>7. b \in Seq(S) /\ Len(b) = Len(t) + 1 /\ b[Len(t) + 1] = i /\ \A q \in 1 .. Len(t) : b[q] = t[q]
      BY <3>4, <3>5, <3>6
    <3>. QED BY <1>3, <3>4, <3>7 DEF Stack, S
  <2>4. \A x \in 1 .. N : Unbroken(fs, x) \subseteq Unbroken(edges, x)
    BY <1>5
  <2>5. \A x \in 1 .. N \ C : Unbroken(fs, x) = Unbroken(edges, x)
    BY <1>5, <1>8
  <2>6. i = Last(todo) /\ i > 0 /\ c \in 1 .. Len(todo) - 1 /\ todo[c] = -i
        /\ \A x \in 1 .. N : x \in C <=> \E p \in c .. Len(todo) - 1 : todo[p] = -x
    BY <1>1, <1>3 DEF i, L, C
  <2> HIDE DEF b
  <2>7. Search(fs, [x \in 1 .. N |-> IF x \in C THEN 0 ELSE mark[x]], b, N)
    <3>1. N \in Nat /\ Search(edges, mark, todo, N) /\ todo # <<>> /\ Shaped(fs, N)
      BY <1>1, <1>2, <1>5
    <3>2. b \in Stack(N) /\ Len(b) = c /\ b[c] = i /\ \A q \in 1 .. c - 1 : b[q] = todo[q]
      BY <2>3
    <3>3. C \subseteq 1 .. N
      BY <1>8
    <3>4. Restarts(edges, todo, N, i, c, C, fs, b)
      BY <2>4, <2>5, <2>6, <3>1, <3>2, <3>3 DEF Restarts
    <3>. QED BY <3>1, <3>4, SearchRestart
  <2>. QED BY <1>1, <1>2, <2>7 DEF b, C
<1>10. Recorded(fs, N, rec) /\ rec.tes[Len(rec.tes)] = from /\ rec.tes[1] = to
  <2>1. TYPE_BROKEN \in EdgeType(fs, cyc[l], Succ(cyc, l))
    BY <1>4, <1>5 DEF from, to
  <2>2. cyc \in Seq(1 .. N) /\ Len(cyc) > 1 /\ l \in 1 .. Len(cyc)
        /\ \A k \in 1 .. Len(cyc) : /\ Succ(cyc, k) \in Targets(edges, cyc[k])
                                    /\ CycleEdge(cyc, k) \in SUBSET DepTypes
                                    /\ ~Less(Degree(CycleEdge(cyc, k)), Degree(CycleEdge(cyc, l)))
    BY <1>3 DEF m
  <2>. QED BY <1>2, <1>5, <2>1, <2>2, CycleRecorded DEF from, to
<1> HIDE DEF rec
<1>11. ShapeInv'
  BY <1>1, <1>5, <1>6, <1>7 DEF OrderInductive, ShapeInv
<1>12. ValueInv'
  <2>1. mark' \in [1 .. N -> 0 .. 2] /\ todo' \in Stack(N)
    BY <1>9 DEF Search
  <2>2. mark' \in [1 .. N -> Int]
    BY <2>1
  <2>. QED BY <1>1, <1>7, <2>1, <2>2 DEF OrderInductive, ValueInv, queueVars, choiceVars
<1>13. RecordInv'
  <2> DEFINE S == Range(cycles) \cup {rec}
  <2>1. cycles \in Seq(Range(cycles)) /\ cycq \in Seq(Range(cycles))
    BY DEF OrderInductive, RecordInv
  <2>2. cycles \in Seq(S) /\ cycq \in Seq(S) /\ rec \in S
    BY <2>1, SeqGrows
  <2>3. cycles' \in Seq(S) /\ Range(cycles') = S
    <3> HIDE DEF S
    <3>1. Append(cycles, rec) \in Seq(S) /\ Range(Append(cycles, rec)) = Range(cycles) \cup {rec}
      BY <2>2, AppendFacts
    <3>. QED BY <1>1, <3>1 DEF S
  <2>4. cycq' \in Seq(S)
    BY <1>1, <2>2
  <2>5. \A r \in S : Recorded(fs, N, r)
    <3>1. \A r \in Range(cycles) : Recorded(edges, N, r)
      BY DEF OrderInductive, RecordInv
    <3>2. \A r \in Range(cycles) : Recorded(fs, N, r)
      BY <1>2, <1>5, <3>1, RecordKept
    <3>. QED BY <1>10, <3>2
  <2>6. ASSUME NEW x \in 1 .. N, NEW y \in Targets(fs, x), TYPE_BROKEN \in EdgeType(fs, x, y)
        PROVE  \E r \in S : r.tes[Len(r.tes)] = x /\ r.tes[1] = y
    <3>1. CASE x = from /\ y = to
      BY <1>10, <3>1
    <3>2. CASE ~(x = from /\ y = to)
      <4>1. y \in Targets(edges, x) /\ TYPE_BROKEN \in EdgeType(edges, x, y)
        BY <1>5, <2>6, <3>2
      <4>. QED BY <4>1 DEF OrderInductive, RecordInv
    <3>. QED BY <3>1, <3>2
  <2> HIDE DEF S
  <2>7. \A x \in 1 .. N' : \A y \in Targets(edges', x) : TYPE_BROKEN \in EdgeType(edges', x, y) =>
          \E r \in Range(cycles') : r.tes[Len(r.tes)] = x /\ r.tes[1] = y
    BY <1>6, <1>7, <2>3, <2>6
  <2>8. \A r \in Range(cycles') : Recorded(edges', N', r)
    BY <1>6, <1>7, <2>3, <2>5
  <2>9. cycles' \in Seq(Range(cycles')) /\ cycq' \in Seq(Range(cycles'))
    BY <2>3, <2>4
  <2>. QED BY <2>7, <2>8, <2>9 DEF RecordInv
<1>14. SearchInv'
  <2>1. ASSUME NEW x \in 1 .. N, NEW y \in Targets(fs, x)
        PROVE  EdgeType(fs, x, y) \subseteq DepTypes \cup {TYPE_BROKEN}
    BY <1>2, <1>5
  <2>2. \A x \in 1 .. N' : \A y \in Targets(edges', x) : EdgeType(edges', x, y) \subseteq DepTypes \cup {TYPE_BROKEN}
    BY <1>6, <1>7, <2>1
  <2>3. Search(edges', mark', todo', N')
    BY <1>6, <1>7, <1>9
  <2>. QED BY <2>2, <2>3 DEF SearchInv
<1>15. CycleInv'
  BY <1>1 DEF CycleInv
<1>16. OutputInv'
  <2>1. order = <<>> /\ order' = order
    BY <1>1 DEF OrderInductive, OutputInv, queueVars
  <2>2. Range(order) = {} /\ IsInjective(order)
    BY <2>1 DEF Range, IsInjective
  <2>3. Range(order') = {} /\ IsInjective(order') /\ order' = <<>>
    BY <2>1, <2>2
  <2>. QED BY <1>1, <2>3 DEF OutputInv
<1>17. QueueInv'
  BY <1>1 DEF QueueInv
<1>18. ChoiceInv'
  BY <1>1 DEF OrderInductive, ChoiceInv, choiceVars
<1>. QED BY <1>11, <1>12, <1>13, <1>14, <1>15, <1>16, <1>17, <1>18 DEF OrderInductive

\* How FlattenSeq goes through a sequence of sequences.
FlattenSteps(f, ss) ==
  f = [i \in 1 .. Len(ss) |-> IF i = 1 THEN ss[i] ELSE f[i - 1] \o ss[i]]

LEMMA FlattenStepsExist ==
  ASSUME NEW S, NEW ss \in Seq(Seq(S))
  PROVE  \E f : FlattenSteps(f, ss)
<1> DEFINE h == [i \in 1 .. Len(ss) |-> [x \in Seq(S) |-> IF i = 1 THEN ss[i] ELSE x \o ss[i]]]
           n == Len(ss)
<1>0. \A i \in 1 .. n : ss[i] \in Seq(S)
  OBVIOUS
<1>1. h \in [1 .. n -> [Seq(S) -> Seq(S)]]
  BY <1>0
<1>2. n \in Nat /\ <<>> \in Seq(S)
  OBVIOUS
<1>3. PICK g \in [0 .. n -> Seq(S)] : Stepwise(g, n, <<>>, h)
  <2> HIDE DEF h, n
  <2>. QED BY <1>1, <1>2, StepsExist
<1> DEFINE f == [i \in 1 .. n |-> g[i]]
           F(i) == IF i = 1 THEN ss[i] ELSE f[i - 1] \o ss[i]
<1>4. ASSUME NEW i \in 1 .. n PROVE f[i] = F(i)
  <2>1. i - 1 \in 0 .. n /\ i \in 0 .. n /\ (i # 1 => i - 1 \in 1 .. n)
    BY <1>2
  <2>2. g[i] = h[i][g[i - 1]] /\ g[i - 1] \in Seq(S)
    BY <1>3, <2>1 DEF Stepwise
  <2>3. g[i] = IF i = 1 THEN ss[i] ELSE g[i - 1] \o ss[i]
    BY <2>2
  <2>4. i # 1 => f[i - 1] = g[i - 1]
    BY <2>1
  <2>. QED BY <2>3, <2>4
<1>5. f = [i \in 1 .. n |-> F(i)]
  <2>1. f = [i \in 1 .. n |-> f[i]]
    OBVIOUS
  <2> HIDE DEF F, f
  <2>. QED BY <1>4, <2>1
<1>6. FlattenSteps(f, ss)
  BY <1>5 DEF FlattenSteps
<1>. QED BY <1>6

LEMMA FlattenFacts ==
  ASSUME NEW S, NEW ss \in Seq(Seq(S))
  PROVE  /\ FlattenSeq(ss) \in Seq(S)
         /\ \A x : x \in Range(FlattenSeq(ss)) <=> \E i \in 1 .. Len(ss) : x \in Range(ss[i])
<1> DEFINE n == Len(ss)
           f == CHOOSE x : FlattenSteps(x, ss)
<1>1. n \in Nat /\ \A i \in 1 .. n : ss[i] \in Seq(S)
  OBVIOUS
<1>2. CASE n = 0
  <2>1. ss = <<>> /\ FlattenSeq(ss) = ss
    BY <1>2 DEF FlattenSeq
  <2>2. FlattenSeq(ss) = <<>>
    BY <2>1
  <2>3. Range(FlattenSeq(ss)) = {}
    BY <2>2 DEF Range
  <2>. QED BY <1>2, <2>2, <2>3
<1>3. CASE n # 0
  <2>1. FlattenSteps(f, ss)
    BY FlattenStepsExist, Zenon
  <2>2. FlattenSeq(ss) = f[n]
    <3>1. Len(ss) # 0
      BY <1>3
    <3>. QED BY <3>1, Zenon DEF FlattenSeq, FlattenSteps
  <2> HIDE DEF f
  <2>3. \A i \in 1 .. n : f[i] = IF i = 1 THEN ss[i] ELSE f[i - 1] \o ss[i]
    BY <2>1 DEF FlattenSteps
  <2> HIDE DEF n
  <2> DEFINE Is(m) == f[m] \in Seq(S) /\ \A x : x \in Range(f[m]) <=> \E i \in 1 .. m : x \in Range(ss[i])
             T == {m \in 0 .. n : m = 0 \/ Is(m)}
  <2>4. 0 \in T
    BY <1>1
  <2>5. ASSUME NEW m \in 0 .. n - 1, m \in T PROVE m + 1 \in T
    <3>1. m + 1 \in 1 .. n /\ m + 1 \in 0 .. n /\ (m + 1) - 1 = m /\ ss[m + 1] \in Seq(S)
          /\ \A i : i \in 1 .. m + 1 <=> i \in 1 .. m \/ i = m + 1
      BY <1>1
    <3>2. CASE m = 0
      <4>1. f[m + 1] = ss[m + 1] /\ \A i \in 1 .. m + 1 : i = m + 1
        BY <2>3, <3>1, <3>2
      <4>2. Is(m + 1)
        BY <3>1, <4>1
      <4>. QED BY <3>1, <4>2
    <3>3. CASE m # 0
      <4>1. f[m + 1] = f[m] \o ss[m + 1]
        <5>1. f[m + 1] = IF m + 1 = 1 THEN ss[m + 1] ELSE f[(m + 1) - 1] \o ss[m + 1]
          BY <2>3, <3>1, Zenon
        <5>2. m + 1 # 1 /\ (m + 1) - 1 = m
          BY <3>1, <3>3
        <5>. QED BY <5>1, <5>2
      <4>2. Is(m)
        BY <2>5, <3>3
      <4>3. f[m + 1] \in Seq(S) /\ Range(f[m + 1]) = Range(f[m]) \cup Range(ss[m + 1])
        BY <3>1, <4>1, <4>2, ConcatFacts
      <4>4. \A x : x \in Range(f[m + 1]) <=> \E i \in 1 .. m + 1 : x \in Range(ss[i])
        BY <3>1, <4>2, <4>3
      <4>. QED BY <3>1, <4>3, <4>4
    <3>. QED BY <3>2, <3>3
  <2>6. n \in T
    <3> HIDE DEF T
    <3>1. \A k \in 0 .. n : k \in T
      BY <1>1, <2>4, <2>5, UpTo
    <3>. QED BY <1>1, <3>1
  <2>7. Is(n)
    BY <1>3, <2>6
  <2>. QED BY <2>2, <2>7 DEF n
<1>. QED BY <1>2, <1>3

LEMMA InTEOrderFacts ==
  ASSUME NEW n \in Nat, TEs = 1 .. n, NEW S, S \subseteq 1 .. n
  PROVE  InTEOrder(S) \in Seq(1 .. n) /\ Range(InTEOrder(S)) = S /\ IsInjective(InTEOrder(S))
<1> DEFINE id == [i \in 1 .. n |-> i]
<1>1. id \in Seq(1 .. n) /\ Range(id) = 1 .. n /\ IsInjective(id)
  BY DEF Range, IsInjective
<1>2. InTEOrder(S) = Those(id, S)
  BY DEF InTEOrder
<1> HIDE DEF id
<1>3. (1 .. n) \cap S = S
  OBVIOUS
<1> DEFINE E == 1 .. n
<1>4. id \in Seq(E) /\ Range(id) \cap S = S
  BY <1>1, <1>3
<1> HIDE DEF E
<1>5. /\ Those(id, S) \in Seq(E)
      /\ Range(Those(id, S)) = Range(id) \cap S
      /\ IsInjective(id) => IsInjective(Those(id, S))
  BY <1>4, ThoseFacts
<1>. QED BY <1>1, <1>2, <1>4, <1>5 DEF E

-----------------------------------------------------------------------------
(***************************************************************************)
(* The cycle edges.                                                        *)
(***************************************************************************)
\* fs is es with the cycle edges P, as far as no broken edge is in their way.
Linked(es, fs, n, P) ==
  /\ Shaped(fs, n) /\ Grown(es, fs, n)
  /\ \A x \in 1 .. n : /\ Unbroken(es, x) \subseteq Unbroken(fs, x)
                       /\ Requiring(fs, x) = Requiring(es, x)
  /\ \A x, y \in 1 .. n : y \in Unbroken(fs, x) /\ y \notin Unbroken(es, x) => <<x, y>> \in P
  /\ \A x, y \in 1 .. n : y \in Targets(fs, x) /\ TYPE_BROKEN \in EdgeType(fs, x, y) =>
       y \in Targets(es, x) /\ TYPE_BROKEN \in EdgeType(es, x, y)
  /\ \A x, y \in 1 .. n : <<x, y>> \in P /\ x # y => y \in Targets(fs, x)

\* The calls that add cycle edges.
LinkCalls(calls, n, P, type) ==
  /\ calls \in Seq((1 .. n) \X (1 .. n) \X {{type}})
  /\ \A x, y \in 1 .. n : <<x, y>> \in P <=> \E k \in 1 .. Len(calls) : calls[k][1] = x /\ calls[k][2] = y

LEMMA LinkFacts ==
  ASSUME NEW n \in Nat, NEW es, Shaped(es, n), NEW P, NEW type \in {TYPE_CYCLETAIL, TYPE_CYCLEHEAD},
         NEW calls, LinkCalls(calls, n, P, type)
  PROVE  Linked(es, addteedges(es, calls), n, P)
<1> DEFINE fs == addteedges(es, calls)
           U == {type}
<1>1. calls \in Seq(Call(n)) /\ DOMAIN calls = 1 .. Len(calls)
  <2> DEFINE A == (1 .. n) \X (1 .. n) \X {{type}}
  <2>1. calls \in Seq(A)
    BY DEF LinkCalls
  <2>2. A \subseteq Call(n)
    BY DEF Call, Types
  <2> HIDE DEF A
  <2>. QED BY <2>1, <2>2, SeqGrows
<1>2. \A k \in DOMAIN calls : calls[k][3] \subseteq U
  <2>1. \A k \in DOMAIN calls : calls[k] \in (1 .. n) \X (1 .. n) \X {{type}}
    <3> DEFINE A == (1 .. n) \X (1 .. n) \X {{type}}
    <3>1. calls \in Seq(A)
      BY DEF LinkCalls
    <3> HIDE DEF A
    <3>2. \A k \in DOMAIN calls : calls[k] \in A
      BY <3>1
    <3>. QED BY <3>2 DEF A
  <2>. QED BY <2>1
<1> HIDE DEF U
<1>3. Extended(es, fs, n, calls, Len(calls), U)
  BY <1>1, <1>2, AddMany
<1> HIDE DEF fs
<1>4. TYPE_BROKEN \notin U /\ Plain(U) = {} /\ \A t : Plain(t \cup U) = Plain(t)
  BY DEF U, Plain, TYPE_BROKEN, TYPE_CYCLETAIL, TYPE_CYCLEHEAD
<1>5. Shaped(fs, n) /\ \A x \in 1 .. n : Targets(es, x) \subseteq Targets(fs, x)
  BY <1>3 DEF Extended
<1>6. ASSUME NEW x \in 1 .. n, NEW y \in Targets(es, x)
      PROVE  /\ EdgeType(es, x, y) \subseteq EdgeType(fs, x, y)
             /\ EdgeType(fs, x, y) \subseteq EdgeType(es, x, y) \cup U
             /\ Plain(EdgeType(fs, x, y)) = Plain(EdgeType(es, x, y))
             /\ TYPE_BROKEN \in EdgeType(fs, x, y) <=> TYPE_BROKEN \in EdgeType(es, x, y)
  <2>1. /\ EdgeType(es, x, y) \subseteq EdgeType(fs, x, y)
        /\ EdgeType(fs, x, y) \subseteq EdgeType(es, x, y) \cup U
    BY <1>3 DEF Extended
  <2>2. Plain(EdgeType(es, x, y)) \subseteq Plain(EdgeType(fs, x, y))
    BY <2>1 DEF Plain
  <2>3. Plain(EdgeType(fs, x, y)) \subseteq Plain(EdgeType(es, x, y) \cup U)
    BY <2>1 DEF Plain
  <2>. QED BY <1>4, <2>1, <2>2, <2>3
<1>7. ASSUME NEW x \in 1 .. n, NEW y \in Targets(fs, x), y \notin Targets(es, x)
      PROVE  /\ TYPE_BROKEN \notin EdgeType(fs, x, y) /\ Plain(EdgeType(fs, x, y)) = {}
             /\ \E k \in 1 .. Len(calls) : calls[k][1] = x /\ calls[k][2] = y
  <2>1. /\ \E k \in 1 .. Len(calls) : calls[k][1] = x /\ calls[k][2] = y
        /\ EdgeType(fs, x, y) \subseteq U
    BY <1>3, <1>7 DEF Extended
  <2>2. Plain(EdgeType(fs, x, y)) \subseteq Plain(U)
    BY <2>1 DEF Plain
  <2>. QED BY <1>4, <2>1, <2>2
<1>8. \A x \in 1 .. n : \A y : y \in Unbroken(es, x) <=> y \in Targets(es, x) /\ TYPE_BROKEN \notin EdgeType(es, x, y)
  <2> SUFFICES ASSUME NEW x \in 1 .. n
               PROVE  \A y : y \in Unbroken(es, x) <=> y \in Targets(es, x) /\ TYPE_BROKEN \notin EdgeType(es, x, y)
    OBVIOUS
  <2>. QED BY UnbrokenFacts
<1>9. \A x \in 1 .. n : \A y : y \in Unbroken(fs, x) <=> y \in Targets(fs, x) /\ TYPE_BROKEN \notin EdgeType(fs, x, y)
  <2> SUFFICES ASSUME NEW x \in 1 .. n
               PROVE  \A y : y \in Unbroken(fs, x) <=> y \in Targets(fs, x) /\ TYPE_BROKEN \notin EdgeType(fs, x, y)
    OBVIOUS
  <2>. QED BY <1>5, UnbrokenFacts
<1>10. Grown(es, fs, n)
  BY <1>5, <1>6 DEF Grown
<1>11. ASSUME NEW x \in 1 .. n
       PROVE  Unbroken(es, x) \subseteq Unbroken(fs, x) /\ Requiring(fs, x) = Requiring(es, x)
  <2>1. \A y : y \in Unbroken(es, x) => y \in Unbroken(fs, x)
    BY <1>5, <1>6, <1>8, <1>9
  <2>2. ASSUME NEW y \in Requiring(fs, x) PROVE y \in Requiring(es, x)
    <3>1. y \in Unbroken(fs, x) /\ Plain(EdgeType(fs, x, y)) # {}
      BY DEF Requiring
    <3>2. y \in Targets(fs, x) /\ TYPE_BROKEN \notin EdgeType(fs, x, y)
      BY <1>9, <3>1
    <3>3. y \in Targets(es, x)
      BY <1>7, <3>1, <3>2
    <3>4. y \in Unbroken(es, x) /\ Plain(EdgeType(es, x, y)) # {}
      BY <1>6, <1>8, <3>1, <3>2, <3>3
    <3>. QED BY <3>4 DEF Requiring
  <2>3. ASSUME NEW y \in Requiring(es, x) PROVE y \in Requiring(fs, x)
    <3>1. y \in Unbroken(es, x) /\ Plain(EdgeType(es, x, y)) # {}
      BY DEF Requiring
    <3>2. y \in Targets(es, x)
      BY <1>8, <3>1
    <3>3. y \in Unbroken(fs, x) /\ Plain(EdgeType(fs, x, y)) # {}
      BY <1>6, <2>1, <3>1, <3>2
    <3>. QED BY <3>3 DEF Requiring
  <2>. QED BY <2>1, <2>2, <2>3
<1>12. ASSUME NEW x \in 1 .. n, NEW y \in 1 .. n, y \in Unbroken(fs, x), y \notin Unbroken(es, x)
       PROVE  <<x, y>> \in P
  <2>1. y \in Targets(fs, x) /\ y \notin Targets(es, x)
    BY <1>6, <1>8, <1>9, <1>12
  <2>2. \E k \in 1 .. Len(calls) : calls[k][1] = x /\ calls[k][2] = y
    BY <1>7, <2>1
  <2>. QED BY <2>2 DEF LinkCalls
<1>13. \A x, y \in 1 .. n : y \in Targets(fs, x) /\ TYPE_BROKEN \in EdgeType(fs, x, y) =>
         y \in Targets(es, x) /\ TYPE_BROKEN \in EdgeType(es, x, y)
  BY <1>6, <1>7
<1>14. ASSUME NEW x \in 1 .. n, NEW y \in 1 .. n, <<x, y>> \in P, x # y
       PROVE  y \in Targets(fs, x)
  <2>1. PICK k \in 1 .. Len(calls) : calls[k][1] = x /\ calls[k][2] = y
    BY <1>14 DEF LinkCalls
  <2>. QED BY <1>3, <1>14, <2>1 DEF Extended
<1>. QED BY <1>5, <1>10, <1>11, <1>12, <1>13, <1>14 DEF Linked, fs

\* Who gets an edge to the tail of the cycle c, and what its head gets an edge
\* to.
Outside(es, n, c) ==
  {x \in 1 .. n : x \notin Reach(es, Range(c)) /\ Unbroken(es, x) \cap (Range(c) \ {c[1]}) # {}}

NeededBy(es, c, x) ==
  {k \in Unbroken(es, x) \ Unbroken(es, c[Len(c)]) : Reach(es, {k}) \cap Range(c) = {}}

NeededInside(es, c) == UNION {NeededBy(es, c, c[i]) : i \in 1 .. Len(c) - 1}

LEMMA TailLinked ==
  ASSUME NEW n \in Nat, TEs = 1 .. n, NEW es, Shaped(es, n), NEW c \in Seq(1 .. n), Len(c) > 1
  PROVE  Linked(es, TailEdges(es, c), n, Outside(es, n, c) \X {c[1]})
<1> DEFINE out == InTEOrder(Outside(es, n, c))
           calls == [k \in DOMAIN out |-> <<out[k], c[1], {TYPE_CYCLETAIL}>>]
<1>1. Outside(es, n, c) \subseteq 1 .. n
  BY DEF Outside
<1>2. out \in Seq(1 .. n) /\ Range(out) = Outside(es, n, c)
  BY <1>1, InTEOrderFacts
<1>3. TailEdges(es, c) = addteedges(es, calls)
  BY DEF TailEdges, Outside
<1> HIDE DEF out
<1>4. c[1] \in 1 .. n
  OBVIOUS
<1>5. DOMAIN out = 1 .. Len(out) /\ Len(out) \in Nat /\ \A k \in 1 .. Len(out) : out[k] \in 1 .. n
  <2> DEFINE E == 1 .. n
  <2>1. out \in Seq(E)
    BY <1>2
  <2> HIDE DEF E
  <2>2. DOMAIN out = 1 .. Len(out) /\ Len(out) \in Nat /\ \A k \in 1 .. Len(out) : out[k] \in E
    BY <2>1
  <2>. QED BY <2>2 DEF E
<1>6. Len(calls) = Len(out) /\ calls \in Seq((1 .. n) \X (1 .. n) \X {{TYPE_CYCLETAIL}})
      /\ \A k \in 1 .. Len(calls) : calls[k][1] = out[k] /\ calls[k][2] = c[1]
  <2> DEFINE A == (1 .. n) \X (1 .. n) \X {{TYPE_CYCLETAIL}}
  <2>1. \A k \in 1 .. Len(out) : <<out[k], c[1], {TYPE_CYCLETAIL}>> \in A
    BY <1>4, <1>5
  <2>2. calls = [k \in 1 .. Len(out) |-> <<out[k], c[1], {TYPE_CYCLETAIL}>>]
    BY <1>5
  <2> HIDE DEF A, calls
  <2>. QED BY <1>5, <2>1, <2>2 DEF A
<1> HIDE DEF calls
<1>7. ASSUME NEW x \in 1 .. n, NEW y \in 1 .. n
      PROVE  <<x, y>> \in Outside(es, n, c) \X {c[1]} <=> \E k \in 1 .. Len(calls) : calls[k][1] = x /\ calls[k][2] = y
  <2>1. x \in Outside(es, n, c) <=> \E k \in 1 .. Len(out) : out[k] = x
    BY <1>2, <1>5 DEF Range
  <2>. QED BY <1>6, <2>1
<1>8. LinkCalls(calls, n, Outside(es, n, c) \X {c[1]}, TYPE_CYCLETAIL)
  BY <1>6, <1>7 DEF LinkCalls
<1>. QED BY <1>3, <1>8, LinkFacts

LEMMA HeadLinked ==
  ASSUME NEW n \in Nat, NEW es, Shaped(es, n), NEW c \in Seq(1 .. n), Len(c) > 1
  PROVE  Linked(es, HeadEdges(es, c), n, {c[Len(c)]} \X NeededInside(es, c))
<1> DEFINE C == Range(c)
           L == Len(c)
           head == Last(c)
           needed(x) == Those([i \in DOMAIN es[x] |-> es[x][i].to],
                              {k \in Unbroken(es, x) \ Unbroken(es, head) : Reach(es, {k}) \cap C = {}})
           ss == [i \in 1 .. Len(c) - 1 |-> needed(c[i])]
           ks == FlattenSeq(ss)
           calls == [j \in DOMAIN ks |-> <<head, ks[j], {TYPE_CYCLEHEAD}>>]
<1>1. HeadEdges(es, c) = addteedges(es, calls)
  BY DEF HeadEdges
<1>2. L \in Nat \ {0, 1} /\ head = c[L] /\ head \in 1 .. n /\ \A i \in 1 .. L : c[i] \in 1 .. n
  <2> DEFINE E == 1 .. n
  <2>1. c \in Seq(E) /\ L > 1
    OBVIOUS
  <2> HIDE DEF E
  <2>2. L \in Nat /\ \A i \in 1 .. L : c[i] \in E
    BY <2>1
  <2>3. L \in Nat \ {0, 1} /\ L \in 1 .. L
    BY <2>1, <2>2
  <2>4. head = c[L]
    BY Zenon DEF Last
  <2> HIDE DEF L, head
  <2>. QED BY <2>2, <2>3, <2>4 DEF E
<1>3. ASSUME NEW x \in 1 .. n
      PROVE  needed(x) \in Seq(1 .. n) /\ Range(needed(x)) = NeededBy(es, c, x)
  <2> DEFINE to == [i \in DOMAIN es[x] |-> es[x][i].to]
             A == {k \in Unbroken(es, x) \ Unbroken(es, head) : Reach(es, {k}) \cap C = {}}
             E == 1 .. n
  <2>1. es[x] \in Seq(Edge(E)) /\ DOMAIN es[x] = 1 .. Len(es[x]) /\ Len(es[x]) \in Nat
    BY DEF Shaped
  <2>2. to \in Seq(E)
    <3>1. \A i \in 1 .. Len(es[x]) : es[x][i] \in Edge(E)
      BY <2>1
    <3>2. \A i \in 1 .. Len(es[x]) : es[x][i].to \in E
      BY <3>1 DEF Edge
    <3>3. to = [i \in 1 .. Len(es[x]) |-> es[x][i].to]
      BY <2>1
    <3> HIDE DEF to, E
    <3>. QED BY <2>1, <3>2, <3>3
  <2>3. Range(to) = Targets(es, x)
    BY DEF Range, Targets
  <2>4. A = NeededBy(es, c, x)
    BY <1>2 DEF NeededBy
  <2>5. Unbroken(es, x) \subseteq Targets(es, x)
    BY UnbrokenFacts
  <2>6. needed(x) = Those(to, A)
    OBVIOUS
  <2> HIDE DEF to, E
  <2>7. Range(to) \cap A = A
    BY <2>3, <2>5
  <2> HIDE DEF A, needed
  <2>8. Those(to, A) \in Seq(E) /\ Range(Those(to, A)) = Range(to) \cap A
    BY <2>2, ThoseFacts
  <2>. QED BY <2>4, <2>6, <2>7, <2>8 DEF E
<1> HIDE DEF needed
<1>4. ss \in Seq(Seq(1 .. n)) /\ Len(ss) = L - 1 /\ \A i \in 1 .. L - 1 : ss[i] = needed(c[i])
  <2>1. \A i \in 1 .. L - 1 : needed(c[i]) \in Seq(1 .. n)
    BY <1>2, <1>3
  <2> DEFINE Q == Seq(1 .. n)
  <2>2. \A i \in 1 .. L - 1 : needed(c[i]) \in Q
    BY <2>1
  <2> HIDE DEF Q
  <2>3. L - 1 \in Nat
    BY <1>2
  <2>4. ss \in Seq(Q) /\ Len(ss) = L - 1 /\ \A i \in 1 .. L - 1 : ss[i] = needed(c[i])
    BY <2>2, <2>3
  <2>. QED BY <2>4 DEF Q
<1> HIDE DEF ss
<1>5. /\ ks \in Seq(1 .. n)
      /\ \A x : x \in Range(ks) <=> \E i \in 1 .. Len(ss) : x \in Range(ss[i])
  <2> DEFINE E == 1 .. n
  <2>1. ss \in Seq(Seq(E))
    BY <1>4
  <2> HIDE DEF E
  <2>2. /\ ks \in Seq(E)
        /\ \A x : x \in Range(ks) <=> \E i \in 1 .. Len(ss) : x \in Range(ss[i])
    BY <2>1, FlattenFacts
  <2>. QED BY <2>2 DEF E
<1> HIDE DEF ks
<1>6. Range(ks) = NeededInside(es, c)
  <2>1. ASSUME NEW i \in 1 .. L - 1 PROVE Range(ss[i]) = NeededBy(es, c, c[i])
    <3>1. c[i] \in 1 .. n /\ ss[i] = needed(c[i])
      <4> HIDE DEF L
      <4>. QED BY <1>2, <1>4
    <3>2. Range(needed(c[i])) = NeededBy(es, c, c[i])
      BY <1>3, <3>1
    <3>. QED BY <3>1, <3>2
  <2>2. \A x : x \in NeededInside(es, c) <=> \E i \in 1 .. L - 1 : x \in NeededBy(es, c, c[i])
    BY DEF NeededInside
  <2> HIDE DEF L
  <2>3. \A x : x \in Range(ks) <=> \E i \in 1 .. L - 1 : x \in Range(ss[i])
    BY <1>4, <1>5, Zenon
  <2>4. \A x : x \in Range(ks) <=> x \in NeededInside(es, c)
    BY <2>1, <2>2, <2>3, Zenon
  <2>. QED BY <2>4
<1>7. DOMAIN ks = 1 .. Len(ks) /\ Len(ks) \in Nat /\ \A k \in 1 .. Len(ks) : ks[k] \in 1 .. n
  <2> DEFINE E == 1 .. n
  <2>1. ks \in Seq(E)
    BY <1>5
  <2> HIDE DEF E
  <2>2. DOMAIN ks = 1 .. Len(ks) /\ Len(ks) \in Nat /\ \A k \in 1 .. Len(ks) : ks[k] \in E
    BY <2>1
  <2>. QED BY <2>2 DEF E
<1> HIDE DEF head
<1>8. Len(calls) = Len(ks) /\ calls \in Seq((1 .. n) \X (1 .. n) \X {{TYPE_CYCLEHEAD}})
      /\ \A k \in 1 .. Len(calls) : calls[k][1] = head /\ calls[k][2] = ks[k]
  <2> DEFINE A == (1 .. n) \X (1 .. n) \X {{TYPE_CYCLEHEAD}}
  <2>1. \A k \in 1 .. Len(ks) : <<head, ks[k], {TYPE_CYCLEHEAD}>> \in A
    BY <1>2, <1>7
  <2>2. calls = [k \in 1 .. Len(ks) |-> <<head, ks[k], {TYPE_CYCLEHEAD}>>]
    BY <1>7
  <2> HIDE DEF A, calls
  <2>3. Len(calls) = Len(ks) /\ calls \in Seq(A)
    BY <1>7, <2>1, <2>2
  <2>4. \A k \in 1 .. Len(ks) : calls[k] = <<head, ks[k], {TYPE_CYCLEHEAD}>>
    BY <2>2
  <2>. QED BY <2>3, <2>4 DEF A
<1> HIDE DEF calls
<1>9. ASSUME NEW x \in 1 .. n, NEW y \in 1 .. n
      PROVE  <<x, y>> \in {head} \X NeededInside(es, c) <=> \E k \in 1 .. Len(calls) : calls[k][1] = x /\ calls[k][2] = y
  <2>1. y \in NeededInside(es, c) <=> \E k \in 1 .. Len(ks) : ks[k] = y
    BY <1>6, <1>7 DEF Range
  <2>. QED BY <1>8, <2>1
<1>10. LinkCalls(calls, n, {head} \X NeededInside(es, c), TYPE_CYCLEHEAD)
  BY <1>8, <1>9 DEF LinkCalls
<1>. QED BY <1>1, <1>2, <1>10, LinkFacts

\* The cycle edges make no cycle, ...
LEMMA TailRanked ==
  ASSUME NEW n \in Nat, NEW es, Shaped(es, n), Ranked(es, n, 1 .. n), NEW c \in Seq(1 .. n), Len(c) > 1,
         NEW fs, Linked(es, fs, n, Outside(es, n, c) \X {c[1]})
  PROVE  Ranked(fs, n, 1 .. n)
<1> DEFINE C == Range(c)
           Upper == (1 .. n) \ Reach(es, C)
<1>1. c[1] \in C /\ C \subseteq 1 .. n
  <2> DEFINE E == 1 .. n
  <2>1. c \in Seq(E) /\ 1 \in DOMAIN c
    OBVIOUS
  <2> HIDE DEF E
  <2>2. c[1] \in Range(c) /\ Range(c) \subseteq E
    BY <2>1 DEF Range
  <2>. QED BY <2>2 DEF E
<1> HIDE DEF C
<1>2. C \subseteq Reach(es, C) /\ Closed(es, Reach(es, C)) /\ Reach(es, C) \subseteq 1 .. n
  BY <1>1, ReachFacts
<1>3. \A x \in 1 .. n : Unbroken(es, x) \subseteq 1 .. n
  <2> SUFFICES ASSUME NEW x \in 1 .. n PROVE Unbroken(es, x) \subseteq 1 .. n
    OBVIOUS
  <2>. QED BY UnbrokenFacts
<1>4. Shaped(fs, n) /\ \A x \in 1 .. n : Unbroken(fs, x) \subseteq 1 .. n
  <2>1. Shaped(fs, n)
    BY DEF Linked
  <2> SUFFICES ASSUME NEW x \in 1 .. n PROVE Unbroken(fs, x) \subseteq 1 .. n
    BY <2>1
  <2>. QED BY <2>1, UnbrokenFacts
<1>5. \A x \in 1 .. n : \A y \in Unbroken(es, x) : y \in Upper => x \in Upper
  BY <1>2, <1>3 DEF Closed
<1>6. ASSUME NEW x \in 1 .. n, NEW y \in Unbroken(fs, x) \ Unbroken(es, x)
      PROVE  x \in Upper /\ y \notin Upper
  <2>1. y \in 1 .. n
    BY <1>4
  <2>2. <<x, y>> \in Outside(es, n, c) \X {c[1]}
    BY <2>1 DEF Linked
  <2>3. x \in Outside(es, n, c) /\ y = c[1]
    BY <2>2
  <2>. QED BY <1>1, <1>2, <2>3 DEF Outside, C
<1> HIDE DEF Upper
<1>7. Upper \subseteq 1 .. n
  BY DEF Upper
<1>. QED BY <1>4, <1>5, <1>6, <1>7, RankedLift

LEMMA HeadRanked ==
  ASSUME NEW n \in Nat, NEW es, Shaped(es, n), Ranked(es, n, 1 .. n), NEW c \in Seq(1 .. n), Len(c) > 1,
         NEW fs, Linked(es, fs, n, {c[Len(c)]} \X NeededInside(es, c))
  PROVE  Ranked(fs, n, 1 .. n)
<1> DEFINE C == Range(c)
           head == c[Len(c)]
           Upper == {x \in 1 .. n : head \in Reach(es, {x})}
<1>1. head \in C /\ C \subseteq 1 .. n
  <2> DEFINE E == 1 .. n
  <2>1. c \in Seq(E) /\ Len(c) \in DOMAIN c
    OBVIOUS
  <2> HIDE DEF E
  <2>2. head \in Range(c) /\ Range(c) \subseteq E
    BY <2>1 DEF Range
  <2>. QED BY <2>2 DEF E
<1> HIDE DEF C, head
<1>2. ASSUME NEW x \in 1 .. n
      PROVE  /\ x \in Reach(es, {x}) /\ Reach(es, {x}) \subseteq 1 .. n /\ Closed(es, Reach(es, {x}))
             /\ \A T : x \in T /\ T \subseteq 1 .. n /\ Closed(es, T) => Reach(es, {x}) \subseteq T
  <2>1. {x} \subseteq 1 .. n
    OBVIOUS
  <2>2. /\ Reach(es, {x}) \subseteq 1 .. n /\ {x} \subseteq Reach(es, {x})
        /\ Closed(es, Reach(es, {x}))
        /\ \A T : {x} \subseteq T /\ T \subseteq 1 .. n /\ Closed(es, T) => Reach(es, {x}) \subseteq T
    BY <2>1, ReachFacts
  <2>. QED BY <2>2
<1>3. Shaped(fs, n) /\ \A x \in 1 .. n : Unbroken(fs, x) \subseteq 1 .. n
  <2>1. Shaped(fs, n)
    BY DEF Linked
  <2> SUFFICES ASSUME NEW x \in 1 .. n PROVE Unbroken(fs, x) \subseteq 1 .. n
    BY <2>1
  <2>. QED BY <2>1, UnbrokenFacts
<1>4. ASSUME NEW x \in 1 .. n, NEW y \in Unbroken(es, x), y \in Upper
      PROVE  x \in Upper
  <2>1. y \in 1 .. n /\ head \in Reach(es, {y})
    BY <1>4
  <2>2. y \in Reach(es, {x})
    BY <1>2 DEF Closed
  <2>3. Reach(es, {y}) \subseteq Reach(es, {x})
    BY <1>2, <2>1, <2>2
  <2>. QED BY <2>1, <2>3
<1>5. ASSUME NEW x \in 1 .. n, NEW y \in Unbroken(fs, x) \ Unbroken(es, x)
      PROVE  x \in Upper /\ y \notin Upper
  <2>1. y \in 1 .. n
    BY <1>3
  <2>2. <<x, y>> \in {head} \X NeededInside(es, c)
    BY <2>1 DEF Linked, head
  <2>3. x = head /\ y \in NeededInside(es, c)
    BY <2>2
  <2>4. Reach(es, {y}) \cap C = {}
    BY <2>3 DEF NeededInside, NeededBy, C
  <2>5. head \in Reach(es, {x})
    BY <1>2, <2>3
  <2>. QED BY <1>1, <2>4, <2>5
<1> HIDE DEF Upper
<1>6. Upper \subseteq 1 .. n
  BY DEF Upper
<1>. QED BY <1>3, <1>4, <1>5, <1>6, RankedLift

\* ... they stay when others are added, ...
LEMMA ProcessedKept ==
  ASSUME NEW n \in Nat, NEW es, Shaped(es, n), NEW P, NEW fs, Linked(es, fs, n, P),
         NEW c \in Seq(1 .. n), Len(c) > 1, Processed(es, n, c)
  PROVE  Processed(fs, n, c)
<1> DEFINE C == Range(c)
<1>1. C \subseteq 1 .. n /\ c[1] \in C /\ c[Len(c)] \in C
  <2> DEFINE E == 1 .. n
  <2>1. c \in Seq(E) /\ Len(c) \in DOMAIN c /\ 1 \in DOMAIN c
    OBVIOUS
  <2> HIDE DEF E
  <2>2. Range(c) \subseteq E /\ c[1] \in Range(c) /\ c[Len(c)] \in Range(c)
    BY <2>1 DEF Range
  <2>. QED BY <2>2 DEF E
<1> HIDE DEF C
<1>2. Shaped(fs, n) /\ Grown(es, fs, n)
      /\ \A x \in 1 .. n : Unbroken(es, x) \subseteq Unbroken(fs, x) /\ Requiring(fs, x) = Requiring(es, x)
  BY DEF Linked
<1>3. ASSUME NEW x \in 1 .. n PROVE Targets(es, x) \subseteq Targets(fs, x) /\ Requiring(es, x) \subseteq 1 .. n
  <2>1. Requiring(es, x) \subseteq 1 .. n
    BY UnbrokenFacts DEF Requiring
  <2>. QED BY <1>2, <2>1 DEF Grown
<1>4. \A S, T : S \subseteq T /\ T \subseteq 1 .. n => Reach(es, S) \subseteq Reach(fs, T)
  <2> SUFFICES ASSUME NEW S, NEW T, S \subseteq T, T \subseteq 1 .. n
               PROVE  Reach(es, S) \subseteq Reach(fs, T)
    OBVIOUS
  <2>. QED BY <1>2, ReachGrows
<1>5. ASSUME NEW x \in 1 .. n, x \notin Reach(fs, C), Requiring(fs, x) \cap C # {}
      PROVE  c[1] \in Targets(fs, x)
  <2>1. x \notin Reach(es, C)
    BY <1>1, <1>4, <1>5
  <2>2. Requiring(es, x) \cap C # {}
    BY <1>2, <1>5
  <2>3. c[1] \in Targets(es, x)
    BY <2>1, <2>2 DEF Processed, C
  <2>. QED BY <1>3, <2>3
<1>6. ASSUME NEW x \in C, NEW k \in Requiring(fs, x), Reach(fs, {k}) \cap C = {}
      PROVE  k \in Targets(fs, c[Len(c)])
  <2>1. x \in 1 .. n /\ k \in Requiring(es, x) /\ k \in 1 .. n /\ c[Len(c)] \in 1 .. n
    BY <1>1, <1>2, <1>3
  <2>2. Reach(es, {k}) \subseteq Reach(fs, {k})
    BY <1>4, <2>1
  <2>3. k \in Targets(es, c[Len(c)])
    BY <1>6, <2>1, <2>2 DEF Processed, C
  <2>. QED BY <1>3, <2>1, <2>3
<1>. QED BY <1>5, <1>6 DEF Processed, C

\* ... and both kinds together do what they are for.
LEMMA CycleProcessed ==
  ASSUME NEW n \in Nat, NEW es, Shaped(es, n), NEW c \in Seq(1 .. n), Len(c) > 1,
         NEW gs, Linked(es, gs, n, Outside(es, n, c) \X {c[1]}),
         NEW fs, Linked(gs, fs, n, {c[Len(c)]} \X NeededInside(gs, c))
  PROVE  Processed(fs, n, c)
<1> DEFINE C == Range(c)
           L == Len(c)
<1>1. C \subseteq 1 .. n /\ c[1] \in C /\ c[L] \in C /\ \A x \in C : x = c[L] \/ \E i \in 1 .. L - 1 : x = c[i]
  <2> DEFINE E == 1 .. n
  <2>1. c \in Seq(E) /\ L \in DOMAIN c /\ 1 \in DOMAIN c /\ DOMAIN c = 1 .. L /\ L \in Nat
    OBVIOUS
  <2> HIDE DEF E
  <2>2. Range(c) \subseteq E /\ c[1] \in Range(c) /\ c[L] \in Range(c)
    BY <2>1 DEF Range
  <2>3. \A i \in 1 .. L : i = L \/ i \in 1 .. L - 1
    <3> HIDE DEF L
    <3>. QED BY <2>1
  <2>4. \A x \in C : \E i \in 1 .. L : x = c[i]
    BY <2>1 DEF Range
  <2>5. \A x \in C : x = c[L] \/ \E i \in 1 .. L - 1 : x = c[i]
    BY <2>3, <2>4
  <2>. QED BY <2>2, <2>5 DEF E
<1> HIDE DEF C, L
<1>2. /\ Shaped(gs, n) /\ Grown(es, gs, n) /\ Shaped(fs, n) /\ Grown(gs, fs, n)
      /\ \A x \in 1 .. n : /\ Unbroken(es, x) \subseteq Unbroken(gs, x) /\ Requiring(gs, x) = Requiring(es, x)
                           /\ Unbroken(gs, x) \subseteq Unbroken(fs, x) /\ Requiring(fs, x) = Requiring(gs, x)
  BY DEF Linked
<1>3. ASSUME NEW x \in 1 .. n
      PROVE  /\ Targets(es, x) \subseteq Targets(gs, x) /\ Targets(gs, x) \subseteq Targets(fs, x)
             /\ Unbroken(es, x) \subseteq Targets(es, x) /\ Unbroken(gs, x) \subseteq Targets(gs, x)
             /\ Unbroken(gs, x) \subseteq 1 .. n
             /\ Requiring(es, x) \subseteq Unbroken(es, x) /\ Requiring(gs, x) \subseteq Unbroken(gs, x)
  <2>1. Unbroken(es, x) \subseteq Targets(es, x)
    BY UnbrokenFacts
  <2>2. Unbroken(gs, x) \subseteq Targets(gs, x) /\ Unbroken(gs, x) \subseteq 1 .. n
    BY <1>2, UnbrokenFacts
  <2>. QED BY <1>2, <2>1, <2>2 DEF Grown, Requiring
<1>4. ASSUME NEW S, S \subseteq 1 .. n
      PROVE  Reach(es, S) \subseteq Reach(gs, S) /\ Reach(gs, S) \subseteq Reach(fs, S) /\ S \subseteq Reach(gs, S)
  <2>1. Reach(es, S) \subseteq Reach(gs, S)
    BY <1>2, <1>4, ReachGrows
  <2>2. Reach(gs, S) \subseteq Reach(fs, S)
    BY <1>2, <1>4, ReachGrows
  <2>3. S \subseteq Reach(gs, S)
    BY <1>2, <1>4, ReachFacts
  <2>. QED BY <2>1, <2>2, <2>3
<1>5. ASSUME NEW x \in 1 .. n, x \notin Reach(fs, C), Requiring(fs, x) \cap C # {}
      PROVE  c[1] \in Targets(fs, x)
  <2>1. x \notin Reach(es, C) /\ x \notin C
    BY <1>1, <1>4, <1>5
  <2>2. PICK y \in C : y \in Requiring(es, x)
    BY <1>2, <1>5
  <2>3. y \in Unbroken(es, x)
    BY <1>3, <2>2
  <2>4. CASE y = c[1]
    BY <1>3, <2>3, <2>4
  <2>5. CASE y # c[1]
    <3>1. x \in Outside(es, n, c)
      BY <2>1, <2>3, <2>5 DEF Outside, C
    <3>2. <<x, c[1]>> \in Outside(es, n, c) \X {c[1]} /\ x # c[1] /\ c[1] \in 1 .. n
      BY <1>1, <2>1, <3>1
    <3>3. c[1] \in Targets(gs, x)
      BY <3>2 DEF Linked
    <3>. QED BY <1>3, <3>3
  <2>. QED BY <2>4, <2>5
<1>6. ASSUME NEW x \in C, NEW k \in Requiring(fs, x), Reach(fs, {k}) \cap C = {}
      PROVE  k \in Targets(fs, c[L])
  <2>1. x \in 1 .. n /\ k \in Unbroken(gs, x) /\ k \in 1 .. n /\ c[L] \in 1 .. n
    BY <1>1, <1>2, <1>3
  <2>2. Reach(gs, {k}) \cap C = {} /\ k \notin C
    <3>1. {k} \subseteq 1 .. n
      BY <2>1
    <3>2. Reach(gs, {k}) \subseteq Reach(fs, {k}) /\ {k} \subseteq Reach(gs, {k})
      BY <1>4, <3>1
    <3>. QED BY <1>6, <3>2
  <2>3. CASE k \in Unbroken(gs, c[L])
    BY <1>3, <2>1, <2>3
  <2>4. CASE k \notin Unbroken(gs, c[L])
    <3>1. PICK i \in 1 .. L - 1 : x = c[i]
      BY <1>1, <2>1, <2>4
    <3>2. k \in NeededBy(gs, c, c[i])
      BY <2>1, <2>2, <2>4, <3>1 DEF NeededBy, C, L
    <3>3. k \in NeededInside(gs, c)
      BY <3>2 DEF NeededInside, L
    <3>4. <<c[L], k>> \in {c[L]} \X NeededInside(gs, c) /\ c[L] # k
      BY <1>1, <2>2, <3>3
    <3>. QED BY <2>1, <3>4 DEF Linked, L
  <2>. QED BY <2>3, <2>4
<1>. QED BY <1>5, <1>6 DEF Processed, C, L

-----------------------------------------------------------------------------
(***************************************************************************)
(* The steps before the output.                                            *)
(***************************************************************************)
\* Facts about the records that the steps need.
LEMMA Records ==
  ASSUME OrderInductive
  PROVE  /\ N \in Nat /\ Shaped(edges, N) /\ TEs = 1 .. N
         /\ \A c \in Range(cycles) : c.tes \in Seq(1 .. N) /\ Len(c.tes) > 1
<1>1. N \in Nat /\ Shaped(edges, N) /\ TEs = 1 .. N
  BY ElementNumbers DEF OrderInductive, ShapeInv
<1>2. \A c \in Range(cycles) : Recorded(edges, N, c)
  BY DEF OrderInductive, RecordInv
<1>. QED BY <1>1, <1>2 DEF Recorded

LEMMA CyclesBrokenKeeps ==
  ASSUME OrderInductive, CyclesBroken
  PROVE  OrderInductive'
<1> DEFINE S == Range(cycles)
           hard == {c \in S : Severe(c)}
           soft == {c \in S : ~Severe(c)}
           q == Reverse(Those(cycles, hard)) \o Reverse(Those(cycles, soft))
<1>1. /\ opc = "break" /\ todo = <<>> /\ cycq' = q /\ opc' = "cycle"
      /\ UNCHANGED <<el, edges, mark, todo, cycles, queueVars, choiceVars>>
  BY DEF CyclesBroken
<1>2. /\ N \in Nat /\ Shaped(edges, N) /\ Search(edges, mark, todo, N)
      /\ cycles \in Seq(S)
  BY <1>1 DEF OrderInductive, ShapeInv, SearchInv, RecordInv
<1>3. q \in Seq(S) /\ Range(q) = S
  <2> HIDE DEF S
  <2>1. Those(cycles, hard) \in Seq(S) /\ Range(Those(cycles, hard)) = Range(cycles) \cap hard
    BY <1>2, ThoseFacts
  <2>2. Those(cycles, soft) \in Seq(S) /\ Range(Those(cycles, soft)) = Range(cycles) \cap soft
    BY <1>2, ThoseFacts
  <2>3. Reverse(Those(cycles, hard)) \in Seq(S) /\ Range(Reverse(Those(cycles, hard))) = Range(cycles) \cap hard
    BY <2>1, ReverseFacts
  <2>4. Reverse(Those(cycles, soft)) \in Seq(S) /\ Range(Reverse(Those(cycles, soft))) = Range(cycles) \cap soft
    BY <2>2, ReverseFacts
  <2>5. q \in Seq(S) /\ Range(q) = (Range(cycles) \cap hard) \cup (Range(cycles) \cap soft)
    <3> DEFINE a == Reverse(Those(cycles, hard))
               b == Reverse(Those(cycles, soft))
    <3>1. a \in Seq(S) /\ b \in Seq(S)
      BY <2>3, <2>4
    <3> HIDE DEF a, b
    <3>2. a \o b \in Seq(S) /\ Range(a \o b) = Range(a) \cup Range(b)
      BY <3>1, ConcatFacts
    <3>. QED BY <2>3, <2>4, <3>2 DEF a, b
  <2>6. Range(cycles) = S
    BY DEF S
  <2>7. (Range(cycles) \cap hard) \cup (Range(cycles) \cap soft) = S
    BY <2>6
  <2>. QED BY <2>5, <2>7
<1> HIDE DEF q
<1>4. N' = N
  BY <1>1 DEF N
<1>5. Ranked(edges, N, 1 .. N)
  <2>1. \A x \in 1 .. N : mark[x] = 2
    <3> SUFFICES ASSUME NEW x \in 1 .. N, mark[x] # 2 PROVE FALSE
      OBVIOUS
    <3>1. N + 1 - x \in 1 .. Len(todo)
      BY <1>2 DEF Search, Base
    <3>2. Len(todo) = 0
      BY <1>1
    <3>. QED BY <3>1, <3>2
  <2>2. {x \in 1 .. N : mark[x] = 2} = 1 .. N
    BY <2>1
  <2>. QED BY <1>2, <2>2 DEF Search, Finished
<1>6. ShapeInv'
  BY <1>1, <1>4 DEF OrderInductive, ShapeInv
<1>7. ValueInv'
  BY <1>1, <1>4 DEF OrderInductive, ValueInv, queueVars, choiceVars
<1>8. RecordInv'
  BY <1>1, <1>3, <1>4 DEF OrderInductive, RecordInv
<1>9. SearchInv'
  BY <1>1 DEF SearchInv
<1>10. CycleInv'
  BY <1>1, <1>3, <1>4, <1>5 DEF CycleInv
<1>11. OutputInv'
  <2>1. order = <<>> /\ order' = order
    BY <1>1 DEF OrderInductive, OutputInv, queueVars
  <2>2. Range(order') = {} /\ IsInjective(order') /\ order' = <<>>
    BY <2>1 DEF Range, IsInjective
  <2>. QED BY <1>1, <2>2 DEF OutputInv
<1>12. QueueInv'
  BY <1>1 DEF QueueInv
<1>13. ChoiceInv'
  BY <1>1 DEF OrderInductive, ChoiceInv, choiceVars
<1>. QED BY <1>6, <1>7, <1>8, <1>9, <1>10, <1>11, <1>12, <1>13 DEF OrderInductive

LEMMA AddCycleEdgesKeeps ==
  ASSUME OrderInductive, AddCycleEdges
  PROVE  OrderInductive'
<1> DEFINE c == Head(cycq).tes
           gs == TailEdges(edges, c)
           fs == HeadEdges(gs, c)
           P == Outside(edges, N, c) \X {c[1]}
           Q == {c[Len(c)]} \X NeededInside(gs, c)
<1>1. /\ opc = "cycle" /\ cycq # <<>> /\ edges' = fs /\ cycq' = Tail(cycq)
      /\ UNCHANGED <<el, mark, todo, cycles, queueVars, choiceVars, opc>>
  BY DEF AddCycleEdges
<1>2. /\ N \in Nat /\ Shaped(edges, N) /\ TEs = 1 .. N
      /\ \A r \in Range(cycles) : r.tes \in Seq(1 .. N) /\ Len(r.tes) > 1
  BY Records
<1>3. /\ cycq \in Seq(Range(cycles)) /\ Ranked(edges, N, 1 .. N)
      /\ \A r \in Range(cycles) : Recorded(edges, N, r)
      /\ \A r \in Range(cycles) : r \in Range(cycq) \/ Processed(edges, N, r.tes)
  BY <1>1 DEF OrderInductive, RecordInv, CycleInv
<1>4. /\ Head(cycq) \in Range(cycles) /\ Tail(cycq) \in Seq(Range(cycles))
      /\ Range(cycq) = {Head(cycq)} \cup Range(Tail(cycq))
  BY <1>1, <1>3, TailFacts
<1>5. c \in Seq(1 .. N) /\ Len(c) > 1
  BY <1>2, <1>4
<1> HIDE DEF c, P, Q, gs, fs
<1>6. Linked(edges, gs, N, P)
  BY <1>2, <1>5, TailLinked DEF gs, P
<1>7. Shaped(gs, N)
  BY <1>6 DEF Linked
<1>8. Linked(gs, fs, N, Q)
  BY <1>2, <1>5, <1>7, HeadLinked DEF fs, Q
<1>9. Shaped(fs, N)
  BY <1>8 DEF Linked
<1>10. N' = N
  BY <1>1, <1>2, <1>9, ShapedLen DEF N
<1>11. Ranked(fs, N, 1 .. N)
  <2>1. Ranked(gs, N, 1 .. N)
    BY <1>2, <1>3, <1>5, <1>6, TailRanked DEF P
  <2>. QED BY <1>2, <1>5, <1>7, <1>8, <2>1, HeadRanked DEF Q
<1>12. Processed(fs, N, c)
  BY <1>2, <1>5, <1>6, <1>8, CycleProcessed DEF P, Q
<1>13. ASSUME NEW r \in Range(cycles), Processed(edges, N, r.tes)
       PROVE  Processed(fs, N, r.tes)
  <2>1. Processed(gs, N, r.tes)
    BY <1>2, <1>6, <1>13, ProcessedKept
  <2>. QED BY <1>2, <1>7, <1>8, <2>1, ProcessedKept
<1>14. ASSUME NEW r \in Range(cycles)
       PROVE  r \in Range(cycq') \/ Processed(fs, N, r.tes)
  <2>1. r \in Range(cycq) \/ Processed(edges, N, r.tes)
    BY <1>3
  <2>2. CASE r = Head(cycq)
    BY <1>12, <2>2 DEF c
  <2>. QED BY <1>1, <1>4, <1>13, <2>1, <2>2
<1>15. \A r \in Range(cycles) : Recorded(fs, N, r)
  <2> SUFFICES ASSUME NEW r \in Range(cycles) PROVE Recorded(fs, N, r)
    OBVIOUS
  <2>1. Grown(edges, gs, N) /\ Grown(gs, fs, N)
    BY <1>6, <1>8 DEF Linked
  <2>2. Recorded(gs, N, r)
    BY <1>2, <1>3, <2>1, RecordKept
  <2>. QED BY <1>2, <2>1, <2>2, RecordKept
<1>16. ASSUME NEW x \in 1 .. N, NEW y \in Targets(fs, x), TYPE_BROKEN \in EdgeType(fs, x, y)
       PROVE  \E r \in Range(cycles) : r.tes[Len(r.tes)] = x /\ r.tes[1] = y
  <2>1. y \in 1 .. N
    BY <1>2, <1>9, UnbrokenFacts
  <2>2. y \in Targets(gs, x) /\ TYPE_BROKEN \in EdgeType(gs, x, y)
    BY <1>8, <1>16, <2>1 DEF Linked
  <2>3. y \in Targets(edges, x) /\ TYPE_BROKEN \in EdgeType(edges, x, y)
    BY <1>6, <2>1, <2>2 DEF Linked
  <2>. QED BY <2>3 DEF OrderInductive, RecordInv
<1>17. ShapeInv'
  BY <1>1, <1>9, <1>10 DEF OrderInductive, ShapeInv
<1>18. ValueInv'
  BY <1>1, <1>10 DEF OrderInductive, ValueInv, queueVars, choiceVars
<1>19. RecordInv'
  <2>1. cycles' = cycles /\ cycles \in Seq(Range(cycles))
    BY <1>1 DEF OrderInductive, RecordInv
  <2>. QED BY <1>1, <1>4, <1>10, <1>15, <1>16, <2>1 DEF RecordInv
<1>20. SearchInv'
  BY <1>1 DEF SearchInv
<1>21. CycleInv'
  BY <1>1, <1>10, <1>11, <1>14 DEF CycleInv
<1>22. OutputInv'
  <2>1. order = <<>> /\ order' = order
    BY <1>1 DEF OrderInductive, OutputInv, queueVars
  <2>2. Range(order') = {} /\ IsInjective(order') /\ order' = <<>>
    BY <2>1 DEF Range, IsInjective
  <2>. QED BY <1>1, <2>2 DEF OutputInv
<1>23. QueueInv'
  BY <1>1 DEF QueueInv
<1>24. ChoiceInv'
  BY <1>1 DEF OrderInductive, ChoiceInv, choiceVars
<1>. QED BY <1>17, <1>18, <1>19, <1>20, <1>21, <1>22, <1>23, <1>24 DEF OrderInductive

\* The search starts with a stack of all elements.
LEMMA SearchStarts ==
  ASSUME NEW n \in Nat, NEW es, Shaped(es, n)
  PROVE  Search(es, [i \in 1 .. n |-> 0], [i \in 1 .. n |-> n + 1 - i], n)
<1> DEFINE mk == [i \in 1 .. n |-> 0]
           st == [i \in 1 .. n |-> n + 1 - i]
           A == (1 .. n) \cup {-i : i \in 1 .. n}
<1>1. mk \in [1 .. n -> 0 .. 2] /\ \A x \in 1 .. n : mk[x] = 0
  OBVIOUS
<1>2. /\ \A q \in 1 .. n : st[q] \in 1 .. n /\ st[q] = n + 1 - q
      /\ st = [i \in 1 .. n |-> n + 1 - i]
  OBVIOUS
<1>3. \A q \in 1 .. n : st[q] \in A
  BY <1>2
<1> HIDE DEF A
<1>4. st \in Seq(A) /\ Len(st) = n
  BY <1>3
<1> HIDE DEF st, mk
<1>5. st \in Stack(n)
  BY <1>4 DEF A, Stack
<1>6. OnStack(mk, st, n)
  <2>1. \A p \in 1 .. Len(st) : st[p] \in Nat \ {0}
    BY <1>2, <1>4
  <2>2. ASSUME NEW x \in 1 .. n, NEW p \in 1 .. Len(st) PROVE st[p] # -x
    BY <2>1
  <2>3. \A p \in 1 .. Len(st) : ~(st[p] < 0)
    BY <2>1
  <2>4. \A x \in 1 .. n : mk[x] # 1
    BY <1>1
  <2>. QED BY <2>2, <2>3, <2>4 DEF OnStack
<1>7. \A p \in 1 .. Len(st) : ~(st[p] < 0)
  BY <1>2, <1>4
<1>8. Path(es, st)
  BY <1>7 DEF Path
<1>9. Children(es, mk, st)
  BY <1>7 DEF Children
<1>10. Finished(es, mk, n)
  <2>1. \A x \in 1 .. n : mk[x] # 2
    BY <1>1
  <2>2. {x \in 1 .. n : mk[x] = 2} = {}
    BY <2>1
  <2>3. Ranked(es, n, {})
    <3>1. 0 \in Nat /\ Numbers([x \in 1 .. n |-> 0], es, n, {}, 0)
      BY DEF Numbers
    <3>. QED BY <3>1 DEF Ranked
  <2>. QED BY <2>1, <2>2, <2>3 DEF Finished
<1>11. Base(mk, st, n)
  <2> SUFFICES ASSUME NEW x \in 1 .. n
               PROVE  /\ n + 1 - x \in 1 .. Len(st)
                      /\ Abs(st[n + 1 - x]) = x
                      /\ \A q \in 1 .. n - x : st[q] > 0
    BY DEF Base
  <2>1. n + 1 - x \in 1 .. Len(st)
    BY <1>4
  <2>2. st[n + 1 - x] = n + 1 - (n + 1 - x)
    BY <1>2, <1>4, <2>1
  <2>3. n + 1 - (n + 1 - x) = x
    OBVIOUS
  <2>4. ASSUME NEW q \in 1 .. n - x PROVE st[q] > 0
    <3>1. q \in 1 .. n
      OBVIOUS
    <3>. QED BY <1>2, <3>1
  <2>. QED BY <2>1, <2>2, <2>3, <2>4 DEF Abs
<1>. QED BY <1>1, <1>5, <1>6, <1>8, <1>9, <1>10, <1>11 DEF Search, mk, st

\* The edges of the calls are there.
Covered(es, calls) ==
  \A k \in DOMAIN calls : calls[k][1] # calls[k][2] => calls[k][2] \in Targets(es, calls[k][1])

LEMMA StartOrderKeeps ==
  ASSUME OrderInductive, NEW g, IsGraph(g), StartOrder(g)
  PROVE  OrderInductive' /\ N' = g.n /\ Covered(edges', g.calls)
<1> DEFINE n == g.n
           E == 1 .. n
           es == [i \in 1 .. n |-> <<>>]
<1>1. /\ opc = "idle" /\ n > 0 /\ el' = g.el /\ edges' = addteedges(es, g.calls)
      /\ mark' = [i \in 1 .. n |-> 0] /\ todo' = [i \in 1 .. n |-> n + 1 - i]
      /\ cycles' = <<>> /\ cycq' = <<>>
      /\ UNCHANGED <<queueVars, choiceVars>> /\ opc' = "break"
  BY DEF StartOrder
<1>2. /\ n \in Nat /\ g.el.uninst \subseteq E /\ g.el.scripts \subseteq E
      /\ g.el.repo \in [E -> Nat \ {0}] /\ g.el.media \in [E -> Nat]
      /\ g.calls \in Seq(E \X E \X SUBSET DepTypes)
  BY DEF IsGraph
<1>3. Shaped(es, n) /\ \A x \in 1 .. n : Targets(es, x) = {}
  <2>1. \A x \in 1 .. n : es[x] = <<>> /\ DOMAIN es[x] = {}
    OBVIOUS
  <2>2. <<>> \in Seq(Edge(1 .. n))
    OBVIOUS
  <2>3. es \in [1 .. n -> Seq(Edge(1 .. n))]
    BY <2>2
  <2> HIDE DEF es
  <2>. QED BY <2>1, <2>3 DEF Shaped, Targets
<1>4. g.calls \in Seq(Call(n)) /\ \A k \in DOMAIN g.calls : g.calls[k][3] \subseteq DepTypes
  <2> DEFINE A == E \X E \X SUBSET DepTypes
  <2>1. A \subseteq Call(n)
    BY DEF Call, Types
  <2>2. \A a \in A : a[3] \subseteq DepTypes
    OBVIOUS
  <2>3. g.calls \in Seq(A)
    BY <1>2
  <2> HIDE DEF A
  <2>4. \A k \in DOMAIN g.calls : g.calls[k] \in A
    BY <2>3
  <2>. QED BY <2>1, <2>2, <2>3, <2>4, SeqGrows
<1> DEFINE fs == addteedges(es, g.calls)
<1> HIDE DEF es, n, fs
<1>5. Extended(es, fs, n, g.calls, Len(g.calls), DepTypes)
  BY <1>2, <1>3, <1>4, AddMany DEF fs
<1>6. Shaped(fs, n) /\ fs = edges'
  BY <1>1, <1>5 DEF Extended, fs
<1>7. N' = n
  BY <1>2, <1>6, ShapedLen DEF N
<1>8. \A x \in 1 .. n : \A y \in Targets(fs, x) : EdgeType(fs, x, y) \subseteq DepTypes
  BY <1>3, <1>5 DEF Extended
<1>9. ShapeInv'
  BY <1>1, <1>2, <1>6, <1>7 DEF ShapeInv
<1>10. N = 0 /\ chosen = {} /\ early = {} /\ order = <<>>
  BY <1>1 DEF OrderInductive, ShapeInv, ChoiceInv, OutputInv
<1>11. Search(fs, mark', todo', n)
  BY <1>1, <1>2, <1>6, SearchStarts
<1>12. ValueInv'
  <2>1. 1 .. N \subseteq E /\ 0 .. N \subseteq 0 .. n
    BY <1>2, <1>10
  <2>2. /\ uninstq \in Seq(1 .. N) /\ samerepoq \in Seq(1 .. N)
        /\ order \in Seq(1 .. N) /\ choices \in Seq(1 .. N)
        /\ lastte \in 0 .. N
    BY DEF OrderInductive, ValueInv
  <2> HIDE DEF E
  <2>3. uninstq \in Seq(E) /\ samerepoq \in Seq(E) /\ order \in Seq(E) /\ choices \in Seq(E)
        /\ lastte \in 0 .. n
    BY <2>1, <2>2, SeqGrows
  <2>4. mark' \in [1 .. n -> Int]
    BY <1>1
  <2>5. todo' \in Stack(n)
    BY <1>11 DEF Search
  <2>6. chosen' = {} /\ early' = {}
    BY <1>1, <1>10 DEF choiceVars
  <2>. QED BY <1>1, <1>7, <2>3, <2>4, <2>5, <2>6 DEF ValueInv, E, queueVars, choiceVars
<1>13. RecordInv'
  <2>1. Range(cycles') = {}
    BY <1>1 DEF Range
  <2>2. TYPE_BROKEN \notin DepTypes
    BY DEF DepTypes, TYPE_BROKEN, TYPE_CON, TYPE_REQ_UI, TYPE_PREREQ_UI, TYPE_REQ_UU, TYPE_PREREQ_UU,
           TYPE_SUG, TYPE_REC, TYPE_REQ, TYPE_PREREQ
  <2>3. \A x \in 1 .. N' : \A y \in Targets(edges', x) : TYPE_BROKEN \notin EdgeType(edges', x, y)
    BY <1>6, <1>7, <1>8, <2>2
  <2>4. cycles' \in Seq(Range(cycles')) /\ cycq' \in Seq(Range(cycles'))
    BY <1>1
  <2>. QED BY <2>1, <2>3, <2>4 DEF RecordInv
<1>14. SearchInv'
  <2>1. \A x \in 1 .. N' : \A y \in Targets(edges', x) : EdgeType(edges', x, y) \subseteq DepTypes \cup {TYPE_BROKEN}
    BY <1>6, <1>7, <1>8
  <2>2. Search(edges', mark', todo', N')
    BY <1>6, <1>7, <1>11
  <2>. QED BY <2>1, <2>2 DEF SearchInv
<1>15. CycleInv'
  BY <1>1 DEF CycleInv
<1>16. OutputInv'
  <2>1. order' = <<>>
    BY <1>1, <1>10 DEF queueVars
  <2>2. Range(order') = {} /\ IsInjective(order')
    BY <2>1 DEF Range, IsInjective
  <2>. QED BY <1>1, <2>1, <2>2 DEF OutputInv
<1>17. QueueInv'
  BY <1>1 DEF QueueInv
<1>18. ChoiceInv'
  BY <1>1, <1>10 DEF ChoiceInv, choiceVars
<1>19. Covered(edges', g.calls)
  <2>1. DOMAIN g.calls = 1 .. Len(g.calls)
    BY <1>4
  <2>. QED BY <1>5, <1>6, <2>1 DEF Covered, Extended
<1>20. N' = g.n
  BY <1>7 DEF n
<1>. QED BY <1>9, <1>12, <1>13, <1>14, <1>15, <1>16, <1>17, <1>18, <1>19, <1>20 DEF OrderInductive

-----------------------------------------------------------------------------
(***************************************************************************)
(* The output.                                                             *)
(***************************************************************************)
LEMMA Counts ==
  ASSUME NEW n \in Nat, NEW A, A \subseteq 1 .. n
  PROVE  /\ Cardinality(A) \in Nat
         /\ Cardinality(A) = 0 <=> A = {}
         /\ \A i \in A : Cardinality(A \ {i}) = Cardinality(A) - 1
<1>1. IsFiniteSet(1 .. n)
  BY FS_Interval
<1>2. IsFiniteSet(A)
  BY <1>1, FS_Subset
<1>3. Cardinality(A) \in Nat
  BY <1>2, FS_CardinalityType
<1>4. Cardinality(A) = 0 <=> A = {}
  BY <1>2, FS_EmptySet
<1>5. ASSUME NEW i \in A PROVE Cardinality(A \ {i}) = Cardinality(A) - 1
  BY <1>2, FS_RemoveElement
<1>. QED BY <1>3, <1>4, <1>5

\* The elements that need an element, and how many an element needs.
LEMMA FollowersFacts ==
  ASSUME OrderInductive
  PROVE  /\ \A i \in 1 .. N : /\ Followers(i) \in Seq(1 .. N) /\ IsInjective(Followers(i))
                              /\ Range(Followers(i)) = {x \in 1 .. N : i \in Unbroken(edges, x)}
         /\ \A x \in 1 .. N : /\ Unbroken(edges, x) \subseteq 1 .. N /\ x \notin Unbroken(edges, x)
                              /\ Needs[x] = Cardinality(Unbroken(edges, x)) /\ Needs[x] \in Nat
         /\ Needs \in [1 .. N -> Int]
<1>1. N \in Nat /\ Shaped(edges, N) /\ TEs = 1 .. N
  BY Records
<1>2. ASSUME NEW i \in 1 .. N
      PROVE  /\ Followers(i) \in Seq(1 .. N) /\ IsInjective(Followers(i))
             /\ Range(Followers(i)) = {x \in 1 .. N : i \in Unbroken(edges, x)}
  <2> DEFINE S == {x \in 1 .. N : i \in Unbroken(edges, x)}
             t == InTEOrder(S)
             E == 1 .. N
  <2>1. Followers(i) = Reverse(t)
    BY <1>1 DEF Followers
  <2>2. S \subseteq 1 .. N
    OBVIOUS
  <2> HIDE DEF S
  <2>3. t \in Seq(1 .. N) /\ Range(t) = S /\ IsInjective(t)
    BY <1>1, <2>2, InTEOrderFacts
  <2>4. t \in Seq(E)
    BY <2>3
  <2> HIDE DEF t, E
  <2>5. Reverse(t) \in Seq(E) /\ Range(Reverse(t)) = Range(t) /\ IsInjective(Reverse(t))
    BY <2>3, <2>4, ReverseFacts
  <2>. QED BY <2>1, <2>3, <2>5 DEF E, S
<1>3. ASSUME NEW x \in 1 .. N
      PROVE  Unbroken(edges, x) \subseteq 1 .. N /\ x \notin Unbroken(edges, x)
  BY <1>1, UnbrokenFacts
<1>4. ASSUME NEW x \in 1 .. N
      PROVE  Needs[x] = Cardinality(Unbroken(edges, x)) /\ Needs[x] \in Nat
  <2>1. Needs[x] = Cardinality(Unbroken(edges, x))
    BY <1>1 DEF Needs
  <2>. QED BY <1>1, <1>3, <2>1, Counts
<1>5. Needs \in [1 .. N -> Int]
  <2>1. Needs = [x \in 1 .. N |-> Cardinality(Unbroken(edges, x))]
    BY <1>1 DEF Needs
  <2>2. \A x \in 1 .. N : Cardinality(Unbroken(edges, x)) \in Int
    BY <1>4
  <2>. QED BY <2>1, <2>2
<1>. QED BY <1>2, <1>3, <1>4, <1>5

LEMMA InvertEdgesKeeps ==
  ASSUME OrderInductive, InvertEdges
  PROVE  OrderInductive'
<1> DEFINE ready == {x \in TEs : Needs[x] = 0}
           A == ready \cap el.uninst
           B == ready \ el.uninst
<1>1. /\ opc = "cycle" /\ cycq = <<>> /\ mark' = Needs /\ opc' = "order"
      /\ uninstq' = InTEOrder(A) /\ todo' = InTEOrder(B)
      /\ samerepoq' = <<>> /\ lastrepo' = 0 /\ lastmedia' = 0 /\ lastte' = 0 /\ order' = <<>>
      /\ UNCHANGED <<el, edges, cycles, cycq, choiceVars>>
  BY DEF InvertEdges
<1>2. N \in Nat /\ Shaped(edges, N) /\ TEs = 1 .. N
  BY Records
<1>3. /\ \A x \in 1 .. N : /\ Unbroken(edges, x) \subseteq 1 .. N
                           /\ Needs[x] = Cardinality(Unbroken(edges, x)) /\ Needs[x] \in Nat
      /\ Needs \in [1 .. N -> Int]
  BY FollowersFacts
<1>4. A \subseteq 1 .. N /\ B \subseteq 1 .. N /\ A \cap B = {} /\ A \cup B = {x \in 1 .. N : Needs[x] = 0}
  BY <1>2
<1> HIDE DEF A, B
<1>5. /\ uninstq' \in Seq(1 .. N) /\ Range(uninstq') = A /\ IsInjective(uninstq')
      /\ todo' \in Seq(1 .. N) /\ Range(todo') = B /\ IsInjective(todo')
  BY <1>1, <1>2, <1>4, InTEOrderFacts
<1>6. N' = N
  BY <1>1 DEF N
<1>7. Range(order') = {} /\ IsInjective(order') /\ Range(samerepoq') = {} /\ IsInjective(samerepoq')
  BY <1>1 DEF Range, IsInjective
<1>8. ShapeInv'
  BY <1>1, <1>6 DEF OrderInductive, ShapeInv
<1>9. ValueInv'
  <2> DEFINE E == 1 .. N
  <2>1. todo' \in Stack(N)
    <3>1. todo' \in Seq(E) /\ E \subseteq E \cup {-x : x \in E}
      BY <1>5
    <3> HIDE DEF E
    <3>2. todo' \in Seq(E \cup {-x : x \in E})
      BY <3>1, SeqGrows
    <3>. QED BY <3>2 DEF Stack, E
  <2>2. samerepoq' \in Seq(E) /\ order' \in Seq(E) /\ lastte' \in 0 .. N /\ uninstq' \in Seq(E)
    BY <1>1, <1>2, <1>5
  <2>3. mark' \in [1 .. N -> Int]
    BY <1>1, <1>3
  <2>4. choices' \in Seq(1 .. N) /\ early' \subseteq chosen' /\ chosen' \subseteq 1 .. N
    BY <1>1 DEF OrderInductive, ValueInv, choiceVars
  <2>. QED BY <1>6, <2>1, <2>2, <2>3, <2>4 DEF ValueInv
<1>10. RecordInv'
  BY <1>1, <1>6 DEF OrderInductive, RecordInv
<1>11. SearchInv'
  BY <1>1 DEF SearchInv
<1>12. CycleInv'
  <2>1. Range(cycq) = {}
    BY <1>1 DEF Range
  <2>. QED BY <1>1, <1>6, <2>1 DEF OrderInductive, CycleInv
<1>13. OutputInv'
  BY <1>1, <1>7 DEF OutputInv
<1>14. QueueInv'
  <2>1. \A x \in 1 .. N' : mark'[x] = Waiting(x)'
    <3> SUFFICES ASSUME NEW x \in 1 .. N PROVE mark'[x] = Waiting(x)'
      BY <1>6
    <3>1. Unbroken(edges, x) \ Range(order') = Unbroken(edges, x)
      BY <1>7
    <3>2. Waiting(x)' = Cardinality(Unbroken(edges, x) \ Range(order'))
      BY <1>1 DEF Waiting
    <3>. QED BY <1>1, <1>3, <3>1, <3>2
  <2>2. \A x \in 1 .. N' : x \in Ready' <=> mark'[x] = 0 /\ x \notin Range(order')
    BY <1>1, <1>4, <1>5, <1>6, <1>7 DEF Ready
  <2>3. \A x \in Range(todo') : ~(el'.repo[x] = lastrepo' /\ el'.media[x] = lastmedia')
    <3>1. \A x \in 1 .. N : el.repo[x] \in Nat \ {0}
      BY DEF OrderInductive, ShapeInv
    <3>. QED BY <1>1, <1>4, <1>5, <3>1
  <2>4. todo' \in Seq(1 .. N')
    BY <1>5, <1>6
  <2>. QED BY <1>4, <1>5, <1>7, <2>1, <2>2, <2>3, <2>4 DEF QueueInv
<1>15. ChoiceInv'
  BY <1>1 DEF OrderInductive, ChoiceInv, choiceVars
<1>. QED BY <1>8, <1>9, <1>10, <1>11, <1>12, <1>13, <1>14, <1>15 DEF OrderInductive

LEMMA InitChoicesKeeps ==
  ASSUME OrderInductive, InitChoices
  PROVE  OrderInductive'
<1> DEFINE A == {x \in TEs : Needs[x] = 0}
<1>1. /\ opc = "done" /\ mark' = Needs /\ choices' = InTEOrder(A) /\ opc' = "choices"
      /\ UNCHANGED <<el, edges, todo, cycles, cycq, queueVars, chosen, early>>
  BY DEF InitChoices
<1>2. N \in Nat /\ Shaped(edges, N) /\ TEs = 1 .. N
  BY Records
<1>3. /\ \A x \in 1 .. N : Needs[x] = Cardinality(Unbroken(edges, x))
      /\ Needs \in [1 .. N -> Int]
  BY FollowersFacts
<1>4. A \subseteq 1 .. N /\ A = {x \in 1 .. N : Needs[x] = 0}
  BY <1>2
<1> HIDE DEF A
<1>5. choices' \in Seq(1 .. N) /\ Range(choices') = A /\ IsInjective(choices')
  BY <1>1, <1>2, <1>4, InTEOrderFacts
<1>6. N' = N
  BY <1>1 DEF N
<1>7. ShapeInv'
  BY <1>1, <1>6 DEF OrderInductive, ShapeInv
<1>8. ValueInv'
  BY <1>1, <1>3, <1>5, <1>6 DEF OrderInductive, ValueInv, queueVars
<1>9. RecordInv'
  BY <1>1, <1>6 DEF OrderInductive, RecordInv
<1>10. SearchInv'
  BY <1>1 DEF SearchInv
<1>11. CycleInv'
  BY <1>1 DEF OrderInductive, CycleInv
<1>12. OutputInv'
  BY <1>1, <1>6 DEF OrderInductive, OutputInv, Before, queueVars
<1>13. QueueInv'
  BY <1>1 DEF QueueInv
<1>14. ChoiceInv'
  <2>1. chosen' = {} /\ early' = {}
    BY <1>1 DEF OrderInductive, ChoiceInv
  <2>2. ASSUME NEW x \in 1 .. N
        PROVE  mark'[x] = Cardinality(Unbroken(edges, x) \ chosen')
    <3>1. Unbroken(edges, x) \ chosen' = Unbroken(edges, x)
      BY <2>1
    <3>. QED BY <1>1, <1>3, <3>1
  <2>3. \A x \in 1 .. N' : mark'[x] = IF x \in early' THEN -1 ELSE Cardinality(Unbroken(edges', x) \ chosen')
    BY <1>1, <1>6, <2>1, <2>2
  <2>4. Range(choices') = {x \in (1 .. N') \ early' : mark'[x] = 0}
    BY <1>1, <1>4, <1>5, <1>6, <2>1
  <2>. QED BY <1>1, <1>5, <2>3, <2>4 DEF ChoiceInv
<1>. QED BY <1>7, <1>8, <1>9, <1>10, <1>11, <1>12, <1>13, <1>14 DEF OrderInductive

\* The element i is taken from the queues; t, s and u are what is left.
Taken(i, t, s, u, repo, media) ==
  /\ i \in Ready
  /\ t \in Seq(1 .. N) /\ s \in Seq(1 .. N) /\ u \in Seq(1 .. N)
  /\ IsInjective(t) /\ IsInjective(s) /\ IsInjective(u)
  /\ Range(u) \cap Range(s) = {} /\ Range(u) \cap Range(t) = {} /\ Range(s) \cap Range(t) = {}
  /\ \A x : x \in Range(t) \cup Range(s) \cup Range(u) <=> x \in Ready /\ x # i
  /\ \A x \in Range(t) : ~(el.repo[x] = repo /\ el.media[x] = media)

\* A queue that elements of A, which are not in it, are appended to.
LEMMA QueueGrows ==
  ASSUME NEW S, NEW q \in Seq(S), IsInjective(q), NEW f \in Seq(S), IsInjective(f),
         NEW A, A \subseteq Range(f), A \cap Range(q) = {}
  PROVE  /\ q \o Those(f, A) \in Seq(S)
         /\ IsInjective(q \o Those(f, A))
         /\ Range(q \o Those(f, A)) = Range(q) \cup A
<1> DEFINE t == Those(f, A)
<1>1. t \in Seq(S) /\ Range(t) = Range(f) \cap A /\ IsInjective(t)
  BY ThoseFacts
<1>2. Range(t) = A
  BY <1>1
<1> HIDE DEF t
<1>3. /\ q \o t \in Seq(S)
      /\ Range(q \o t) = Range(q) \cup Range(t)
      /\ IsInjective(q) /\ IsInjective(t) /\ Range(q) \cap Range(t) = {} => IsInjective(q \o t)
  BY <1>1, ConcatFacts
<1>. QED BY <1>1, <1>2, <1>3 DEF t

LEMMA OutputKeeps ==
  ASSUME OrderInductive, opc = "order",
         NEW i, NEW t, NEW s, NEW u, NEW repo, NEW media,
         Taken(i, t, s, u, repo, media), Output(i, t, s, u, repo, media)
  PROVE  OrderInductive'
<1> DEFINE F == Followers(i)
           next == Range(F)
           free == {x \in next : mark[x] = 1}
           near == {x \in TEs : el.repo[x] = repo /\ el.media[x] = media}
           Au == free \cap el.uninst
           As == (free \ el.uninst) \cap near
           At == (free \ el.uninst) \ near
           E == 1 .. N
<1>1. /\ order' = Append(order, i)
      /\ lastte' = IF i \in el.uninst THEN lastte ELSE i
      /\ mark' = [x \in TEs |-> IF x \in next THEN mark[x] - 1 ELSE mark[x]]
      /\ uninstq' = u \o Those(F, Au)
      /\ samerepoq' = s \o Those(F, As)
      /\ todo' = t \o Those(F, At)
      /\ lastrepo' = repo /\ lastmedia' = media
      /\ UNCHANGED <<el, edges, cycles, cycq, choiceVars, opc>>
  BY DEF Output
<1>2. N \in Nat /\ Shaped(edges, N) /\ TEs = 1 .. N
  BY Records
<1>3. /\ i \in Ready
      /\ t \in Seq(1 .. N) /\ s \in Seq(1 .. N) /\ u \in Seq(1 .. N)
      /\ IsInjective(t) /\ IsInjective(s) /\ IsInjective(u)
      /\ Range(u) \cap Range(s) = {} /\ Range(u) \cap Range(t) = {} /\ Range(s) \cap Range(t) = {}
      /\ \A x : x \in Range(t) \cup Range(s) \cup Range(u) <=> x \in Ready /\ x # i
      /\ \A x \in Range(t) : ~(el.repo[x] = repo /\ el.media[x] = media)
  BY DEF Taken
<1>4. /\ \A x \in 1 .. N : mark[x] = Waiting(x)
      /\ \A x \in 1 .. N : x \in Ready <=> mark[x] = 0 /\ x \notin Range(order)
      /\ Ready \subseteq 1 .. N
  <2>1. todo \in Seq(E) /\ uninstq \in Seq(E) /\ samerepoq \in Seq(E)
    BY DEF OrderInductive, QueueInv, ValueInv
  <2>2. Ready \subseteq E
    <3> HIDE DEF E
    <3>1. Range(todo) \subseteq E /\ Range(uninstq) \subseteq E /\ Range(samerepoq) \subseteq E
      BY <2>1 DEF Range
    <3>. QED BY <3>1 DEF Ready
  <2>. QED BY <2>2 DEF OrderInductive, QueueInv
<1>5. i \in 1 .. N /\ mark[i] = 0 /\ i \notin Range(order)
  BY <1>3, <1>4
<1>6. /\ F \in Seq(1 .. N) /\ IsInjective(F) /\ next = {x \in 1 .. N : i \in Unbroken(edges, x)}
      /\ \A x \in 1 .. N : Unbroken(edges, x) \subseteq 1 .. N /\ x \notin Unbroken(edges, x)
  BY <1>5, FollowersFacts
<1> HIDE DEF F, next
<1>7. order \in Seq(1 .. N) /\ IsInjective(order)
      /\ \A y \in Range(order) : \A x \in Unbroken(edges, y) : Before(x, y)
  BY DEF OrderInductive, ValueInv, OutputInv
<1>8. /\ order' \in Seq(1 .. N) /\ IsInjective(order') /\ Range(order') = Range(order) \cup {i}
      /\ Len(order) \in Nat /\ DOMAIN order = 1 .. Len(order) /\ DOMAIN order' = 1 .. Len(order) + 1
      /\ \A k \in 1 .. Len(order) : order'[k] = order[k]
      /\ order'[Len(order) + 1] = i
  <2>1. order \in Seq(E) /\ i \in E
    BY <1>5, <1>7
  <2> HIDE DEF E
  <2>2. /\ Append(order, i) \in Seq(E) /\ Range(Append(order, i)) = Range(order) \cup {i}
        /\ IsInjective(Append(order, i))
    BY <1>5, <1>7, <2>1, AppendFacts
  <2>3. /\ Len(order) \in Nat /\ DOMAIN order = 1 .. Len(order)
        /\ DOMAIN Append(order, i) = 1 .. Len(order) + 1
        /\ \A k \in 1 .. Len(order) : Append(order, i)[k] = order[k]
        /\ Append(order, i)[Len(order) + 1] = i
    BY <2>1
  <2>. QED BY <1>1, <2>2, <2>3 DEF E
<1>9. ASSUME NEW x \in next
      PROVE  x \in 1 .. N /\ x \notin Range(order) /\ mark[x] \in Nat \ {0} /\ i \in Unbroken(edges, x)
  <2>1. x \in 1 .. N /\ i \in Unbroken(edges, x)
    BY <1>6
  <2>2. x \notin Range(order)
    <3> SUFFICES ASSUME x \in Range(order) PROVE i \in Range(order)
      BY <1>5
    <3>1. Before(i, x)
      BY <1>7, <2>1
    <3>. QED BY <3>1 DEF Before, Range
  <2>3. Unbroken(edges, x) \ Range(order) \subseteq 1 .. N /\ i \in Unbroken(edges, x) \ Range(order)
    BY <1>5, <1>6, <2>1
  <2>4. Waiting(x) \in Nat \ {0}
    BY <1>2, <2>3, Counts DEF Waiting
  <2>. QED BY <1>4, <2>1, <2>2, <2>4
<1>10. i \notin next
  BY <1>5, <1>6
<1>11. Au \subseteq next /\ As \subseteq next /\ At \subseteq next /\ Au \cup As \cup At = free
       /\ Au \cap As = {} /\ Au \cap At = {} /\ As \cap At = {}
       /\ \A x \in At : ~(el.repo[x] = repo /\ el.media[x] = media)
  BY <1>2, <1>6
<1>12. free \cap Ready = {} /\ \A x \in free : mark[x] = 1
  BY <1>4, <1>6
<1>13. free = {x \in next : mark[x] = 1}
  OBVIOUS
<1> HIDE DEF Au, As, At, free
<1>14. /\ uninstq' \in Seq(1 .. N) /\ IsInjective(uninstq') /\ Range(uninstq') = Range(u) \cup Au
       /\ samerepoq' \in Seq(1 .. N) /\ IsInjective(samerepoq') /\ Range(samerepoq') = Range(s) \cup As
       /\ todo' \in Seq(1 .. N) /\ IsInjective(todo') /\ Range(todo') = Range(t) \cup At
  <2>1. F \in Seq(E) /\ t \in Seq(E) /\ s \in Seq(E) /\ u \in Seq(E)
    BY <1>3, <1>6
  <2>2. Au \cap Range(u) = {} /\ As \cap Range(s) = {} /\ At \cap Range(t) = {}
    BY <1>3, <1>11, <1>12
  <2>3. Au \subseteq Range(F) /\ As \subseteq Range(F) /\ At \subseteq Range(F)
    BY <1>11 DEF next
  <2> HIDE DEF E
  <2>4. uninstq' \in Seq(E) /\ IsInjective(uninstq') /\ Range(uninstq') = Range(u) \cup Au
    <3>1. IsInjective(u) /\ IsInjective(F)
      BY <1>3, <1>6
    <3>2. /\ u \o Those(F, Au) \in Seq(E) /\ IsInjective(u \o Those(F, Au))
          /\ Range(u \o Those(F, Au)) = Range(u) \cup Au
      BY <2>1, <2>2, <2>3, <3>1, QueueGrows
    <3>. QED BY <1>1, <3>2
  <2>5. samerepoq' \in Seq(E) /\ IsInjective(samerepoq') /\ Range(samerepoq') = Range(s) \cup As
    <3>1. IsInjective(s) /\ IsInjective(F)
      BY <1>3, <1>6
    <3>2. /\ s \o Those(F, As) \in Seq(E) /\ IsInjective(s \o Those(F, As))
          /\ Range(s \o Those(F, As)) = Range(s) \cup As
      BY <2>1, <2>2, <2>3, <3>1, QueueGrows
    <3>. QED BY <1>1, <3>2
  <2>6. todo' \in Seq(E) /\ IsInjective(todo') /\ Range(todo') = Range(t) \cup At
    <3>1. IsInjective(t) /\ IsInjective(F)
      BY <1>3, <1>6
    <3>2. /\ t \o Those(F, At) \in Seq(E) /\ IsInjective(t \o Those(F, At))
          /\ Range(t \o Those(F, At)) = Range(t) \cup At
      BY <2>1, <2>2, <2>3, <3>1, QueueGrows
    <3>. QED BY <1>1, <3>2
  <2>. QED BY <2>4, <2>5, <2>6 DEF E
<1>15. N' = N
  BY <1>1 DEF N
<1>16. \A x \in 1 .. N : mark'[x] = IF x \in next THEN mark[x] - 1 ELSE mark[x]
  BY <1>1, <1>2
<1>17. ShapeInv'
  BY <1>1, <1>15 DEF OrderInductive, ShapeInv
<1>18. ValueInv'
  <2>1. todo' \in Stack(N)
    <3>1. todo' \in Seq(E) /\ E \subseteq E \cup {-x : x \in E}
      BY <1>14
    <3> HIDE DEF E
    <3>2. todo' \in Seq(E \cup {-x : x \in E})
      BY <3>1, SeqGrows
    <3>. QED BY <3>2 DEF Stack, E
  <2>2. mark' \in [1 .. N -> Int]
    <3>1. \A x \in 1 .. N : mark[x] \in Int
      BY DEF OrderInductive, ValueInv
    <3>2. \A x \in 1 .. N : (IF x \in next THEN mark[x] - 1 ELSE mark[x]) \in Int
      BY <3>1
    <3>3. mark' = [x \in 1 .. N |-> IF x \in next THEN mark[x] - 1 ELSE mark[x]]
      BY <1>1, <1>2
    <3>. QED BY <3>2, <3>3
  <2>3. lastte' \in 0 .. N
    <3>1. lastte \in 0 .. N
      BY DEF OrderInductive, ValueInv
    <3>. QED BY <1>1, <1>2, <1>5, <3>1
  <2>4. choices' \in Seq(1 .. N) /\ early' \subseteq chosen' /\ chosen' \subseteq 1 .. N
    BY <1>1 DEF OrderInductive, ValueInv, choiceVars
  <2>. QED BY <1>8, <1>14, <1>15, <2>1, <2>2, <2>3, <2>4 DEF ValueInv
<1>19. RecordInv'
  BY <1>1, <1>15 DEF OrderInductive, RecordInv
<1>20. SearchInv'
  BY <1>1 DEF SearchInv
<1>21. CycleInv'
  BY <1>1, <1>15 DEF OrderInductive, CycleInv
<1>22. OutputInv'
  <2>1. ASSUME NEW y \in Range(order'), NEW x \in Unbroken(edges, y) PROVE Before(x, y)'
    <3>1. CASE y \in Range(order)
      <4>1. PICK j, k \in DOMAIN order : j < k /\ order[j] = x /\ order[k] = y
        BY <1>7, <3>1 DEF Before
      <4>2. j \in DOMAIN order' /\ k \in DOMAIN order' /\ order'[j] = x /\ order'[k] = y
        BY <1>8, <4>1
      <4>. QED BY <4>1, <4>2 DEF Before
    <3>2. CASE y = i
      <4>1. Unbroken(edges, i) \ Range(order) \subseteq 1 .. N
        BY <1>5, <1>6
      <4>2. Cardinality(Unbroken(edges, i) \ Range(order)) = 0
        BY <1>4, <1>5 DEF Waiting
      <4>3. Unbroken(edges, i) \ Range(order) = {}
        BY <1>2, <4>1, <4>2, Counts
      <4>4. PICK j \in 1 .. Len(order) : order[j] = x
        BY <1>8, <3>2, <4>3 DEF Range
      <4>5. j < Len(order) + 1 /\ j \in DOMAIN order' /\ Len(order) + 1 \in DOMAIN order'
            /\ order'[j] = x /\ order'[Len(order) + 1] = y
        BY <1>8, <3>2, <4>4
      <4>. QED BY <4>5 DEF Before
    <3>. QED BY <1>8, <3>1, <3>2
  <2>. QED BY <1>1, <1>8, <2>1 DEF OutputInv
<1>23. QueueInv'
  <2>1. ASSUME NEW x \in 1 .. N PROVE mark'[x] = Waiting(x)'
    <3> DEFINE W == Unbroken(edges, x) \ Range(order)
    <3>1. Waiting(x)' = Cardinality(W \ {i})
      <4>1. Unbroken(edges, x) \ (Range(order) \cup {i}) = W \ {i}
        OBVIOUS
      <4>2. Waiting(x)' = Cardinality(Unbroken(edges, x) \ Range(order'))
        BY <1>1 DEF Waiting
      <4>. QED BY <1>8, <4>1, <4>2
    <3>2. W \subseteq 1 .. N /\ mark[x] = Cardinality(W)
      BY <1>4, <1>6 DEF Waiting
    <3>3. i \in W <=> x \in next
      BY <1>5, <1>6
    <3> HIDE DEF W
    <3>4. CASE x \in next
      <4>1. Cardinality(W \ {i}) = Cardinality(W) - 1
        BY <1>2, <3>2, <3>3, <3>4, Counts
      <4>. QED BY <1>16, <3>1, <3>2, <3>4, <4>1
    <3>5. CASE x \notin next
      <4>1. W \ {i} = W
        BY <3>3, <3>5
      <4>. QED BY <1>16, <3>1, <3>2, <3>5, <4>1
    <3>. QED BY <3>4, <3>5
  <2>2. Range(uninstq') \cap Range(samerepoq') = {} /\ Range(uninstq') \cap Range(todo') = {}
        /\ Range(samerepoq') \cap Range(todo') = {}
    <3>1. /\ Range(u) \cap Range(s) = {} /\ Range(u) \cap Range(t) = {} /\ Range(s) \cap Range(t) = {}
          /\ Au \cap As = {} /\ Au \cap At = {} /\ As \cap At = {}
      BY <1>3, <1>11
    <3>2. Range(u) \subseteq Ready /\ Range(s) \subseteq Ready /\ Range(t) \subseteq Ready
      BY <1>3
    <3>3. Au \cap Ready = {} /\ As \cap Ready = {} /\ At \cap Ready = {}
      BY <1>11, <1>12
    <3>. QED BY <1>14, <3>1, <3>2, <3>3
  <2>3. ASSUME NEW x \in 1 .. N
        PROVE  x \in Ready' <=> mark'[x] = 0 /\ x \notin Range(order')
    <3>1. x \in Ready' <=> (x \in Ready /\ x # i) \/ x \in free
      <4>1. x \in Ready' <=> x \in Range(uninstq') \/ x \in Range(samerepoq') \/ x \in Range(todo')
        BY DEF Ready
      <4>2. x \in free <=> x \in Au \/ x \in As \/ x \in At
        BY <1>11
      <4>3. x \in Range(t) \/ x \in Range(s) \/ x \in Range(u) <=> x \in Ready /\ x # i
        BY <1>3
      <4>. QED BY <1>14, <4>1, <4>2, <4>3
    <3>2. CASE x \in next
      <4>1. x # i /\ x \notin Range(order) /\ mark[x] \in Nat \ {0} /\ mark'[x] = mark[x] - 1
        BY <1>9, <1>10, <1>16, <3>2
      <4>2. x \notin Ready
        BY <1>4, <4>1
      <4>3. x \in free <=> mark[x] = 1
        BY <1>13, <3>2
      <4>4. mark'[x] = 0 <=> mark[x] = 1
        BY <4>1
      <4>. QED BY <1>8, <3>1, <4>1, <4>2, <4>3, <4>4
    <3>3. CASE x \notin next
      <4>1. mark'[x] = mark[x] /\ x \notin free
        BY <1>13, <1>16, <3>3
      <4>. QED BY <1>4, <1>8, <3>1, <4>1
    <3>. QED BY <3>2, <3>3
  <2>4. \A x \in Range(todo') : ~(el'.repo[x] = lastrepo' /\ el'.media[x] = lastmedia')
    BY <1>1, <1>3, <1>11, <1>14
  <2>. QED BY <1>14, <1>15, <2>1, <2>2, <2>3, <2>4 DEF QueueInv
<1>24. ChoiceInv'
  BY <1>1 DEF OrderInductive, ChoiceInv, choiceVars
<1>. QED BY <1>17, <1>18, <1>19, <1>20, <1>21, <1>22, <1>23, <1>24 DEF OrderInductive

LEMMA OrderingFacts ==
  ASSUME OrderInductive, opc = "order"
  PROVE  /\ N \in Nat /\ TEs = 1 .. N
         /\ todo \in Seq(1 .. N) /\ samerepoq \in Seq(1 .. N) /\ uninstq \in Seq(1 .. N)
         /\ IsInjective(todo) /\ IsInjective(samerepoq) /\ IsInjective(uninstq)
         /\ Range(uninstq) \cap Range(samerepoq) = {}
         /\ Range(uninstq) \cap Range(todo) = {}
         /\ Range(samerepoq) \cap Range(todo) = {}
         /\ \A x \in Range(todo) : ~(el.repo[x] = lastrepo /\ el.media[x] = lastmedia)
  BY Records DEF OrderInductive, ValueInv, QueueInv

LEMMA TakeUninstallKeeps ==
  ASSUME OrderInductive, TakeUninstall
  PROVE  OrderInductive'
<1> DEFINE i == Head(uninstq)
           u == Tail(uninstq)
           E == 1 .. N
<1>1. opc = "order" /\ uninstq # <<>> /\ Output(i, todo, samerepoq, u, lastrepo, lastmedia)
  BY DEF TakeUninstall
<1>2. /\ todo \in Seq(E) /\ samerepoq \in Seq(E) /\ uninstq \in Seq(E)
      /\ IsInjective(todo) /\ IsInjective(samerepoq) /\ IsInjective(uninstq)
      /\ Range(uninstq) \cap Range(samerepoq) = {}
      /\ Range(uninstq) \cap Range(todo) = {}
      /\ Range(samerepoq) \cap Range(todo) = {}
      /\ \A x \in Range(todo) : ~(el.repo[x] = lastrepo /\ el.media[x] = lastmedia)
  BY <1>1, OrderingFacts
<1> HIDE DEF E
<1>3. u \in Seq(E) /\ Range(uninstq) = {i} \cup Range(u) /\ IsInjective(u) /\ i \notin Range(u)
  BY <1>1, <1>2, TailFacts
<1> HIDE DEF i, u
<1>4. \A x : x \in Range(todo) \cup Range(samerepoq) \cup Range(u) <=> x \in Ready /\ x # i
  BY <1>2, <1>3 DEF Ready
<1>5. i \in Ready /\ Range(u) \cap Range(samerepoq) = {} /\ Range(u) \cap Range(todo) = {}
  BY <1>2, <1>3 DEF Ready
<1>6. Taken(i, todo, samerepoq, u, lastrepo, lastmedia)
  BY <1>2, <1>3, <1>4, <1>5 DEF Taken, E
<1>. QED BY <1>1, <1>6, OutputKeeps

LEMMA TakeSameRepoKeeps ==
  ASSUME OrderInductive, TakeSameRepo
  PROVE  OrderInductive'
<1> DEFINE near == {j \in DOMAIN samerepoq : lastte # 0 /\ share_cycle(lastte, samerepoq[j])}
           j == IF near = {} THEN 1 ELSE Min(near)
           i == samerepoq[j]
           s == RemoveAt(samerepoq, j)
           E == 1 .. N
<1>1. opc = "order" /\ samerepoq # <<>> /\ Output(i, todo, s, uninstq, lastrepo, lastmedia)
  BY DEF TakeSameRepo
<1>2. /\ todo \in Seq(E) /\ samerepoq \in Seq(E) /\ uninstq \in Seq(E)
      /\ IsInjective(todo) /\ IsInjective(samerepoq) /\ IsInjective(uninstq)
      /\ Range(uninstq) \cap Range(samerepoq) = {}
      /\ Range(uninstq) \cap Range(todo) = {}
      /\ Range(samerepoq) \cap Range(todo) = {}
      /\ \A x \in Range(todo) : ~(el.repo[x] = lastrepo /\ el.media[x] = lastmedia)
  BY <1>1, OrderingFacts
<1> HIDE DEF E
<1>3. DOMAIN samerepoq = 1 .. Len(samerepoq) /\ Len(samerepoq) \in Nat \ {0}
  BY <1>1, <1>2
<1>4. near \subseteq 1 .. Len(samerepoq)
  BY <1>3
<1> HIDE DEF near
<1>5. j \in 1 .. Len(samerepoq)
  <2>1. CASE near = {}
    BY <1>3, <2>1
  <2>2. CASE near # {}
    <3>1. near \subseteq Nat
      BY <1>3, <1>4
    <3>2. Min(near) \in near
      BY <2>2, <3>1, MinIn
    <3>. QED BY <1>4, <2>2, <3>2
  <2>. QED BY <2>1, <2>2
<1> HIDE DEF j
<1>6. /\ s \in Seq(E) /\ i \in Range(samerepoq)
      /\ Range(s) \subseteq Range(samerepoq) /\ Range(samerepoq) \subseteq Range(s) \cup {i}
      /\ IsInjective(s) /\ i \notin Range(s)
  BY <1>2, <1>5, RemoveFacts
<1> HIDE DEF i, s
<1>7. \A x : x \in Range(todo) \cup Range(s) \cup Range(uninstq) <=> x \in Ready /\ x # i
  BY <1>2, <1>6 DEF Ready
<1>8. i \in Ready /\ Range(uninstq) \cap Range(s) = {} /\ Range(s) \cap Range(todo) = {}
  BY <1>2, <1>6 DEF Ready
<1>9. Taken(i, todo, s, uninstq, lastrepo, lastmedia)
  BY <1>2, <1>6, <1>7, <1>8 DEF Taken, E
<1>. QED BY <1>1, <1>9, OutputKeeps

LEMMA TakeNextMediumKeeps ==
  ASSUME OrderInductive, TakeNextMedium
  PROVE  OrderInductive'
<1> DEFINE medias == {el.media[x] : x \in Range(todo)}
           media == Min(medias)
           firsts == {j \in DOMAIN todo : el.media[todo[j]] = media}
           first == Min(firsts)
           repo == el.repo[todo[first]]
           match == {x \in TEs : el.media[x] = media /\ el.repo[x] = repo}
           same == Those(todo, match)
           t == Those(todo, TEs \ match)
           i == Head(same)
           E == 1 .. N
<1>1. /\ opc = "order" /\ uninstq = <<>> /\ samerepoq = <<>> /\ todo # <<>>
      /\ Output(i, t, Tail(same), uninstq, repo, media)
  BY DEF TakeNextMedium
<1>2. /\ N \in Nat /\ TEs = E /\ todo \in Seq(E) /\ IsInjective(todo)
      /\ \A x \in E : el.media[x] \in Nat
  BY <1>1, OrderingFacts DEF OrderInductive, ShapeInv
<1> HIDE DEF E
<1>3. DOMAIN todo = 1 .. Len(todo) /\ Len(todo) \in Nat \ {0} /\ \A k \in 1 .. Len(todo) : todo[k] \in E
  <2>1. todo \in Seq(E) /\ todo # <<>>
    BY <1>1, <1>2
  <2>2. DOMAIN todo = 1 .. Len(todo) /\ Len(todo) \in Nat \ {0}
    BY <2>1
  <2>3. \A k \in 1 .. Len(todo) : todo[k] \in E
    BY <2>1
  <2>. QED BY <2>2, <2>3
<1>4. Range(todo) \subseteq E /\ Range(todo) # {}
  <2>1. todo[1] \in Range(todo)
    BY <1>3 DEF Range
  <2>2. Range(todo) \subseteq E
    BY <1>3 DEF Range
  <2>. QED BY <2>1, <2>2
<1>5. media \in medias
  <2>1. medias \subseteq Nat /\ medias # {}
    BY <1>2, <1>4
  <2> HIDE DEF medias
  <2>. QED BY <2>1, MinIn
<1> HIDE DEF media
<1>6. first \in firsts
  <2>1. firsts # {}
    BY <1>5 DEF Range
  <2>2. firsts \subseteq Nat
    BY <1>3
  <2> HIDE DEF firsts
  <2>. QED BY <2>1, <2>2, MinIn
<1> HIDE DEF first
<1>7. todo[first] \in E /\ todo[first] \in Range(todo) /\ el.media[todo[first]] = media
  BY <1>3, <1>6 DEF Range
<1>8. todo[first] \in match
  BY <1>2, <1>7
<1>9. \A x \in E : x \in match <=> el.media[x] = media /\ el.repo[x] = repo
  BY <1>2
<1> HIDE DEF match, repo
<1>10. same \in Seq(E) /\ Range(same) = Range(todo) \cap match /\ IsInjective(same)
  BY <1>2, ThoseFacts
<1>11. t \in Seq(E) /\ Range(t) = Range(todo) \cap (TEs \ match) /\ IsInjective(t)
  BY <1>2, ThoseFacts
<1> HIDE DEF same, t
<1>12. same # <<>>
  <2>1. Range(same) # {}
    BY <1>7, <1>8, <1>10
  <2>. QED BY <2>1 DEF Range
<1>13. /\ Tail(same) \in Seq(E) /\ Range(same) = {i} \cup Range(Tail(same))
       /\ IsInjective(Tail(same)) /\ i \notin Range(Tail(same))
  BY <1>10, <1>12, TailFacts
<1> HIDE DEF i
<1>14. Range(uninstq) = {} /\ Range(samerepoq) = {} /\ IsInjective(uninstq) /\ uninstq \in Seq(E)
  BY <1>1 DEF Range, IsInjective
<1>15. Ready = Range(todo)
  BY <1>14 DEF Ready
<1>16. \A x : x \in Range(t) \cup Range(Tail(same)) \cup Range(uninstq) <=> x \in Ready /\ x # i
  BY <1>2, <1>4, <1>10, <1>11, <1>13, <1>14, <1>15
<1>17. i \in Ready /\ Range(Tail(same)) \cap Range(t) = {} /\ Range(uninstq) \cap Range(Tail(same)) = {}
       /\ Range(uninstq) \cap Range(t) = {}
  BY <1>10, <1>11, <1>13, <1>14, <1>15
<1>18. \A x \in Range(t) : ~(el.repo[x] = repo /\ el.media[x] = media)
  BY <1>4, <1>9, <1>11
<1>19. Taken(i, t, Tail(same), uninstq, repo, media)
  BY <1>11, <1>13, <1>14, <1>16, <1>17, <1>18 DEF Taken, E
<1>. QED BY <1>1, <1>19, OutputKeeps

\* As long as something is not done, something is ready.
LEMMA SomethingReady ==
  ASSUME OrderInductive, opc = "order", NEW x \in 1 .. N, x \notin Range(order)
  PROVE  Ready # {}
<1>1. N \in Nat /\ \A y \in 1 .. N : Unbroken(edges, y) \subseteq 1 .. N
  BY Records, FollowersFacts
<1>2. PICK m \in Nat : \E rank : Numbers(rank, edges, N, 1 .. N, m)
  BY DEF OrderInductive, CycleInv, Ranked
<1>3. PICK rank : Numbers(rank, edges, N, 1 .. N, m)
  BY <1>2
<1>4. /\ \A y \in 1 .. N : rank[y] \in Nat
      /\ \A y \in 1 .. N : \A z \in Unbroken(edges, y) : rank[z] < rank[y]
  BY <1>3 DEF Numbers
<1> DEFINE R == {rank[y] : y \in (1 .. N) \ Range(order)}
<1>5. R \subseteq Nat /\ R # {}
  BY <1>4
<1>6. Min(R) \in R /\ \A r \in R : Min(R) <= r
  <2> HIDE DEF R
  <2>. QED BY <1>5, MinIn
<1>7. PICK y \in (1 .. N) \ Range(order) : rank[y] = Min(R)
  BY <1>6
<1>8. ASSUME NEW z \in Unbroken(edges, y), z \notin Range(order) PROVE FALSE
  <2>1. z \in 1 .. N /\ rank[z] \in R
    BY <1>1, <1>8
  <2>2. rank[z] < rank[y] /\ Min(R) <= rank[z] /\ rank[z] \in Nat /\ rank[y] \in Nat
    BY <1>4, <1>6, <1>7, <2>1
  <2>. QED BY <1>7, <2>2
<1>9. Unbroken(edges, y) \ Range(order) = {}
  BY <1>8
<1>10. Waiting(y) = 0
  BY <1>1, <1>9, Counts DEF Waiting
<1>11. y \in Ready
  BY <1>7, <1>10 DEF OrderInductive, QueueInv
<1>. QED BY <1>11

LEMMA OrderDoneKeeps ==
  ASSUME OrderInductive, OrderDone
  PROVE  OrderInductive'
<1>1. /\ opc = "order" /\ uninstq = <<>> /\ samerepoq = <<>> /\ todo = <<>> /\ opc' = "done"
      /\ UNCHANGED <<el, edges, mark, todo, cycles, cycq, queueVars, choiceVars>>
  BY DEF OrderDone
<1>2. N' = N /\ N \in Nat
  BY <1>1, Records DEF N
<1>3. order \in Seq(1 .. N)
  BY DEF OrderInductive, ValueInv
<1>4. Range(order) = 1 .. N
  <2>1. Ready = {}
    BY <1>1 DEF Ready, Range
  <2>2. 1 .. N \subseteq Range(order)
    BY <1>1, <2>1, SomethingReady
  <2> DEFINE E == 1 .. N
  <2>3. order \in Seq(E)
    BY <1>3
  <2> HIDE DEF E
  <2>4. Range(order) \subseteq E
    BY <2>3 DEF Range
  <2>. QED BY <2>2, <2>4 DEF E
<1>5. ASSUME NEW x \in 1 .. N PROVE mark[x] = 0
  <2>1. Unbroken(edges, x) \ Range(order) = {}
    <3>1. Unbroken(edges, x) \subseteq 1 .. N
      BY FollowersFacts
    <3>. QED BY <1>4, <3>1
  <2>2. Waiting(x) = 0
    BY <1>2, <2>1, Counts DEF Waiting
  <2>. QED BY <1>1, <2>2 DEF OrderInductive, QueueInv
<1>6. ShapeInv'
  BY <1>1, <1>2 DEF OrderInductive, ShapeInv
<1>7. ValueInv'
  BY <1>1, <1>2 DEF OrderInductive, ValueInv, queueVars, choiceVars
<1>8. RecordInv'
  BY <1>1, <1>2 DEF OrderInductive, RecordInv
<1>9. SearchInv'
  BY <1>1 DEF SearchInv
<1>10. CycleInv'
  BY <1>1, <1>2 DEF OrderInductive, CycleInv
<1>11. OutputInv'
  BY <1>1, <1>2, <1>4, <1>5 DEF OrderInductive, OutputInv, Before, queueVars
<1>12. QueueInv'
  BY <1>1 DEF QueueInv
<1>13. ChoiceInv'
  BY <1>1 DEF OrderInductive, ChoiceInv, choiceVars
<1>. QED BY <1>6, <1>7, <1>8, <1>9, <1>10, <1>11, <1>12, <1>13 DEF OrderInductive

-----------------------------------------------------------------------------
(***************************************************************************)
(* The choices of the application.                                         *)
(***************************************************************************)
LEMMA AddChoicesKeeps ==
  ASSUME OrderInductive, NEW i \in TEs, AddChoices(i)
  PROVE  OrderInductive'
<1> DEFINE F == Followers(i)
           next == {x \in Range(F) : mark[x] > 0}
           A == {x \in next : mark[x] = 1}
           done == {x \in TEs : Unbroken(edges, x) \subseteq chosen}
           E == 1 .. N
<1>1. /\ opc = "choices" /\ i \notin chosen
      /\ choices' = choices \o Those(F, A)
      /\ mark' = [x \in TEs |-> IF x \in next THEN mark[x] - 1
                                ELSE IF x = i /\ mark[x] > 0 THEN -1 ELSE mark[x]]
      /\ chosen' = chosen \cup {i}
      /\ early' = early \cup ({i} \ done)
      /\ UNCHANGED <<el, edges, todo, cycles, cycq, queueVars, opc>>
  BY DEF AddChoices
<1>2. N \in Nat /\ TEs = 1 .. N /\ i \in 1 .. N
  BY Records
<1>3. /\ F \in Seq(1 .. N) /\ IsInjective(F) /\ Range(F) = {x \in 1 .. N : i \in Unbroken(edges, x)}
      /\ \A x \in 1 .. N : Unbroken(edges, x) \subseteq 1 .. N /\ x \notin Unbroken(edges, x)
  BY <1>2, FollowersFacts
<1>4. /\ mark \in [1 .. N -> Int] /\ choices \in Seq(1 .. N)
      /\ early \subseteq chosen /\ chosen \subseteq 1 .. N
  BY DEF OrderInductive, ValueInv
<1>5. /\ \A x \in 1 .. N : mark[x] = IF x \in early THEN -1 ELSE Cardinality(Unbroken(edges, x) \ chosen)
      /\ IsInjective(choices)
      /\ Range(choices) = {x \in (1 .. N) \ early : mark[x] = 0}
  BY <1>1 DEF OrderInductive, ChoiceInv
<1>6. \A x \in 1 .. N : mark'[x] = IF x \in next THEN mark[x] - 1
                                   ELSE IF x = i /\ mark[x] > 0 THEN -1 ELSE mark[x]
  BY <1>1, <1>2
<1>7. A = {x \in 1 .. N : x \in Range(F) /\ mark[x] = 1} /\ A \subseteq Range(F)
  BY <1>3
<1>8. \A x \in 1 .. N : x \in next <=> i \in Unbroken(edges, x) /\ mark[x] > 0
  BY <1>3
<1>9. i \in done <=> Unbroken(edges, i) \subseteq chosen
  BY <1>2
<1> HIDE DEF F, next, A, done
<1>10. N' = N
  BY <1>1 DEF N
\* What an element still waits for.
<1>11. ASSUME NEW x \in 1 .. N
       PROVE  LET W == Unbroken(edges, x) \ chosen
              IN  /\ Cardinality(W) \in Nat /\ (Cardinality(W) = 0 <=> W = {})
                  /\ Cardinality(Unbroken(edges, x) \ chosen') =
                       IF i \in Unbroken(edges, x) THEN Cardinality(W) - 1 ELSE Cardinality(W)
  <2> DEFINE W == Unbroken(edges, x) \ chosen
  <2>1. W \subseteq 1 .. N
    BY <1>3
  <2>2. i \in W <=> i \in Unbroken(edges, x)
    BY <1>1
  <2>3. Unbroken(edges, x) \ chosen' = W \ {i}
    BY <1>1
  <2> HIDE DEF W
  <2>4. Cardinality(W) \in Nat /\ (Cardinality(W) = 0 <=> W = {})
        /\ (i \in W => Cardinality(W \ {i}) = Cardinality(W) - 1)
    BY <1>2, <2>1, Counts
  <2>5. i \notin W => W \ {i} = W
    OBVIOUS
  <2>. QED BY <2>2, <2>3, <2>4, <2>5 DEF W
\* The new marks.
<1>12. ASSUME NEW x \in 1 .. N
       PROVE  /\ mark'[x] = IF x \in early' THEN -1 ELSE Cardinality(Unbroken(edges, x) \ chosen')
              /\ x \in A \/ (x \notin early /\ mark[x] = 0) <=> x \notin early' /\ mark'[x] = 0
  <2> DEFINE w == Cardinality(Unbroken(edges, x) \ chosen)
             w1 == Cardinality(Unbroken(edges, x) \ chosen')
  <2>1. /\ w \in Nat /\ (w = 0 <=> Unbroken(edges, x) \subseteq chosen)
        /\ w1 = IF i \in Unbroken(edges, x) THEN w - 1 ELSE w
    BY <1>11
  <2>2. x \in A <=> i \in Unbroken(edges, x) /\ mark[x] = 1
    BY <1>3, <1>7
  <2>3. mark[x] = IF x \in early THEN -1 ELSE w
    BY <1>5
  <2> HIDE DEF w, w1
  <2>4. CASE x \in early
    <3>1. x \in early' /\ x # i /\ mark[x] = -1
      BY <1>1, <1>4, <2>3, <2>4
    <3>2. mark'[x] = -1
      BY <1>6, <1>8, <3>1
    <3>. QED BY <2>2, <2>4, <3>1, <3>2
  <2>5. CASE x \notin early /\ i \in Unbroken(edges, x)
    <3>1. x # i /\ x \notin early'
      BY <1>1, <1>3, <2>5
    <3>2. w # 0
      BY <1>1, <2>1, <2>5
    <3>3. mark[x] = w /\ x \in next
      BY <1>8, <2>1, <2>3, <2>5, <3>2
    <3>4. mark'[x] = w - 1
      BY <1>6, <3>3
    <3>. QED BY <2>1, <2>2, <2>5, <3>1, <3>2, <3>3, <3>4 DEF w1
  <2>6. CASE x \notin early /\ i \notin Unbroken(edges, x) /\ x # i
    <3>1. x \notin early' /\ mark[x] = w /\ w1 = w /\ mark'[x] = w
      BY <1>1, <1>6, <1>8, <2>1, <2>3, <2>6
    <3>. QED BY <2>2, <2>6, <3>1 DEF w1
  <2>7. CASE x \notin early /\ x = i
    <3>1. i \notin Unbroken(edges, x) /\ mark[x] = w /\ w1 = w /\ x \notin next
      BY <1>3, <1>8, <2>1, <2>3, <2>7
    <3>2. x \in early' <=> w # 0
      BY <1>1, <1>9, <2>1, <2>7
    <3>3. mark'[x] = IF w > 0 THEN -1 ELSE w
      BY <1>6, <2>7, <3>1
    <3>. QED BY <2>1, <2>2, <2>7, <3>1, <3>2, <3>3 DEF w1
  <2>. QED BY <2>4, <2>5, <2>6, <2>7
<1>13. /\ choices' \in Seq(1 .. N) /\ IsInjective(choices')
       /\ Range(choices') = Range(choices) \cup A
  <2>1. A \cap Range(choices) = {}
    BY <1>5, <1>7
  <2>2. choices \in Seq(E) /\ F \in Seq(E)
    BY <1>3, <1>4
  <2> HIDE DEF E
  <2>3. /\ choices \o Those(F, A) \in Seq(E) /\ IsInjective(choices \o Those(F, A))
        /\ Range(choices \o Those(F, A)) = Range(choices) \cup A
    BY <1>3, <1>5, <1>7, <2>1, <2>2, QueueGrows
  <2>. QED BY <1>1, <2>3 DEF E
<1>14. ShapeInv'
  BY <1>1, <1>10 DEF OrderInductive, ShapeInv
<1>15. ValueInv'
  <2>1. mark' \in [1 .. N -> Int]
    <3>1. \A x \in 1 .. N : (IF x \in next THEN mark[x] - 1
                             ELSE IF x = i /\ mark[x] > 0 THEN -1 ELSE mark[x]) \in Int
      BY <1>4
    <3>2. mark' = [x \in 1 .. N |-> IF x \in next THEN mark[x] - 1
                                    ELSE IF x = i /\ mark[x] > 0 THEN -1 ELSE mark[x]]
      BY <1>1, <1>2
    <3>. QED BY <3>1, <3>2
  <2>2. early' \subseteq chosen' /\ chosen' \subseteq 1 .. N
    BY <1>1, <1>2, <1>4
  <2>3. /\ todo' \in Stack(N) /\ uninstq' \in Seq(1 .. N) /\ samerepoq' \in Seq(1 .. N)
        /\ order' \in Seq(1 .. N) /\ lastte' \in 0 .. N
    BY <1>1 DEF OrderInductive, ValueInv, queueVars
  <2>. QED BY <1>10, <1>13, <2>1, <2>2, <2>3 DEF ValueInv
<1>16. RecordInv'
  BY <1>1, <1>10 DEF OrderInductive, RecordInv
<1>17. SearchInv'
  BY <1>1 DEF SearchInv
<1>18. CycleInv'
  BY <1>1, <1>10 DEF OrderInductive, CycleInv
<1>19. OutputInv'
  BY <1>1, <1>10 DEF OrderInductive, OutputInv, Before, queueVars
<1>20. QueueInv'
  BY <1>1 DEF QueueInv
<1>21. ChoiceInv'
  <2>1. \A x : x \in Range(choices') <=> x \in {y \in (1 .. N) \ early' : mark'[y] = 0}
    BY <1>5, <1>7, <1>12, <1>13
  <2>2. Range(choices') = {y \in (1 .. N') \ early' : mark'[y] = 0}
    BY <1>10, <2>1
  <2>3. \A x \in 1 .. N' : mark'[x] = IF x \in early' THEN -1 ELSE Cardinality(Unbroken(edges', x) \ chosen')
    BY <1>1, <1>10, <1>12
  <2>. QED BY <1>1, <1>13, <2>2, <2>3 DEF ChoiceInv
<1>. QED BY <1>14, <1>15, <1>16, <1>17, <1>18, <1>19, <1>20, <1>21 DEF OrderInductive

-----------------------------------------------------------------------------
(***************************************************************************)
(* The invariant holds.                                                    *)
(***************************************************************************)
LEMMA OrderStarts ==
  ASSUME OrderInit
  PROVE  OrderInductive
<1>1. /\ el = NoElements /\ edges = <<>> /\ mark = <<>> /\ todo = <<>> /\ cycles = <<>> /\ cycq = <<>>
      /\ uninstq = <<>> /\ samerepoq = <<>> /\ lastte = 0
      /\ order = <<>> /\ choices = <<>> /\ chosen = {} /\ early = {} /\ opc = "idle"
  BY DEF OrderInit
<1>2. N = 0 /\ 1 .. N = {}
  BY <1>1 DEF N
<1>3. Range(order) = {} /\ Range(cycles) = {} /\ IsInjective(order)
  BY <1>1 DEF Range, IsInjective
<1>4. \A S : <<>> \in [{} -> S]
  OBVIOUS
<1>5. ShapeInv
  <2>1. Shaped(edges, N)
    BY <1>1, <1>2, <1>4 DEF Shaped
  <2>2. /\ el.uninst \subseteq 1 .. N /\ el.scripts \subseteq 1 .. N
        /\ el.repo \in [1 .. N -> Nat \ {0}] /\ el.media \in [1 .. N -> Nat]
    BY <1>1, <1>2, <1>4 DEF NoElements
  <2>. QED BY <1>1, <1>2, <2>1, <2>2 DEF ShapeInv
<1>6. ValueInv
  <2>1. todo \in Stack(N)
    BY <1>1 DEF Stack
  <2>2. mark \in [1 .. N -> Int]
    BY <1>1, <1>2, <1>4
  <2>3. uninstq \in Seq(1 .. N) /\ samerepoq \in Seq(1 .. N) /\ order \in Seq(1 .. N) /\ choices \in Seq(1 .. N)
    BY <1>1
  <2>. QED BY <1>1, <1>2, <2>1, <2>2, <2>3 DEF ValueInv
<1>7. RecordInv
  BY <1>1, <1>2, <1>3 DEF RecordInv
<1>8. SearchInv /\ CycleInv /\ QueueInv
  BY <1>1 DEF SearchInv, CycleInv, QueueInv
<1>9. OutputInv
  BY <1>1, <1>3 DEF OutputInv
<1>10. ChoiceInv
  BY <1>1 DEF ChoiceInv
<1>. QED BY <1>5, <1>6, <1>7, <1>8, <1>9, <1>10 DEF OrderInductive

LEMMA OrderStays ==
  ASSUME OrderInductive, UNCHANGED orderVars
  PROVE  OrderInductive'
<1>1. /\ el' = el /\ edges' = edges /\ mark' = mark /\ todo' = todo /\ cycles' = cycles /\ cycq' = cycq
      /\ uninstq' = uninstq /\ samerepoq' = samerepoq /\ lastrepo' = lastrepo /\ lastmedia' = lastmedia
      /\ lastte' = lastte /\ order' = order /\ choices' = choices /\ chosen' = chosen /\ early' = early
      /\ opc' = opc
  BY DEF orderVars, queueVars, choiceVars
<1>2. N' = N
  BY <1>1 DEF N
<1>3. ShapeInv' /\ ValueInv' /\ RecordInv'
  <2>1. ShapeInv'
    BY <1>1, <1>2 DEF OrderInductive, ShapeInv
  <2>2. ValueInv'
    BY <1>1, <1>2 DEF OrderInductive, ValueInv
  <2>3. RecordInv'
    BY <1>1, <1>2 DEF OrderInductive, RecordInv
  <2>. QED BY <2>1, <2>2, <2>3
<1>4. SearchInv' /\ CycleInv' /\ ChoiceInv'
  BY <1>1, <1>2 DEF OrderInductive, SearchInv, CycleInv, ChoiceInv
<1>5. OutputInv'
  BY <1>1, <1>2 DEF OrderInductive, OutputInv, Before
<1>6. QueueInv'
  BY <1>1, <1>2 DEF OrderInductive, QueueInv, Ready, Waiting
<1>. QED BY <1>3, <1>4, <1>5, <1>6 DEF OrderInductive

LEMMA OrderKeeps ==
  ASSUME OrderInductive, [OrderNext]_orderVars
  PROVE  OrderInductive'
<1>1. CASE \E g \in Graphs : StartOrder(g)
  BY <1>1, StartOrderKeeps, GraphsAssumption
<1>2. CASE EndOfEdges
  BY <1>2, EndOfEdgesKeeps
<1>3. CASE AlreadyFinished
  BY <1>3, AlreadyFinishedKeeps
<1>4. CASE VisitEdges
  BY <1>4, VisitEdgesKeeps
<1>5. CASE BreakCycle
  BY <1>5, BreakCycleKeeps
<1>6. CASE CyclesBroken
  BY <1>6, CyclesBrokenKeeps
<1>7. CASE AddCycleEdges
  BY <1>7, AddCycleEdgesKeeps
<1>8. CASE InvertEdges
  BY <1>8, InvertEdgesKeeps
<1>9. CASE TakeUninstall
  BY <1>9, TakeUninstallKeeps
<1>10. CASE TakeSameRepo
  BY <1>10, TakeSameRepoKeeps
<1>11. CASE TakeNextMedium
  BY <1>11, TakeNextMediumKeeps
<1>12. CASE OrderDone
  BY <1>12, OrderDoneKeeps
<1>13. CASE InitChoices
  BY <1>13, InitChoicesKeeps
<1>14. CASE \E i \in TEs : AddChoices(i)
  BY <1>14, AddChoicesKeeps
<1>15. CASE AllChosen
  BY <1>15, OrderStays DEF AllChosen
<1>16. CASE UNCHANGED orderVars
  BY <1>16, OrderStays
<1>. QED BY <1>1, <1>2, <1>3, <1>4, <1>5, <1>6, <1>7, <1>8, <1>9, <1>10, <1>11, <1>12, <1>13, <1>14,
            <1>15, <1>16 DEF OrderNext, OrderStep

\* The inductive invariant holds in every state of the ordering of every graph.
THEOREM OrderInductiveHolds == OrderSpec => []OrderInductive
<1>1. OrderInit => OrderInductive
  BY OrderStarts
<1>2. OrderInductive /\ [OrderNext]_orderVars => OrderInductive'
  BY OrderKeeps
<1>. QED BY <1>1, <1>2, PTL DEF OrderSpec

-----------------------------------------------------------------------------
(***************************************************************************)
(* What the invariant says.                                                *)
(***************************************************************************)
LEMMA InductiveTypes ==
  ASSUME OrderInductive
  PROVE  OrderTypeOK
<1> DEFINE E == 1 .. N
<1>1. N \in Nat /\ Shaped(edges, N) /\ TEs = E
  BY Records
<1>2. edges \in [E -> Seq([to : E, type : SUBSET Types])]
  BY <1>1 DEF Shaped, Edge
<1>3. /\ el.uninst \subseteq E /\ el.scripts \subseteq E
      /\ opc \in {"idle", "break", "cycle", "order", "done", "choices"}
  BY DEF OrderInductive, ShapeInv
<1>4. /\ mark \in [E -> Int] /\ todo \in Seq(E \cup {-i : i \in E})
      /\ uninstq \in Seq(E) /\ samerepoq \in Seq(E) /\ order \in Seq(E) /\ choices \in Seq(E)
      /\ lastte \in 0 .. N /\ early \subseteq chosen /\ chosen \subseteq E
  BY DEF OrderInductive, ValueInv, Stack
<1>5. lastte \in E \cup {0}
  BY <1>1, <1>4
<1> HIDE DEF E
<1>. QED BY <1>1, <1>2, <1>3, <1>4, <1>5 DEF OrderTypeOK

\* Nothing that needs a ready element is done or ready.
LEMMA FollowersWait ==
  ASSUME OrderInductive, opc = "order", NEW i \in Ready, NEW x \in Range(Followers(i))
  PROVE  mark[x] > 0
<1>1. N \in Nat
  BY Records
<1>2. i \in 1 .. N
  <2> DEFINE E == 1 .. N
  <2>1. todo \in Seq(E) /\ samerepoq \in Seq(E) /\ uninstq \in Seq(E)
    BY OrderingFacts
  <2> HIDE DEF E
  <2>2. i \in E
    BY <2>1 DEF Ready, Range
  <2>. QED BY <2>2 DEF E
<1>3. /\ \A y \in 1 .. N : mark[y] = Waiting(y)
      /\ i \notin Range(order)
  BY <1>2 DEF OrderInductive, QueueInv
<1>4. x \in 1 .. N /\ i \in Unbroken(edges, x) /\ Unbroken(edges, x) \subseteq 1 .. N
  BY <1>2, FollowersFacts
<1>5. Unbroken(edges, x) \ Range(order) \subseteq 1 .. N /\ i \in Unbroken(edges, x) \ Range(order)
  BY <1>3, <1>4
<1>6. Waiting(x) \in Nat \ {0}
  BY <1>1, <1>5, Counts DEF Waiting
<1>. QED BY <1>3, <1>4, <1>6

LEMMA InductiveAssertions ==
  ASSUME OrderInductive
  PROVE  AssertionsHold
<1>1. /\ N \in Nat /\ Shaped(edges, N) /\ TEs = 1 .. N
      /\ \A i \in 1 .. N : Range(Followers(i)) = {x \in 1 .. N : i \in Unbroken(edges, x)}
      /\ \A x \in 1 .. N : Unbroken(edges, x) \subseteq 1 .. N
  BY Records, FollowersFacts
<1>2. SearchAssertions
  <2> DEFINE i == Last(todo)
             c == CycleStart(Front(todo), i)
             cyc == CyclePath(Front(todo), i)
  <2> SUFFICES ASSUME Searching, i > 0, mark[i] = 1
               PROVE  /\ c > 0 /\ Len(cyc) > 1
                      /\ \A k \in DOMAIN cyc : /\ mark[cyc[k]] = 1
                                               /\ Succ(cyc, k) \in Unbroken(edges, cyc[k])
    BY DEF SearchAssertions
  <2>1. Search(edges, mark, todo, N) /\ todo # <<>>
    BY DEF Searching, OrderInductive, SearchInv
  <2>2. i = Last(todo)
    OBVIOUS
  <2> HIDE DEF i
  <2>3. /\ c \in 1 .. Len(todo) - 1
        /\ cyc \in Seq(1 .. N) /\ Len(cyc) > 1
        /\ \A k \in 1 .. Len(cyc) : mark[cyc[k]] = 1 /\ Succ(cyc, k) \in Unbroken(edges, cyc[k])
    BY <1>1, <2>1, <2>2, CycleFacts
  <2> HIDE DEF c, cyc
  <2>4. DOMAIN cyc = 1 .. Len(cyc) /\ c > 0
    BY <2>3
  <2>. QED BY <2>3, <2>4
<1>3. ASSUME opc = "order" PROVE \A i \in Ready : \A x \in Range(Followers(i)) : mark[x] > 0
  BY <1>3, FollowersWait
<1>4. ASSUME opc = "order", order = <<>> PROVE Ready # {}
  <2>1. 1 \in 1 .. N
    BY <1>1, <1>4 DEF OrderInductive, ShapeInv
  <2>2. 1 \notin Range(order)
    BY <1>4 DEF Range
  <2>. QED BY <1>4, <2>1, <2>2, SomethingReady
<1>5. ASSUME opc = "done" PROVE \A x \in TEs : mark[x] = 0
  BY <1>1, <1>5 DEF OrderInductive, OutputInv
<1>6. ASSUME opc = "choices", NEW i \in TEs \ chosen, NEW x \in Range(Followers(i))
      PROVE  mark[x] > 0 \/ (mark[x] = -1 /\ x \in chosen)
  <2>1. x \in 1 .. N /\ i \in Unbroken(edges, x) \ chosen /\ Unbroken(edges, x) \ chosen \subseteq 1 .. N
    BY <1>1, <1>6
  <2>2. Cardinality(Unbroken(edges, x) \ chosen) \in Nat \ {0}
    BY <1>1, <2>1, Counts
  <2>3. mark[x] = IF x \in early THEN -1 ELSE Cardinality(Unbroken(edges, x) \ chosen)
    BY <1>6, <2>1 DEF OrderInductive, ChoiceInv
  <2>4. early \subseteq chosen
    BY DEF OrderInductive, ValueInv
  <2>. QED BY <2>2, <2>3, <2>4
<1>. QED BY <1>2, <1>3, <1>4, <1>5, <1>6 DEF AssertionsHold

LEMMA InductiveAcyclic ==
  ASSUME OrderInductive
  PROVE  NoCyclesLeft
<1>1. N \in Nat /\ Shaped(edges, N) /\ TEs = 1 .. N
  BY Records
<1>2. ASSUME opc \in {"cycle", "order"}, NEW x \in TEs
      PROVE  x \notin Reach(edges, Unbroken(edges, x))
  <2>1. Ranked(edges, N, 1 .. N)
    BY <1>2 DEF OrderInductive, CycleInv
  <2>. QED BY <1>1, <2>1, RankedAcyclic
<1>3. ASSUME opc = "break"
      PROVE  \A x \in TEs : mark[x] = 2 => \A y \in Unbroken(edges, x) : mark[y] = 2
  BY <1>1, <1>3 DEF OrderInductive, SearchInv, Search, Finished
<1>. QED BY <1>2, <1>3 DEF NoCyclesLeft

\* A record of a broken cycle says what BrokenEdgesAreWeakest wants.
LEMMA RecordMeans ==
  ASSUME OrderInductive, NEW cycle, Recorded(edges, N, cycle)
  PROVE  LET c == cycle.tes
         IN  /\ \A j \in DOMAIN c : EdgeIndex(edges, c[j], Succ(c, j)) # {}
             /\ TYPE_BROKEN \in EdgeType(edges, Last(c), c[1])
             /\ \A j \in DOMAIN c : ~Less(Degree(Plain(EdgeType(edges, c[j], Succ(c, j)))),
                                          Degree(Plain(EdgeType(edges, Last(c), c[1]))))
             /\ SeverityIsMeant(cycle)
<1> DEFINE c == cycle.tes
           m == Len(c)
<1>1. /\ c \in Seq(1 .. N) /\ m > 1
      /\ \A j \in 1 .. m : Succ(c, j) \in Targets(edges, c[j])
      /\ TYPE_BROKEN \in EdgeType(edges, c[m], c[1])
      /\ \A j \in 1 .. m : ~Less(Degree(PlainEdge(edges, c, j)), Degree(PlainEdge(edges, c, m)))
      /\ Less(cycle.min, {TYPE_REQ}) <=>
           \E j \in 1 .. m : PlainEdge(edges, c, j) \cap {TYPE_REQ, TYPE_PREREQ} = {}
      /\ TYPE_PREREQ \in cycle.max <=> \E j \in 1 .. m : TYPE_PREREQ \in PlainEdge(edges, c, j)
  BY DEF Recorded
<1> HIDE DEF c
<1>2. DOMAIN c = 1 .. m /\ m \in 1 .. m /\ Last(c) = c[m]
  BY <1>1 DEF Last
<1>3. Succ(c, m) = c[1]
  BY <1>1, <1>2, SuccFacts
<1>4. \A j \in 1 .. m : PlainEdge(edges, c, j) = Plain(EdgeType(edges, c[j], Succ(c, j)))
  BY DEF PlainEdge
<1>5. ASSUME NEW j \in 1 .. m PROVE EdgeIndex(edges, c[j], Succ(c, j)) # {}
  BY <1>1 DEF Targets, EdgeIndex
<1>6. PlainEdge(edges, c, m) = Plain(EdgeType(edges, Last(c), c[1]))
  BY <1>2, <1>3, <1>4
<1>7. SeverityIsMeant(cycle)
  <2> DEFINE types == {Plain(EdgeType(edges, c[j], Succ(c, j))) : j \in DOMAIN c}
             hard == \A t \in types : t \cap {TYPE_REQ, TYPE_PREREQ} # {}
             pre == \E t \in types : TYPE_PREREQ \in t
  <2>1. types = {PlainEdge(edges, c, j) : j \in 1 .. m}
    BY <1>2, <1>4
  <2>2. hard <=> ~Less(cycle.min, {TYPE_REQ})
    BY <1>1, <2>1
  <2>3. pre <=> TYPE_PREREQ \in cycle.max
    BY <1>1, <2>1
  <2> HIDE DEF hard, pre
  <2>4. transaction_order_get_cycle(cycle) = IF ~hard THEN "HARMLESS" ELSE IF pre THEN "CRITICAL" ELSE "NORMAL"
    BY <2>2, <2>3 DEF transaction_order_get_cycle
  <2>. QED BY <2>4 DEF SeverityIsMeant, hard, pre, c
<1>. QED BY <1>1, <1>2, <1>4, <1>5, <1>6, <1>7 DEF c

LEMMA InductiveWeakest ==
  ASSUME OrderInductive
  PROVE  BrokenEdgesAreWeakest
<1>1. N \in Nat /\ Shaped(edges, N) /\ TEs = 1 .. N
  BY Records
<1>2. \A k \in DOMAIN cycles : cycles[k] \in Range(cycles) /\ Recorded(edges, N, cycles[k])
  BY DEF OrderInductive, RecordInv, Range
<1>3. ASSUME NEW k \in DOMAIN cycles
      PROVE  LET c == cycles[k].tes
             IN  /\ \A j \in DOMAIN c : EdgeIndex(edges, c[j], Succ(c, j)) # {}
                 /\ TYPE_BROKEN \in EdgeType(edges, Last(c), c[1])
                 /\ \A j \in DOMAIN c : ~Less(Degree(Plain(EdgeType(edges, c[j], Succ(c, j)))),
                                              Degree(Plain(EdgeType(edges, Last(c), c[1]))))
                 /\ SeverityIsMeant(cycles[k])
  BY <1>2, RecordMeans
<1>4. ASSUME NEW x \in TEs, NEW e \in Range(edges[x]), TYPE_BROKEN \in e.type
      PROVE  \E k \in DOMAIN cycles : Last(cycles[k].tes) = x /\ cycles[k].tes[1] = e.to
  <2>1. PICK i \in DOMAIN edges[x] : edges[x][i] = e
    BY DEF Range
  <2>2. e.to \in Targets(edges, x)
    BY <2>1 DEF Targets
  <2>3. EdgeType(edges, x, edges[x][i].to) = edges[x][i].type
    BY <1>1, UnbrokenFacts
  <2>4. TYPE_BROKEN \in EdgeType(edges, x, e.to)
    BY <1>4, <2>1, <2>3
  <2>5. PICK c \in Range(cycles) : c.tes[Len(c.tes)] = x /\ c.tes[1] = e.to
    BY <1>1, <2>2, <2>4 DEF OrderInductive, RecordInv
  <2>6. PICK k \in DOMAIN cycles : cycles[k] = c
    BY DEF Range
  <2>. QED BY <2>5, <2>6 DEF Last
<1>. QED BY <1>3, <1>4 DEF BrokenEdgesAreWeakest

LEMMA InductiveBlocks ==
  ASSUME OrderInductive
  PROVE  BlocksWherePossible
<1>1. N \in Nat /\ Shaped(edges, N) /\ TEs = 1 .. N
      /\ \A c \in Range(cycles) : c.tes \in Seq(1 .. N) /\ Len(c.tes) > 1
  BY Records
<1>2. ASSUME NEW x \in 1 .. N
      PROVE  /\ Requires(x) = Requiring(edges, x) /\ Requires(x) \subseteq 1 .. N
             /\ \A y \in Targets(edges, x) : y \in Unbroken(edges, x) \/ Dropped(x, y)
  <2>1. /\ Unbroken(edges, x) \subseteq 1 .. N
        /\ \A i \in DOMAIN edges[x] : EdgeType(edges, x, edges[x][i].to) = edges[x][i].type
        /\ \A y : y \in Unbroken(edges, x) <=> y \in Targets(edges, x) /\ TYPE_BROKEN \notin EdgeType(edges, x, y)
    BY <1>1, UnbrokenFacts
  <2>2. ASSUME NEW y \in Requires(x) PROVE y \in Requiring(edges, x)
    <3>1. PICK i \in DOMAIN edges[x] : /\ edges[x][i].to = y /\ TYPE_BROKEN \notin edges[x][i].type
                                       /\ Plain(edges[x][i].type) # {}
      BY DEF Requires, Range
    <3>. QED BY <2>1, <3>1 DEF Requiring, Unbroken
  <2>3. ASSUME NEW y \in Requiring(edges, x) PROVE y \in Requires(x)
    <3>1. PICK i \in DOMAIN edges[x] : TYPE_BROKEN \notin edges[x][i].type /\ edges[x][i].to = y
      BY DEF Requiring, Unbroken
    <3>2. Plain(edges[x][i].type) # {}
      BY <2>1, <3>1 DEF Requiring
    <3>. QED BY <3>1, <3>2 DEF Requires, Range
  <2>4. ASSUME NEW y \in Targets(edges, x), y \notin Unbroken(edges, x) PROVE Dropped(x, y)
    <3>1. EdgeIndex(edges, x, y) # {}
      BY DEF Targets, EdgeIndex
    <3>. QED BY <2>1, <2>4, <3>1 DEF Dropped
  <2>. QED BY <2>1, <2>2, <2>3, <2>4 DEF Requiring
<1> SUFFICES ASSUME opc = "done", NEW n \in DOMAIN cycles
             PROVE  LET cycle == cycles[n].tes
                    IN  /\ \A x \in WaitForTail(Range(cycle)) : Before(cycle[1], x) \/ Dropped(x, cycle[1])
                        /\ \A k \in NeededByHead(Range(cycle)) : Before(k, Last(cycle)) \/ Dropped(Last(cycle), k)
  BY DEF BlocksWherePossible
<1> DEFINE cycle == cycles[n].tes
           C == Range(cycle)
<1>3. cycles[n] \in Range(cycles)
  BY DEF Range
<1>4. cycle \in Seq(1 .. N) /\ Len(cycle) > 1 /\ Processed(edges, N, cycle)
  <2>1. Range(cycq) = {}
    BY DEF OrderInductive, CycleInv, Range
  <2>. QED BY <1>1, <1>3, <2>1 DEF OrderInductive, CycleInv
<1> HIDE DEF cycle
<1>5. Last(cycle) = cycle[Len(cycle)] /\ Last(cycle) \in 1 .. N /\ C \subseteq 1 .. N
  <2> DEFINE E == 1 .. N
  <2>1. cycle \in Seq(E) /\ Len(cycle) \in DOMAIN cycle
    BY <1>4
  <2> HIDE DEF E
  <2>2. cycle[Len(cycle)] \in E /\ C \subseteq E
    BY <2>1 DEF Range
  <2>. QED BY <2>2 DEF Last, E
<1> HIDE DEF C
<1>6. /\ \A y \in 1 .. N : \A x \in Unbroken(edges, y) : Before(x, y)
  BY DEF OrderInductive, OutputInv
<1>7. ASSUME NEW x \in WaitForTail(C) PROVE Before(cycle[1], x) \/ Dropped(x, cycle[1])
  <2>1. x \in 1 .. N /\ x \notin Reach(edges, C) /\ Requiring(edges, x) \cap C # {}
    BY <1>1, <1>2 DEF WaitForTail
  <2>2. cycle[1] \in Targets(edges, x)
    BY <1>4, <2>1 DEF Processed, C
  <2>. QED BY <1>2, <1>6, <2>1, <2>2
<1>8. ASSUME NEW k \in NeededByHead(C) PROVE Before(k, Last(cycle)) \/ Dropped(Last(cycle), k)
  <2>1. PICK x \in C : k \in Requiring(edges, x)
    BY <1>2, <1>5 DEF NeededByHead
  <2>2. Reach(edges, {k}) \cap C = {}
    BY DEF NeededByHead
  <2>3. k \in Targets(edges, Last(cycle))
    BY <1>4, <1>5, <2>1, <2>2 DEF Processed, C
  <2>. QED BY <1>2, <1>5, <1>6, <2>3
<1>. QED BY <1>7, <1>8 DEF cycle, C

LEMMA InductiveOutput ==
  ASSUME OrderInductive
  PROVE  OutputRight
<1>1. N \in Nat /\ TEs = 1 .. N /\ \A x \in 1 .. N : Unbroken(edges, x) \subseteq 1 .. N
  BY Records, FollowersFacts
<1>2. OrderRespectsEdges
  BY <1>1 DEF OrderInductive, OutputInv, OrderRespectsEdges
<1>3. NoNeedlessMediumChange
  BY DEF OrderInductive, QueueInv, NoNeedlessMediumChange
<1>4. ASSUME opc = "choices"
      PROVE  /\ IsInjective(choices)
             /\ Range(choices) = {x \in TEs : Unbroken(edges, x) \subseteq chosen} \ early
  <2>1. /\ \A x \in 1 .. N : mark[x] = IF x \in early THEN -1 ELSE Cardinality(Unbroken(edges, x) \ chosen)
        /\ IsInjective(choices)
        /\ Range(choices) = {x \in (1 .. N) \ early : mark[x] = 0}
    BY <1>4 DEF OrderInductive, ChoiceInv
  <2>2. ASSUME NEW x \in (1 .. N) \ early
        PROVE  mark[x] = 0 <=> Unbroken(edges, x) \subseteq chosen
    <3>1. Unbroken(edges, x) \ chosen \subseteq 1 .. N
      BY <1>1
    <3>2. Cardinality(Unbroken(edges, x) \ chosen) = 0 <=> Unbroken(edges, x) \ chosen = {}
      BY <1>1, <3>1, Counts
    <3>. QED BY <2>1, <3>2
  <2>. QED BY <1>1, <2>1, <2>2
<1>. QED BY <1>2, <1>3, <1>4 DEF OutputRight, ChoicesAreExact

-----------------------------------------------------------------------------
(***************************************************************************)
(* The search ends.                                                        *)
(***************************************************************************)
\* What SearchAdvances says of a step.
Advances ==
  \/ OpenEdges' \subseteq OpenEdges /\ OpenEdges' # OpenEdges
  \/ /\ OpenEdges' = OpenEdges
     /\ \/ Fresh' \subseteq Fresh /\ Fresh' # Fresh
        \/ Fresh' = Fresh /\ Len(todo') < Len(todo)

LEMMA EndOfEdgesAdvances ==
  ASSUME OrderInductive, EndOfEdges
  PROVE  Advances
<1> DEFINE a == -Last(todo)
<1>1. /\ opc = "break" /\ todo # <<>> /\ Last(todo) < 0
      /\ mark' = [mark EXCEPT ![a] = 2] /\ todo' = Front(todo) /\ edges' = edges
  BY DEF EndOfEdges, Searching
<1>2. Search(edges, mark, todo, N) /\ N \in Nat /\ todo \in Stack(N) /\ TEs = 1 .. N
  BY <1>1, Records DEF OrderInductive, SearchInv, Search
<1>3. Len(todo) \in Nat \ {0} /\ Last(todo) = todo[Len(todo)] /\ Len(Front(todo)) = Len(todo) - 1
  BY <1>1, <1>2, StackTop
<1>4. Len(todo) \in 1 .. Len(todo) /\ a \in 1 .. N /\ todo[Len(todo)] = -a
  <2>1. Len(todo) \in 1 .. Len(todo)
    BY <1>3
  <2>2. todo[Len(todo)] \in Int /\ -todo[Len(todo)] \in 1 .. N
    BY <1>1, <1>2, <1>3, <2>1, StackEntry
  <2>. QED BY <1>3, <2>1, <2>2
<1> HIDE DEF a
<1>5. mark[a] = 1 /\ mark \in [1 .. N -> 0 .. 2]
  BY <1>2, <1>4 DEF Search, OnStack
<1>6. \A x \in 1 .. N : mark'[x] = 0 <=> mark[x] = 0
  BY <1>1, <1>4, <1>5
<1>7. TEs' = TEs /\ OpenEdges' = OpenEdges
  BY <1>1 DEF OpenEdges, TEs
<1>8. Fresh' = Fresh
  BY <1>2, <1>6, <1>7 DEF Fresh
<1>. QED BY <1>1, <1>3, <1>7, <1>8 DEF Advances

LEMMA AlreadyFinishedAdvances ==
  ASSUME OrderInductive, AlreadyFinished
  PROVE  Advances
<1>1. opc = "break" /\ todo # <<>> /\ mark' = mark /\ todo' = Front(todo) /\ edges' = edges
  BY DEF AlreadyFinished, Searching
<1>2. N \in Nat /\ todo \in Stack(N)
  BY Records DEF OrderInductive, ValueInv
<1>3. Len(todo) \in Nat \ {0} /\ Len(Front(todo)) = Len(todo) - 1
  BY <1>1, <1>2, StackTop
<1>4. OpenEdges' = OpenEdges /\ Fresh' = Fresh
  BY <1>1 DEF OpenEdges, Fresh, TEs
<1>. QED BY <1>1, <1>3, <1>4 DEF Advances

LEMMA VisitEdgesAdvances ==
  ASSUME OrderInductive, VisitEdges
  PROVE  Advances
<1> DEFINE i == Last(todo)
<1>1. /\ opc = "break" /\ todo # <<>> /\ i > 0 /\ mark[i] = 0 /\ edges' = edges
      /\ \/ mark' = [mark EXCEPT ![i] = 2]
         \/ mark' = [mark EXCEPT ![i] = 1]
  BY DEF VisitEdges, Searching
<1>2. /\ mark \in [1 .. N -> Int] /\ N \in Nat /\ todo \in Stack(N) /\ TEs = 1 .. N
  BY Records DEF OrderInductive, ValueInv
<1>3. Len(todo) \in 1 .. Len(todo) /\ i = todo[Len(todo)]
  BY <1>1, <1>2, StackTop
<1>4. i \in 1 .. N
  BY <1>1, <1>2, <1>3, StackEntry
<1> HIDE DEF i
<1>5. mark'[i] # 0 /\ \A x \in 1 .. N : x # i => mark'[x] = mark[x]
  BY <1>1, <1>2, <1>4
<1>6. TEs' = TEs /\ OpenEdges' = OpenEdges
  BY <1>1 DEF OpenEdges, TEs
<1>7. i \in Fresh /\ i \notin Fresh' /\ Fresh' \subseteq Fresh
  BY <1>1, <1>2, <1>4, <1>5, <1>6 DEF Fresh
<1>. QED BY <1>6, <1>7 DEF Advances

LEMMA BreakCycleAdvances ==
  ASSUME OrderInductive, BreakCycle
  PROVE  Advances
<1> DEFINE from == MetCycle[EdgeToBreak(MetCycle)]
           to == Succ(MetCycle, EdgeToBreak(MetCycle))
<1>1. edges' = addteedge(edges, from, to, {TYPE_BROKEN})
  BY DEF BreakCycle, MetCycle
<1>2. N \in Nat /\ Shaped(edges, N) /\ TEs = 1 .. N
  BY Records
<1>3. from \in 1 .. N /\ to \in Unbroken(edges, from) /\ to \in Targets(edges, from)
  BY MetCycleFacts
<1> HIDE DEF from, to
<1>4. OneBroken(edges, edges', N, from, to)
  BY <1>1, <1>2, <1>3, BreakEdge
<1>5. /\ Shaped(edges', N)
      /\ \A x \in 1 .. N : x # from => Unbroken(edges', x) = Unbroken(edges, x)
      /\ Unbroken(edges', from) = Unbroken(edges, from) \ {to}
  BY <1>4 DEF OneBroken
<1>6. TEs' = 1 .. N
  BY <1>2, <1>5, ShapedLen DEF TEs
<1>7. to \in 1 .. N
  BY <1>2, <1>3, UnbrokenFacts
<1>8. OpenEdges' = {p \in (1 .. N) \X (1 .. N) : p[2] \in Unbroken(edges', p[1])}
      /\ OpenEdges = {p \in (1 .. N) \X (1 .. N) : p[2] \in Unbroken(edges, p[1])}
  BY <1>2, <1>6 DEF OpenEdges
<1>9. \A x \in 1 .. N : Unbroken(edges', x) \subseteq Unbroken(edges, x)
  BY <1>5
<1>10. OpenEdges' \subseteq OpenEdges
  BY <1>8, <1>9
<1>11. <<from, to>> \in OpenEdges /\ <<from, to>> \notin OpenEdges'
  BY <1>3, <1>5, <1>7, <1>8
<1>. QED BY <1>10, <1>11 DEF Advances

LEMMA SearchStepAdvances ==
  ASSUME OrderInductive, [OrderNext]_orderVars
  PROVE  [opc = "break" /\ opc' = "break" => Advances]_orderVars
<1> SUFFICES ASSUME OrderNext, opc = "break", opc' = "break" PROVE Advances
  OBVIOUS
<1>1. CASE EndOfEdges
  BY <1>1, EndOfEdgesAdvances
<1>2. CASE AlreadyFinished
  BY <1>2, AlreadyFinishedAdvances
<1>3. CASE VisitEdges
  BY <1>3, VisitEdgesAdvances
<1>4. CASE BreakCycle
  BY <1>4, BreakCycleAdvances
<1>5. ~(\E g \in Graphs : StartOrder(g)) /\ ~CyclesBroken /\ ~AddCycleEdges /\ ~InvertEdges
  BY DEF StartOrder, CyclesBroken, AddCycleEdges, InvertEdges
<1>6. ~TakeUninstall /\ ~TakeSameRepo /\ ~TakeNextMedium /\ ~OrderDone
  BY DEF TakeUninstall, TakeSameRepo, TakeNextMedium, OrderDone
<1>7. ~InitChoices /\ ~(\E i \in TEs : AddChoices(i)) /\ ~AllChosen
  BY DEF InitChoices, AddChoices, AllChosen
<1>. QED BY <1>1, <1>2, <1>3, <1>4, <1>5, <1>6, <1>7 DEF OrderNext, OrderStep

-----------------------------------------------------------------------------
\* transaction_order keeps its state in shape and no assertion of order.c
\* fails, in whatever order an application chooses afterwards.
THEOREM OrderInvariantHolds == OrderSpec => []OrderInvariant
<1>1. OrderInductive => OrderInvariant
  BY InductiveTypes, InductiveAssertions DEF OrderInvariant
<1>. QED BY <1>1, OrderInductiveHolds, PTL

\* No cycle is left when the search is over and the cycle edges make no new
\* one, every broken edge was the weakest of a real cycle, and the elements of
\* a broken cycle are done as a block where no broken edge is in the way.
THEOREM CyclesBrokenWellHolds == OrderSpec => []CyclesBrokenWell
<1>1. OrderInductive => CyclesBrokenWell
  BY InductiveAcyclic, InductiveWeakest, InductiveBlocks DEF CyclesBrokenWell
<1>. QED BY <1>1, OrderInductiveHolds, PTL

\* Every element is output once and after all it needs, the medium is changed
\* only when nothing of the current one is ready, and the choices offered to
\* an application are exactly those it may take.
THEOREM OutputRightHolds == OrderSpec => []OutputRight
<1>1. OrderInductive => OutputRight
  BY InductiveOutput
<1>. QED BY <1>1, OrderInductiveHolds, PTL

\* Every step of the search for cycles breaks an edge, or visits an element
\* for the first time since, or makes the stack shorter.
THEOREM SearchAdvancesHolds == OrderSpec => SearchAdvances
<1>1. OrderInductive /\ [OrderNext]_orderVars => [opc = "break" /\ opc' = "break" => Advances]_orderVars
  BY SearchStepAdvances
<1>2. OrderSpec => [][opc = "break" /\ opc' = "break" => Advances]_orderVars
  BY <1>1, OrderInductiveHolds, PTL DEF OrderSpec
<1>. QED BY <1>2 DEF SearchAdvances, Advances

=============================================================================
