------------------------------ MODULE IdsProof ------------------------------
(***************************************************************************)
(* One id for every string and relation, for every set of texts and every  *)
(* hash function.                                                          *)
(***************************************************************************)
EXTENDS Ids, FiniteInduction

(***************************************************************************)
(* Division.                                                               *)
(***************************************************************************)
LEMMA ModIs ==
  ASSUME NEW p \in Nat \ {0}, NEW q \in Int, NEW r \in 0 .. p - 1
  PROVE  (q * p + r) % p = r /\ (q * p + r) \div p = q
OBVIOUS

LEMMA DivMod ==
  ASSUME NEW p \in Nat \ {0}, NEW x \in Int
  PROVE  /\ x % p \in 0 .. p - 1 /\ x \div p \in Int
         /\ x = (x \div p) * p + (x % p)
OBVIOUS

LEMMA HalfOfEven ==
  ASSUME NEW k \in Int
  PROVE  \E j \in Int : k * (k - 1) = 2 * j /\ (k * (k - 1)) \div 2 = j
<1>1. PICK a \in Int : k = 2 * a \/ k = 2 * a + 1
  <2>1. k = 2 * (k \div 2) + (k % 2) /\ k % 2 \in {0, 1} /\ k \div 2 \in Int
    OBVIOUS
  <2>. QED BY <2>1
<1>2. CASE k = 2 * a
  <2>1. k * (k - 1) = 2 * (a * (k - 1)) /\ a * (k - 1) \in Int
    BY <1>2
  <2>2. \A j \in Int : (2 * j) \div 2 = j
    OBVIOUS
  <2>. QED BY <2>1, <2>2
<1>3. CASE k = 2 * a + 1
  <2>1. k * (k - 1) = 2 * (a * k) /\ a * k \in Int
    BY <1>3
  <2>2. \A j \in Int : (2 * j) \div 2 = j
    OBVIOUS
  <2>. QED BY <2>1, <2>2
<1>. QED BY <1>1, <1>2, <1>3

(***************************************************************************)
(* The powers of two, and the size of a table.                             *)
(***************************************************************************)
Doubling(f, n) == f = [k \in 0 .. n |-> IF k = 0 THEN 1 ELSE 2 * f[k - 1]]

LEMMA DoublingExists ==
  ASSUME NEW n \in Nat
  PROVE  \E f : Doubling(f, n)
<1> DEFINE h == [k \in 1 .. n |-> [x \in Nat |-> 2 * x]]
<1>1. h \in [1 .. n -> [Nat -> Nat]]
  OBVIOUS
<1>2. PICK f \in [0 .. n -> Nat] : Stepwise(f, n, 1, h)
  <2> HIDE DEF h
  <2>. QED BY <1>1, StepsExist
<1>3. ASSUME NEW k \in 0 .. n PROVE f[k] = IF k = 0 THEN 1 ELSE 2 * f[k - 1]
  <2>1. CASE k = 0
    BY <1>2, <2>1 DEF Stepwise
  <2>2. CASE k # 0
    <3>1. k \in 1 .. n /\ k - 1 \in 0 .. n
      BY <2>2
    <3>2. f[k - 1] \in Nat
      BY <3>1
    <3>3. h[k][f[k - 1]] = 2 * f[k - 1]
      BY <3>1, <3>2
    <3>. QED BY <1>2, <2>2, <3>1, <3>3 DEF Stepwise
  <2>. QED BY <2>1, <2>2
<1>4. f = [k \in 0 .. n |-> IF k = 0 THEN 1 ELSE 2 * f[k - 1]]
  BY <1>3
<1>. QED BY <1>4 DEF Doubling

\* A set of numbers that has 1 and the double of each of its members has every
\* power of two.
LEMMA PowersInduction ==
  ASSUME NEW T, 1 \in T, \A p \in T : 2 * p \in T, NEW n \in Nat
  PROVE  Powers(n) \subseteq T
<1> DEFINE f == CHOOSE x : Doubling(x, n)
<1>1. Doubling(f, n)
  BY DoublingExists, Zenon
<1>2. Powers(n) = {f[k] : k \in 0 .. n}
  BY Zenon DEF Powers, Doubling
<1> HIDE DEF f
<1>3. f[0] = 1 /\ \A k \in 1 .. n : f[k] = 2 * f[k - 1]
  <2>1. \A k \in 0 .. n : f[k] = IF k = 0 THEN 1 ELSE 2 * f[k - 1]
    BY <1>1 DEF Doubling
  <2>2. 0 \in 0 .. n /\ \A k \in 1 .. n : k \in 0 .. n /\ k # 0
    OBVIOUS
  <2>. QED BY <2>1, <2>2
<1> DEFINE S == {k \in 0 .. n : f[k] \in T}
<1>4. 0 \in S /\ \A k \in 0 .. n - 1 : k \in S => k + 1 \in S
  <2>1. 0 \in S
    BY <1>3
  <2>2. ASSUME NEW k \in 0 .. n - 1, k \in S PROVE k + 1 \in S
    <3>1. k + 1 \in 1 .. n /\ k + 1 \in 0 .. n /\ (k + 1) - 1 = k
      OBVIOUS
    <3>2. f[k + 1] = 2 * f[k]
      BY <1>3, <3>1
    <3>. QED BY <2>2, <3>1, <3>2
  <2>. QED BY <2>1, <2>2
<1>5. \A k \in 0 .. n : k \in S
  <2> HIDE DEF S
  <2>. QED BY <1>4, UpTo
<1>. QED BY <1>2, <1>5

\* Between the powers of two there is always room for one of them.
LEMMA PowerBelow ==
  ASSUME NEW n \in Nat
  PROVE  \E p \in Powers(n + 1) : p <= 2 * n + 3 /\ 2 * p > 2 * n + 3
<1> DEFINE m == n + 1
           f == CHOOSE x : Doubling(x, m)
<1>0. m \in Nat
  OBVIOUS
<1>1. Doubling(f, m)
  BY <1>0, DoublingExists, Zenon
<1>2. Powers(m) = {f[k] : k \in 0 .. m}
  BY Zenon DEF Powers, Doubling
<1> HIDE DEF f
<1>3. f[0] = 1 /\ \A k \in 1 .. m : f[k] = 2 * f[k - 1]
  <2>1. \A k \in 0 .. m : f[k] = IF k = 0 THEN 1 ELSE 2 * f[k - 1]
    BY <1>1 DEF Doubling
  <2>2. 0 \in 0 .. m /\ \A k \in 1 .. m : k \in 0 .. m /\ k # 0
    OBVIOUS
  <2>. QED BY <2>1, <2>2
<1> HIDE DEF m
<1>4. ASSUME NEW k \in 0 .. m - 1 PROVE k + 1 \in 0 .. m /\ f[k + 1] = 2 * f[k]
  <2>1. k + 1 \in 1 .. m /\ (k + 1) - 1 = k
    BY <1>0
  <2>. QED BY <1>3, <2>1
<1> DEFINE G == {k \in 0 .. m : f[k] \in Nat /\ f[k] >= k + 1}
<1>5. \A k \in 0 .. m : k \in G
  <2>1. 0 \in G
    BY <1>0, <1>3
  <2>2. ASSUME NEW k \in 0 .. m - 1, k \in G PROVE k + 1 \in G
    <3>1. f[k] \in Nat /\ f[k] >= k + 1
      BY <2>2
    <3>2. 2 * f[k] \in Nat /\ 2 * f[k] >= k + 2
      BY <3>1
    <3>. QED BY <1>4, <3>2
  <2> HIDE DEF G
  <2>. QED BY <1>0, <2>1, <2>2, UpTo
<1>6. SUFFICES ASSUME \A k \in 0 .. m : f[k] <= 2 * n + 3 => ~(2 * f[k] > 2 * n + 3)
               PROVE  FALSE
  BY <1>2 DEF m
<1> DEFINE S == {k \in 0 .. m : f[k] <= 2 * n + 3}
<1>7. \A k \in 0 .. m : k \in S
  <2>1. 0 \in S
    BY <1>0, <1>3
  <2>2. ASSUME NEW k \in 0 .. m - 1, k \in S PROVE k + 1 \in S
    <3>1. k \in 0 .. m /\ f[k] \in Nat /\ f[k] <= 2 * n + 3
      BY <1>5, <2>2
    <3>2. 2 * f[k] <= 2 * n + 3
      BY <1>6, <3>1
    <3>. QED BY <1>4, <3>2
  <2> HIDE DEF S
  <2>. QED BY <1>0, <2>1, <2>2, UpTo
<1>8. m \in 0 .. m
  BY <1>0
<1>9. f[m] \in Nat /\ f[m] >= n + 2 /\ 2 * f[m] <= 2 * n + 3
  BY <1>5, <1>6, <1>7, <1>8 DEF m
<1>. QED BY <1>9

(***************************************************************************)
(* Every chain comes to every place of a table.                            *)
(***************************************************************************)
Covers(mask) == \A hash \in Nat, r \in 0 .. mask : \E k \in 0 .. 2 * mask + 1 : Place(hash, k, mask) = r

\* What is added to the hash after k steps.
LEMMA StepsAdd ==
  ASSUME NEW k \in Int, NEW p \in Nat
  PROVE  /\ (k * (k - 1)) \div 2 \in Int
         /\ LET l == k + 2 * p
            IN  (l * (l - 1)) \div 2 = (k * (k - 1)) \div 2 + (k + k + p + p - 1) * p
<1> DEFINE l == k + 2 * p
<1>1. PICK a \in Int : k * (k - 1) = 2 * a /\ (k * (k - 1)) \div 2 = a
  BY HalfOfEven
<1>2. PICK b \in Int : l * (l - 1) = 2 * b /\ (l * (l - 1)) \div 2 = b
  <2>1. l \in Int
    OBVIOUS
  <2> HIDE DEF l
  <2>. QED BY <2>1, HalfOfEven
<1>3. l * (l - 1) = k * (k - 1) + 2 * ((k + k + p + p - 1) * p)
  OBVIOUS
<1>4. b = a + (k + k + p + p - 1) * p
  <2>1. (k + k + p + p - 1) * p \in Int
    OBVIOUS
  <2>2. 2 * b = 2 * a + 2 * ((k + k + p + p - 1) * p)
    BY <1>1, <1>2, <1>3
  <2> DEFINE c == (k + k + p + p - 1) * p
  <2> HIDE DEF c, l
  <2>3. c \in Int /\ 2 * b = 2 * a + 2 * c
    BY <2>1, <2>2 DEF c
  <2>. QED BY <2>3 DEF c
<1>. QED BY <1>1, <1>2, <1>4

LEMMA CoversDouble ==
  ASSUME NEW p \in Nat \ {0}, Covers(p - 1)
  PROVE  Covers(2 * p - 1)
<1> SUFFICES ASSUME NEW hash \in Nat, NEW r \in 0 .. 2 * p - 1
             PROVE  \E k \in 0 .. 2 * (2 * p - 1) + 1 : Place(hash, k, 2 * p - 1) = r
  BY DEF Covers
<1> DEFINE C(k) == hash + 7 * k + (k * (k - 1)) \div 2
<1>1. PICK r0 \in 0 .. p - 1 : r = r0 \/ r = r0 + p
  <2>1. CASE r < p
    <3>1. r \in 0 .. p - 1
      BY <2>1
    <3>. QED BY <3>1
  <2>2. CASE r >= p
    <3>1. r - p \in 0 .. p - 1 /\ r = (r - p) + p
      BY <2>2
    <3>. QED BY <3>1
  <2>. QED BY <2>1, <2>2
<1>2. PICK k \in 0 .. 2 * (p - 1) + 1 : Place(hash, k, p - 1) = r0
  BY <1>1 DEF Covers
<1>3. k \in Int /\ k \in 0 .. 2 * p - 1
  OBVIOUS
<1> DEFINE l == k + 2 * p
<1>4. C(k) \in Int /\ C(l) = C(k) + (k + k + p + p + 13) * p
  <2> DEFINE a == (k * (k - 1)) \div 2
             b == (l * (l - 1)) \div 2
  <2>1. a \in Int /\ b = a + (k + k + p + p - 1) * p
    BY <1>3, StepsAdd
  <2>2. C(k) = hash + 7 * k + a /\ C(l) = hash + 7 * (k + 2 * p) + b
    OBVIOUS
  <2> HIDE DEF a, b, C, l
  <2>3. (k + k + p + p + 13) * p = (k + k + p + p - 1) * p + 14 * p
    OBVIOUS
  <2> DEFINE c == (k + k + p + p - 1) * p
  <2>4. c \in Int
    OBVIOUS
  <2> HIDE DEF c
  <2>. QED BY <1>3, <2>1, <2>2, <2>3, <2>4 DEF c
<1>5. C(k) % p = r0
  BY <1>2 DEF Place
<1>6. Place(hash, k, 2 * p - 1) = C(k) % (2 * p) /\ Place(hash, l, 2 * p - 1) = C(l) % (2 * p)
  BY DEF Place
<1>7. k \in 0 .. 2 * (2 * p - 1) + 1 /\ l \in 0 .. 2 * (2 * p - 1) + 1
  OBVIOUS
<1> HIDE DEF C, l
<1>8. PICK q \in Int : C(k) = q * p + r0
  BY <1>4, <1>5, DivMod
<1>9. PICK b \in Int : q = 2 * b \/ q = 2 * b + 1
  <2> HIDE DEF C
  <2>1. q = 2 * (q \div 2) + (q % 2) /\ q % 2 \in {0, 1} /\ q \div 2 \in Int
    OBVIOUS
  <2>. QED BY <2>1
<1>10. \A x \in Int : (x * (2 * p) + r0) % (2 * p) = r0 /\ (x * (2 * p) + (r0 + p)) % (2 * p) = r0 + p
  <2> TAKE x \in Int
  <2>1. 2 * p \in Nat \ {0} /\ r0 \in 0 .. 2 * p - 1 /\ r0 + p \in 0 .. 2 * p - 1
    OBVIOUS
  <2>. QED BY <2>1, ModIs
<1>11. CASE q = 2 * b
  <2>1. C(k) = b * (2 * p) + r0
    BY <1>8, <1>11
  <2>2. C(l) = (b + k + p + 6) * (2 * p) + (r0 + p) /\ b + k + p + 6 \in Int
    <3>1. b * (2 * p) + r0 + (k + k + p + p + 13) * p = (b + k + p + 6) * (2 * p) + (r0 + p)
      OBVIOUS
    <3>. QED BY <1>4, <2>1, <3>1
  <2>3. C(k) % (2 * p) = r0 /\ C(l) % (2 * p) = r0 + p
    BY <1>10, <2>1, <2>2
  <2>. QED BY <1>1, <1>6, <1>7, <2>3
<1>12. CASE q = 2 * b + 1
  <2>1. C(k) = b * (2 * p) + (r0 + p)
    BY <1>8, <1>12
  <2>2. C(l) = (b + k + p + 7) * (2 * p) + r0 /\ b + k + p + 7 \in Int
    <3>1. b * (2 * p) + (r0 + p) + (k + k + p + p + 13) * p = (b + k + p + 7) * (2 * p) + r0
      OBVIOUS
    <3>. QED BY <1>4, <2>1, <3>1
  <2>3. C(k) % (2 * p) = r0 + p /\ C(l) % (2 * p) = r0
    BY <1>10, <2>1, <2>2
  <2>. QED BY <1>1, <1>6, <1>7, <2>3
<1>. QED BY <1>9, <1>11, <1>12

\* The tables of mkmask have a power of two of places.  Then a chain of
\* HASHCHAIN_START and HASHCHAIN_NEXT comes to every place, whatever the hash:
\* the search loops of strpool.c and poolid.c end as soon as a place is free.
THEOREM PowersCover ==
  ASSUME NEW n \in Nat
  PROVE  Powers(n) \subseteq {p \in Nat \ {0} : Covers(p - 1)}
<1> DEFINE T == {p \in Nat \ {0} : Covers(p - 1)}
<1>1. 1 \in T
  <2> SUFFICES ASSUME NEW hash \in Nat, NEW r \in 0 .. 0 PROVE \E k \in 0 .. 1 : Place(hash, k, 0) = r
    BY DEF Covers
  <2>1. Place(hash, 0, 0) = (hash + 0 + (0 * (0 - 1)) \div 2) % 1 /\ (0 * (0 - 1)) \div 2 \in Int
    BY HalfOfEven DEF Place
  <2>2. \A x \in Int : x % 1 = 0
    OBVIOUS
  <2>3. Place(hash, 0, 0) = 0
    BY <2>1, <2>2
  <2>. QED BY <2>3
<1>2. ASSUME NEW p \in T PROVE 2 * p \in T
  BY CoversDouble
<1> HIDE DEF T
<1>. QED BY <1>1, <1>2, PowersInduction DEF T

LEMMA MaskFacts ==
  ASSUME NEW n \in Nat
  PROVE  MkMask(n) \in Nat /\ Covers(MkMask(n)) /\ MkMask(n) >= 2 * n + 3
<1> DEFINE p == CHOOSE x \in Powers(n + 1) : x <= 2 * n + 3 /\ 2 * x > 2 * n + 3
<1>1. p \in Powers(n + 1) /\ 2 * p > 2 * n + 3
  BY PowerBelow, Zenon
<1>2. MkMask(n) = 2 * p - 1
  BY DEF MkMask
<1> HIDE DEF p
<1>3. p \in Nat \ {0} /\ Covers(p - 1)
  BY <1>1, PowersCover
<1>4. Covers(2 * p - 1)
  BY <1>3, CoversDouble
<1>. QED BY <1>1, <1>2, <1>3, <1>4

LEMMA FirstPlaceIs ==
  ASSUME NEW hash \in Nat, NEW mask \in Nat, Covers(mask), NEW S, S \subseteq 0 .. mask, S # {}
  PROVE  \E k \in 0 .. 2 * mask + 1 :
           /\ FirstPlace(hash, mask, S) = Place(hash, k, mask)
           /\ Place(hash, k, mask) \in S
           /\ \A j \in 0 .. k - 1 : Place(hash, j, mask) \notin S
<1> DEFINE K == {k \in 0 .. 2 * mask + 1 : Place(hash, k, mask) \in S}
<1>1. K # {}
  <2>1. PICK h \in 0 .. mask : h \in S
    OBVIOUS
  <2>. QED BY <2>1 DEF Covers
<1>2. K \subseteq Nat
  OBVIOUS
<1>3. Min(K) \in K /\ \A y \in K : Min(K) <= y
  <2> HIDE DEF K
  <2>. QED BY <1>1, <1>2, MinIn
<1>4. ASSUME NEW j \in 0 .. Min(K) - 1 PROVE Place(hash, j, mask) \notin S
  <2>1. j \in 0 .. 2 * mask + 1 /\ ~(Min(K) <= j)
    BY <1>3
  <2>. QED BY <1>3, <2>1
<1>5. \E k \in 0 .. 2 * mask + 1 : Place(hash, k, mask) \in S /\ \A j \in 0 .. (k - 1) : Place(hash, j, mask) \notin S
  BY <1>3, <1>4
<1>. QED BY <1>5, Zenon DEF FirstPlace

\* A number of entries rounded up to whole blocks.
LEMMA RoundFacts ==
  ASSUME NEW n \in Nat
  PROVE  /\ RoundUp(n) \in Nat /\ n <= RoundUp(n)
         /\ n % (Block + 1) = 0 => RoundUp(n) = n /\ RoundUp(n + 1) = n + (Block + 1)
         /\ n % (Block + 1) # 0 => RoundUp(n + 1) = RoundUp(n)
<1> DEFINE b == Block + 1
           q == n \div b
           r == n % b
<1>1. b \in Nat \ {0} /\ b >= 2 /\ Block = b - 1
  BY IdsAssumption
<1> HIDE DEF b
<1>2. n = q * b + r /\ q \in Int /\ r \in 0 .. b - 1
  BY <1>1, DivMod
<1>3. RoundUp(n) = ((n + (b - 1)) \div b) * b /\ RoundUp(n + 1) = (((n + 1) + (b - 1)) \div b) * b
  BY <1>1 DEF RoundUp, b
<1> HIDE DEF q, r
<1>4. CASE r = 0
  <2>1. n + (b - 1) = q * b + (b - 1) /\ b - 1 \in 0 .. b - 1
    BY <1>1, <1>2, <1>4
  <2>2. (n + 1) + (b - 1) = (q + 1) * b + 0 /\ 0 \in 0 .. b - 1 /\ q + 1 \in Int
    BY <1>1, <1>2, <1>4
  <2>3. (n + (b - 1)) \div b = q
    BY <1>1, <1>2, <2>1, ModIs
  <2>4. ((n + 1) + (b - 1)) \div b = q + 1
    BY <1>1, <1>2, <2>2, ModIs
  <2>5. RoundUp(n) = n /\ RoundUp(n + 1) = n + b
    BY <1>1, <1>2, <1>3, <1>4, <2>3, <2>4
  <2>. QED BY <1>1, <1>4, <2>5 DEF r, b
<1>5. CASE r # 0
  <2>1. n + (b - 1) = (q + 1) * b + (r - 1) /\ r - 1 \in 0 .. b - 1 /\ q + 1 \in Int
    BY <1>1, <1>2, <1>5
  <2>2. (n + 1) + (b - 1) = (q + 1) * b + r
    BY <1>1, <1>2
  <2>3. (n + (b - 1)) \div b = q + 1
    BY <1>1, <2>1, ModIs
  <2>4. ((n + 1) + (b - 1)) \div b = q + 1
    BY <1>1, <1>2, <2>1, <2>2, ModIs
  <2>5. RoundUp(n) = (q + 1) * b /\ RoundUp(n + 1) = (q + 1) * b
    BY <1>3, <2>3, <2>4
  <2>6. (q + 1) * b = n + (b - r)
    BY <1>1, <1>2
  <2>7. RoundUp(n) \in Nat /\ n <= RoundUp(n)
    BY <1>1, <1>2, <2>5, <2>6
  <2>. QED BY <1>5, <2>5, <2>7 DEF r, b
<1>. QED BY <1>4, <1>5

(***************************************************************************)
(* A table: every place is free or has another of the first n items, and   *)
(* every item is found before the first free place of its chain.           *)
(***************************************************************************)
Kinds == {"str", "rel"}
ItemsOf(kind) == IF kind = "str" THEN KnownTexts ELSE Nat \X Nat \X Nat

LEMMA HashTypes ==
  ASSUME NEW kind \in Kinds, NEW item \in ItemsOf(kind)
  PROVE  HashOf(kind, item) \in Nat
<1>1. CASE kind = "str"
  BY <1>1, IdsAssumption DEF HashOf, ItemsOf, KnownTexts
<1>2. CASE kind = "rel"
  BY <1>2 DEF HashOf, ItemsOf, RelHash
<1>. QED BY <1>1, <1>2 DEF Kinds

Reached(mask, tbl, hash, id) ==
  \E k \in 0 .. 2 * mask + 1 :
    /\ tbl[Place(hash, k, mask)] = id
    /\ \A j \in 0 .. k - 1 : tbl[Place(hash, j, mask)] # 0

Filled(kind, items, mask, tbl, n) ==
  /\ mask \in Nat /\ Covers(mask)
  /\ tbl \in [0 .. mask -> 0 .. n]
  /\ \A g, h \in 0 .. mask : tbl[g] = tbl[h] /\ tbl[g] # 0 => g = h
  /\ \A id \in 1 .. n : Reached(mask, tbl, HashOf(kind, items[id]), id)

LEMMA PlaceTypes ==
  ASSUME NEW hash \in Nat, NEW k \in Int, NEW mask \in Nat
  PROVE  Place(hash, k, mask) \in 0 .. mask
<1>1. (k * (k - 1)) \div 2 \in Int
  BY HalfOfEven
<1> DEFINE x == hash + 7 * k + (k * (k - 1)) \div 2
<1>2. x \in Int
  BY <1>1
<1> HIDE DEF x
<1>3. x % (mask + 1) \in 0 .. (mask + 1) - 1
  BY <1>2, DivMod
<1>. QED BY <1>3 DEF Place, x

\* A table of n items has n places in use at most.
LEMMA UsedPlaces ==
  ASSUME NEW kind, NEW items, NEW mask, NEW tbl, NEW n \in Nat, Filled(kind, items, mask, tbl, n)
  PROVE  LET used == {h \in 0 .. mask : tbl[h] # 0} IN IsFiniteSet(used) /\ Cardinality(used) \in Nat /\ Cardinality(used) <= n
<1> DEFINE used == {h \in 0 .. mask : tbl[h] # 0}
           f == [h \in used |-> tbl[h]]
<1>1. tbl \in [0 .. mask -> 0 .. n]
  BY DEF Filled
<1>2. f \in [used -> 1 .. n]
  BY <1>1
<1>3. \A g, h \in used : f[g] = f[h] => g = h
  BY DEF Filled
<1> HIDE DEF f, used
<1>4. f \in Injection(used, 1 .. n)
  BY <1>2, <1>3 DEF Injection, IsInjective
<1>5. IsFiniteSet(1 .. n) /\ Cardinality(1 .. n) = n
  BY FS_Interval
<1>6. IsFiniteSet(used) /\ Cardinality(used) <= n
  BY <1>4, <1>5, FS_Injection
<1>. QED BY <1>6, FS_CardinalityType DEF used

LEMMA HasRoom ==
  ASSUME NEW kind, NEW items, NEW mask, NEW tbl, NEW n \in Nat, Filled(kind, items, mask, tbl, n), n <= mask
  PROVE  {h \in 0 .. mask : tbl[h] = 0} # {}
<1> SUFFICES ASSUME {h \in 0 .. mask : tbl[h] = 0} = {} PROVE FALSE
  OBVIOUS
<1>1. {h \in 0 .. mask : tbl[h] # 0} = 0 .. mask
  OBVIOUS
<1>2. Cardinality(0 .. mask) <= n
  <2> DEFINE used == {h \in 0 .. mask : tbl[h] # 0}
  <2>1. Cardinality(used) <= n
    BY UsedPlaces
  <2>. QED BY <1>1, <2>1
<1>3. Cardinality(0 .. mask) = mask + 1 /\ mask \in Nat
  BY FS_Interval DEF Filled
<1>. QED BY <1>2, <1>3

\* What happens to a table when the next item takes the first free place of
\* its chain.
LEMMA PutFills ==
  ASSUME NEW kind, NEW items, NEW items2, NEW mask, NEW tbl, NEW n \in Nat, Filled(kind, items, mask, tbl, n),
         NEW k \in 0 .. 2 * mask + 1, HashOf(kind, items2[n + 1]) \in Nat,
         LET h == HashOf(kind, items2[n + 1])
         IN  /\ tbl[Place(h, k, mask)] = 0
             /\ \A j \in 0 .. k - 1 : tbl[Place(h, j, mask)] # 0,
         \A id \in 1 .. n : items2[id] = items[id] /\ HashOf(kind, items[id]) \in Nat
  PROVE  Filled(kind, items2, mask, [tbl EXCEPT ![Place(HashOf(kind, items2[n + 1]), k, mask)] = n + 1], n + 1)
<1> DEFINE hash == HashOf(kind, items2[n + 1])
           p == Place(hash, k, mask)
           new == [tbl EXCEPT ![p] = n + 1]
<1>1. mask \in Nat /\ Covers(mask) /\ tbl \in [0 .. mask -> 0 .. n]
  BY DEF Filled
<1>2. hash \in Nat /\ p \in 0 .. mask /\ tbl[p] = 0 /\ \A j \in 0 .. k - 1 : Place(hash, j, mask) \in 0 .. mask /\ tbl[Place(hash, j, mask)] # 0
  <2>1. hash \in Nat /\ tbl[p] = 0 /\ \A j \in 0 .. k - 1 : tbl[Place(hash, j, mask)] # 0
    OBVIOUS
  <2> HIDE DEF hash
  <2>2. \A j \in Int : Place(hash, j, mask) \in 0 .. mask
    BY <1>1, <2>1, PlaceTypes
  <2>3. k \in Int /\ \A j \in 0 .. k - 1 : j \in Int
    BY <1>1
  <2>. QED BY <2>1, <2>2, <2>3
<1>3. \A id \in 1 .. n : Reached(mask, tbl, HashOf(kind, items[id]), id) /\ HashOf(kind, items[id]) \in Nat /\ items2[id] = items[id]
  BY DEF Filled
<1>4. \A g, h \in 0 .. mask : tbl[g] = tbl[h] /\ tbl[g] # 0 => g = h
  BY DEF Filled
<1> HIDE DEF hash, p
<1>5. new \in [0 .. mask -> 0 .. n + 1] /\ new[p] = n + 1 /\ \A h \in 0 .. mask : h # p => new[h] = tbl[h]
  BY <1>1, <1>2
<1> HIDE DEF new
<1>6. \A h \in 0 .. mask : tbl[h] # 0 => new[h] = tbl[h] /\ new[h] # 0
  BY <1>2, <1>5
<1>7. ASSUME NEW g \in 0 .. mask, NEW h \in 0 .. mask, new[g] = new[h], new[g] # 0 PROVE g = h
  <2>1. \A x \in 0 .. mask : tbl[x] # n + 1
    BY <1>1
  <2>2. CASE g = p \/ h = p
    BY <1>5, <1>7, <2>1, <2>2
  <2>3. CASE g # p /\ h # p
    BY <1>4, <1>5, <1>7, <2>3
  <2>. QED BY <2>2, <2>3
<1>8. ASSUME NEW id \in 1 .. n + 1 PROVE Reached(mask, new, HashOf(kind, items2[id]), id)
  <2>1. CASE id = n + 1
    <3>1. new[Place(hash, k, mask)] = n + 1
      BY <1>5 DEF p
    <3>2. \A j \in 0 .. k - 1 : new[Place(hash, j, mask)] # 0
      BY <1>2, <1>6
    <3>. QED BY <2>1, <3>1, <3>2 DEF Reached, hash
  <2>2. CASE id # n + 1
    <3>1. id \in 1 .. n
      BY <2>2
    <3> DEFINE x == HashOf(kind, items2[id])
    <3>2. x \in Nat /\ Reached(mask, tbl, x, id)
      BY <1>3, <3>1
    <3> HIDE DEF x
    <3>3. PICK l \in 0 .. 2 * mask + 1 : tbl[Place(x, l, mask)] = id /\ \A j \in 0 .. l - 1 : tbl[Place(x, j, mask)] # 0
      BY <3>2 DEF Reached
    <3>4. \A j \in 0 .. l : Place(x, j, mask) \in 0 .. mask
      <4>1. \A j \in Int : Place(x, j, mask) \in 0 .. mask
        BY <1>1, <3>2, PlaceTypes
      <4>2. \A j \in 0 .. l : j \in Int
        OBVIOUS
      <4>. QED BY <4>1, <4>2, Zenon
    <3>5. l \in 0 .. l /\ \A j \in 0 .. l - 1 : j \in 0 .. l
      OBVIOUS
    <3>6. new[Place(x, l, mask)] = id
      BY <1>6, <3>1, <3>3, <3>4, <3>5
    <3>7. \A j \in 0 .. l - 1 : new[Place(x, j, mask)] # 0
      BY <1>6, <3>3, <3>4, <3>5
    <3>. QED BY <3>6, <3>7 DEF Reached, x
  <2>. QED BY <2>1, <2>2
<1>9. Filled(kind, items2, mask, new, n + 1)
  BY <1>1, <1>5, <1>7, <1>8 DEF Filled
<1>. QED BY <1>9 DEF new, p, hash

\* The tables between the empty one and the one with all items.
Rehashing(f, kind, t, mask) ==
  f = [n \in 0 .. Len(t.items) |->
         IF n = 0 THEN [h \in 0 .. mask |-> 0] ELSE Put(f[n - 1], mask, HashOf(kind, t.items[n]), n)]

LEMMA RehashingExists ==
  ASSUME NEW kind, NEW t, NEW mask, Len(t.items) \in Nat
  PROVE  \E f : Rehashing(f, kind, t, mask)
<1> DEFINE n == Len(t.items)
           X == [0 .. mask -> Nat]
           H(k, x) == Put(x, mask, HashOf(kind, t.items[k]), k)
           h == [k \in 1 .. n |-> [x \in X |-> H(k, x)]]
           b == [p \in 0 .. mask |-> 0]
<1>1. h \in [1 .. n -> [X -> X]]
  <2>1. ASSUME NEW k \in 1 .. n, NEW x \in X PROVE H(k, x) \in X
    <3>1. k \in Nat
      OBVIOUS
    <3>. QED BY <3>1 DEF Put
  <2> HIDE DEF H, X
  <2>. QED BY <2>1
<1>2. b \in X /\ n \in Nat
  OBVIOUS
<1>3. PICK f \in [0 .. n -> X] : Stepwise(f, n, b, h)
  <2> HIDE DEF h, X, b
  <2>. QED BY <1>1, <1>2, StepsExist
<1>4. ASSUME NEW k \in 0 .. n PROVE f[k] = IF k = 0 THEN b ELSE H(k, f[k - 1])
  <2> HIDE DEF H, X, b
  <2>1. CASE k = 0
    BY <1>3, <2>1 DEF Stepwise
  <2>2. CASE k # 0
    <3>1. k \in 1 .. n /\ k - 1 \in 0 .. n
      BY <2>2
    <3>2. f[k - 1] \in X
      BY <3>1
    <3>3. h[k][f[k - 1]] = H(k, f[k - 1])
      BY <3>1, <3>2
    <3>. QED BY <1>3, <2>2, <3>1, <3>3 DEF Stepwise
  <2>. QED BY <2>1, <2>2
<1>5. f = [k \in 0 .. n |-> IF k = 0 THEN b ELSE H(k, f[k - 1])]
  <2> HIDE DEF H, X, b
  <2>. QED BY <1>4
<1>. QED BY <1>5, Zenon DEF Rehashing

\* A table that is built anew holds every item.
LEMMA RehashFills ==
  ASSUME NEW kind \in Kinds, NEW t, t.items \in Seq(ItemsOf(kind)), NEW mask \in Nat, Covers(mask), Len(t.items) <= mask
  PROVE  Filled(kind, t.items, mask, Rehash(kind, t, mask), Len(t.items))
<1> DEFINE l == Len(t.items)
           f == CHOOSE x : Rehashing(x, kind, t, mask)
<1>0. l \in Nat
  OBVIOUS
<1>1. Rehashing(f, kind, t, mask)
  BY <1>0, RehashingExists, Zenon
<1>2. Rehash(kind, t, mask) = f[l]
  BY Zenon DEF Rehash, Rehashing
<1> HIDE DEF f
<1>3. f[0] = [h \in 0 .. mask |-> 0] /\ \A n \in 1 .. l : f[n] = Put(f[n - 1], mask, HashOf(kind, t.items[n]), n)
  <2>1. \A n \in 0 .. l : f[n] = IF n = 0 THEN [h \in 0 .. mask |-> 0] ELSE Put(f[n - 1], mask, HashOf(kind, t.items[n]), n)
    BY <1>1 DEF Rehashing
  <2>2. 0 \in 0 .. l /\ \A n \in 1 .. l : n \in 0 .. l /\ n # 0
    BY <1>0
  <2>. QED BY <2>1, <2>2
<1>4. \A n \in 1 .. l : t.items[n] \in ItemsOf(kind) /\ HashOf(kind, t.items[n]) \in Nat
  BY HashTypes
<1> DEFINE T == {n \in 0 .. l : Filled(kind, t.items, mask, f[n], n)}
<1>5. 0 \in T
  <2>1. f[0] \in [0 .. mask -> 0 .. 0] /\ \A g \in 0 .. mask : f[0][g] = 0
    BY <1>3
  <2>. QED BY <1>0, <2>1 DEF Filled
<1>6. ASSUME NEW n \in 0 .. l - 1, n \in T PROVE n + 1 \in T
  <2> DEFINE hash == HashOf(kind, t.items[n + 1])
             S == {h \in 0 .. mask : f[n][h] = 0}
  <2>1. n \in Nat /\ n + 1 \in 1 .. l /\ (n + 1) - 1 = n /\ n <= mask /\ n + 1 \in 0 .. l
    BY <1>0
  <2>2. Filled(kind, t.items, mask, f[n], n)
    BY <1>6
  <2>3. S # {} /\ S \subseteq 0 .. mask
    BY <2>1, <2>2, HasRoom
  <2>4. hash \in Nat
    BY <1>4, <2>1
  <2>5. f[n + 1] = [f[n] EXCEPT ![FirstPlace(hash, mask, S)] = n + 1]
    BY <1>3, <2>1 DEF Put, FreeSlot
  <2>6. PICK k \in 0 .. 2 * mask + 1 :
           /\ FirstPlace(hash, mask, S) = Place(hash, k, mask)
           /\ Place(hash, k, mask) \in S
           /\ \A j \in 0 .. k - 1 : Place(hash, j, mask) \notin S
    <3> HIDE DEF S, hash
    <3>. QED BY <2>3, <2>4, FirstPlaceIs
  <2>7. \A j \in 0 .. k - 1 : Place(hash, j, mask) \in 0 .. mask
    <3> HIDE DEF hash
    <3>1. \A j \in Int : Place(hash, j, mask) \in 0 .. mask
      BY <2>4, PlaceTypes
    <3>2. \A j \in 0 .. k - 1 : j \in Int
      OBVIOUS
    <3>. QED BY <3>1, <3>2, Zenon
  <2>8. f[n][Place(hash, k, mask)] = 0 /\ \A j \in 0 .. k - 1 : f[n][Place(hash, j, mask)] # 0
    BY <2>6, <2>7
  <2>9. \A id \in 1 .. n : HashOf(kind, t.items[id]) \in Nat
    BY <1>4, <2>1
  <2>10. Filled(kind, t.items, mask, [f[n] EXCEPT ![Place(hash, k, mask)] = n + 1], n + 1)
    BY <2>1, <2>2, <2>4, <2>8, <2>9, PutFills
  <2>. QED BY <2>1, <2>5, <2>6, <2>10
<1>7. l \in T
  <2> HIDE DEF T, l
  <2>1. \A n \in 0 .. l : n \in T
    BY <1>0, <1>5, <1>6, UpTo
  <2>. QED BY <1>0, <2>1
<1>. QED BY <1>2, <1>7

Tables == {NoTable} \cup UNION {[0 .. m -> Nat] : m \in Nat}
TableType(kind) == [items : Seq(ItemsOf(kind)), mask : Nat, tbl : Tables, cap : Nat]

RightTable(kind, t) ==
  /\ t \in TableType(kind)
  /\ IsInjective(t.items)
  /\ kind = "str" => t.items # <<>> /\ t.items[1] = 1
  /\ t.mask # 0 => Filled(kind, t.items, t.mask, t.tbl, Len(t.items)) /\ 2 * Len(t.items) <= t.mask + 1

RightCap(t) == RoundUp(Num(t)) <= t.cap

LEMMA FilledTypes ==
  ASSUME NEW kind, NEW items, NEW mask, NEW tbl, NEW n \in Nat, Filled(kind, items, mask, tbl, n)
  PROVE  tbl \in Tables
<1>1. mask \in Nat /\ tbl \in [0 .. mask -> 0 .. n]
  BY DEF Filled
<1>2. tbl \in [0 .. mask -> Nat]
  BY <1>1
<1>. QED BY <1>1, <1>2 DEF Tables

\* A table that is grown has room for all that is new.
LEMMA ResizeKeeps ==
  ASSUME NEW kind \in Kinds, NEW t, RightTable(kind, t), NEW new \in Int
  PROVE  LET u == ResizeHash(kind, t, new)
         IN  /\ RightTable(kind, u) /\ u.items = t.items /\ u.cap = t.cap
             /\ new > 0 => u.mask >= 2 * (Num(t) + new) + 3
<1> DEFINE u == ResizeHash(kind, t, new)
           mask == MkMask(Num(t) + new)
           l == Len(t.items)
<1>1. t \in TableType(kind)
  BY DEF RightTable
<1>2. t.items \in Seq(ItemsOf(kind)) /\ l \in Nat /\ t.mask \in Nat /\ Num(t) = l + 1
  BY <1>1 DEF TableType, Num
<1>3. CASE new <= 0
  BY <1>3 DEF ResizeHash
<1>4. CASE new > 0
  <2>1. Num(t) + new \in Nat /\ ~(new <= 0)
    BY <1>2, <1>4
  <2>2. mask \in Nat /\ Covers(mask) /\ mask >= 2 * (Num(t) + new) + 3
    BY <2>1, MaskFacts
  <2> HIDE DEF mask
  <2>3. CASE mask <= t.mask
    <3>1. u = t
      BY <2>3 DEF ResizeHash, mask
    <3>. QED BY <1>2, <1>4, <2>1, <2>2, <2>3, <3>1
  <2>4. CASE ~(mask <= t.mask)
    <3> DEFINE tbl == Rehash(kind, t, mask)
    <3>1. u = [t EXCEPT !.mask = mask, !.tbl = tbl]
      BY <2>1, <2>4 DEF ResizeHash, mask
    <3>2. l <= mask /\ 2 * l <= mask + 1
      BY <1>2, <1>4, <2>2
    <3>3. Filled(kind, t.items, mask, tbl, l)
      BY <1>2, <2>2, <3>2, RehashFills
    <3>4. tbl \in Tables
      BY <1>2, <3>3, FilledTypes
    <3> HIDE DEF tbl, u
    <3>5. u \in TableType(kind) /\ u.items = t.items /\ u.cap = t.cap /\ u.mask = mask /\ u.tbl = tbl
      BY <1>1, <2>2, <3>1, <3>4 DEF TableType
    <3>6. RightTable(kind, u)
      BY <3>2, <3>3, <3>5 DEF RightTable
    <3>. QED BY <2>2, <3>5, <3>6 DEF u
  <2>. QED BY <2>3, <2>4
<1>. QED BY <1>3, <1>4

LEMMA FreeKeeps ==
  ASSUME NEW kind, NEW t, RightTable(kind, t)
  PROVE  LET u == FreeHash(t) IN RightTable(kind, u) /\ u.items = t.items /\ u.cap = t.cap
<1> DEFINE u == FreeHash(t)
<1>1. t \in TableType(kind) /\ NoTable \in Tables
  BY DEF RightTable, Tables
<1>2. u \in TableType(kind) /\ u.items = t.items /\ u.cap = t.cap /\ u.mask = 0
  BY <1>1 DEF FreeHash, TableType
<1> HIDE DEF u
<1>3. RightTable(kind, u)
  BY <1>2 DEF RightTable
<1>. QED BY <1>2, <1>3 DEF u

LEMMA CapKeeps ==
  ASSUME NEW kind, NEW t, RightTable(kind, t), NEW c \in Nat
  PROVE  LET u == [t EXCEPT !.cap = c]
         IN  RightTable(kind, u) /\ u.items = t.items /\ u.mask = t.mask /\ u.cap = c
<1> DEFINE u == [t EXCEPT !.cap = c]
<1>1. t \in TableType(kind)
  BY DEF RightTable
<1>2. u \in TableType(kind) /\ u.items = t.items /\ u.cap = c /\ u.mask = t.mask /\ u.tbl = t.tbl
  BY <1>1 DEF TableType
<1> HIDE DEF u
<1>3. RightTable(kind, u)
  BY <1>2 DEF RightTable
<1>. QED BY <1>2, <1>3 DEF u

(***************************************************************************)
(* A look into a table.                                                    *)
(***************************************************************************)
\* A look for the item ends at place h: that is free or has the item, and the
\* places of the chain before it have other items.
EndsAt(kind, t, item, h) ==
  LET Pl(j) == Place(HashOf(kind, item), j, t.mask)
  IN  /\ h \in 0 .. t.mask /\ t.tbl[h] \in 0 .. Len(t.items)
      /\ t.tbl[h] = 0 \/ t.items[t.tbl[h]] = item
      /\ \E k \in 0 .. 2 * t.mask + 1 :
           /\ h = Pl(k)
           /\ \A j \in 0 .. k - 1 : t.tbl[Pl(j)] # 0 /\ t.items[t.tbl[Pl(j)]] # item

LEMMA SlotIs ==
  ASSUME NEW kind \in Kinds, NEW t, RightTable(kind, t), t.mask # 0, NEW item \in ItemsOf(kind)
  PROVE  EndsAt(kind, t, item, SlotOf(kind, t, item))
<1> DEFINE h == SlotOf(kind, t, item)
           hash == HashOf(kind, item)
           l == Len(t.items)
           S == {g \in 0 .. t.mask : t.tbl[g] = 0 \/ t.items[t.tbl[g]] = item}
<1>1. t \in TableType(kind) /\ Filled(kind, t.items, t.mask, t.tbl, l) /\ 2 * l <= t.mask + 1
  BY DEF RightTable
<1>2. l \in Nat /\ t.mask \in Nat /\ l <= t.mask /\ Covers(t.mask) /\ t.tbl \in [0 .. t.mask -> 0 .. l]
  <2>1. l \in Nat /\ t.mask \in Nat
    BY <1>1 DEF TableType
  <2>2. Covers(t.mask) /\ t.tbl \in [0 .. t.mask -> 0 .. l]
    BY <1>1 DEF Filled
  <2>. QED BY <1>1, <2>1, <2>2
<1>3. hash \in Nat
  BY HashTypes
<1>4. S # {} /\ S \subseteq 0 .. t.mask
  <2>1. {g \in 0 .. t.mask : t.tbl[g] = 0} # {}
    BY <1>1, <1>2, HasRoom
  <2>. QED BY <2>1
<1>5. h = FirstPlace(hash, t.mask, S)
  BY DEF SlotOf, Slot
<1>6. PICK k \in 0 .. 2 * t.mask + 1 :
           /\ FirstPlace(hash, t.mask, S) = Place(hash, k, t.mask)
           /\ Place(hash, k, t.mask) \in S
           /\ \A j \in 0 .. k - 1 : Place(hash, j, t.mask) \notin S
  <2> HIDE DEF S, hash
  <2>. QED BY <1>2, <1>3, <1>4, FirstPlaceIs
<1>7. \A j \in 0 .. k - 1 : Place(hash, j, t.mask) \in 0 .. t.mask
  <2> HIDE DEF hash
  <2>1. \A j \in Int : Place(hash, j, t.mask) \in 0 .. t.mask
    BY <1>2, <1>3, PlaceTypes
  <2>2. \A j \in 0 .. k - 1 : j \in Int
    OBVIOUS
  <2>. QED BY <2>1, <2>2, Zenon
<1>8. \A j \in 0 .. k - 1 : t.tbl[Place(hash, j, t.mask)] # 0 /\ t.items[t.tbl[Place(hash, j, t.mask)]] # item
  BY <1>6, <1>7
<1>9. h \in 0 .. t.mask /\ (t.tbl[h] = 0 \/ t.items[t.tbl[h]] = item)
  BY <1>5, <1>6
<1>10. t.tbl[h] \in 0 .. l
  <2> HIDE DEF h, l
  <2>. QED BY <1>2, <1>9
<1>11. h = Place(hash, k, t.mask)
  BY <1>5, <1>6
<1> HIDE DEF h
<1>. QED BY <1>8, <1>9, <1>10, <1>11 DEF h, EndsAt

\* What is in the table is found.
LEMMA FindsIt ==
  ASSUME NEW kind \in Kinds, NEW t, RightTable(kind, t), t.mask # 0, NEW id \in DOMAIN t.items
  PROVE  t.tbl[SlotOf(kind, t, t.items[id])] = id
<1> DEFINE item == t.items[id]
           h == SlotOf(kind, t, item)
           l == Len(t.items)
           Pl(j) == Place(HashOf(kind, item), j, t.mask)
<1>1. t.items \in Seq(ItemsOf(kind)) /\ IsInjective(t.items) /\ Filled(kind, t.items, t.mask, t.tbl, l)
  BY DEF RightTable, TableType
<1>2. DOMAIN t.items = 1 .. l /\ item \in ItemsOf(kind) /\ l \in Nat
  BY <1>1
<1>3. PICK m \in 0 .. 2 * t.mask + 1 : t.tbl[Pl(m)] = id /\ \A j \in 0 .. m - 1 : t.tbl[Pl(j)] # 0
  BY <1>1, <1>2 DEF Filled, Reached
<1>4. /\ t.tbl[h] \in 0 .. l
      /\ t.tbl[h] = 0 \/ t.items[t.tbl[h]] = item
      /\ \E k \in 0 .. 2 * t.mask + 1 :
           /\ h = Pl(k)
           /\ \A j \in 0 .. k - 1 : t.tbl[Pl(j)] # 0 /\ t.items[t.tbl[Pl(j)]] # item
  <2>1. item \in ItemsOf(kind)
    BY <1>2
  <2>2. EndsAt(kind, t, item, h)
    <3> HIDE DEF item
    <3>. QED BY <2>1, SlotIs
  <2> HIDE DEF h, item
  <2>. QED BY <2>2 DEF EndsAt
<1> HIDE DEF h
<1>5. PICK k \in 0 .. 2 * t.mask + 1 :
           /\ h = Pl(k)
           /\ \A j \in 0 .. k - 1 : t.tbl[Pl(j)] # 0 /\ t.items[t.tbl[Pl(j)]] # item
  BY <1>4
<1>6. CASE k = m
  BY <1>3, <1>5, <1>6 DEF h
<1>7. CASE m < k
  <2>1. m \in 0 .. k - 1
    BY <1>7
  <2>2. t.items[t.tbl[Pl(m)]] # item
    BY <1>5, <2>1
  <2>. QED BY <1>3, <2>2
<1>8. CASE k < m
  <2>1. k \in 0 .. m - 1
    BY <1>8
  <2>2. t.tbl[h] # 0
    BY <1>3, <1>5, <2>1
  <2> HIDE DEF Pl
  <2>3. t.tbl[h] \in 1 .. l /\ t.items[t.tbl[h]] = t.items[id]
    BY <1>2, <1>4, <2>2
  <2>. QED BY <1>1, <1>2, <2>3 DEF IsInjective, h
<1>. QED BY <1>6, <1>7, <1>8

\* What is not in the table is added at the place where the look ends.
LEMMA AddKeeps ==
  ASSUME NEW kind \in Kinds, NEW t, RightTable(kind, t), t.mask # 0, NEW item \in ItemsOf(kind),
         t.tbl[SlotOf(kind, t, item)] = 0, 2 * (Len(t.items) + 1) <= t.mask + 1,
         NEW u, u.items = Append(t.items, item), u.mask = t.mask, u.cap \in Nat,
         u.tbl = [t.tbl EXCEPT ![SlotOf(kind, t, item)] = Num(t)],
         u = [items |-> u.items, mask |-> u.mask, tbl |-> u.tbl, cap |-> u.cap]
  PROVE  RightTable(kind, u) /\ Len(u.items) = Len(t.items) + 1
<1> DEFINE l == Len(t.items)
           hash == HashOf(kind, item)
           h == SlotOf(kind, t, item)
<1>1. /\ t \in TableType(kind) /\ IsInjective(t.items) /\ Filled(kind, t.items, t.mask, t.tbl, l)
      /\ kind = "str" => t.items # <<>> /\ t.items[1] = 1
  BY DEF RightTable
<1>2. t.items \in Seq(ItemsOf(kind)) /\ l \in Nat /\ DOMAIN t.items = 1 .. l /\ t.mask \in Nat
  BY <1>1 DEF TableType
<1>3. u.items \in Seq(ItemsOf(kind)) /\ Len(u.items) = l + 1 /\ u.items[l + 1] = item /\ \A id \in 1 .. l : u.items[id] = t.items[id]
  BY <1>2
<1>4. \A id \in 1 .. l : t.items[id] # item
  <2> SUFFICES ASSUME NEW id \in 1 .. l, t.items[id] = item PROVE FALSE
    OBVIOUS
  <2>1. t.tbl[SlotOf(kind, t, t.items[id])] = id
    BY <1>2, FindsIt
  <2>. QED BY <1>2, <2>1
<1>5. PICK k \in 0 .. 2 * t.mask + 1 :
           /\ h = Place(hash, k, t.mask)
           /\ \A j \in 0 .. k - 1 : t.tbl[Place(hash, j, t.mask)] # 0
  <2>1. EndsAt(kind, t, item, h)
    BY SlotIs
  <2> HIDE DEF h
  <2>. QED BY <2>1 DEF EndsAt
<1>6. hash \in Nat /\ \A id \in 1 .. l : HashOf(kind, t.items[id]) \in Nat
  <2>1. \A id \in 1 .. l : t.items[id] \in ItemsOf(kind)
    BY <1>2
  <2>2. \A x \in ItemsOf(kind) : HashOf(kind, x) \in Nat
    BY HashTypes
  <2>. QED BY <2>1, <2>2
<1>7. Filled(kind, u.items, t.mask, u.tbl, l + 1)
  <2>1. u.items[l + 1] = item /\ Num(t) = l + 1
    BY <1>3 DEF Num
  <2> DEFINE its == u.items
  <2>2. its[l + 1] = item /\ HashOf(kind, its[l + 1]) = hash
    BY <2>1
  <2>3. \A id \in 1 .. l : its[id] = t.items[id] /\ HashOf(kind, t.items[id]) \in Nat
    BY <1>3, <1>6
  <2> DEFINE x == HashOf(kind, its[l + 1])
  <2>4. /\ x \in Nat /\ t.tbl[Place(x, k, t.mask)] = 0
        /\ \A j \in 0 .. k - 1 : t.tbl[Place(x, j, t.mask)] # 0
    <3> HIDE DEF its, hash, l, h, x
    <3>1. x = hash
      BY <2>2 DEF x
    <3>2. t.tbl[h] = 0
      BY DEF h
    <3>. QED BY <1>5, <1>6, <3>1, <3>2
  <2>5. l \in Nat /\ Filled(kind, t.items, t.mask, t.tbl, l) /\ k \in 0 .. 2 * t.mask + 1
    BY <1>1, <1>2
  <2> HIDE DEF its, hash, l, h
  <2>6. Filled(kind, its, t.mask, [t.tbl EXCEPT ![Place(x, k, t.mask)] = l + 1], l + 1)
    BY ONLY <2>3, <2>4, <2>5, PutFills
  <2>7. u.tbl = [t.tbl EXCEPT ![Place(x, k, t.mask)] = l + 1]
    BY <1>5, <2>1, <2>2 DEF h
  <2>. QED BY <2>6, <2>7 DEF its
<1>8. u.tbl \in Tables
  <2>1. l + 1 \in Nat
    BY <1>2
  <2>. QED BY <1>7, <2>1, FilledTypes
<1>9. u \in TableType(kind)
  BY <1>2, <1>3, <1>8 DEF TableType
<1>10. IsInjective(u.items)
  <2> DEFINE its == u.items
  <2>1. DOMAIN its = 1 .. l + 1
    BY <1>2, <1>3
  <2>2. ASSUME NEW a \in 1 .. l + 1, NEW b \in 1 .. l + 1, its[a] = its[b] PROVE a = b
    <3>1. (a = l + 1 \/ a \in 1 .. l) /\ (b = l + 1 \/ b \in 1 .. l)
      BY <1>2
    <3>. QED BY <1>1, <1>2, <1>3, <1>4, <2>2, <3>1 DEF IsInjective
  <2> HIDE DEF its
  <2>3. IsInjective(its)
    BY <2>1, <2>2 DEF IsInjective
  <2>. QED BY <2>3 DEF its
<1>11. kind = "str" => u.items # <<>> /\ u.items[1] = 1
  <2>1. u.items # <<>>
    BY <1>2, <1>3
  <2>2. kind = "str" => 1 \in 1 .. l
    BY <1>1, <1>2
  <2>. QED BY <1>1, <1>3, <2>1, <2>2
<1>12. u.mask # 0 => Filled(kind, u.items, u.mask, u.tbl, Len(u.items)) /\ 2 * Len(u.items) <= u.mask + 1
  BY <1>3, <1>7
<1>. QED BY <1>3, <1>9, <1>10, <1>11, <1>12 DEF RightTable

(***************************************************************************)
(* One string or relation.                                                 *)
(***************************************************************************)
\* new begins with old.
Extends(new, old) == Len(old) <= Len(new) /\ \A i \in 1 .. Len(old) : new[i] = old[i]

LEMMA ReadyKeeps ==
  ASSUME NEW kind \in Kinds, NEW t, RightTable(kind, t)
  PROVE  LET u == Ready(kind, t)
         IN  /\ RightTable(kind, u) /\ u.items = t.items /\ u.mask # 0
             /\ 2 * (Len(t.items) + 1) <= u.mask + 1
             /\ RightCap(t) => RightCap(u)
<1> DEFINE l == Len(t.items)
<1>1. t \in TableType(kind)
  BY DEF RightTable
<1>2. l \in Nat /\ t.mask \in Nat /\ Num(t) = l + 1 /\ t.cap \in Nat
  BY <1>1 DEF TableType, Num
<1>3. CASE Num(t) * 2 < t.mask
  BY <1>2, <1>3 DEF Ready
<1>4. CASE ~(Num(t) * 2 < t.mask)
  <2> DEFINE c == RoundUp(Num(t) + 1)
             v == IF kind = "str" /\ t.mask = 0 THEN Reserve(t, 1) ELSE t
             u == ResizeHash(kind, v, Block)
  <2>1. c \in Nat /\ RoundUp(Num(t)) <= c
    <3>1. Num(t) \in Nat /\ Num(t) + 1 \in Nat /\ Block + 1 \in Nat
      BY <1>2, IdsAssumption
    <3>2. RoundUp(Num(t)) \in Nat /\ RoundUp(Num(t) + 1) \in Nat
      BY <3>1, RoundFacts
    <3>3. Num(t) % (Block + 1) = 0 => RoundUp(Num(t)) = Num(t) /\ RoundUp(Num(t) + 1) = Num(t) + (Block + 1)
      BY <3>1, RoundFacts
    <3>4. Num(t) % (Block + 1) # 0 => RoundUp(Num(t) + 1) = RoundUp(Num(t))
      BY <3>1, RoundFacts
    <3>. QED BY <3>1, <3>2, <3>3, <3>4
  <2> HIDE DEF c
  <2>2. RightTable(kind, v) /\ v.items = t.items /\ (v.cap = c \/ v.cap = t.cap)
    <3>1. CASE kind = "str" /\ t.mask = 0
      <4>1. v = [t EXCEPT !.cap = c]
        BY <3>1 DEF Reserve, c
      <4> HIDE DEF v
      <4> DEFINE w == [t EXCEPT !.cap = c]
      <4>2. RightTable(kind, w) /\ w.items = t.items /\ w.cap = c
        BY <2>1, CapKeeps
      <4> HIDE DEF w
      <4>. QED BY <4>1, <4>2 DEF w
    <3>2. CASE ~(kind = "str" /\ t.mask = 0)
      BY <3>2
    <3>. QED BY <3>1, <3>2
  <2>3. Ready(kind, t) = u
    BY <1>4 DEF Ready
  <2> HIDE DEF v
  <2>4. Num(v) = l + 1
    BY <1>2, <2>2 DEF Num
  <2>5. RightTable(kind, u) /\ u.items = v.items /\ u.cap = v.cap /\ u.mask >= 2 * (Num(v) + Block) + 3
    <3>1. Block \in Int /\ Block > 0
      BY IdsAssumption
    <3>. QED BY <2>2, <3>1, ResizeKeeps
  <2>6. u.mask \in Nat
    BY <2>5 DEF RightTable, TableType
  <2> HIDE DEF u
  <2>7. u.mask # 0 /\ 2 * (l + 1) <= u.mask + 1
    BY <1>2, <2>4, <2>5, <2>6, IdsAssumption
  <2>8. RightCap(t) => RightCap(u)
    <3>1. Num(u) = Num(t)
      BY <2>2, <2>5 DEF Num
    <3>. QED BY <2>1, <2>2, <2>5, <3>1 DEF RightCap
  <2>. QED BY <2>2, <2>3, <2>5, <2>7, <2>8
<1>. QED BY <1>3, <1>4

\* Whether the next entry is the first of a block.
LEMMA NextBlock ==
  ASSUME NEW l \in Nat, l % (Block + 1) # Block
  PROVE  (l + 1) % (Block + 1) # 0
<1> DEFINE b == Block + 1
           q == l \div b
           r == l % b
<1>1. b \in Nat \ {0} /\ Block = b - 1
  BY IdsAssumption
<1> HIDE DEF b
<1>2. l = q * b + r /\ q \in Int /\ r \in 0 .. b - 1
  BY <1>1, DivMod
<1>3. r # b - 1
  BY <1>1 DEF b
<1> HIDE DEF q, r
<1>4. l + 1 = q * b + (r + 1) /\ r + 1 \in 0 .. b - 1 /\ r + 1 # 0
  BY <1>1, <1>2, <1>3
<1>5. (l + 1) % b = r + 1
  BY <1>1, <1>2, <1>4, ModIs
<1>. QED BY <1>4, <1>5 DEF b

LEMMA AddAtKeeps ==
  ASSUME NEW kind \in Kinds, NEW t, RightTable(kind, t), t.mask # 0, NEW item \in ItemsOf(kind),
         t.tbl[SlotOf(kind, t, item)] = 0, 2 * (Len(t.items) + 1) <= t.mask + 1, RightCap(t)
  PROVE  LET u == AddAt(t, SlotOf(kind, t, item), item)
         IN  RightTable(kind, u) /\ RightCap(u) /\ u.items = Append(t.items, item)
<1> DEFINE h == SlotOf(kind, t, item)
           l == Len(t.items)
           v == ExtendBy1(t)
           u == AddAt(t, h, item)
<1>1. t \in TableType(kind)
  BY DEF RightTable
<1>2. l \in Nat /\ Num(t) = l + 1 /\ Num(t) \in Nat /\ Num(t) + 1 \in Nat /\ t.cap \in Nat
  BY <1>1 DEF TableType, Num
<1>3. /\ v.items = t.items /\ v.mask = t.mask /\ v.tbl = t.tbl /\ v.cap \in Nat
      /\ v = [items |-> t.items, mask |-> t.mask, tbl |-> t.tbl, cap |-> v.cap]
      /\ RoundUp(Num(t) + 1) <= v.cap
  <2>1. CASE l % (Block + 1) = Block
    <3>1. v = [t EXCEPT !.cap = RoundUp(Num(t) + 1)] /\ RoundUp(Num(t) + 1) \in Nat
      BY <1>2, <2>1, RoundFacts DEF ExtendBy1
    <3> HIDE DEF v, l
    <3>2. t = [items |-> t.items, mask |-> t.mask, tbl |-> t.tbl, cap |-> t.cap]
      BY <1>1 DEF TableType
    <3> DEFINE c == RoundUp(Num(t) + 1)
    <3>3. v = [items |-> t.items, mask |-> t.mask, tbl |-> t.tbl, cap |-> c] /\ c \in Nat
      BY <3>1, <3>2
    <3> HIDE DEF c
    <3>4. v.items = t.items /\ v.mask = t.mask /\ v.tbl = t.tbl /\ v.cap = c
      BY <3>3
    <3>. QED BY <3>3, <3>4 DEF c
  <2>2. CASE l % (Block + 1) # Block
    <3>1. v = t
      BY <2>2 DEF ExtendBy1
    <3>2. Num(t) % (Block + 1) # 0
      BY <1>2, <2>2, NextBlock
    <3>3. RoundUp(Num(t) + 1) = RoundUp(Num(t))
      BY <1>2, <3>2, RoundFacts
    <3> HIDE DEF v
    <3>4. t = [items |-> t.items, mask |-> t.mask, tbl |-> t.tbl, cap |-> t.cap]
      BY <1>1 DEF TableType
    <3>5. RoundUp(Num(t) + 1) <= v.cap
      BY <3>1, <3>3 DEF RightCap
    <3>. QED BY <1>2, <3>1, <3>4, <3>5
  <2>. QED BY <2>1, <2>2
<1>4. u = [v EXCEPT !.items = Append(@, item), !.tbl[h] = Num(t)]
  BY DEF AddAt
<1> HIDE DEF v, u, h
<1>5. /\ u.items = Append(t.items, item) /\ u.mask = t.mask /\ u.tbl = [t.tbl EXCEPT ![h] = Num(t)] /\ u.cap = v.cap
      /\ u = [items |-> u.items, mask |-> u.mask, tbl |-> u.tbl, cap |-> u.cap]
  BY <1>3, <1>4
<1>6. u.cap \in Nat
  BY <1>3, <1>5
<1>7. RightTable(kind, u) /\ Len(u.items) = l + 1
  BY <1>5, <1>6, AddKeeps DEF h
<1>8. RightCap(u)
  BY <1>2, <1>3, <1>5, <1>7 DEF RightCap, Num
<1>. QED BY <1>5, <1>7, <1>8 DEF u, h

\* One more item, or none.
Grown(new, old) == Extends(new, old) /\ (Len(new) = Len(old) \/ Len(new) = Len(old) + 1)

LEMMA Item2idKeeps ==
  ASSUME NEW kind \in Kinds, NEW t, RightTable(kind, t), RightCap(t), NEW item \in ItemsOf(kind), NEW create \in BOOLEAN
  PROVE  LET u == Item2id(kind, t, item, create).t IN RightTable(kind, u) /\ RightCap(u) /\ Grown(u.items, t.items)
<1> DEFINE v == Ready(kind, t)
           h == SlotOf(kind, v, item)
           u == Item2id(kind, t, item, create).t
<1>1. /\ RightTable(kind, v) /\ v.items = t.items /\ v.mask # 0
      /\ 2 * (Len(v.items) + 1) <= v.mask + 1 /\ RightCap(v)
  BY ReadyKeeps
<1>2. v.items \in Seq(ItemsOf(kind))
  BY <1>1 DEF RightTable, TableType
<1>3. u = v \/ (v.tbl[h] = 0 /\ u = AddAt(v, h, item))
  BY Zenon DEF Item2id, Look, LookIn
<1> HIDE DEF v, u
<1>4. CASE u = v
  BY <1>1, <1>2, <1>4 DEF Grown, Extends, u
<1>5. CASE v.tbl[h] = 0 /\ u = AddAt(v, h, item)
  <2>1. RightTable(kind, u) /\ RightCap(u) /\ u.items = Append(v.items, item)
    BY <1>1, <1>5, AddAtKeeps
  <2>2. Grown(u.items, v.items)
    BY <1>2, <2>1 DEF Grown, Extends
  <2>. QED BY <1>1, <2>1, <2>2 DEF u
<1>. QED BY <1>3, <1>4, <1>5

LEMMA Text2idKeeps ==
  ASSUME NEW t, RightTable("str", t), RightCap(t), NEW text \in KnownTexts, NEW create \in BOOLEAN
  PROVE  LET u == Text2id(t, text, create).t IN RightTable("str", u) /\ RightCap(u) /\ Grown(u.items, t.items)
<1>1. CASE text = 1
  <2>1. Text2id(t, text, create).t = t
    BY <1>1 DEF Text2id
  <2>2. t.items \in Seq(KnownTexts)
    BY DEF RightTable, TableType, ItemsOf
  <2>. QED BY <2>1, <2>2 DEF Grown, Extends
<1>2. CASE text # 1
  <2>1. Text2id(t, text, create) = Item2id("str", t, text, create)
    BY <1>2 DEF Text2id
  <2>2. "str" \in Kinds /\ text \in ItemsOf("str")
    BY DEF Kinds, ItemsOf
  <2>. QED BY <2>1, <2>2, Item2idKeeps
<1>. QED BY <1>1, <1>2

\* A lookup finds what is there.
LEMMA FoundHolds ==
  ASSUME NEW kind \in Kinds, NEW t, RightTable(kind, t)
  PROVE  Found(kind, t)
<1> SUFFICES ASSUME NEW id \in DOMAIN t.items
             PROVE  (IF kind = "str" THEN Text2id(t, t.items[id], FALSE) ELSE Item2id(kind, t, t.items[id], FALSE)).id = id
  BY DEF Found
<1> DEFINE item == t.items[id]
           v == Ready(kind, t)
<1>1. t.items \in Seq(ItemsOf(kind)) /\ IsInjective(t.items)
  BY DEF RightTable, TableType
<1>2. RightTable(kind, v) /\ v.items = t.items /\ v.mask # 0
  BY ReadyKeeps
<1>3. v.tbl[SlotOf(kind, v, item)] = id /\ id # 0
  <2>1. id # 0
    BY <1>1
  <2> HIDE DEF v
  <2>2. v.tbl[SlotOf(kind, v, v.items[id])] = id
    BY <1>2, FindsIt
  <2>. QED BY <1>2, <2>1, <2>2
<1>4. Item2id(kind, t, item, FALSE).id = id
  <2> DEFINE r == Item2id(kind, t, item, FALSE)
             x == v.tbl[SlotOf(kind, v, item)]
  <2>1. r = [t |-> v, id |-> x]
    BY <1>3, Zenon DEF Item2id, Look, LookIn
  <2>2. x = id
    BY <1>3
  <2> HIDE DEF r, v, x
  <2>3. r.id = x
    BY <2>1
  <2>. QED BY <2>2, <2>3 DEF r
<1>5. CASE kind = "str" /\ item = 1
  <2>1. t.items[1] = 1 /\ t.items # <<>>
    BY <1>5 DEF RightTable
  <2>2. 1 \in DOMAIN t.items
    BY <1>1, <2>1
  <2>3. id = 1
    BY <1>1, <1>5, <2>1, <2>2 DEF IsInjective
  <2>. QED BY <1>5, <2>3 DEF Text2id
<1>6. CASE kind = "str" /\ item # 1
  BY <1>4, <1>6 DEF Text2id
<1>7. CASE kind # "str"
  BY <1>4, <1>7
<1>. QED BY <1>5, <1>6, <1>7

(***************************************************************************)
(* Many at once.                                                           *)
(***************************************************************************)
Merging(f, kind, t, list) ==
  f = [n \in 0 .. Len(list) |-> IF n = 0 THEN [t |-> t, map |-> <<>>] ELSE Enter(kind, f[n - 1], list[n])]

LEMMA MergingExists ==
  ASSUME NEW kind, NEW t, NEW list, Len(list) \in Nat
  PROVE  \E f : Merging(f, kind, t, list)
<1> DEFINE n == Len(list)
           b == [t |-> t, map |-> <<>>]
           Upto(f, m) == f = [k \in 0 .. m |-> IF k = 0 THEN b ELSE Enter(kind, f[k - 1], list[k])]
           T == {m \in 0 .. n : \E f : Upto(f, m)}
<1> HIDE DEF b
<1>1. 0 \in T
  <2> DEFINE g == [k \in 0 .. 0 |-> b]
  <2>1. \A k \in 0 .. 0 : k = 0
    OBVIOUS
  <2>2. g = [k \in 0 .. 0 |-> IF k = 0 THEN b ELSE Enter(kind, g[k - 1], list[k])]
    BY <2>1
  <2>3. 0 \in 0 .. n
    OBVIOUS
  <2> HIDE DEF g
  <2>. QED BY <2>2, <2>3
<1>2. ASSUME NEW m \in 0 .. n - 1, m \in T PROVE m + 1 \in T
  <2>1. PICK f : Upto(f, m)
    BY <1>2
  <2> DEFINE e == Enter(kind, f[m], list[m + 1])
             g == [k \in 0 .. m + 1 |-> IF k = m + 1 THEN e ELSE f[k]]
  <2>2. m + 1 \in 0 .. n /\ m \in 0 .. m /\ m + 1 # 0 /\ (m + 1) - 1 = m
    OBVIOUS
  <2>3. \A k \in 0 .. m : k \in 0 .. m + 1 /\ k # m + 1
    OBVIOUS
  <2>4. \A k \in 0 .. m : g[k] = f[k]
    BY <2>3
  <2>5. ASSUME NEW k \in 0 .. m + 1 PROVE g[k] = IF k = 0 THEN b ELSE Enter(kind, g[k - 1], list[k])
    <3>1. CASE k = m + 1
      <4>1. g[m + 1] = e /\ g[m] = f[m]
        BY <2>2, <2>4
      <4> HIDE DEF g
      <4>. QED BY <2>2, <3>1, <4>1, Zenon
    <3>2. CASE k # m + 1
      <4>1. k \in 0 .. m
        BY <3>2
      <4>2. g[k] = f[k] /\ (k # 0 => g[k - 1] = f[k - 1])
        <5>1. k # 0 => k - 1 \in 0 .. m
          BY <4>1
        <5> HIDE DEF g
        <5>. QED BY <2>4, <4>1, <5>1
      <4>3. f[k] = IF k = 0 THEN b ELSE Enter(kind, f[k - 1], list[k])
        BY <2>1, <4>1
      <4> HIDE DEF g
      <4>. QED BY <4>2, <4>3, Zenon
    <3>. QED BY <3>1, <3>2
  <2>6. g = [k \in 0 .. m + 1 |-> IF k = 0 THEN b ELSE Enter(kind, g[k - 1], list[k])]
    <3>1. DOMAIN g = 0 .. m + 1 /\ g = [k \in 0 .. m + 1 |-> g[k]]
      OBVIOUS
    <3> HIDE DEF g
    <3>. QED BY <2>5, <3>1
  <2>7. Upto(g, m + 1)
    BY <2>6, Zenon
  <2> HIDE DEF g, Upto
  <2>. QED BY <2>2, <2>7
<1>3. n \in T
  <2> HIDE DEF T
  <2>1. \A k \in 0 .. n : k \in T
    BY <1>1, <1>2, UpTo
  <2>. QED BY <2>1
<1>4. PICK f : Upto(f, n)
  BY <1>3
<1>. QED BY <1>4, Zenon DEF Merging, b

\* What Merge keeps while it goes through the list.
MergeState(kind, t, st, n) ==
  /\ st = [t |-> st.t, map |-> st.map]
  /\ RightTable(kind, st.t) /\ st.t.mask = t.mask /\ st.t.cap = t.cap
  /\ Extends(st.t.items, t.items) /\ Len(st.t.items) <= Len(t.items) + n

LEMMA EnterKeeps ==
  ASSUME NEW kind \in Kinds, NEW t, NEW st, NEW n \in Nat, MergeState(kind, t, st, n), t.mask # 0, RightTable(kind, t),
         NEW item \in ItemsOf(kind), 2 * (Len(t.items) + n + 1) <= t.mask + 1
  PROVE  MergeState(kind, t, Enter(kind, st, item), n + 1)
<1> DEFINE v == st.t
           h == SlotOf(kind, v, item)
           e == Enter(kind, st, item)
           l == Len(v.items)
<1>1. RightTable(kind, v) /\ v.mask = t.mask /\ v.cap = t.cap /\ Extends(v.items, t.items) /\ l <= Len(t.items) + n
  BY DEF MergeState
<1>2. v \in TableType(kind) /\ t \in TableType(kind)
  BY <1>1 DEF RightTable
<1>3. v.items \in Seq(ItemsOf(kind)) /\ t.items \in Seq(ItemsOf(kind)) /\ l \in Nat /\ Len(t.items) \in Nat /\ t.mask \in Nat /\ v.cap \in Nat
  BY <1>2 DEF TableType
<1>4. st = [t |-> v, map |-> st.map]
  BY DEF MergeState
<1> HIDE DEF v
<1>5. CASE e.t = v /\ e = [t |-> e.t, map |-> e.map]
  <2> HIDE DEF e
  <2>. QED BY <1>1, <1>3, <1>5 DEF MergeState, e
<1>6. CASE /\ v.tbl[h] = 0
           /\ e = [t |-> [v EXCEPT !.items = Append(@, item), !.tbl[h] = Num(v)], map |-> Append(st.map, Num(v))]
  <2> DEFINE u == [v EXCEPT !.items = Append(@, item), !.tbl[h] = Num(v)]
             m == Append(st.map, Num(v))
  <2>1. /\ u.items = Append(v.items, item) /\ u.mask = v.mask /\ u.tbl = [v.tbl EXCEPT ![h] = Num(v)] /\ u.cap = v.cap
        /\ u = [items |-> u.items, mask |-> u.mask, tbl |-> u.tbl, cap |-> u.cap]
    <3> HIDE DEF h
    <3>1. u.items = Append(v.items, item) /\ u.mask = v.mask /\ u.tbl = [v.tbl EXCEPT ![h] = Num(v)] /\ u.cap = v.cap
      BY <1>2 DEF TableType
    <3>2. DOMAIN v = {"items", "mask", "tbl", "cap"}
      BY <1>2 DEF TableType
    <3>3. u = [items |-> u.items, mask |-> u.mask, tbl |-> u.tbl, cap |-> u.cap]
      <4>1. DOMAIN u = {"items", "mask", "tbl", "cap"} /\ u = [x \in DOMAIN u |-> u[x]]
        BY <3>2
      <4> HIDE DEF u
      <4>. QED BY <4>1
    <3>. QED BY <3>1, <3>3
  <2> HIDE DEF u, m
  <2>2. e = [t |-> u, map |-> m]
    BY <1>6 DEF u, m
  <2>3. 2 * (l + 1) <= v.mask + 1 /\ v.mask # 0 /\ u.cap \in Nat
    BY <1>1, <1>3, <2>1
  <2>4. RightTable(kind, u) /\ Len(u.items) = l + 1
    BY <1>1, <1>6, <2>1, <2>3, AddKeeps
  <2>5. Extends(u.items, t.items)
    BY <1>1, <1>3, <2>1 DEF Extends
  <2> HIDE DEF e
  <2>6. e.t = u /\ e = [t |-> e.t, map |-> e.map]
    BY <2>2
  <2>7. Len(u.items) <= Len(t.items) + (n + 1)
    <3> DEFINE a == Len(t.items)
               b == Len(u.items)
    <3>1. l <= a + n /\ l \in Nat /\ a \in Nat /\ b = l + 1
      BY <1>1, <1>3, <2>4
    <3> HIDE DEF l, a, b
    <3>2. b <= a + (n + 1)
      BY <3>1
    <3>. QED BY <3>2 DEF a, b
  <2>. QED BY <1>1, <2>1, <2>4, <2>5, <2>6, <2>7 DEF MergeState, e
<1>7. \A m : LET x == [st EXCEPT !.map = m] IN x = [t |-> v, map |-> m] /\ x.t = v /\ x = [t |-> x.t, map |-> x.map]
  BY <1>4
<1>8. CASE kind = "str" /\ item = 1
  <2>1. e = [st EXCEPT !.map = Append(st.map, 1)]
    BY <1>8, <1>4 DEF Enter
  <2>. QED BY <1>5, <1>7, <2>1
<1>9. CASE ~(kind = "str" /\ item = 1) /\ v.tbl[h] # 0
  <2>1. e = [st EXCEPT !.map = Append(st.map, v.tbl[h])]
    BY <1>4, <1>9 DEF Enter, EnterAt, v
  <2>. QED BY <1>5, <1>7, <2>1
<1>10. CASE ~(kind = "str" /\ item = 1) /\ v.tbl[h] = 0
  <2>1. e = [t |-> [v EXCEPT !.items = Append(@, item), !.tbl[h] = Num(v)], map |-> Append(st.map, Num(v))]
    BY <1>10, Zenon DEF Enter, EnterAt, v
  <2>. QED BY <1>6, <1>10, <2>1
<1>. QED BY <1>8, <1>9, <1>10

LEMMA MergeKeeps ==
  ASSUME NEW kind \in Kinds, NEW t, RightTable(kind, t), NEW list \in Seq(ItemsOf(kind)),
         Len(list) > 0 => t.mask # 0 /\ 2 * (Len(t.items) + Len(list)) <= t.mask + 1
  PROVE  MergeState(kind, t, Merge(kind, t, list), Len(list))
<1> DEFINE l == Len(list)
           f == CHOOSE x : Merging(x, kind, t, list)
<1>0. l \in Nat
  OBVIOUS
<1>1. Merging(f, kind, t, list)
  BY <1>0, MergingExists, Zenon
<1>2. Merge(kind, t, list) = f[l]
  BY Zenon DEF Merge, Merging
<1> HIDE DEF f
<1>3. f[0] = [t |-> t, map |-> <<>>] /\ \A n \in 1 .. l : f[n] = Enter(kind, f[n - 1], list[n])
  <2>1. \A n \in 0 .. l : f[n] = IF n = 0 THEN [t |-> t, map |-> <<>>] ELSE Enter(kind, f[n - 1], list[n])
    BY <1>1 DEF Merging
  <2>2. 0 \in 0 .. l /\ \A n \in 1 .. l : n \in 0 .. l /\ n # 0
    BY <1>0
  <2>. QED BY <2>1, <2>2
<1>4. Len(t.items) \in Nat /\ t.mask \in Nat
  BY DEF RightTable, TableType
<1> DEFINE T == {n \in 0 .. l : MergeState(kind, t, f[n], n)}
<1>5. 0 \in T
  <2> DEFINE st == [t |-> t, map |-> <<>>]
  <2>1. st.t = t /\ st = [t |-> st.t, map |-> st.map]
    OBVIOUS
  <2> HIDE DEF st
  <2>2. Extends(t.items, t.items) /\ Len(t.items) <= Len(t.items) + 0
    BY <1>4 DEF Extends
  <2>3. MergeState(kind, t, st, 0)
    BY <2>1, <2>2 DEF MergeState
  <2>. QED BY <1>0, <1>3, <2>3 DEF st
<1>6. ASSUME NEW n \in 0 .. l - 1, n \in T PROVE n + 1 \in T
  <2>1. n \in Nat /\ n + 1 \in 1 .. l /\ (n + 1) - 1 = n /\ n + 1 \in 0 .. l /\ l > 0
    BY <1>0
  <2>2. list[n + 1] \in ItemsOf(kind)
    BY <2>1
  <2>3. t.mask # 0 /\ 2 * (Len(t.items) + l) <= t.mask + 1
    BY <2>1
  <2> DEFINE a == Len(t.items)
  <2>4. 2 * (a + n + 1) <= t.mask + 1
    <3>1. a \in Nat /\ t.mask \in Nat /\ 2 * (a + l) <= t.mask + 1
      BY <1>4, <2>3
    <3> HIDE DEF a, l
    <3>. QED BY <1>0, <2>1, <3>1
  <2>5. MergeState(kind, t, f[n], n)
    BY <1>6
  <2>6. MergeState(kind, t, Enter(kind, f[n], list[n + 1]), n + 1)
    BY <2>1, <2>2, <2>3, <2>4, <2>5, EnterKeeps
  <2>7. f[n + 1] = Enter(kind, f[n], list[n + 1])
    BY <1>3, <2>1
  <2>. QED BY <2>1, <2>6, <2>7
<1>7. l \in T
  <2> HIDE DEF T, l
  <2>1. \A n \in 0 .. l : n \in T
    BY <1>0, <1>5, <1>6, UpTo
  <2>. QED BY <1>0, <2>1
<1>. QED BY <1>2, <1>7

LEMMA ShrinkKeeps ==
  ASSUME NEW kind, NEW t, RightTable(kind, t)
  PROVE  LET u == Shrink(t) IN RightTable(kind, u) /\ RightCap(u) /\ u.items = t.items
<1> DEFINE v == IF t.mask # 0 /\ t.mask > MkMask(Num(t) + Slack) THEN FreeHash(t) ELSE t
           c == RoundUp(Num(t))
           u == [v EXCEPT !.cap = c]
<1>1. Num(t) \in Nat
  BY DEF RightTable, TableType, Num
<1>2. c \in Nat
  BY <1>1, RoundFacts
<1>3. RightTable(kind, v) /\ v.items = t.items
  BY FreeKeeps
<1>4. Shrink(t) = u
  BY DEF Shrink
<1> HIDE DEF v, c
<1>5. RightTable(kind, u) /\ u.items = v.items /\ u.cap = c
  BY <1>2, <1>3, CapKeeps
<1> HIDE DEF u
<1>6. RightCap(u)
  BY <1>2, <1>3, <1>5 DEF RightCap, Num, c
<1>. QED BY <1>3, <1>4, <1>5, <1>6

LEMMA IntegrateKeeps ==
  ASSUME NEW t, RightTable("str", t), NEW list \in Seq(KnownTexts)
  PROVE  LET u == Integrate(t, list).t IN RightTable("str", u) /\ RightCap(u) /\ Extends(u.items, t.items)
<1> DEFINE n == Len(list) + 1
           c == RoundUp(Num(t) + n)
           v == [t EXCEPT !.cap = c]
           w == ResizeHash("str", v, n)
           st == Merge("str", w, list)
           d == RoundUp(Num(st.t))
           u == Integrate(t, list).t
<1>1. "str" \in Kinds /\ list \in Seq(ItemsOf("str")) /\ Len(list) \in Nat /\ n \in Nat /\ n > 0
  BY DEF Kinds, ItemsOf
<1>2. t.items \in Seq(KnownTexts) /\ Num(t) = Len(t.items) + 1 /\ Num(t) \in Nat /\ Len(t.items) \in Nat
  BY DEF RightTable, TableType, ItemsOf, Num
<1>3. c \in Nat
  <2>1. Num(t) + n \in Nat
    <3> HIDE DEF n
    <3>. QED BY <1>1, <1>2
  <2>. QED BY <2>1, RoundFacts
<1>4. RightTable("str", v) /\ v.items = t.items
  <2> HIDE DEF c
  <2>. QED BY <1>3, CapKeeps
<1>5. Reserve(t, n) = v
  BY DEF Reserve
<1> HIDE DEF v
<1>6. RightTable("str", w) /\ w.items = t.items /\ w.mask >= 2 * (Num(v) + n) + 3 /\ w.mask \in Nat
  <2>1. RightTable("str", w) /\ w.items = v.items /\ w.mask >= 2 * (Num(v) + n) + 3
    <3>1. n \in Int /\ n > 0 /\ "str" \in Kinds
      BY <1>1
    <3> HIDE DEF n
    <3>. QED BY <1>4, <3>1, ResizeKeeps
  <2>2. w.mask \in Nat
    BY <2>1 DEF RightTable, TableType
  <2>. QED BY <1>4, <2>1, <2>2
<1>7. w.mask # 0 /\ 2 * (Len(w.items) + Len(list)) <= w.mask + 1
  <2>1. Num(v) = Len(t.items) + 1
    BY <1>4 DEF Num
  <2> DEFINE a == Len(t.items)
             b == Len(list)
             m == w.mask
  <2>2. a \in Nat /\ b \in Nat /\ m \in Nat /\ m >= 2 * ((a + 1) + (b + 1)) + 3
    BY <1>1, <1>2, <1>6, <2>1
  <2> HIDE DEF a, b, m, w
  <2>3. m # 0 /\ 2 * (a + b) <= m + 1
    BY <2>2
  <2>. QED BY <1>6, <2>3 DEF a, b, m
<1> HIDE DEF w
<1>8. MergeState("str", w, st, Len(list))
  BY <1>1, <1>6, <1>7, MergeKeeps
<1> HIDE DEF st
<1>9. RightTable("str", st.t) /\ Extends(st.t.items, t.items) /\ st = [t |-> st.t, map |-> st.map]
  BY <1>6, <1>8 DEF MergeState
<1>10. Num(st.t) \in Nat
  BY <1>9 DEF RightTable, TableType, Num
<1>11. d \in Nat
  BY <1>10, RoundFacts
<1>12. Integrate(t, list) = [st EXCEPT !.t.cap = d]
  BY <1>5 DEF Integrate, Vacuum, st, w
<1> HIDE DEF d, u
<1> DEFINE x == [st.t EXCEPT !.cap = d]
<1>13. u = x
  BY <1>9, <1>12 DEF u
<1>14. RightTable("str", x) /\ x.items = st.t.items /\ x.cap = d
  BY <1>9, <1>11, CapKeeps
<1> HIDE DEF x
<1>15. RightCap(x)
  BY <1>11, <1>14 DEF RightCap, Num, d
<1>. QED BY <1>9, <1>13, <1>14, <1>15 DEF u

LEMMA IntegrateRelsKeeps ==
  ASSUME NEW t, RightTable("rel", t), NEW list \in Seq(Nat \X Nat \X Nat)
  PROVE  LET u == IntegrateRels(t, list).t IN RightTable("rel", u) /\ RightCap(u) /\ Extends(u.items, t.items)
<1> DEFINE n == Len(list)
           c == Num(t) + n
           v == [t EXCEPT !.cap = c]
           w == ResizeHash("rel", v, n)
           st == Merge("rel", w, list)
           u == IntegrateRels(t, list).t
<1>1. "rel" \in Kinds /\ list \in Seq(ItemsOf("rel")) /\ n \in Nat
  BY DEF Kinds, ItemsOf
<1>2. Num(t) = Len(t.items) + 1 /\ Num(t) \in Nat /\ Len(t.items) \in Nat
  BY DEF RightTable, TableType, Num
<1>3. c \in Nat
  BY <1>1, <1>2
<1>4. RightTable("rel", v) /\ v.items = t.items
  <2> HIDE DEF c
  <2>. QED BY <1>3, CapKeeps
<1> HIDE DEF v
<1>6. RightTable("rel", w) /\ w.items = t.items /\ w.mask \in Nat /\ (n > 0 => w.mask >= 2 * (Num(v) + n) + 3)
  <2>1. RightTable("rel", w) /\ w.items = v.items /\ (n > 0 => w.mask >= 2 * (Num(v) + n) + 3)
    <3>1. n \in Int /\ "rel" \in Kinds
      BY <1>1
    <3> HIDE DEF n
    <3>. QED BY <1>4, <3>1, ResizeKeeps
  <2>2. w.mask \in Nat
    BY <2>1 DEF RightTable, TableType
  <2>. QED BY <1>4, <2>1, <2>2
<1>7. n > 0 => w.mask # 0 /\ 2 * (Len(w.items) + n) <= w.mask + 1
  <2>1. Num(v) = Len(t.items) + 1
    BY <1>4 DEF Num
  <2> DEFINE a == Len(t.items)
             m == w.mask
  <2>2. a \in Nat /\ m \in Nat /\ (n > 0 => m >= 2 * ((a + 1) + n) + 3)
    BY <1>1, <1>2, <1>6, <2>1
  <2> HIDE DEF a, n, m, w
  <2>3. n > 0 => m # 0 /\ 2 * (a + n) <= m + 1
    BY <1>1, <2>2
  <2>. QED BY <1>6, <2>3 DEF a, m
<1> HIDE DEF w
<1>8. MergeState("rel", w, st, n)
  BY <1>1, <1>6, <1>7, MergeKeeps
<1> HIDE DEF st
<1>9. RightTable("rel", st.t) /\ Extends(st.t.items, t.items) /\ st = [t |-> st.t, map |-> st.map]
  BY <1>6, <1>8 DEF MergeState
<1>10. IntegrateRels(t, list) = [st EXCEPT !.t = Shrink(st.t)]
  BY DEF IntegrateRels, st, w, v
<1>11. u = Shrink(st.t)
  <2> HIDE DEF u
  <2>. QED BY <1>9, <1>10 DEF u
<1>12. RightTable("rel", Shrink(st.t)) /\ RightCap(Shrink(st.t)) /\ Shrink(st.t).items = st.t.items
  BY <1>9, ShrinkKeeps
<1>. QED BY <1>9, <1>11, <1>12

(***************************************************************************)
(* The arrays of providers, and the ids that were given.                   *)
(***************************************************************************)
RightArray(len, t) == len \in Nat /\ (len # 0 => RoundUp(Num(t)) <= len)

LEMMA NumTypes ==
  ASSUME NEW kind, NEW t, RightTable(kind, t)
  PROVE  /\ t.items \in Seq(ItemsOf(kind)) /\ Len(t.items) \in Nat
         /\ Num(t) = Len(t.items) + 1 /\ Num(t) \in Nat
         /\ RoundUp(Num(t)) \in Nat /\ Num(t) <= RoundUp(Num(t))
<1>1. t.items \in Seq(ItemsOf(kind)) /\ Len(t.items) \in Nat /\ Num(t) = Len(t.items) + 1 /\ Num(t) \in Nat
  BY DEF RightTable, TableType, Num
<1>. QED BY <1>1, RoundFacts

LEMMA GrowKeeps ==
  ASSUME NEW kind, NEW t, NEW old, RightTable(kind, t), RightTable(kind, old), Grown(t.items, old.items),
         NEW len, RightArray(len, old)
  PROVE  RightArray(Grow(len, old, t), t)
<1> DEFINE n == Num(old)
<1>1. n \in Nat /\ Num(t) = Len(t.items) + 1 /\ n = Len(old.items) + 1 /\ Len(t.items) \in Nat /\ Len(old.items) \in Nat
  BY NumTypes
<1>2. Block + 1 \in Nat
  BY IdsAssumption
<1>3. CASE Num(t) = n
  BY <1>3 DEF RightArray, Grow
<1>4. CASE Num(t) # n
  <2>1. Num(t) = n + 1 /\ Len(t.items) = n
    BY <1>1, <1>4 DEF Grown
  <2> HIDE DEF n
  <2>2. CASE n % (Block + 1) # 0
    <3>1. RoundUp(n + 1) = RoundUp(n)
      BY <1>1, <2>2, RoundFacts
    <3>2. Grow(len, old, t) = len
      BY <2>1, <2>2 DEF Grow
    <3>. QED BY <2>1, <3>1, <3>2 DEF RightArray, n
  <2>3. CASE n % (Block + 1) = 0
    <3>1. RoundUp(n + 1) = n + (Block + 1)
      BY <1>1, <2>3, RoundFacts
    <3>2. CASE len = 0
      BY <3>2 DEF Grow, RightArray
    <3>3. CASE len # 0
      <4>1. Grow(len, old, t) = n + Block + 1
        BY <1>4, <2>1, <2>3, <3>3 DEF Grow, n
      <4>2. n + Block + 1 = n + (Block + 1) /\ n + Block + 1 \in Nat
        <5>1. n \in Nat /\ Block \in Nat
          BY <1>1, IdsAssumption DEF n
        <5>. QED BY <5>1
      <4>3. RoundUp(Num(t)) = n + Block + 1
        BY <2>1, <3>1, <4>2
      <4>4. RoundUp(Num(t)) <= n + Block + 1
        BY <4>2, <4>3
      <4>. QED BY <4>1, <4>2, <4>4 DEF RightArray
    <3>. QED BY <3>2, <3>3
  <2>. QED BY <2>2, <2>3
<1>. QED BY <1>3, <1>4

LEMMA GrowManyKeeps ==
  ASSUME NEW kind, NEW t, NEW old, RightTable(kind, t), RightTable(kind, old), NEW len, RightArray(len, old)
  PROVE  RightArray(GrowMany(len, old, t), t)
<1>1. RoundUp(Num(t)) \in Nat
  BY NumTypes
<1>. QED BY <1>1 DEF RightArray, GrowMany

LEMMA LogOfExtends ==
  ASSUME NEW S, NEW old \in Seq(S), NEW new \in Seq(S), Extends(new, old)
  PROVE  LogOf(old, new) = new
<1> DEFINE a == Len(old)
           b == Len(new)
           rest == SubSeq(new, a + 1, b)
<1>1. a \in Nat /\ b \in Nat /\ a <= b
  BY DEF Extends
<1>2. rest \in Seq(S) /\ Len(rest) = b - a /\ \A i \in 1 .. b - a : rest[i] = new[a + i]
  <2> HIDE DEF a, b
  <2>1. a + 1 \in Int /\ b \in Int /\ \A i \in a + 1 .. b : i \in 1 .. b
    BY <1>1
  <2>2. \A i \in 1 .. b : new[i] \in S
    BY ElementOfSeq DEF b
  <2>3. \A i \in a + 1 .. b : new[i] \in S
    BY <2>1, <2>2
  <2>4. /\ rest \in Seq(S)
        /\ Len(rest) = IF a + 1 <= b THEN b - (a + 1) + 1 ELSE 0
        /\ \A i \in 1 .. b - (a + 1) + 1 : rest[i] = new[(a + 1) + i - 1]
    BY <2>1, <2>3, SubSeqProperties
  <2>5. b - (a + 1) + 1 = b - a /\ (~(a + 1 <= b) => b - a = 0) /\ \A i \in 1 .. b - a : (a + 1) + i - 1 = a + i
    BY <1>1
  <2> HIDE DEF rest
  <2>. QED BY <2>4, <2>5
<1> HIDE DEF rest, a, b
<1>3. /\ old \o rest \in Seq(S) /\ Len(old \o rest) = b
      /\ \A i \in 1 .. b : (old \o rest)[i] = IF i <= a THEN old[i] ELSE rest[i - a]
  <2>1. /\ old \o rest \in Seq(S)
        /\ Len(old \o rest) = Len(old) + Len(rest)
        /\ \A i \in 1 .. Len(old) + Len(rest) : (old \o rest)[i] = IF i <= Len(old) THEN old[i] ELSE rest[i - Len(old)]
    BY <1>2, ConcatProperties
  <2>2. Len(old) + Len(rest) = b /\ Len(old) = a
    BY <1>1, <1>2 DEF a
  <2>. QED BY <2>1, <2>2
<1>4. ASSUME NEW i \in 1 .. b PROVE (old \o rest)[i] = new[i]
  <2>1. CASE i <= a
    <3>1. i \in 1 .. a
      BY <1>1, <2>1
    <3>2. new[i] = old[i]
      BY <3>1 DEF Extends, a
    <3>. QED BY <1>3, <2>1, <3>2
  <2>2. CASE i > a
    <3>1. ~(i <= a) /\ i - a \in 1 .. b - a /\ a + (i - a) = i
      BY <1>1, <2>2
    <3>. QED BY <1>2, <1>3, <3>1
  <2>3. i <= a \/ i > a
    BY <1>1
  <2>. QED BY <2>1, <2>2, <2>3
<1>5. old \o rest = new
  <2>1. Len(old \o rest) = Len(new)
    BY <1>3 DEF b
  <2>2. \A i \in 1 .. Len(old \o rest) : (old \o rest)[i] = new[i]
    BY <1>3, <1>4
  <2>. QED BY <1>3, <2>1, <2>2, SeqEqual
<1>. QED BY <1>5 DEF LogOf, rest, a, b

(***************************************************************************)
(* The inductive invariant.                                                *)
(***************************************************************************)
RightPool(p) ==
  /\ p \in [ss : TableType("str"), rels : TableType("rel"), wp : Nat, wprel : Nat]
  /\ RightTable("str", p.ss) /\ RightCap(p.ss) /\ RightArray(p.wp, p.ss)
  /\ RightTable("rel", p.rels) /\ RightCap(p.rels) /\ RightArray(p.wprel, p.rels)

IdsInv == RightPool(ids) /\ log = [ss |-> ids.ss.items, rels |-> ids.rels.items]

\* A pool that is put together from its parts.
LEMMA NewPool ==
  ASSUME NEW ss, NEW rels, NEW wp, NEW wprel,
         RightTable("str", ss), RightCap(ss), RightArray(wp, ss),
         RightTable("rel", rels), RightCap(rels), RightArray(wprel, rels)
  PROVE  RightPool([ss |-> ss, rels |-> rels, wp |-> wp, wprel |-> wprel])
<1> DEFINE p == [ss |-> ss, rels |-> rels, wp |-> wp, wprel |-> wprel]
<1>1. p.ss = ss /\ p.rels = rels /\ p.wp = wp /\ p.wprel = wprel
  OBVIOUS
<1>2. ss \in TableType("str") /\ rels \in TableType("rel") /\ wp \in Nat /\ wprel \in Nat
  BY DEF RightTable, RightArray
<1>3. p \in [ss : TableType("str"), rels : TableType("rel"), wp : Nat, wprel : Nat]
  BY <1>2
<1> HIDE DEF p
<1>4. RightPool(p)
  BY <1>1, <1>3 DEF RightPool
<1>. QED BY <1>4 DEF p

LEMMA NewItemsRight ==
  ASSUME NEW kind, NEW items \in Seq(ItemsOf(kind)), IsInjective(items), kind = "str" => items # <<>> /\ items[1] = 1
  PROVE  LET t == NewItems(items) IN RightTable(kind, t) /\ RightCap(t) /\ t.items = items
<1> DEFINE c == RoundUp(Len(items) + 1)
           t == [items |-> items, mask |-> 0, tbl |-> NoTable, cap |-> c]
<1>1. c \in Nat
  <2>1. Len(items) + 1 \in Nat
    OBVIOUS
  <2>. QED BY <2>1, RoundFacts
<1>2. NewItems(items) = t
  BY DEF NewItems
<1>3. t.items = items /\ t.mask = 0 /\ t.cap = c /\ t \in TableType(kind)
  <2> HIDE DEF c
  <2>. QED BY <1>1 DEF TableType, Tables
<1> HIDE DEF t
<1>4. RightTable(kind, t)
  BY <1>3 DEF RightTable
<1>5. RightCap(t)
  <2>1. RoundUp(Num(t)) = c
    BY <1>3 DEF Num
  <2>. QED BY <1>1, <1>3, <2>1 DEF RightCap
<1>. QED BY <1>2, <1>3, <1>4, <1>5

\* A new pool has the predefined strings and no tables.
LEMMA InitIds == IdsInit => IdsInv
<1> SUFFICES ASSUME IdsInit PROVE IdsInv
  OBVIOUS
<1>1. /\ Predefined \in Seq(ItemsOf("str")) /\ IsInjective(Predefined) /\ Predefined # <<>> /\ Predefined[1] = 1
      /\ <<>> \in Seq(ItemsOf("rel")) /\ IsInjective(<<>>) /\ "rel" # "str"
  BY IdsAssumption DEF ItemsOf, IsInjective
<1> DEFINE a == NewItems(Predefined)
           b == NewItems(<<>>)
<1>2. RightTable("str", a) /\ RightCap(a) /\ a.items = Predefined
  BY <1>1, NewItemsRight
<1>3. RightTable("rel", b) /\ RightCap(b) /\ b.items = <<>>
  BY <1>1, NewItemsRight
<1>4. ids = [ss |-> a, rels |-> b, wp |-> 0, wprel |-> 0] /\ log = [ss |-> Predefined, rels |-> <<>>]
  BY DEF IdsInit
<1> HIDE DEF a, b
<1>5. RightArray(0, a) /\ RightArray(0, b)
  BY DEF RightArray
<1>6. RightPool(ids)
  BY <1>2, <1>3, <1>4, <1>5, NewPool
<1>7. ids.ss = a /\ ids.rels = b
  BY <1>4
<1>. QED BY <1>2, <1>3, <1>4, <1>6, <1>7 DEF IdsInv

\* What a step makes of the pool.
RightStep(old, new) ==
  /\ RightPool(new)
  /\ Extends(new.ss.items, old.ss.items)
  /\ Extends(new.rels.items, old.rels.items)

LEMMA ExtendsItself ==
  ASSUME NEW kind, NEW t, RightTable(kind, t), NEW u, u.items = t.items
  PROVE  Extends(u.items, t.items)
BY NumTypes DEF Extends

\* A step that changes the strings only.
LEMMA StringsStep ==
  ASSUME NEW p, RightPool(p), NEW t, RightTable("str", t), RightCap(t), NEW wp, RightArray(wp, t),
         Extends(t.items, p.ss.items)
  PROVE  RightStep(p, [p EXCEPT !.ss = t, !.wp = wp])
<1> DEFINE q == [p EXCEPT !.ss = t, !.wp = wp]
<1>1. p \in [ss : TableType("str"), rels : TableType("rel"), wp : Nat, wprel : Nat]
  BY DEF RightPool
<1>2. q = [ss |-> t, rels |-> p.rels, wp |-> wp, wprel |-> p.wprel]
  <2>1. DOMAIN p = {"ss", "rels", "wp", "wprel"}
    BY <1>1
  <2>2. DOMAIN q = {"ss", "rels", "wp", "wprel"} /\ q = [x \in DOMAIN q |-> q[x]]
    BY <2>1
  <2>3. q.ss = t /\ q.rels = p.rels /\ q.wp = wp /\ q.wprel = p.wprel
    BY <1>1
  <2> HIDE DEF q
  <2>. QED BY <2>2, <2>3
<1>3. RightPool(q)
  BY <1>2, NewPool DEF RightPool
<1>4. q.ss = t /\ q.rels = p.rels
  BY <1>1
<1> HIDE DEF q
<1>5. Extends(q.rels.items, p.rels.items)
  BY <1>4, ExtendsItself DEF RightPool
<1>. QED BY <1>3, <1>4, <1>5 DEF RightStep, q

\* A step that changes the relations only.
LEMMA RelsStep ==
  ASSUME NEW p, RightPool(p), NEW t, RightTable("rel", t), RightCap(t), NEW wprel, RightArray(wprel, t),
         Extends(t.items, p.rels.items)
  PROVE  RightStep(p, [p EXCEPT !.rels = t, !.wprel = wprel])
<1> DEFINE q == [p EXCEPT !.rels = t, !.wprel = wprel]
<1>1. p \in [ss : TableType("str"), rels : TableType("rel"), wp : Nat, wprel : Nat]
  BY DEF RightPool
<1>2. q = [ss |-> p.ss, rels |-> t, wp |-> p.wp, wprel |-> wprel]
  <2>1. DOMAIN p = {"ss", "rels", "wp", "wprel"}
    BY <1>1
  <2>2. DOMAIN q = {"ss", "rels", "wp", "wprel"} /\ q = [x \in DOMAIN q |-> q[x]]
    BY <2>1
  <2>3. q.ss = p.ss /\ q.rels = t /\ q.wp = p.wp /\ q.wprel = wprel
    BY <1>1
  <2> HIDE DEF q
  <2>. QED BY <2>2, <2>3
<1>3. RightPool(q)
  BY <1>2, NewPool DEF RightPool
<1>4. q.ss = p.ss /\ q.rels = t
  BY <1>1
<1> HIDE DEF q
<1>5. Extends(q.ss.items, p.ss.items)
  BY <1>4, ExtendsItself DEF RightPool
<1>. QED BY <1>3, <1>4, <1>5 DEF RightStep, q

\* An array that does not change suits a table with the same entries.
LEMMA SameArray ==
  ASSUME NEW t, NEW u, u.items = t.items, NEW len, RightArray(len, t)
  PROVE  RightArray(len, u)
BY DEF RightArray, Num

LEMMA StepIds ==
  ASSUME RightPool(ids), IdsNext
  PROVE  RightStep(ids, ids')
<1> DEFINE ss == ids.ss
           rels == ids.rels
<1>1. /\ ids \in [ss : TableType("str"), rels : TableType("rel"), wp : Nat, wprel : Nat]
      /\ RightTable("str", ss) /\ RightCap(ss) /\ RightArray(ids.wp, ss)
      /\ RightTable("rel", rels) /\ RightCap(rels) /\ RightArray(ids.wprel, rels)
  BY DEF RightPool
<1>2. "str" \in Kinds /\ "rel" \in Kinds
  BY DEF Kinds
<1>3. CASE Str2id
  <2>1. PICK text \in Texts, create \in BOOLEAN :
          ids' = [ids EXCEPT !.ss = Text2id(ss, text, create).t, !.wp = Grow(@, ss, Text2id(ss, text, create).t)]
    BY <1>3 DEF Str2id
  <2> DEFINE t == Text2id(ss, text, create).t
  <2>2. text \in KnownTexts
    BY IdsAssumption
  <2>3. RightTable("str", t) /\ RightCap(t) /\ Grown(t.items, ss.items)
    BY <1>1, <2>2, Text2idKeeps
  <2>4. ids' = [ids EXCEPT !.ss = t, !.wp = Grow(ids.wp, ss, t)]
    BY <2>1
  <2> HIDE DEF t
  <2>5. RightArray(Grow(ids.wp, ss, t), t)
    BY <1>1, <2>3, GrowKeeps
  <2>. QED BY <2>3, <2>4, <2>5, StringsStep DEF Grown
<1>4. CASE Rel2id
  <2>1. PICK part \in RelParts, create \in BOOLEAN :
          LET t == Item2id("rel", rels, <<part[1], part[2], 2>>, create).t
          IN  ids' = [ids EXCEPT !.rels = t, !.wprel = Grow(@, rels, t)]
    BY <1>4 DEF Rel2id
  <2> DEFINE item == <<part[1], part[2], 2>>
             t == Item2id("rel", rels, item, create).t
  <2>2. item \in ItemsOf("rel")
    BY IdsAssumption DEF ItemsOf
  <2> HIDE DEF item
  <2>3. RightTable("rel", t) /\ RightCap(t) /\ Grown(t.items, rels.items)
    BY <1>1, <1>2, <2>2, Item2idKeeps
  <2>4. ids' = [ids EXCEPT !.rels = t, !.wprel = Grow(ids.wprel, rels, t)]
    BY <2>1 DEF item
  <2> HIDE DEF t
  <2>5. RightArray(Grow(ids.wprel, rels, t), t)
    BY <1>1, <2>3, GrowKeeps
  <2>. QED BY <2>3, <2>4, <2>5, RelsStep DEF Grown
<1>5. CASE AddStrings
  <2>1. PICK list \in Lists :
          ids' = [ids EXCEPT !.ss = Integrate(ss, list).t, !.wp = GrowMany(@, ss, Integrate(ss, list).t)]
    BY <1>5 DEF AddStrings
  <2> DEFINE t == Integrate(ss, list).t
  <2>2. list \in Seq(KnownTexts)
    BY IdsAssumption
  <2>3. RightTable("str", t) /\ RightCap(t) /\ Extends(t.items, ss.items)
    BY <1>1, <2>2, IntegrateKeeps
  <2>4. ids' = [ids EXCEPT !.ss = t, !.wp = GrowMany(ids.wp, ss, t)]
    BY <2>1
  <2> HIDE DEF t
  <2>5. RightArray(GrowMany(ids.wp, ss, t), t)
    BY <1>1, <2>3, GrowManyKeeps
  <2>. QED BY <2>3, <2>4, <2>5, StringsStep
<1>6. CASE AddRels
  <2>1. PICK list \in RelLists :
          ids' = [ids EXCEPT !.rels = IntegrateRels(rels, list).t, !.wprel = GrowMany(@, rels, IntegrateRels(rels, list).t)]
    BY <1>6 DEF AddRels
  <2> DEFINE t == IntegrateRels(rels, list).t
  <2>2. list \in Seq(Nat \X Nat \X Nat)
    BY IdsAssumption
  <2>3. RightTable("rel", t) /\ RightCap(t) /\ Extends(t.items, rels.items)
    BY <1>1, <2>2, IntegrateRelsKeeps
  <2>4. ids' = [ids EXCEPT !.rels = t, !.wprel = GrowMany(ids.wprel, rels, t)]
    BY <2>1
  <2> HIDE DEF t
  <2>5. RightArray(GrowMany(ids.wprel, rels, t), t)
    BY <1>1, <2>3, GrowManyKeeps
  <2>. QED BY <2>3, <2>4, <2>5, RelsStep
<1>7. CASE AddStringsFails
  <2> DEFINE u == FreeHash(ss)
             c == RoundUp(Num(ss))
             t == [u EXCEPT !.cap = c]
  <2>1. RightTable("str", u) /\ u.items = ss.items /\ c \in Nat
    BY <1>1, FreeKeeps, NumTypes
  <2>2. IntegrateFails(ss) = t
    BY DEF IntegrateFails
  <2> HIDE DEF u, c
  <2>3. RightTable("str", t) /\ t.items = ss.items /\ t.cap = c
    BY <2>1, CapKeeps
  <2> HIDE DEF t
  <2>4. RightCap(t)
    BY <2>1, <2>3 DEF RightCap, Num, c
  <2>5. ids' = [ids EXCEPT !.ss = t, !.wp = ids.wp]
    BY <1>1, <1>7, <2>2 DEF AddStringsFails
  <2>6. RightArray(ids.wp, t) /\ Extends(t.items, ss.items)
    BY <1>1, <2>3, SameArray, ExtendsItself
  <2>. QED BY <2>3, <2>4, <2>5, <2>6, StringsStep
<1>8. CASE ShrinkIds
  <2> DEFINE a == Shrink(ss)
             b == Shrink(rels)
  <2>1. RightTable("str", a) /\ RightCap(a) /\ a.items = ss.items
    BY <1>1, ShrinkKeeps
  <2>2. RightTable("rel", b) /\ RightCap(b) /\ b.items = rels.items
    BY <1>1, ShrinkKeeps
  <2>3. ids' = [ids EXCEPT !.ss = a, !.rels = b]
    BY <1>8 DEF ShrinkIds
  <2> HIDE DEF a, b
  <2>4. ids' = [ss |-> a, rels |-> b, wp |-> ids.wp, wprel |-> ids.wprel]
    BY <1>1, <2>3
  <2>5. RightArray(ids.wp, a) /\ RightArray(ids.wprel, b) /\ Extends(a.items, ss.items) /\ Extends(b.items, rels.items)
    BY <1>1, <2>1, <2>2, SameArray, ExtendsItself
  <2>6. RightPool(ids') /\ ids'.ss = a /\ ids'.rels = b
    BY <1>1, <2>1, <2>2, <2>4, <2>5, NewPool
  <2>. QED BY <2>5, <2>6 DEF RightStep
<1>9. CASE CreateArrays
  <2> DEFINE a == FreeHash(ss)
             b == FreeHash(rels)
             wp == RoundUp(Num(ss))
             wprel == RoundUp(Num(rels))
  <2>1. RightTable("str", a) /\ a.items = ss.items /\ a.cap = ss.cap
    BY <1>1, FreeKeeps
  <2>2. RightTable("rel", b) /\ b.items = rels.items /\ b.cap = rels.cap
    BY <1>1, FreeKeeps
  <2>3. ids' = [ss |-> a, rels |-> b, wp |-> wp, wprel |-> wprel]
    BY <1>9 DEF CreateArrays
  <2> HIDE DEF a, b
  <2>4. RightArray(wp, ss) /\ RightArray(wprel, rels)
    BY <1>1, NumTypes DEF RightArray
  <2>5. RightArray(wp, a) /\ RightArray(wprel, b) /\ Extends(a.items, ss.items) /\ Extends(b.items, rels.items)
    BY <1>1, <2>1, <2>2, <2>4, SameArray, ExtendsItself
  <2>6. RightCap(a) /\ RightCap(b)
    BY <1>1, <2>1, <2>2 DEF RightCap, Num
  <2> HIDE DEF wp, wprel
  <2>7. RightPool(ids') /\ ids'.ss = a /\ ids'.rels = b
    BY <2>1, <2>2, <2>3, <2>5, <2>6, NewPool
  <2>. QED BY <2>5, <2>7 DEF RightStep
<1>10. CASE FreeArrays
  <2>1. ids' = [ss |-> ss, rels |-> rels, wp |-> 0, wprel |-> 0]
    BY <1>1, <1>10 DEF FreeArrays
  <2>2. RightArray(0, ss) /\ RightArray(0, rels)
    BY DEF RightArray
  <2> HIDE DEF ss, rels
  <2>3. RightPool(ids') /\ ids'.ss = ss /\ ids'.rels = rels
    BY <1>1, <2>1, <2>2, NewPool
  <2>. QED BY <1>1, <2>3, ExtendsItself DEF RightStep, ss, rels
<1>11. CASE CloneStrings
  <2> DEFINE t == NewItems(ss.items)
  <2>1. /\ ss.items \in Seq(ItemsOf("str")) /\ IsInjective(ss.items) /\ ss.items # <<>> /\ ss.items[1] = 1
    BY <1>1, NumTypes DEF RightTable
  <2>2. RightTable("str", t) /\ RightCap(t) /\ t.items = ss.items
    BY <2>1, NewItemsRight
  <2>3. ids' = [ids EXCEPT !.ss = t, !.wp = ids.wp]
    BY <1>1, <1>11 DEF CloneStrings
  <2> HIDE DEF t
  <2>4. RightArray(ids.wp, t) /\ Extends(t.items, ss.items)
    BY <1>1, <2>2, SameArray, ExtendsItself
  <2>. QED BY <2>2, <2>3, <2>4, StringsStep
<1>. QED BY <1>3, <1>4, <1>5, <1>6, <1>7, <1>8, <1>9, <1>10, <1>11 DEF IdsNext

\* Every call keeps the pool right, and gives no id twice.
LEMMA NextIds ==
  ASSUME IdsInv, [IdsNext]_idsVars
  PROVE  IdsInv'
<1>1. CASE IdsNext
  <2>1. RightStep(ids, ids')
    BY <1>1, StepIds DEF IdsInv
  <2>2. log' = [ss |-> LogOf(log.ss, ids'.ss.items), rels |-> LogOf(log.rels, ids'.rels.items)]
    BY <1>1 DEF IdsNext
  <2>3. log.ss = ids.ss.items /\ log.rels = ids.rels.items /\ RightPool(ids) /\ RightPool(ids')
    BY <2>1 DEF IdsInv, RightStep
  <2>4. /\ ids.ss.items \in Seq(ItemsOf("str")) /\ ids'.ss.items \in Seq(ItemsOf("str"))
        /\ ids.rels.items \in Seq(ItemsOf("rel")) /\ ids'.rels.items \in Seq(ItemsOf("rel"))
    BY <2>3, NumTypes DEF RightPool
  <2>5. LogOf(log.ss, ids'.ss.items) = ids'.ss.items
    BY <2>1, <2>3, <2>4, LogOfExtends DEF RightStep
  <2>6. LogOf(log.rels, ids'.rels.items) = ids'.rels.items
    BY <2>1, <2>3, <2>4, LogOfExtends DEF RightStep
  <2>. QED BY <2>2, <2>3, <2>5, <2>6 DEF IdsInv
<1>2. CASE UNCHANGED idsVars
  BY <1>2 DEF IdsInv, idsVars
<1>. QED BY <1>1, <1>2

\* What a right table promises.
LEMMA RightIsSound ==
  ASSUME NEW kind \in Kinds, NEW t, RightTable(kind, t), RightCap(t), NEW len, RightArray(len, t)
  PROVE  Sound(kind, t, len)
<1>1. IsInjective(t.items) /\ Found(kind, t)
  BY FoundHolds DEF RightTable
<1>2. HalfEmpty(t)
  <2> SUFFICES ASSUME t.mask # 0 PROVE Cardinality({h \in 0 .. t.mask : t.tbl[h] # 0}) * 2 <= t.mask + 1
    BY DEF HalfEmpty
  <2> DEFINE c == Cardinality({h \in 0 .. t.mask : t.tbl[h] # 0})
             l == Len(t.items)
  <2>1. Filled(kind, t.items, t.mask, t.tbl, l) /\ 2 * l <= t.mask + 1 /\ l \in Nat /\ t.mask \in Nat
    BY NumTypes DEF RightTable, TableType
  <2>2. c \in Nat /\ c <= l
    <3> HIDE DEF l
    <3>. QED BY <2>1, UsedPlaces
  <2> HIDE DEF c, l
  <2>3. c * 2 <= t.mask + 1
    BY <2>1, <2>2
  <2>. QED BY <2>3 DEF c
<1>3. Num(t) <= t.cap /\ (len # 0 => Num(t) <= len)
  <2>1. Num(t) \in Nat /\ RoundUp(Num(t)) \in Nat /\ Num(t) <= RoundUp(Num(t)) /\ t.cap \in Nat
    BY NumTypes DEF RightTable, TableType
  <2>. QED BY <2>1 DEF RightCap, RightArray
<1>. QED BY <1>1, <1>2, <1>3 DEF Sound

LEMMA IdsInvIsUnified == IdsInv => IdsUnified
<1> SUFFICES ASSUME IdsInv PROVE IdsUnified
  OBVIOUS
<1>1. Sound("str", ids.ss, ids.wp) /\ Sound("rel", ids.rels, ids.wprel)
  BY RightIsSound DEF IdsInv, RightPool, Kinds
<1>2. ids.ss.items = log.ss /\ ids.rels.items = log.rels
  BY DEF IdsInv
<1>. QED BY <1>1, <1>2 DEF IdsUnified

\* The tables of strings and relations are right at all times: every item has
\* one place, is on its chain before the first free place, and half of the
\* places are free; the arrays end with whole blocks behind the last id.
THEOREM IdsInvHolds == IdsSpec => []IdsInv
BY InitIds, NextIds, PTL DEF IdsSpec

\* An id stands for its string or relation for ever and nothing has two ids,
\* whatever the lookups, the integration of files, the shrinking and the
\* rebuilding of tables and provider arrays do (pool_str2id, pool_rel2id,
\* stringpool_integrate, pool_shrink_strings, pool_createwhatprovides).
THEOREM IdsUnifiedHolds == IdsSpec => []IdsUnified
BY IdsInvHolds, IdsInvIsUnified, PTL
=============================================================================
