-------------------------- MODULE TransactionProof --------------------------
(***************************************************************************)
(* The transaction and the order of its steps, for every pool, every set   *)
(* of decisions and every set of dependencies.                             *)
(***************************************************************************)
EXTENDS Transaction, OrderProof

-----------------------------------------------------------------------------
(***************************************************************************)
(* Sorting.                                                                *)
(***************************************************************************)
\* R orders the members of S.
Orders(R, S) ==
  /\ \A x \in S : <<x, x>> \notin R
  /\ \A x, y \in S : x # y => <<x, y>> \in R \/ <<y, x>> \in R
  /\ \A x, y, z \in S : <<x, y>> \in R /\ <<y, z>> \in R => <<x, z>> \in R

\* A member of S and what comes before it.
UpToThat(S, R, x) == {y \in S : y = x \/ <<y, x>> \in R}

Place(S, R, x) == Cardinality(UpToThat(S, R, x))

\* A member of S has a place, a member that comes later has a later one.
LEMMA PlaceGrows ==
  ASSUME NEW S, IsFiniteSet(S), NEW R, Orders(R, S), NEW x \in S
  PROVE  /\ Place(S, R, x) \in 1 .. Cardinality(S)
         /\ \A y \in S : <<x, y>> \in R => Place(S, R, x) < Place(S, R, y)
<1>1. IsFiniteSet(UpToThat(S, R, x)) /\ Place(S, R, x) <= Cardinality(S)
  BY FS_Subset DEF UpToThat, Place
<1>2. Cardinality(S) \in Nat /\ Place(S, R, x) \in Nat
  BY <1>1, FS_CardinalityType DEF Place
<1>3. x \in UpToThat(S, R, x)
  BY DEF UpToThat
<1>4. Place(S, R, x) # 0
  BY <1>1, <1>3, FS_EmptySet DEF Place
<1>5. ASSUME NEW y \in S, <<x, y>> \in R
      PROVE  Place(S, R, x) < Place(S, R, y)
  <2>1. UpToThat(S, R, x) \subseteq UpToThat(S, R, y)
    BY <1>5 DEF UpToThat, Orders
  <2>2. y \notin UpToThat(S, R, x)
    BY <1>5 DEF UpToThat, Orders
  <2>3. y \in UpToThat(S, R, y)
    BY DEF UpToThat
  <2>4. IsFiniteSet(UpToThat(S, R, y))
    BY FS_Subset DEF UpToThat
  <2>5. Place(S, R, x) <= Place(S, R, y) /\ Place(S, R, x) # Place(S, R, y)
    BY <2>1, <2>2, <2>3, <2>4, FS_Subset DEF Place
  <2>6. Place(S, R, y) \in Nat
    BY <2>4, FS_CardinalityType DEF Place
  <2>. QED BY <1>2, <2>5, <2>6
<1>. QED BY <1>1, <1>2, <1>4, <1>5

\* Sorted has the members of S, each once, in the order R.
LEMMA SortedFacts ==
  ASSUME NEW S, IsFiniteSet(S), NEW R, Orders(R, S)
  PROVE  /\ Sorted(S, R) \in Seq(S)
         /\ Range(Sorted(S, R)) = S
         /\ IsInjective(Sorted(S, R))
         /\ Len(Sorted(S, R)) = Cardinality(S)
         /\ \A i, j \in DOMAIN Sorted(S, R) : i < j => <<Sorted(S, R)[i], Sorted(S, R)[j]>> \in R
<1> DEFINE n == Cardinality(S)
           f == [x \in S |-> Place(S, R, x)]
           s == Sorted(S, R)
<1>1. n \in Nat /\ IsFiniteSet(1 .. n) /\ Cardinality(1 .. n) = n
  <2>1. n \in Nat
    BY FS_CardinalityType
  <2>. QED BY <2>1, FS_Interval
<1>2. f \in [S -> 1 .. n]
  BY PlaceGrows
<1>3. \A x, y \in S : x # y => f[x] # f[y]
  <2>1. \A x, y \in S : <<x, y>> \in R => Place(S, R, x) < Place(S, R, y)
    BY PlaceGrows
  <2>2. \A x \in S : Place(S, R, x) \in Nat
    BY PlaceGrows, <1>1
  <2>3. ASSUME NEW x \in S, NEW y \in S, x # y
        PROVE  Place(S, R, x) # Place(S, R, y)
    <3>1. <<x, y>> \in R \/ <<y, x>> \in R
      BY <2>3 DEF Orders
    <3>2. Place(S, R, x) < Place(S, R, y) \/ Place(S, R, y) < Place(S, R, x)
      BY <2>1, <3>1
    <3>. QED BY <2>2, <3>2
  <2>. QED BY <2>3
<1>4. f \in Injection(S, 1 .. n)
  BY <1>2, <1>3 DEF Injection, IsInjective
<1>5. f \in Surjection(S, 1 .. n)
  BY <1>1, <1>4, FS_Injection
<1>6. \A i \in 1 .. n : \E x \in S : Place(S, R, x) = i
  BY <1>5 DEF Surjection
<1>7. s = [i \in 1 .. n |-> CHOOSE x \in S : Place(S, R, x) = i]
  BY Zenon DEF Sorted, Place, UpToThat
<1> HIDE DEF s, n, f
<1>8. \A i \in 1 .. n : s[i] \in S /\ Place(S, R, s[i]) = i
  BY <1>6, <1>7, Zenon
<1>9. s \in [1 .. n -> S] /\ DOMAIN s = 1 .. n
  BY <1>7, <1>8
<1>10. s \in Seq(S) /\ Len(s) = n
  BY <1>1, <1>9
<1>11. \A x \in S : Place(S, R, x) \in 1 .. n /\ s[Place(S, R, x)] = x
  <2>1. \A x \in S : Place(S, R, x) \in 1 .. n /\ f[x] = Place(S, R, x)
    BY PlaceGrows DEF f, n
  <2>. QED BY <1>3, <1>8, <2>1
<1>12. Range(s) = S
  BY <1>8, <1>9, <1>11 DEF Range
<1>13. IsInjective(s)
  BY <1>8, <1>9 DEF IsInjective
<1>14. ASSUME NEW i \in 1 .. n, NEW j \in 1 .. n, i < j
       PROVE  <<s[i], s[j]>> \in R
  <2>1. s[i] # s[j] /\ s[i] \in S /\ s[j] \in S
    BY <1>8, <1>14, <1>1
  <2>2. ~(<<s[j], s[i]>> \in R)
    BY <1>8, <1>14, <1>1, <2>1, PlaceGrows
  <2>. QED BY <2>1, <2>2 DEF Orders
<1>. QED BY <1>9, <1>10, <1>12, <1>13, <1>14 DEF s, n

-----------------------------------------------------------------------------
(***************************************************************************)
(* The packages.                                                           *)
(***************************************************************************)
\* What the transaction is created from.
Given == IsDecided([pool |-> pool, dq |-> decisionq, multi |-> multiversionmap])

LEMMA PackageFacts ==
  ASSUME Given
  PROVE  /\ IsFiniteSet(Pkgs) /\ Pkgs \subseteq Nat \ {0}
         /\ Installed \subseteq Pkgs /\ New \subseteq Pkgs /\ Installed \cap New = {}
         /\ Pkgs = Installed \cup New
         /\ \A p \in Pkgs : Pkg(p).name \in Nat /\ Pkg(p).evr \in Nat /\ Pkg(p).arch \in Nat
         /\ \A p \in Pkgs : Pkg(p).vendor \in Nat /\ Pkg(p).kind \in {"rpm", "pseudo", "noinst"}
<1> DEFINE K == [name : Nat, evr : Nat, arch : Nat, vendor : Nat, build : Nat,
                 kind : {"rpm", "pseudo", "noinst"}]
<1>1. pool.pkg \in Seq(K) /\ Installed \subseteq Pkgs
  BY DEF Given, IsDecided, Installed, Pkgs
<1>2. \A x \in K : /\ x.name \in Nat /\ x.evr \in Nat /\ x.arch \in Nat
                   /\ x.vendor \in Nat /\ x.kind \in {"rpm", "pseudo", "noinst"}
  OBVIOUS
<1> HIDE DEF K
<1>3. Pkgs = 1 .. Len(pool.pkg) /\ Len(pool.pkg) \in Nat
  BY <1>1 DEF Pkgs
<1>4. \A p \in Pkgs : Pkg(p) \in K
  BY <1>1, <1>3 DEF Pkg
<1>5. IsFiniteSet(Pkgs)
  BY <1>3, FS_Interval
<1>6. Pkgs \subseteq Nat \ {0}
  BY <1>3
<1>. QED BY <1>1, <1>2, <1>4, <1>5, <1>6 DEF New

\* Ids are ordered, ...
LEMMA IdsOrder ==
  ASSUME NEW S, S \subseteq Int
  PROVE  Orders({t \in S \X S : t[1] < t[2]}, S)
<1> DEFINE R == {t \in S \X S : t[1] < t[2]}
<1>1. \A x, y \in S : <<x, y>> \in R <=> x < y
  OBVIOUS
<1> HIDE DEF R
<1>2. Orders(R, S)
  BY <1>1 DEF Orders
<1>. QED BY <1>2 DEF R

\* ... and so are the partners of a package, ...
LEMMA PartnerOrder ==
  ASSUME Given, NEW p \in Pkgs, NEW x \in Pkgs, NEW y \in Pkgs, NEW z \in Pkgs
  PROVE  /\ ~BetterPartner(p, x, x)
         /\ x # y => BetterPartner(p, x, y) \/ BetterPartner(p, y, x)
         /\ BetterPartner(p, x, y) /\ BetterPartner(p, y, z) => BetterPartner(p, x, z)
         /\ BetterPartner(p, x, y) => ~BetterPartner(p, y, x)
<1>1. /\ x \in Nat /\ Pkg(x).name \in Nat /\ Pkg(x).evr \in Nat /\ Pkg(x).arch \in Nat
      /\ y \in Nat /\ Pkg(y).name \in Nat /\ Pkg(y).evr \in Nat /\ Pkg(y).arch \in Nat
      /\ z \in Nat /\ Pkg(z).name \in Nat /\ Pkg(z).evr \in Nat /\ Pkg(z).arch \in Nat
      /\ p \in Nat /\ Pkg(p).name \in Nat /\ Pkg(p).evr \in Nat /\ Pkg(p).arch \in Nat
  BY PackageFacts
<1>2. ~BetterPartner(p, x, x)
  BY <1>1 DEF BetterPartner
<1>3. x # y => BetterPartner(p, x, y) \/ BetterPartner(p, y, x)
  BY <1>1 DEF BetterPartner
<1>4. BetterPartner(p, x, y) /\ BetterPartner(p, y, z) => BetterPartner(p, x, z)
  BY <1>1 DEF BetterPartner
<1>5. BetterPartner(p, x, y) => ~BetterPartner(p, y, x)
  BY <1>1 DEF BetterPartner
<1>. QED BY <1>2, <1>3, <1>4, <1>5

LEMMA PartnersOrder ==
  ASSUME Given, NEW p \in Pkgs, NEW S, S \subseteq Pkgs
  PROVE  Orders({t \in S \X S : BetterPartner(p, t[1], t[2])}, S)
<1> DEFINE R == {t \in S \X S : BetterPartner(p, t[1], t[2])}
<1>1. \A x, y \in S : <<x, y>> \in R <=> BetterPartner(p, x, y)
  OBVIOUS
<1> HIDE DEF R
<1>2. \A x \in S : <<x, x>> \notin R
  BY <1>1, PartnerOrder
<1>3. \A x, y \in S : x # y => <<x, y>> \in R \/ <<y, x>> \in R
  BY <1>1, PartnerOrder
<1>4. \A x, y, z \in S : <<x, y>> \in R /\ <<y, z>> \in R => <<x, z>> \in R
  BY <1>1, PartnerOrder
<1>5. Orders(R, S)
  BY <1>2, <1>3, <1>4 DEF Orders
<1>. QED BY <1>5 DEF R

\* ... and the pairs of the info table.
LEMMA PairsOrder ==
  ASSUME Given, NEW S, S \subseteq New \X Installed
  PROVE  Orders({t \in S \X S : obsq_sortcmp(t[1], t[2])}, S)
<1> DEFINE R == {t \in S \X S : obsq_sortcmp(t[1], t[2])}
<1>0. \A x \in S : x[1] \in Pkgs /\ x[2] \in Pkgs /\ x = <<x[1], x[2]>> /\ x[1] \in Nat /\ x[2] \in Nat
  BY PackageFacts
<1>1. \A x, y \in S : <<x, y>> \in R <=> obsq_sortcmp(x, y)
  OBVIOUS
<1> HIDE DEF R
<1>2. \A x \in S : <<x, x>> \notin R
  BY <1>0, <1>1, PartnerOrder DEF obsq_sortcmp
<1>3. ASSUME NEW x \in S, NEW y \in S, x # y
      PROVE  <<x, y>> \in R \/ <<y, x>> \in R
  <2>1. CASE x[1] # y[1]
    BY <1>0, <1>1, <2>1 DEF obsq_sortcmp
  <2>2. CASE x[1] = y[1]
    <3>1. x[2] # y[2]
      BY <1>0, <1>3, <2>2
    <3>2. BetterPartner(x[1], x[2], y[2]) \/ BetterPartner(x[1], y[2], x[2])
      BY <1>0, <3>1, PartnerOrder
    <3>. QED BY <1>1, <2>2, <3>2 DEF obsq_sortcmp
  <2>. QED BY <2>1, <2>2
<1>4. ASSUME NEW x \in S, NEW y \in S, NEW z \in S, <<x, y>> \in R, <<y, z>> \in R
      PROVE  <<x, z>> \in R
  <2>1. obsq_sortcmp(x, y) /\ obsq_sortcmp(y, z)
    BY <1>1, <1>4
  <2>2. CASE x[1] = y[1] /\ y[1] = z[1]
    <3>1. BetterPartner(x[1], x[2], y[2]) /\ BetterPartner(x[1], y[2], z[2])
      BY <2>1, <2>2 DEF obsq_sortcmp
    <3>2. BetterPartner(x[1], x[2], z[2])
      BY <1>0, <3>1, PartnerOrder
    <3>. QED BY <1>1, <2>2, <3>2 DEF obsq_sortcmp
  <2>3. CASE ~(x[1] = y[1] /\ y[1] = z[1])
    <3>1. x[1] <= y[1] /\ y[1] <= z[1]
      BY <1>0, <2>1 DEF obsq_sortcmp
    <3>2. x[1] < z[1]
      BY <1>0, <2>3, <3>1
    <3>. QED BY <1>0, <1>1, <3>2 DEF obsq_sortcmp
  <2>. QED BY <2>2, <2>3
<1>5. Orders(R, S)
  BY <1>2, <1>3, <1>4 DEF Orders
<1>. QED BY <1>5 DEF R

-----------------------------------------------------------------------------
(***************************************************************************)
(* The obsoletes of the transaction.                                       *)
(***************************************************************************)
\* The info table: it is sorted, has no pair twice, and says what obsoletes what.
InfoRight ==
  /\ transactsmap \subseteq Pkgs
  /\ info \in Seq((New \cap transactsmap) \X (Installed \cap transactsmap))
  /\ IsInjective(info)
  /\ \A i, j \in DOMAIN info : i < j => obsq_sortcmp(info[i], info[j])
  /\ \A t \in Range(info) : ObsoletesPkg(t[1], t[2])

\* What a new package obsoletes.
Obsoleted(p) == {q \in Installed : <<p, q>> \in Range(info)}

LEMMA InfoFacts ==
  ASSUME Given, InfoRight, NEW p \in Pkgs
  PROVE  /\ Obsoleters(p) \subseteq New \cap transactsmap /\ IsFiniteSet(Obsoleters(p))
         /\ Obsoleted(p) \subseteq Installed \cap transactsmap /\ IsFiniteSet(Obsoleted(p))
         /\ Obsoleters(p) # {} => p \in Installed \cap transactsmap
         /\ Obsoleted(p) # {} => p \in New \cap transactsmap
         /\ \A q \in Pkgs : q \in Obsoleted(p) <=> p \in Obsoleters(q)
<1> DEFINE K == (New \cap transactsmap) \X (Installed \cap transactsmap)
<1>1. Range(info) \subseteq K
  <2>1. info \in Seq(K)
    BY DEF InfoRight
  <2> HIDE DEF K
  <2>. QED BY <2>1 DEF Range
<1>2. \A a, b : <<a, b>> \in Range(info) => a \in New \cap transactsmap /\ b \in Installed \cap transactsmap
  BY <1>1
<1> HIDE DEF K
<1>3. Obsoleters(p) \subseteq New \cap transactsmap /\ Obsoleted(p) \subseteq Installed \cap transactsmap
  BY <1>2 DEF Obsoleters, Obsoleted
<1>4. IsFiniteSet(Obsoleters(p)) /\ IsFiniteSet(Obsoleted(p))
  BY <1>3, PackageFacts, FS_Subset
<1>. QED BY <1>2, <1>3, <1>4, PackageFacts DEF Obsoleters, Obsoleted

\* There is a best obsoleter.
LEMMA BestFacts ==
  ASSUME Given, NEW p \in Pkgs, NEW S, S \subseteq Pkgs, IsFiniteSet(S), S # {}
  PROVE  LET s == Sorted(S, {t \in S \X S : BetterPartner(p, t[1], t[2])})
         IN  Best(p, S) \in S /\ Best(p, S) = s[1] /\ s # <<>>
<1> DEFINE R == {t \in S \X S : BetterPartner(p, t[1], t[2])}
           s == Sorted(S, R)
<1>0. \A x, y \in S : <<x, y>> \in R <=> BetterPartner(p, x, y)
  OBVIOUS
<1> HIDE DEF R
<1>1. Orders(R, S)
  BY PartnersOrder DEF R
<1> HIDE DEF s
<1>2. /\ s \in Seq(S) /\ Range(s) = S
      /\ \A i, j \in DOMAIN s : i < j => <<s[i], s[j]>> \in R
  BY <1>1, SortedFacts DEF s
<1>3. s # <<>> /\ 1 \in DOMAIN s
  <2>1. s # <<>>
    BY <1>2 DEF Range
  <2>. QED BY <1>2, <2>1
<1>4. s[1] \in S
  BY <1>2, <1>3
<1>5. ASSUME NEW r \in S \ {s[1]}
      PROVE  BetterPartner(p, s[1], r)
  <2>1. PICK j \in DOMAIN s : s[j] = r
    BY <1>2 DEF Range
  <2>2. 1 < j
    BY <1>2, <1>3, <2>1
  <2>. QED BY <1>0, <1>2, <1>3, <1>4, <2>1, <2>2
<1>6. /\ Best(p, S) \in S /\ \A r \in S \ {Best(p, S)} : BetterPartner(p, Best(p, S), r)
  BY <1>4, <1>5, Zenon DEF Best
<1>7. Best(p, S) = s[1]
  BY <1>4, <1>5, <1>6, PartnerOrder
<1>. QED BY <1>3, <1>6, <1>7 DEF s, R

LEMMA InstalledFacts ==
  ASSUME Given, InfoRight, NEW p \in Pkgs
  PROVE  /\ transaction_installed(p) \in Int
         /\ transaction_installed(p) = 0 <=> Obsoleters(p) = {}
<1> DEFINE S == Obsoleters(p)
<1>1. S \subseteq Pkgs /\ IsFiniteSet(S)
  BY InfoFacts, PackageFacts
<1>2. CASE S = {}
  BY <1>2 DEF transaction_installed
<1>3. CASE S # {}
  <2>1. Best(p, S) \in S
    BY <1>1, <1>3, BestFacts
  <2>2. Best(p, S) \in Nat \ {0}
    BY <1>1, <2>1, PackageFacts
  <2> DEFINE b == Best(p, S)
  <2>3. transaction_installed(p) = b \/ transaction_installed(p) = -b
    BY <1>3 DEF transaction_installed
  <2> HIDE DEF b, S
  <2>. QED BY <1>3, <2>2, <2>3 DEF b, S
<1>. QED BY <1>2, <1>3

\* The partners that are listed for a package.
LEMMA PartnersListed ==
  ASSUME Given, InfoRight, NEW p \in Pkgs
  PROVE  /\ transaction_all_obs_pkgs(p) \in Seq(Pkgs)
         /\ IsInjective(transaction_all_obs_pkgs(p))
         /\ Range(transaction_all_obs_pkgs(p)) = IF p \in Installed THEN Obsoleters(p) ELSE Obsoleted(p)
<1> DEFINE all == transaction_all_obs_pkgs(p)
<1>1. CASE p \in Installed
  <2> DEFINE S == Obsoleters(p)
             R == {t \in S \X S : BetterPartner(p, t[1], t[2])}
  <2>1. S \subseteq Pkgs /\ IsFiniteSet(S)
    BY InfoFacts, PackageFacts
  <2>2. Orders(R, S)
    BY <2>1, PartnersOrder
  <2>3. all = Sorted(S, R)
    BY <1>1 DEF transaction_all_obs_pkgs
  <2> HIDE DEF S, R, all
  <2>4. all \in Seq(S) /\ Range(all) = S /\ IsInjective(all)
    BY <2>1, <2>2, <2>3, SortedFacts
  <2>5. all \in Seq(Pkgs)
    BY <2>1, <2>4, SeqGrows
  <2>. QED BY <1>1, <2>4, <2>5 DEF all, S
<1>2. CASE p \notin Installed
  <2> DEFINE K == (New \cap transactsmap) \X (Installed \cap transactsmap)
             A == {t \in Range(info) : t[1] = p}
             mine == Those(info, A)
  <2>1. info \in Seq(K) /\ IsInjective(info)
    BY DEF InfoRight
  <2>2. \A t \in K : t = <<t[1], t[2]>> /\ t[2] \in Installed
    OBVIOUS
  <2>3. Installed \subseteq Pkgs
    BY PackageFacts
  <2>4. all = [i \in 1 .. Len(mine) |-> mine[i][2]]
    BY <1>2 DEF transaction_all_obs_pkgs
  <2>5. Range(info) \subseteq K
    <3> HIDE DEF K
    <3>. QED BY <2>1 DEF Range
  <2> HIDE DEF K, all, mine
  <2>6. mine \in Seq(K) /\ Range(mine) = Range(info) \cap A /\ IsInjective(mine)
    BY <2>1, ThoseFacts DEF mine
  <2>7. \A i \in 1 .. Len(mine) : mine[i] \in Range(info) /\ mine[i][1] = p /\ mine[i] \in K
    <3>1. \A i \in 1 .. Len(mine) : mine[i] \in Range(mine)
      BY <2>6 DEF Range
    <3>. QED BY <2>6, <3>1
  <2>8. \A i \in 1 .. Len(mine) : all[i] \in Pkgs /\ mine[i] = <<p, all[i]>> /\ all[i] \in Installed
    BY <2>2, <2>3, <2>4, <2>7
  <2>9. Len(mine) \in Nat
    BY <2>6
  <2>10. all \in Seq(Pkgs) /\ Len(all) = Len(mine) /\ DOMAIN all = 1 .. Len(mine)
    BY <2>4, <2>8, <2>9
  <2>11. IsInjective(all)
    <3>1. DOMAIN mine = 1 .. Len(mine)
      BY <2>6
    <3>. QED BY <2>6, <2>8, <2>10, <3>1 DEF IsInjective
  <2>12. ASSUME NEW q
         PROVE  q \in Range(all) <=> q \in Obsoleted(p)
    <3>1. CASE q \in Range(all)
      BY <2>7, <2>8, <2>10, <3>1 DEF Range, Obsoleted
    <3>2. CASE q \in Obsoleted(p)
      <4>1. <<p, q>> \in Range(info) /\ <<p, q>> \in A
        BY <3>2 DEF Obsoleted
      <4>2. <<p, q>> \in Range(mine)
        BY <2>6, <4>1
      <4>3. PICK i \in 1 .. Len(mine) : mine[i] = <<p, q>>
        BY <2>6, <4>2 DEF Range
      <4>4. all[i] = q
        BY <2>4, <4>3
      <4>5. q \in Range(all)
        BY <2>10, <4>3, <4>4 DEF Range
      <4>. QED BY <3>2, <4>5
    <3>. QED BY <3>1, <3>2
  <2>13. Range(all) = Obsoleted(p)
    BY <2>12
  <2>. QED BY <1>2, <2>10, <2>11, <2>13 DEF all
<1>. QED BY <1>1, <1>2

-----------------------------------------------------------------------------
(***************************************************************************)
(* The transaction is created.                                             *)
(***************************************************************************)
\* The steps are the packages of the transaction, each once.
StepsRight ==
  /\ steps \in Seq(Pkgs)
  /\ IsInjective(steps)
  /\ Range(steps) = transactsmap

LEMMA InIdOrderFacts ==
  ASSUME Given, NEW S, S \subseteq Pkgs
  PROVE  InIdOrder(S) \in Seq(S) /\ Range(InIdOrder(S)) = S /\ IsInjective(InIdOrder(S))
<1> DEFINE R == {t \in S \X S : t[1] < t[2]}
<1>1. IsFiniteSet(S) /\ S \subseteq Int
  BY PackageFacts, FS_Subset
<1>2. Orders(R, S)
  BY <1>1, IdsOrder
<1> HIDE DEF R
<1>3. Sorted(S, R) \in Seq(S) /\ Range(Sorted(S, R)) = S /\ IsInjective(Sorted(S, R))
  BY <1>1, <1>2, SortedFacts
<1>. QED BY <1>3 DEF InIdOrder, R

LEMMA PoolStays ==
  ASSUME pool' = pool
  PROVE  /\ Pkgs' = Pkgs /\ Installed' = Installed /\ New' = New
         /\ \A x, y : obsq_sortcmp(x, y)' <=> obsq_sortcmp(x, y)
         /\ \A x, y, z : BetterPartner(x, y, z)' <=> BetterPartner(x, y, z)
<1>1. Pkgs' = Pkgs /\ Installed' = Installed /\ New' = New
  BY DEF Pkgs, Installed, New
<1>2. \A x, y, z : BetterPartner(x, y, z)' <=> BetterPartner(x, y, z)
  BY DEF BetterPartner, Pkg
<1>3. \A x, y : obsq_sortcmp(x, y)' <=> obsq_sortcmp(x, y)
  BY <1>2 DEF obsq_sortcmp, BetterPartner, Pkg
<1>. QED BY <1>1, <1>2, <1>3

LEMMA CreateMakes ==
  ASSUME Given, CreateTransaction
  PROVE  Given' /\ InfoRight' /\ StepsRight'
<1> DEFINE T == Transacts
           K == (New \cap T) \X (Installed \cap T)
           R == {t \in InfoPairs \X InfoPairs : obsq_sortcmp(t[1], t[2])}
           olds == InIdOrder(Installed \cap T)
           news == Those(decisionq, New \cap T)
<1>1. /\ transactsmap' = T /\ info' = Sorted(InfoPairs, R) /\ steps' = olds \o news
      /\ pool' = pool /\ decisionq' = decisionq /\ multiversionmap' = multiversionmap
  BY DEF CreateTransaction, transaction_create_decisionq
<1>2. Given'
  BY <1>1 DEF Given, IsDecided
<1>3. Pkgs' = Pkgs /\ Installed' = Installed /\ New' = New
      /\ \A x, y : obsq_sortcmp(x, y)' <=> obsq_sortcmp(x, y)
  BY <1>1, PoolStays
<1>4. Transacts \subseteq Pkgs
  BY PackageFacts DEF Transacts
<1>5. InfoPairs \subseteq K /\ IsFiniteSet(InfoPairs)
  <2>1. IsFiniteSet(Pkgs)
    BY PackageFacts
  <2>2. IsFiniteSet(New \cap T) /\ IsFiniteSet(Installed \cap T)
    <3>1. New \cap T \subseteq Pkgs /\ Installed \cap T \subseteq Pkgs
      BY <1>4
    <3>. QED BY <2>1, <3>1, FS_Subset
  <2>3. IsFiniteSet(K)
    BY <2>2, FS_Product
  <2>4. InfoPairs \subseteq K
    BY DEF InfoPairs
  <2> HIDE DEF K
  <2>. QED BY <2>3, <2>4, FS_Subset
<1>6. InfoPairs \subseteq New \X Installed
  BY DEF InfoPairs
<1>7. Orders(R, InfoPairs)
  BY <1>6, PairsOrder
<1>8. \A x, y : <<x, y>> \in R => obsq_sortcmp(x, y)
  OBVIOUS
<1> HIDE DEF R, K, olds, news
<1>9. LET s == Sorted(InfoPairs, R)
      IN  /\ s \in Seq(InfoPairs) /\ IsInjective(s) /\ Range(s) = InfoPairs
          /\ \A i, j \in DOMAIN s : i < j => <<s[i], s[j]>> \in R
  BY <1>5, <1>7, SortedFacts
<1>10. Sorted(InfoPairs, R) \in Seq(K)
  BY <1>5, <1>9, SeqGrows
<1>11. InfoRight'
  <2>1. info' \in Seq((New' \cap transactsmap') \X (Installed' \cap transactsmap'))
    BY <1>1, <1>3, <1>10 DEF K
  <2>2. IsInjective(info') /\ \A i, j \in DOMAIN info' : i < j => obsq_sortcmp(info'[i], info'[j])
    BY <1>1, <1>8, <1>9
  <2>3. ASSUME NEW i \in DOMAIN info', NEW j \in DOMAIN info', i < j PROVE obsq_sortcmp(info[i], info[j])'
    <3>1. obsq_sortcmp(info'[i], info'[j])
      BY <2>2, <2>3
    <3>2. pool' = pool
      BY <1>1
    <3>. QED BY ONLY <3>1, <3>2 DEF obsq_sortcmp, BetterPartner, Pkg
  <2>4. \A t \in Range(info') : ObsoletesPkg(t[1], t[2])'
    <3>1. \A t \in InfoPairs : ObsoletesPkg(t[1], t[2])
      BY DEF InfoPairs
    <3>. QED BY <1>1, <1>9, <3>1 DEF ObsoletesPkg, SameNevra, SameName, Pkg
  <2>. QED BY <1>1, <1>3, <1>4, <2>1, <2>2, <2>3, <2>4 DEF InfoRight
<1>12. olds \in Seq(Pkgs) /\ Range(olds) = Installed \cap T /\ IsInjective(olds)
  <2>1. Installed \cap T \subseteq Pkgs
    BY <1>4
  <2>2. olds \in Seq(Installed \cap T) /\ Range(olds) = Installed \cap T /\ IsInjective(olds)
    BY <2>1, InIdOrderFacts DEF olds
  <2>. QED BY <2>1, <2>2, SeqGrows
<1>13. news \in Seq(Pkgs) /\ Range(news) = New \cap T /\ IsInjective(news)
  <2>1. decisionq \in Seq(Int) /\ IsInjective(decisionq)
    BY DEF Given, IsDecided
  <2>2. news \in Seq(Int) /\ Range(news) = Range(decisionq) \cap (New \cap T) /\ IsInjective(news)
    BY <2>1, ThoseFacts DEF news
  <2>3. New \cap T \subseteq Range(decisionq)
    BY PackageFacts DEF Transacts, Decided, Range
  <2>4. Range(news) = New \cap T /\ Range(news) \subseteq Pkgs
    BY <1>4, <2>2, <2>3
  <2>5. news \in Seq(Pkgs)
    <3>1. \A i \in 1 .. Len(news) : news[i] \in Range(news)
      BY <2>2 DEF Range
    <3>2. Len(news) \in Nat /\ DOMAIN news = 1 .. Len(news) /\ news = [i \in 1 .. Len(news) |-> news[i]]
      BY <2>2
    <3>. QED BY <2>4, <3>1, <3>2
  <2>. QED BY <2>2, <2>4, <2>5
<1>14. StepsRight'
  <2>1. Range(olds) \cap Range(news) = {} /\ Range(olds) \cup Range(news) = T
    BY <1>4, <1>12, <1>13, PackageFacts
  <2>2. /\ olds \o news \in Seq(Pkgs) /\ Range(olds \o news) = Range(olds) \cup Range(news)
        /\ IsInjective(olds \o news)
    BY <1>12, <1>13, <2>1, ConcatFacts
  <2>. QED BY <1>1, <1>3, <2>1, <2>2 DEF StepsRight
<1>. QED BY <1>2, <1>11, <1>14

-----------------------------------------------------------------------------
(***************************************************************************)
(* The calls of the package manager.                                       *)
(***************************************************************************)
LEMMA PartnerGiven ==
  ASSUME Given, InfoRight, NEW p \in Pkgs
  PROVE  LET all == transaction_all_obs_pkgs(p)
         IN  transaction_obs_pkg(p) = IF all = <<>> THEN 0 ELSE all[1]
<1>1. CASE p \in Installed
  <2> DEFINE S == Obsoleters(p)
             R == {t \in S \X S : BetterPartner(p, t[1], t[2])}
             s == Sorted(S, R)
  <2>1. S \subseteq Pkgs /\ IsFiniteSet(S)
    BY InfoFacts, PackageFacts
  <2>2. transaction_all_obs_pkgs(p) = s
    BY <1>1 DEF transaction_all_obs_pkgs
  <2>3. CASE S = {}
    <3>1. Orders(R, S)
      BY <2>1, PartnersOrder
    <3>2. s \in Seq(S) /\ Range(s) = S
      <4> HIDE DEF R
      <4>. QED BY <2>1, <3>1, SortedFacts
    <3> HIDE DEF s
    <3>3. s = <<>>
      BY <2>3, <3>2
    <3>. QED BY <1>1, <2>2, <2>3, <3>3 DEF transaction_obs_pkg, transaction_installed
  <2>4. CASE S # {}
    <3>1. Best(p, S) \in S /\ Best(p, S) = s[1] /\ s # <<>>
      BY <2>1, <2>4, BestFacts
    <3>2. Best(p, S) \in Nat \ {0}
      BY <2>1, <3>1, PackageFacts
    <3> DEFINE b == Best(p, S)
    <3>3. transaction_installed(p) = b \/ transaction_installed(p) = -b
      BY <2>4 DEF transaction_installed
    <3>4. transaction_obs_pkg(p) = IF transaction_installed(p) < 0 THEN -transaction_installed(p)
                                   ELSE transaction_installed(p)
      BY <1>1 DEF transaction_obs_pkg
    <3> HIDE DEF b
    <3>5. b \in Nat \ {0}
      BY <3>2 DEF b
    <3>6. transaction_obs_pkg(p) = b
      BY <3>3, <3>4, <3>5
    <3> HIDE DEF s
    <3>. QED BY <2>2, <3>1, <3>6 DEF b
  <2>. QED BY <2>3, <2>4
<1>2. CASE p \notin Installed
  <2> DEFINE A == {t \in Range(info) : t[1] = p}
             mine == Those(info, A)
  <2>1. /\ transaction_obs_pkg(p) = IF mine = <<>> THEN 0 ELSE mine[1][2]
        /\ transaction_all_obs_pkgs(p) = [i \in 1 .. Len(mine) |-> mine[i][2]]
    BY <1>2 DEF transaction_obs_pkg, transaction_all_obs_pkgs
  <2>2. info \in Seq((New \cap transactsmap) \X (Installed \cap transactsmap))
    BY DEF InfoRight
  <2> HIDE DEF mine
  <2>3. mine \in Seq((New \cap transactsmap) \X (Installed \cap transactsmap))
    <3> HIDE DEF A
    <3>. QED BY <2>2, ThoseFacts DEF mine
  <2>. QED BY <2>1, <2>3
<1>. QED BY <1>1, <1>2

\* The partner is one of the partners that are listed, if there is one.
LEMMA PartnerListed ==
  ASSUME Given, InfoRight, NEW p \in Pkgs
  PROVE  LET Q == IF p \in Installed THEN Obsoleters(p) ELSE Obsoleted(p)
         IN  IF Q = {} THEN transaction_obs_pkg(p) = 0
             ELSE transaction_obs_pkg(p) \in Q /\ transaction_obs_pkg(p) # 0
<1> DEFINE all == transaction_all_obs_pkgs(p)
           Q == IF p \in Installed THEN Obsoleters(p) ELSE Obsoleted(p)
<1>1. all \in Seq(Pkgs) /\ Range(all) = Q
  BY PartnersListed
<1>2. transaction_obs_pkg(p) = IF all = <<>> THEN 0 ELSE all[1]
  BY PartnerGiven
<1> HIDE DEF all, Q
<1>3. CASE Q = {}
  <2>1. all = <<>>
    BY <1>1, <1>3 DEF Range
  <2>. QED BY <1>2, <1>3, <2>1 DEF Q
<1>4. CASE Q # {}
  <2>1. all # <<>>
    BY <1>1, <1>4 DEF Range
  <2>2. 1 \in DOMAIN all /\ all[1] \in Pkgs
    BY <1>1, <2>1
  <2>3. all[1] \in Q /\ all[1] # 0
    BY <1>1, <2>2, PackageFacts DEF Range
  <2>. QED BY <1>2, <1>4, <2>1, <2>3 DEF Q
<1>. QED BY <1>3, <1>4

OldTypes == {"REINSTALLED", "DOWNGRADED", "UPGRADED", "CHANGED", "OBSOLETED"}
NewTypes == {"MULTIREINSTALL", "MULTIINSTALL", "INSTALL", "REINSTALL", "UPGRADE", "DOWNGRADE",
             "CHANGE", "OBSOLETES"}

LEMMA ComparedType ==
  ASSUME NEW p, NEW q, NEW a, NEW b, NEW c, NEW d
  PROVE  Compared(p, q, a, b, c, d) \in {a, b, c, d}
BY DEF Compared

LEMMA BaseTypes ==
  ASSUME Given, InfoRight, NEW p \in transactsmap
  PROVE  /\ p \in Pkgs
         /\ p \in Installed /\ Obsoleters(p) = {} => transaction_base_type(p) = "ERASE"
         /\ p \in Installed /\ Obsoleters(p) # {} => transaction_base_type(p) \in OldTypes
         /\ p \in New => transaction_base_type(p) \in NewTypes
<1> DEFINE q == transaction_obs_pkg(p)
<1>1. p \in Pkgs
  BY DEF InfoRight
<1>2. p \in Installed => (q = 0 <=> Obsoleters(p) = {})
  BY <1>1, PartnerListed
<1> HIDE DEF q
<1>3. /\ Compared(p, q, "REINSTALLED", "DOWNGRADED", "UPGRADED", "CHANGED") \in OldTypes
      /\ Compared(p, q, "REINSTALL", "UPGRADE", "DOWNGRADE", "CHANGE") \in NewTypes
  <2>1. /\ Compared(p, q, "REINSTALLED", "DOWNGRADED", "UPGRADED", "CHANGED")
              \in {"REINSTALLED", "DOWNGRADED", "UPGRADED", "CHANGED"}
        /\ Compared(p, q, "REINSTALL", "UPGRADE", "DOWNGRADE", "CHANGE")
              \in {"REINSTALL", "UPGRADE", "DOWNGRADE", "CHANGE"}
    BY ComparedType
  <2>. QED BY <2>1 DEF OldTypes, NewTypes
<1>4. CASE p \in Installed
  <2>1. p \notin New
    BY <1>4 DEF New
  <2>2. transaction_base_type(p) =
          IF q = 0 THEN "ERASE"
          ELSE IF SameName(p, q)
          THEN Compared(p, q, "REINSTALLED", "DOWNGRADED", "UPGRADED", "CHANGED")
          ELSE "OBSOLETED"
    BY <1>4, <2>1 DEF transaction_base_type, q
  <2>. QED BY <1>1, <1>2, <1>3, <1>4, <2>1, <2>2 DEF OldTypes
<1>5. CASE p \in New
  <2>1. p \notin Installed
    BY <1>5 DEF New
  <2>2. CASE p \in multiversionmap
    <3>1. transaction_base_type(p) = IF q # 0 /\ SameNevra(p, q) THEN "MULTIREINSTALL" ELSE "MULTIINSTALL"
      BY <1>5, <2>1, <2>2 DEF transaction_base_type, q
    <3>. QED BY <1>1, <2>1, <3>1 DEF NewTypes
  <2>3. CASE p \notin multiversionmap
    <3>1. transaction_base_type(p) =
            IF q = 0 THEN "INSTALL"
            ELSE IF SameName(p, q)
            THEN Compared(p, q, "REINSTALL", "UPGRADE", "DOWNGRADE", "CHANGE")
            ELSE "OBSOLETES"
      BY <1>5, <2>1, <2>3 DEF transaction_base_type, q
    <3>. QED BY <1>1, <1>3, <2>1, <3>1 DEF NewTypes
  <2>. QED BY <2>2, <2>3
<1>. QED BY <1>1, <1>4, <1>5, PackageFacts

ManagerView(p) == transaction_type(p, {"RPM_ONLY"})

LEMMA ManagerTypes ==
  ASSUME Given, InfoRight, NEW p \in transactsmap
  PROVE  /\ p \in New /\ ~is_pseudo_package(p) => ManagerView(p) \in {"INSTALL", "MULTIINSTALL"}
         /\ p \in Installed /\ ~is_pseudo_package(p) =>
              ManagerView(p) = IF \A q \in Obsoleters(p) : is_pseudo_package(q) THEN "ERASE" ELSE "IGNORE"
         /\ is_pseudo_package(p) => ManagerView(p) = "IGNORE"
<1> DEFINE base == transaction_base_type(p)
           mode == {"RPM_ONLY"}
<1>1. /\ p \in Pkgs
      /\ p \in Installed /\ Obsoleters(p) = {} => base = "ERASE"
      /\ p \in Installed /\ Obsoleters(p) # {} => base \in OldTypes
      /\ p \in New => base \in NewTypes
  BY BaseTypes
<1>2. base # "IGNORE"
  BY <1>1, PackageFacts DEF OldTypes, NewTypes
<1>3. is_noinst_pseudo_package(p) => is_pseudo_package(p)
  BY DEF is_noinst_pseudo_package, is_pseudo_package
<1>4. "KEEP_PSEUDO" \notin mode /\ "RPM_ONLY" \in mode
  OBVIOUS
<1> HIDE DEF base, mode
<1>5. ManagerView(p) = IF is_noinst_pseudo_package(p) THEN "IGNORE" ELSE ManagerType(p, mode, base)
  BY <1>2, <1>4 DEF ManagerView, transaction_type, base, mode
<1>6. CASE is_pseudo_package(p)
  BY <1>4, <1>5, <1>6 DEF ManagerType
<1>7. CASE ~is_pseudo_package(p) /\ p \in New
  <2>1. p \notin Installed
    BY <1>7 DEF New
  <2>. QED BY <1>1, <1>3, <1>5, <1>7, <2>1 DEF ManagerType, NewTypes, Final
<1>8. CASE ~is_pseudo_package(p) /\ p \in Installed
  <2>1. p \notin New
    BY <1>8 DEF New
  <2>2. obsoleted_by_pseudos_only(p) <=> Obsoleters(p) # {} /\ \A q \in Obsoleters(p) : is_pseudo_package(q)
    <3>1. Range(transaction_all_obs_pkgs(p)) = Obsoleters(p)
      BY <1>1, <1>8, PartnersListed
    <3>. QED BY <3>1 DEF obsoleted_by_pseudos_only
  <2>3. CASE Obsoleters(p) = {}
    <3>1. base = "ERASE"
      BY <1>1, <1>8, <2>3
    <3>2. ManagerView(p) = "ERASE"
      BY <1>3, <1>5, <1>8, <3>1 DEF ManagerType, Final
    <3>. QED BY <1>8, <2>1, <2>3, <3>2
  <2>4. CASE Obsoleters(p) # {}
    <3>1. base \in OldTypes
      BY <1>1, <1>8, <2>4
    <3>2. base \notin Final
      BY <3>1 DEF OldTypes, Final
    <3>3. ManagerView(p) = IF obsoleted_by_pseudos_only(p) THEN "ERASE" ELSE "IGNORE"
      BY <1>3, <1>5, <1>8, <3>2 DEF ManagerType
    <3>. QED BY <1>8, <2>1, <2>2, <2>4, <3>3
  <2>. QED BY <2>3, <2>4
<1>. QED BY <1>1, <1>6, <1>7, <1>8, PackageFacts

\* What the call for p takes away.
Removes(p, x) ==
  \/ ManagerView(p) = "ERASE" /\ x = p
  \/ ManagerView(p) \in {"INSTALL", "MULTIINSTALL"} /\ x \in Obsoleted(p)

LEMMA ManagerStep ==
  ASSUME Given, InfoRight, NEW p \in transactsmap, NEW S, S \subseteq Pkgs
  PROVE  /\ Manager(S, p) \subseteq Pkgs
         /\ \A x \in RealPkgs(Pkgs) :
              x \in Manager(S, p) <=> (x \in S /\ ~Removes(p, x)) \/ (x = p /\ p \in New)
         /\ \A x \in RealPkgs(Pkgs) : Removes(p, x) => x \in Installed \cap transactsmap
<1>0. p \in Pkgs /\ (p \in New <=> p \notin Installed)
  BY BaseTypes, PackageFacts
<1>1. Range(transaction_all_obs_pkgs(p)) = IF p \in Installed THEN Obsoleters(p) ELSE Obsoleted(p)
  BY <1>0, PartnersListed
<1>2. Obsoleted(p) \subseteq Installed \cap transactsmap /\ (Obsoleted(p) # {} => p \in New)
  BY <1>0, InfoFacts
<1>3. /\ p \in New /\ ~is_pseudo_package(p) => ManagerView(p) \in {"INSTALL", "MULTIINSTALL"}
      /\ p \in Installed /\ ~is_pseudo_package(p) => ManagerView(p) \in {"ERASE", "IGNORE"}
      /\ is_pseudo_package(p) => ManagerView(p) = "IGNORE"
  BY ManagerTypes
<1>4. Manager(S, p) = CASE ManagerView(p) = "ERASE" -> S \ {p}
                        [] ManagerView(p) \in {"INSTALL", "MULTIINSTALL"} ->
                             (S \ Range(transaction_all_obs_pkgs(p))) \cup {p}
                        [] OTHER -> S
  BY DEF Manager, ManagerView
<1>5. CASE is_pseudo_package(p)
  <2>1. ManagerView(p) = "IGNORE"
    BY <1>3, <1>5
  <2>2. Manager(S, p) = S
    BY <1>4, <2>1
  <2>3. \A x \in RealPkgs(Pkgs) : x # p /\ ~Removes(p, x)
    BY <1>5, <2>1 DEF RealPkgs, Removes
  <2>. QED BY <2>2, <2>3
<1>6. CASE ~is_pseudo_package(p) /\ p \in New
  <2>1. ManagerView(p) \in {"INSTALL", "MULTIINSTALL"} /\ ManagerView(p) # "ERASE"
    BY <1>3, <1>6
  <2>2. Manager(S, p) = (S \ Obsoleted(p)) \cup {p}
    BY <1>0, <1>1, <1>4, <1>6, <2>1
  <2>3. \A x : Removes(p, x) <=> x \in Obsoleted(p)
    BY <2>1 DEF Removes
  <2>4. p \notin Obsoleted(p)
    BY <1>0, <1>2, <1>6
  <2>. QED BY <1>0, <1>2, <1>6, <2>2, <2>3, <2>4 DEF RealPkgs
<1>7. CASE ~is_pseudo_package(p) /\ p \in Installed
  <2>1. ManagerView(p) \in {"ERASE", "IGNORE"}
    BY <1>3, <1>7
  <2>2. \A x : Removes(p, x) <=> ManagerView(p) = "ERASE" /\ x = p
    BY <2>1 DEF Removes
  <2>3. Manager(S, p) = IF ManagerView(p) = "ERASE" THEN S \ {p} ELSE S
    BY <1>4, <2>1
  <2>. QED BY <1>0, <1>7, <2>2, <2>3 DEF RealPkgs
<1>. QED BY <1>0, <1>5, <1>6, <1>7

\* All calls together take away the real packages that are not to stay.
LEMMA EverythingRemoved ==
  ASSUME Given, InfoRight, NEW x \in Installed, ~is_pseudo_package(x)
  PROVE  (\E p \in transactsmap : Removes(p, x)) <=> x \in transactsmap
<1>1. x \in Pkgs /\ x \in RealPkgs(Pkgs)
  BY PackageFacts DEF RealPkgs
<1>2. ASSUME NEW p \in transactsmap, Removes(p, x)
      PROVE  x \in transactsmap
  <2>1. p \in Pkgs
    BY BaseTypes
  <2>. QED BY <1>2, <2>1, InfoFacts DEF Removes
<1>3. ASSUME x \in transactsmap
      PROVE  \E p \in transactsmap : Removes(p, x)
  <2>1. CASE \A q \in Obsoleters(x) : is_pseudo_package(q)
    <3>1. ManagerView(x) = "ERASE"
      BY <1>3, <2>1, ManagerTypes
    <3>. QED BY <1>3, <3>1 DEF Removes
  <2>2. CASE \E q \in Obsoleters(x) : ~is_pseudo_package(q)
    <3>1. PICK q \in Obsoleters(x) : ~is_pseudo_package(q)
      BY <2>2
    <3>2. q \in New \cap transactsmap /\ q \in Pkgs
      BY <1>1, <3>1, InfoFacts, PackageFacts
    <3>3. x \in Obsoleted(q)
      BY <1>1, <3>1, <3>2, InfoFacts
    <3>4. ManagerView(q) \in {"INSTALL", "MULTIINSTALL"}
      BY <3>1, <3>2, ManagerTypes
    <3>. QED BY <3>2, <3>3, <3>4 DEF Removes
  <2>. QED BY <2>1, <2>2
<1>. QED BY <1>2, <1>3

\* How the package manager goes through the steps.
ManagerSteps(f) ==
  f = [k \in 0 .. Len(steps) |-> IF k = 0 THEN Installed ELSE Manager(f[k - 1], steps[k])]

LEMMA ManagerStepsExist ==
  ASSUME Given, InfoRight, StepsRight
  PROVE  \E f : ManagerSteps(f)
<1> DEFINE n == Len(steps)
           h == [i \in 1 .. n |-> [S \in SUBSET Pkgs |-> Manager(S, steps[i])]]
<1>1. n \in Nat /\ Installed \in SUBSET Pkgs
  BY PackageFacts DEF StepsRight
<1>2. \A i \in 1 .. n : steps[i] \in transactsmap
  BY DEF StepsRight, Range
<1>3. \A i \in 1 .. n : \A S \in SUBSET Pkgs : Manager(S, steps[i]) \in SUBSET Pkgs
  BY <1>2, ManagerStep
<1>4. h \in [1 .. n -> [SUBSET Pkgs -> SUBSET Pkgs]]
  BY <1>3
<1>5. PICK f \in [0 .. n -> SUBSET Pkgs] : Stepwise(f, n, Installed, h)
  <2> HIDE DEF h, n
  <2>. QED BY <1>1, <1>4, StepsExist
<1> DEFINE F(i) == IF i = 0 THEN Installed ELSE Manager(f[i - 1], steps[i])
<1>6. ASSUME NEW i \in 0 .. n PROVE f[i] = F(i)
  <2>1. CASE i = 0
    BY <1>5, <2>1 DEF Stepwise
  <2>2. CASE i # 0
    <3>1. i \in 1 .. n /\ i - 1 \in 0 .. n
      BY <1>1, <2>2
    <3>2. f[i - 1] \in SUBSET Pkgs
      BY <3>1
    <3>3. h[i][f[i - 1]] = F(i)
      BY <2>2, <3>1, <3>2
    <3>. QED BY <1>5, <3>1, <3>3 DEF Stepwise
  <2>. QED BY <2>1, <2>2
<1>7. f = [i \in 0 .. n |-> F(i)]
  <2> HIDE DEF F
  <2>. QED BY <1>6
<1>. QED BY <1>7 DEF ManagerSteps

\* What is there after k calls.
AfterCalls(S, k) ==
  /\ S \subseteq Pkgs
  /\ \A x \in RealPkgs(Pkgs) :
       x \in S <=> \/ x \in Installed /\ \A j \in 1 .. k : ~Removes(steps[j], x)
                   \/ x \in New /\ \E j \in 1 .. k : steps[j] = x

LEMMA ManagerInduction ==
  ASSUME Given, InfoRight, StepsRight, NEW k \in Nat, k + 1 \in 1 .. Len(steps),
         NEW S, AfterCalls(S, k)
  PROVE  AfterCalls(Manager(S, steps[k + 1]), k + 1)
<1> DEFINE p == steps[k + 1]
           M == Manager(S, p)
<1>1. p \in transactsmap
  BY DEF StepsRight, Range
<1>2. S \subseteq Pkgs
  BY DEF AfterCalls
<1> HIDE DEF p, M
<1>3. /\ M \subseteq Pkgs
      /\ \A x \in RealPkgs(Pkgs) : x \in M <=> (x \in S /\ ~Removes(p, x)) \/ (x = p /\ p \in New)
      /\ \A x \in RealPkgs(Pkgs) : Removes(p, x) => x \in Installed
  BY <1>1, <1>2, ManagerStep DEF M
<1>4. \A j : j \in 1 .. k + 1 <=> j \in 1 .. k \/ j = k + 1
  OBVIOUS
<1>5. ASSUME NEW x \in RealPkgs(Pkgs)
      PROVE  x \in M <=> \/ x \in Installed /\ \A j \in 1 .. k + 1 : ~Removes(steps[j], x)
                         \/ x \in New /\ \E j \in 1 .. k + 1 : steps[j] = x
  <2>1. x \in S <=> \/ x \in Installed /\ \A j \in 1 .. k : ~Removes(steps[j], x)
                    \/ x \in New /\ \E j \in 1 .. k : steps[j] = x
    BY DEF AfterCalls
  <2>2. /\ x \in M <=> (x \in S /\ ~Removes(p, x)) \/ (x = p /\ p \in New)
        /\ Removes(p, x) => x \in Installed
    BY <1>3
  <2>3. x \in New <=> x \notin Installed
    BY PackageFacts DEF RealPkgs, New
  <2>4. (\A j \in 1 .. k + 1 : ~Removes(steps[j], x)) <=> (\A j \in 1 .. k : ~Removes(steps[j], x)) /\ ~Removes(p, x)
    BY <1>4 DEF p
  <2>5. (\E j \in 1 .. k + 1 : steps[j] = x) <=> (\E j \in 1 .. k : steps[j] = x) \/ p = x
    BY <1>4 DEF p
  <2>. QED BY <2>1, <2>2, <2>3, <2>4, <2>5
<1>6. AfterCalls(M, k + 1)
  BY <1>3, <1>5 DEF AfterCalls
<1>. QED BY <1>6 DEF M, p

LEMMA ManagerResult ==
  ASSUME Given, InfoRight, StepsRight
  PROVE  ManagerReachesResult
<1> DEFINE f == CHOOSE x : ManagerSteps(x)
           n == Len(steps)
<1>1. ManagerSteps(f)
  BY ManagerStepsExist, Zenon
<1>2. ManagerReachesResult <=>
        (~NoTransaction => RealPkgs(f[n]) = RealPkgs(transaction_installedresult))
  BY Zenon DEF ManagerReachesResult, ManagerSteps
<1> HIDE DEF f
<1>3. n \in Nat /\ Range(steps) = transactsmap /\ DOMAIN steps = 1 .. n
  BY DEF StepsRight
<1>4. f[0] = Installed /\ \A k \in 1 .. n : f[k] = Manager(f[k - 1], steps[k])
  <2>1. \A k \in 0 .. n : f[k] = IF k = 0 THEN Installed ELSE Manager(f[k - 1], steps[k])
    BY <1>1 DEF ManagerSteps
  <2>2. 0 \in 0 .. n /\ \A i \in 1 .. n : i \in 0 .. n /\ i # 0
    BY <1>3
  <2> HIDE DEF n
  <2>. QED BY <2>1, <2>2
<1> DEFINE T == {m \in 0 .. n : AfterCalls(f[m], m)}
<1>5. 0 \in T
  <2>1. AfterCalls(Installed, 0)
    BY PackageFacts DEF AfterCalls
  <2>. QED BY <1>3, <1>4, <2>1
<1>6. ASSUME NEW m \in 0 .. n - 1, m \in T PROVE m + 1 \in T
  <2>1. m \in Nat /\ m + 1 \in 1 .. n /\ m + 1 \in 0 .. n /\ (m + 1) - 1 = m
    BY <1>3
  <2>2. AfterCalls(f[m], m)
    BY <1>6
  <2>3. f[m + 1] = Manager(f[m], steps[m + 1])
    BY <1>4, <2>1
  <2>4. AfterCalls(Manager(f[m], steps[m + 1]), m + 1)
    <3> HIDE DEF T
    <3>. QED BY <2>1, <2>2, ManagerInduction
  <2>. QED BY <2>1, <2>3, <2>4
<1>7. n \in T
  <2> HIDE DEF T, n
  <2>1. \A k \in 0 .. n : k \in T
    BY <1>3, <1>5, <1>6, UpTo
  <2>. QED BY <1>3, <2>1
<1>8. AfterCalls(f[n], n)
  BY <1>7
<1>9. ASSUME NEW x
      PROVE  x \in RealPkgs(f[n]) <=> x \in RealPkgs(transaction_installedresult)
  <2>1. x \in RealPkgs(f[n]) => x \in RealPkgs(Pkgs)
    BY <1>8 DEF AfterCalls, RealPkgs
  <2>2. x \in RealPkgs(transaction_installedresult) => x \in RealPkgs(Pkgs)
    BY PackageFacts DEF transaction_installedresult, RealPkgs
  <2>3. ASSUME x \in RealPkgs(Pkgs)
        PROVE  x \in f[n] <=> x \in transaction_installedresult
    <3>1. x \in Pkgs /\ ~is_pseudo_package(x) /\ (x \in New <=> x \notin Installed)
      BY <2>3, PackageFacts DEF RealPkgs, New
    <3>2. x \in f[n] <=> \/ x \in Installed /\ \A j \in 1 .. n : ~Removes(steps[j], x)
                         \/ x \in New /\ \E j \in 1 .. n : steps[j] = x
      BY <1>8, <2>3 DEF AfterCalls
    <3>3. \A p : p \in transactsmap <=> \E j \in 1 .. n : steps[j] = p
      BY <1>3 DEF Range
    <3>4. CASE x \in Installed
      <4>1. (\A j \in 1 .. n : ~Removes(steps[j], x)) <=> x \notin transactsmap
        <5>1. (\E p \in transactsmap : Removes(p, x)) <=> x \in transactsmap
          BY <3>1, <3>4, EverythingRemoved
        <5>. QED BY <3>3, <5>1
      <4>2. x \in transaction_installedresult <=> x \notin transactsmap
        BY <3>1, <3>4 DEF transaction_installedresult
      <4>. QED BY <3>1, <3>2, <3>4, <4>1, <4>2
    <3>5. CASE x \in New
      <4>1. x \in transaction_installedresult <=> x \in transactsmap
        BY <1>3, <3>1, <3>5 DEF transaction_installedresult
      <4>. QED BY <3>1, <3>2, <3>3, <3>5, <4>1
    <3>. QED BY <3>1, <3>4, <3>5
  <2>. QED BY <2>1, <2>2, <2>3 DEF RealPkgs
<1>10. RealPkgs(f[n]) = RealPkgs(transaction_installedresult)
  BY <1>9
<1>. QED BY <1>2, <1>10

-----------------------------------------------------------------------------
(***************************************************************************)
(* The elements of the graph.                                              *)
(***************************************************************************)
\* The packages that are elements, and the elements that stand for a package.
Elements == {p \in transactsmap : p \in New \/ Obsoleters(p) = {}}

StandFor(p) == IF p \in New \/ Obsoleters(p) = {} THEN {p} ELSE Obsoleters(p)

LEMMA ElementFacts ==
  ASSUME Given, InfoRight, StepsRight
  PROVE  /\ TESeq \in Seq(Pkgs) /\ IsInjective(TESeq) /\ Range(TESeq) = Elements
         /\ Elements \subseteq transactsmap /\ transactsmap \subseteq Pkgs
         /\ \A p \in Pkgs : Elts(p) \in Seq(Pkgs) /\ Range(Elts(p)) = StandFor(p)
         /\ \A p \in transactsmap : StandFor(p) \subseteq Elements /\ StandFor(p) # {}
         /\ \A p \in Elements : StandFor(p) = {p}
<1>1. transactsmap \subseteq Pkgs /\ Elements \subseteq transactsmap
  BY DEF InfoRight, Elements
<1>2. TESeq \in Seq(Pkgs) /\ IsInjective(TESeq) /\ Range(TESeq) = Elements
  <2> DEFINE A == {p \in Pkgs : p \in New \/ transaction_installed(p) = 0}
  <2>1. steps \in Seq(Pkgs) /\ IsInjective(steps) /\ Range(steps) = transactsmap
    BY DEF StepsRight
  <2>2. Range(steps) \cap A = Elements
    BY <1>1, <2>1, InstalledFacts DEF Elements
  <2> HIDE DEF A
  <2>3. TESeq = Those(steps, A)
    BY DEF TESeq, A
  <2>. QED BY <2>1, <2>2, <2>3, ThoseFacts
<1>3. ASSUME NEW p \in Pkgs
      PROVE  Elts(p) \in Seq(Pkgs) /\ Range(Elts(p)) = StandFor(p)
  <2>1. p \in Installed <=> p \notin New
    BY PackageFacts
  <2>2. transaction_installed(p) = 0 <=> Obsoleters(p) = {}
    BY InstalledFacts
  <2>3. CASE p \in New \/ Obsoleters(p) = {}
    <3>1. Elts(p) = <<p>>
      BY <2>1, <2>2, <2>3 DEF Elts
    <3>2. <<p>> \in Seq(Pkgs) /\ Range(<<p>>) = {p}
      BY DEF Range
    <3>. QED BY <2>3, <3>1, <3>2 DEF StandFor
  <2>4. CASE ~(p \in New \/ Obsoleters(p) = {})
    <3>1. Elts(p) = transaction_all_obs_pkgs(p) /\ p \in Installed
      BY <2>1, <2>2, <2>4 DEF Elts
    <3>. QED BY <2>4, <3>1, PartnersListed DEF StandFor
  <2>. QED BY <2>3, <2>4
<1>4. \A p \in transactsmap : StandFor(p) \subseteq Elements /\ StandFor(p) # {}
  BY <1>1, InfoFacts DEF StandFor, Elements
<1>5. \A p \in Elements : StandFor(p) = {p}
  BY DEF StandFor, Elements
<1>. QED BY <1>1, <1>2, <1>3, <1>4, <1>5

\* The numbers of the elements.
LEMMA NumberFacts ==
  ASSUME Given, InfoRight, StepsRight
  PROVE  /\ Len(TESeq) \in Nat /\ DOMAIN TESeq = 1 .. Len(TESeq)
         /\ \A p \in Elements : TeOf(p) \in 1 .. Len(TESeq) /\ TESeq[TeOf(p)] = p
         /\ \A i \in 1 .. Len(TESeq) : TESeq[i] \in Elements /\ TeOf(TESeq[i]) = i
<1>1. TESeq \in Seq(Pkgs) /\ IsInjective(TESeq) /\ Range(TESeq) = Elements
  BY ElementFacts
<1>2. Len(TESeq) \in Nat /\ DOMAIN TESeq = 1 .. Len(TESeq)
  BY <1>1
<1>3. ASSUME NEW p \in Elements
      PROVE  TeOf(p) \in 1 .. Len(TESeq) /\ TESeq[TeOf(p)] = p
  <2>1. \E i \in DOMAIN TESeq : TESeq[i] = p
    BY <1>1 DEF Range
  <2>2. TeOf(p) \in DOMAIN TESeq /\ TESeq[TeOf(p)] = p
    BY <2>1, Zenon DEF TeOf
  <2>. QED BY <1>2, <2>2
<1>4. ASSUME NEW i \in 1 .. Len(TESeq)
      PROVE  TESeq[i] \in Elements /\ TeOf(TESeq[i]) = i
  <2>1. TESeq[i] \in Elements
    BY <1>1, <1>2 DEF Range
  <2>2. TeOf(TESeq[i]) \in 1 .. Len(TESeq) /\ TESeq[TeOf(TESeq[i])] = TESeq[i]
    BY <1>3, <2>1
  <2>. QED BY <1>1, <1>2, <2>1, <2>2 DEF IsInjective
<1>. QED BY <1>2, <1>3, <1>4

\* The addteedge calls of an addedge call.
TECall == (1 .. Len(TESeq)) \X (1 .. Len(TESeq)) \X SUBSET DepTypes

LEMMA AddedgeFacts ==
  ASSUME Given, InfoRight, StepsRight, NEW from \in Pkgs, NEW to \in Pkgs, NEW type \in SUBSET DepTypes
  PROVE  /\ addedge(from, to, type) \in Seq(TECall)
         /\ \A a \in StandFor(from) \cap Elements : \A c \in StandFor(to) \cap Elements :
              <<TeOf(a), TeOf(c), type>> \in Range(addedge(from, to, type))
<1> DEFINE fs == Those(Elts(from), Range(TESeq))
           ts == Those(Elts(to), Range(TESeq))
           row(i) == [j \in DOMAIN ts |-> <<TeOf(fs[i]), TeOf(ts[j]), type>>]
           ss == [i \in DOMAIN fs |-> row(i)]
<1>1. addedge(from, to, type) = FlattenSeq(ss)
  BY DEF addedge
<1>2. /\ Elts(from) \in Seq(Pkgs) /\ Range(Elts(from)) = StandFor(from)
      /\ Elts(to) \in Seq(Pkgs) /\ Range(Elts(to)) = StandFor(to)
      /\ Range(TESeq) = Elements
  BY ElementFacts
<1> HIDE DEF fs, ts
<1>3. /\ fs \in Seq(Pkgs) /\ Range(fs) = StandFor(from) \cap Elements
      /\ ts \in Seq(Pkgs) /\ Range(ts) = StandFor(to) \cap Elements
  BY <1>2, ThoseFacts DEF fs, ts
<1>4. /\ DOMAIN fs = 1 .. Len(fs) /\ Len(fs) \in Nat
      /\ DOMAIN ts = 1 .. Len(ts) /\ Len(ts) \in Nat
      /\ \A i \in DOMAIN fs : fs[i] \in Elements
      /\ \A j \in DOMAIN ts : ts[j] \in Elements
  BY <1>3 DEF Range
<1>5. ASSUME NEW i \in DOMAIN fs
      PROVE  row(i) \in Seq(TECall)
  <2>1. \A j \in DOMAIN ts : <<TeOf(fs[i]), TeOf(ts[j]), type>> \in TECall
    BY <1>4, NumberFacts DEF TECall
  <2> HIDE DEF TECall
  <2>. QED BY <1>4, <2>1
<1>6. ss \in Seq(Seq(TECall)) /\ Len(ss) = Len(fs)
  <2> HIDE DEF row, TECall
  <2>. QED BY <1>4, <1>5
<1>7. ASSUME NEW a \in StandFor(from) \cap Elements, NEW c \in StandFor(to) \cap Elements
      PROVE  \E i \in 1 .. Len(ss) : <<TeOf(a), TeOf(c), type>> \in Range(ss[i])
  <2>1. PICK i \in DOMAIN fs : fs[i] = a
    BY <1>3 DEF Range
  <2>2. PICK j \in DOMAIN ts : ts[j] = c
    BY <1>3 DEF Range
  <2>3. ss[i] = row(i) /\ row(i)[j] = <<TeOf(a), TeOf(c), type>> /\ j \in DOMAIN row(i)
    BY <2>1, <2>2
  <2>4. <<TeOf(a), TeOf(c), type>> \in Range(ss[i])
    <3> HIDE DEF ss, row
    <3>. QED BY <2>3 DEF Range
  <2>5. i \in 1 .. Len(ss)
    BY <1>4, <1>6, <2>1
  <2>. QED BY <2>4, <2>5
<1> HIDE DEF ss
<1>8. /\ FlattenSeq(ss) \in Seq(TECall)
      /\ \A x : x \in Range(FlattenSeq(ss)) <=> \E i \in 1 .. Len(ss) : x \in Range(ss[i])
  BY <1>6, FlattenFacts
<1>. QED BY <1>1, <1>7, <1>8

-----------------------------------------------------------------------------
(***************************************************************************)
(* The edges of the packages.                                              *)
(***************************************************************************)
Depends == HasDependencies(pool)

\* An addedge call.
PackageCall == Pkgs \X Pkgs \X SUBSET DepTypes

\* One of the calls makes package a wait for package b.
Waits(calls, a, b) == \E t : <<a, b, t>> \in Range(calls)

LEMMA FlattenEach ==
  ASSUME NEW n \in Nat, NEW K, NEW ss, ss = [i \in 1 .. n |-> ss[i]], \A i \in 1 .. n : ss[i] \in Seq(K)
  PROVE  /\ FlattenSeq(ss) \in Seq(K)
         /\ \A i \in 1 .. n : \A x \in Range(ss[i]) : x \in Range(FlattenSeq(ss))
<1>1. ss \in Seq(Seq(K)) /\ Len(ss) = n
  OBVIOUS
<1>2. /\ FlattenSeq(ss) \in Seq(K)
      /\ \A x : x \in Range(FlattenSeq(ss)) <=> \E i \in 1 .. Len(ss) : x \in Range(ss[i])
  BY <1>1, FlattenFacts
<1>. QED BY <1>1, <1>2

LEMMA CallsTo ==
  ASSUME NEW p \in Pkgs, NEW q \in Seq(Pkgs), NEW t \in SUBSET DepTypes
  PROVE  LET calls == [j \in DOMAIN q |-> <<p, q[j], t>>]
         IN  calls \in Seq(PackageCall) /\ \A x \in Range(q) : Waits(calls, p, x)
<1> DEFINE calls == [j \in DOMAIN q |-> <<p, q[j], t>>]
<1>1. DOMAIN q = 1 .. Len(q) /\ Len(q) \in Nat /\ \A j \in DOMAIN q : <<p, q[j], t>> \in PackageCall
  BY DEF PackageCall
<1>2. calls \in Seq(PackageCall)
  <2> HIDE DEF PackageCall
  <2>. QED BY <1>1
<1>3. ASSUME NEW x \in Range(q)
      PROVE  Waits(calls, p, x)
  <2>1. PICK j \in DOMAIN q : q[j] = x
    BY DEF Range
  <2>2. calls[j] = <<p, x, t>> /\ j \in DOMAIN calls
    BY <2>1
  <2> HIDE DEF calls
  <2>3. <<p, x, t>> \in Range(calls)
    BY <2>2 DEF Range
  <2>. QED BY <2>3 DEF Waits
<1>. QED BY <1>2, <1>3

LEMMA CallsFrom ==
  ASSUME NEW p \in Pkgs, NEW q \in Seq(Pkgs), NEW t \in SUBSET DepTypes
  PROVE  LET calls == [j \in DOMAIN q |-> <<q[j], p, t>>]
         IN  calls \in Seq(PackageCall) /\ \A x \in Range(q) : Waits(calls, x, p)
<1> DEFINE calls == [j \in DOMAIN q |-> <<q[j], p, t>>]
<1>1. DOMAIN q = 1 .. Len(q) /\ Len(q) \in Nat /\ \A j \in DOMAIN q : <<q[j], p, t>> \in PackageCall
  BY DEF PackageCall
<1>2. calls \in Seq(PackageCall)
  <2> HIDE DEF PackageCall
  <2>. QED BY <1>1
<1>3. ASSUME NEW x \in Range(q)
      PROVE  Waits(calls, x, p)
  <2>1. PICK j \in DOMAIN q : q[j] = x
    BY DEF Range
  <2>2. calls[j] = <<x, p, t>> /\ j \in DOMAIN calls
    BY <2>1
  <2> HIDE DEF calls
  <2>3. <<x, p, t>> \in Range(calls)
    BY <2>2 DEF Range
  <2>. QED BY <2>3 DEF Waits
<1>. QED BY <1>2, <1>3

\* Calls that are among others.
LEMMA WaitsConcat ==
  ASSUME NEW s \in Seq(PackageCall), NEW u \in Seq(PackageCall)
  PROVE  /\ s \o u \in Seq(PackageCall)
         /\ \A a, b : Waits(s \o u, a, b) <=> Waits(s, a, b) \/ Waits(u, a, b)
<1>1. s \o u \in Seq(PackageCall) /\ Range(s \o u) = Range(s) \cup Range(u)
  <2> HIDE DEF PackageCall
  <2>. QED BY ConcatFacts
<1>. QED BY <1>1 DEF Waits

\* What EachDep puts together.
LEMMA EachFacts ==
  ASSUME NEW n \in Nat, NEW ss, ss = [i \in 1 .. n |-> ss[i]], \A i \in 1 .. n : ss[i] \in Seq(PackageCall)
  PROVE  /\ FlattenSeq(ss) \in Seq(PackageCall)
         /\ \A i \in 1 .. n : \A a, b : Waits(ss[i], a, b) => Waits(FlattenSeq(ss), a, b)
<1>1. /\ FlattenSeq(ss) \in Seq(PackageCall)
      /\ \A i \in 1 .. n : \A x \in Range(ss[i]) : x \in Range(FlattenSeq(ss))
  <2> HIDE DEF PackageCall
  <2>. QED BY FlattenEach
<1>. QED BY <1>1 DEF Waits

\* The types of the calls.
LEMMA CallTypes ==
  \A t \in DepTypes : {t} \in SUBSET DepTypes
OBVIOUS

Requirement == [prv : SUBSET Pkgs, pre : BOOLEAN, script : BOOLEAN, ignoreinst : BOOLEAN]

LEMMA DependsFacts ==
  ASSUME Depends, NEW p \in Pkgs
  PROVE  /\ pool.requires[p] \in Seq(Requirement)
         /\ pool.conflicts[p] \in Seq(SUBSET Pkgs) /\ pool.triggers[p] \in Seq(SUBSET Pkgs)
         /\ pool.recommends[p] \in Seq(SUBSET Pkgs) /\ pool.suggests[p] \in Seq(SUBSET Pkgs)
         /\ pool.orderwithrequires[p] \in Seq(SUBSET Pkgs)
         /\ pool.repo[p] \in Nat \ {0} /\ pool.medianr[p] \in Nat
<1> DEFINE Deps == [Pkgs -> Seq(SUBSET Pkgs)]
<1>1. /\ pool.requires \in [Pkgs -> Seq(Requirement)]
      /\ pool.conflicts \in Deps /\ pool.recommends \in Deps /\ pool.suggests \in Deps
      /\ pool.triggers \in Deps /\ pool.orderwithrequires \in Deps
      /\ pool.repo \in [Pkgs -> Nat \ {0}] /\ pool.medianr \in [Pkgs -> Nat]
  BY DEF Depends, HasDependencies, Pkgs, Requirement
<1> HIDE DEF Requirement
<1>. QED BY <1>1

\* The providers of a dependency that are in the transaction.
Providers(S, A) == InIdOrder(S \cap transactsmap \cap A)

LEMMA ProvidersFacts ==
  ASSUME Given, NEW S, NEW A, S \subseteq Pkgs
  PROVE  /\ Providers(S, A) \in Seq(Pkgs) /\ Range(Providers(S, A)) = S \cap transactsmap \cap A
         /\ Providers(S, A) # <<>> <=> S \cap transactsmap \cap A # {}
<1>1. S \cap transactsmap \cap A \subseteq Pkgs
  OBVIOUS
<1>2. /\ Providers(S, A) \in Seq(S \cap transactsmap \cap A)
      /\ Range(Providers(S, A)) = S \cap transactsmap \cap A
  BY <1>1, InIdOrderFacts DEF Providers
<1>3. Providers(S, A) \in Seq(Pkgs)
  BY <1>1, <1>2, SeqGrows
<1>4. Providers(S, A) # <<>> <=> S \cap transactsmap \cap A # {}
  BY <1>2, <1>3 DEF Range
<1>. QED BY <1>2, <1>3, <1>4

\* The calls for a requirement.
LEMMA RequiresFacts ==
  ASSUME Given, InfoRight, NEW p \in Pkgs, NEW r \in Requirement
  PROVE  LET calls == RequiresEdges(p, r)
             N1 == r.prv \cap transactsmap \cap New
             O1 == r.prv \cap transactsmap \cap Installed
         IN  /\ calls \in Seq(PackageCall)
             /\ p \in New /\ p \notin r.prv => \A q \in N1 : Waits(calls, p, q)
             /\ p \in Installed /\ p \notin r.prv /\ ~(r.pre /\ r.ignoreinst) =>
                  /\ \A q \in N1 : Waits(calls, p, q)
                  /\ N1 = {} /\ r.prv \cap (Installed \ transactsmap) = {} /\ havescriptsLeft(p) =>
                       \A q \in O1 : Waits(calls, q, p)
<1> DEFINE N1 == r.prv \cap transactsmap \cap New
           O1 == r.prv \cap transactsmap \cap Installed
           news == Providers(r.prv, New)
           olds == Providers(r.prv, Installed)
           provbyinst == r.prv \cap (Installed \ transactsmap) # {}
           req == IF r.pre THEN {TYPE_PREREQ} ELSE {TYPE_REQ}
           ui == IF r.pre THEN {TYPE_PREREQ_UI} ELSE {TYPE_REQ_UI}
           uu == IF r.pre THEN {TYPE_PREREQ_UU} ELSE {TYPE_REQ_UU}
           other(i) == Those(news, {q \in New : transaction_installed(olds[i]) # q})
           between(i) == [j \in DOMAIN other(i) |-> <<olds[i], other(i)[j], ui>>]
           ss == [i \in DOMAIN olds |-> between(i)]
           inter == FlattenSeq(ss)
           rs == {q \in Installed : \/ transaction_installed(q) = 0
                                    \/ transaction_installed(p) = 0
                                    \/ havescriptsLeft(p)}
           reverse == Those(olds, rs)
           toNew == [j \in DOMAIN news |-> <<p, news[j], req>>]
           toNewUI == [j \in DOMAIN news |-> <<p, news[j], ui>>]
           toOld == [j \in DOMAIN reverse |-> <<reverse[j], p, uu>>]
           calls == RequiresEdges(p, r)
<1>1. calls = IF p \in r.prv \/ (p \in Installed /\ r.pre /\ r.ignoreinst) THEN <<>>
              ELSE IF p \in New THEN toNew
              ELSE IF provbyinst \/ news # <<>> THEN (IF provbyinst THEN <<>> ELSE inter) \o toNewUI
              ELSE toOld
  BY DEF RequiresEdges, Providers
<1>2. r.prv \subseteq Pkgs
  BY DEF Requirement
<1>3. req \in SUBSET DepTypes /\ ui \in SUBSET DepTypes /\ uu \in SUBSET DepTypes
  BY DEF DepTypes
<1> HIDE DEF news, olds, req, ui, uu, rs
<1>4. /\ news \in Seq(Pkgs) /\ Range(news) = N1 /\ (news # <<>> <=> N1 # {})
      /\ olds \in Seq(Pkgs) /\ Range(olds) = O1
  BY <1>2, ProvidersFacts DEF news, olds
<1> HIDE DEF toNew, toNewUI, toOld, reverse
<1>5. toNew \in Seq(PackageCall) /\ \A q \in N1 : Waits(toNew, p, q)
  BY <1>3, <1>4, CallsTo DEF toNew
<1>6. toNewUI \in Seq(PackageCall) /\ \A q \in N1 : Waits(toNewUI, p, q)
  BY <1>3, <1>4, CallsTo DEF toNewUI
<1>7. reverse \in Seq(Pkgs) /\ Range(reverse) = O1 \cap rs
  BY <1>4, ThoseFacts DEF reverse
<1>8. toOld \in Seq(PackageCall) /\ \A q \in O1 \cap rs : Waits(toOld, q, p)
  BY <1>3, <1>7, CallsFrom DEF toOld
<1>9. inter \in Seq(PackageCall)
  <2>1. Len(olds) \in Nat /\ DOMAIN olds = 1 .. Len(olds) /\ \A i \in DOMAIN olds : olds[i] \in Pkgs
    BY <1>4
  <2>2. ASSUME NEW i \in DOMAIN olds
        PROVE  between(i) \in Seq(PackageCall)
    <3> HIDE DEF other
    <3>1. other(i) \in Seq(Pkgs)
      BY <1>4, ThoseFacts DEF other
    <3>. QED BY <1>3, <2>1, <3>1, CallsTo
  <2> HIDE DEF between
  <2>3. ss = [i \in 1 .. Len(olds) |-> ss[i]] /\ \A i \in 1 .. Len(olds) : ss[i] \in Seq(PackageCall)
    BY <2>1, <2>2
  <2> HIDE DEF ss
  <2>. QED BY <2>1, <2>3, EachFacts
<1> HIDE DEF inter, calls
<1>10. <<>> \in Seq(PackageCall)
  OBVIOUS
<1>11. /\ inter \o toNewUI \in Seq(PackageCall) /\ <<>> \o toNewUI = toNewUI
       /\ \A q \in N1 : Waits(inter \o toNewUI, p, q)
  BY <1>6, <1>9, WaitsConcat
<1>12. calls \in Seq(PackageCall)
  BY <1>1, <1>5, <1>6, <1>8, <1>10, <1>11
<1>13. p \in New /\ p \notin r.prv => \A q \in N1 : Waits(calls, p, q)
  BY <1>1, <1>5 DEF New
<1>14. ASSUME p \in Installed, p \notin r.prv, ~(r.pre /\ r.ignoreinst)
       PROVE  /\ \A q \in N1 : Waits(calls, p, q)
              /\ N1 = {} /\ ~provbyinst /\ havescriptsLeft(p) => \A q \in O1 : Waits(calls, q, p)
  <2>1. p \notin New
    BY <1>14 DEF New
  <2>2. calls = IF provbyinst \/ news # <<>> THEN (IF provbyinst THEN <<>> ELSE inter) \o toNewUI ELSE toOld
    BY <1>1, <1>14, <2>1
  <2>3. \A q \in N1 : Waits(calls, p, q)
    BY <1>4, <1>6, <1>11, <2>2
  <2>4. ASSUME N1 = {}, ~provbyinst, havescriptsLeft(p)
        PROVE  \A q \in O1 : Waits(calls, q, p)
    <3>1. O1 \cap rs = O1
      BY <2>4 DEF rs
    <3>2. calls = toOld
      BY <1>4, <2>2, <2>4
    <3>. QED BY <1>8, <3>1, <3>2
  <2>. QED BY <2>3, <2>4
<1>. QED BY <1>12, <1>13, <1>14 DEF calls

LEMMA InOrderFacts ==
  ASSUME Given, NEW S, S \subseteq Pkgs
  PROVE  InIdOrder(S) \in Seq(Pkgs) /\ Range(InIdOrder(S)) = S
<1>1. InIdOrder(S) \in Seq(S) /\ Range(InIdOrder(S)) = S
  BY InIdOrderFacts
<1>. QED BY <1>1, SeqGrows

LEMMA ConflictsFacts ==
  ASSUME Given, InfoRight, NEW p \in Pkgs, NEW S \in SUBSET Pkgs
  PROVE  LET calls == ConflictsEdges(p, S)
         IN  /\ calls \in Seq(PackageCall)
             /\ p \in Installed => \A x \in S \cap transactsmap \cap New : Waits(calls, x, p)
             /\ p \in New => \A x \in S \cap transactsmap \cap Installed : Waits(calls, p, x)
<1> DEFINE A == {x \in (S \ {p}) \cap transactsmap : (x \in New) = (p \in Installed)}
           q == InIdOrder(A)
<1>1. A \subseteq Pkgs
  OBVIOUS
<1>2. /\ p \in Installed => S \cap transactsmap \cap New \subseteq A
      /\ p \in New => S \cap transactsmap \cap Installed \subseteq A
  <2>1. ASSUME p \in Installed, NEW x \in S \cap transactsmap \cap New
        PROVE  x \in A
    <3>1. x # p /\ x \in New
      BY <2>1 DEF New
    <3>. QED BY <2>1, <3>1
  <2>2. ASSUME p \in New, NEW x \in S \cap transactsmap \cap Installed
        PROVE  x \in A
    <3>1. x # p /\ x \notin New /\ p \notin Installed
      BY <2>2 DEF New
    <3>. QED BY <2>2, <3>1
  <2>. QED BY <2>1, <2>2
<1> HIDE DEF A
<1>3. q \in Seq(Pkgs) /\ Range(q) = A
  BY <1>1, InOrderFacts
<1> HIDE DEF q
<1>4. {TYPE_CON} \in SUBSET DepTypes
  BY DEF DepTypes
<1>5. ConflictsEdges(p, S) = [j \in DOMAIN q |-> IF p \in Installed THEN <<q[j], p, {TYPE_CON}>>
                                                                   ELSE <<p, q[j], {TYPE_CON}>>]
  BY DEF ConflictsEdges, q, A
<1>6. CASE p \in Installed
  <2>1. ConflictsEdges(p, S) = [j \in DOMAIN q |-> <<q[j], p, {TYPE_CON}>>] /\ p \notin New
    BY <1>5, <1>6 DEF New
  <2>2. ConflictsEdges(p, S) \in Seq(PackageCall) /\ \A x \in A : Waits(ConflictsEdges(p, S), x, p)
    BY <1>3, <1>4, <2>1, CallsFrom
  <2>. QED BY <1>2, <1>6, <2>1, <2>2
<1>7. CASE p \notin Installed
  <2>1. ConflictsEdges(p, S) = [j \in DOMAIN q |-> <<p, q[j], {TYPE_CON}>>]
    BY <1>5, <1>7
  <2>2. ConflictsEdges(p, S) \in Seq(PackageCall) /\ \A x \in A : Waits(ConflictsEdges(p, S), p, x)
    BY <1>3, <1>4, <2>1, CallsTo
  <2>. QED BY <1>2, <1>7, <2>2
<1>. QED BY <1>6, <1>7

LEMMA TriggersFacts ==
  ASSUME Given, InfoRight, NEW p \in Pkgs, NEW S \in SUBSET Pkgs
  PROVE  LET calls == TriggersEdges(p, S)
         IN  /\ calls \in Seq(PackageCall)
             /\ \A x \in (S \ {p}) \cap transactsmap \cap New : ~SameName(x, p) => Waits(calls, x, p)
<1> DEFINE A == {x \in (S \ {p}) \cap transactsmap \cap New : ~SameName(x, p)}
           q == InIdOrder(A)
<1>1. A \subseteq Pkgs
  OBVIOUS
<1> HIDE DEF A
<1>2. q \in Seq(Pkgs) /\ Range(q) = A
  BY <1>1, InOrderFacts
<1> HIDE DEF q
<1>3. {TYPE_CON} \in SUBSET DepTypes
  BY DEF DepTypes
<1>4. TriggersEdges(p, S) = [j \in DOMAIN q |-> <<q[j], p, {TYPE_CON}>>]
  BY DEF TriggersEdges, q, A
<1>5. TriggersEdges(p, S) \in Seq(PackageCall) /\ \A x \in A : Waits(TriggersEdges(p, S), x, p)
  BY <1>2, <1>3, <1>4, CallsFrom
<1>. QED BY <1>5 DEF A

LEMMA WeakFacts ==
  ASSUME Given, InfoRight, NEW p \in Pkgs, NEW S \in SUBSET Pkgs, NEW type \in DepTypes
  PROVE  LET calls == WeakEdges(p, S, type)
         IN  /\ calls \in Seq(PackageCall)
             /\ p \notin S => \A x \in S \cap transactsmap \cap New : Waits(calls, p, x)
<1> DEFINE A == S \cap transactsmap \cap New
           q == IF p \in S THEN <<>> ELSE InIdOrder(A)
<1>1. A \subseteq Pkgs
  OBVIOUS
<1> HIDE DEF A
<1>2. q \in Seq(Pkgs) /\ (p \notin S => Range(q) = A)
  BY <1>1, InOrderFacts
<1> HIDE DEF q
<1>3. {type} \in SUBSET DepTypes
  OBVIOUS
<1>4. WeakEdges(p, S, type) = [j \in DOMAIN q |-> <<p, q[j], {type}>>]
  BY DEF WeakEdges, q, A
<1>5. WeakEdges(p, S, type) \in Seq(PackageCall) /\ \A x \in Range(q) : Waits(WeakEdges(p, S, type), p, x)
  BY <1>2, <1>3, <1>4, CallsTo
<1>. QED BY <1>2, <1>5 DEF A

LEMMA OrderWithFacts ==
  ASSUME Given, InfoRight, NEW p \in Pkgs, NEW S \in SUBSET Pkgs
  PROVE  LET calls == OrderWithEdges(p, S)
         IN  /\ calls \in Seq(PackageCall)
             /\ \A x \in (S \ {p}) \cap transactsmap \cap New : Waits(calls, p, x)
<1> DEFINE A == (S \ {p}) \cap transactsmap \cap New
           q == InIdOrder(A)
<1>1. A \subseteq Pkgs
  OBVIOUS
<1> HIDE DEF A
<1>2. q \in Seq(Pkgs) /\ Range(q) = A
  BY <1>1, InOrderFacts
<1> HIDE DEF q
<1>3. {TYPE_REQ} \in SUBSET DepTypes
  BY DEF DepTypes
<1>4. OrderWithEdges(p, S) = [j \in DOMAIN q |-> <<p, q[j], {TYPE_REQ}>>]
  BY DEF OrderWithEdges, q, A
<1>5. OrderWithEdges(p, S) \in Seq(PackageCall) /\ \A x \in A : Waits(OrderWithEdges(p, S), p, x)
  BY <1>2, <1>3, <1>4, CallsTo
<1>. QED BY <1>5 DEF A

LEMMA DepCalls ==
  ASSUME NEW D, NEW deps \in Seq(D), NEW ss, ss = [i \in DOMAIN deps |-> ss[i]],
         \A i \in DOMAIN deps : ss[i] \in Seq(PackageCall)
  PROVE  /\ FlattenSeq(ss) \in Seq(PackageCall)
         /\ \A i \in DOMAIN deps : \A a, b : Waits(ss[i], a, b) => Waits(FlattenSeq(ss), a, b)
<1>1. DOMAIN deps = 1 .. Len(deps) /\ Len(deps) \in Nat
  OBVIOUS
<1>. QED BY <1>1, EachFacts

\* What addsolvableedges does for a package.
EdgesRight(p, calls) ==
  /\ \A r \in Range(pool.requires[p]) :
       LET N1 == r.prv \cap transactsmap \cap New
           O1 == r.prv \cap transactsmap \cap Installed
       IN  /\ p \in New /\ p \notin r.prv => \A q \in N1 : Waits(calls, p, q)
           /\ p \in Installed /\ p \notin r.prv /\ ~(r.pre /\ r.ignoreinst) =>
                /\ \A q \in N1 : Waits(calls, p, q)
                /\ N1 = {} /\ r.prv \cap (Installed \ transactsmap) = {} /\ havescriptsLeft(p) =>
                     \A q \in O1 : Waits(calls, q, p)
  /\ \A S \in Range(pool.conflicts[p]) :
       /\ p \in Installed => \A x \in S \cap transactsmap \cap New : Waits(calls, x, p)
       /\ p \in New => \A x \in S \cap transactsmap \cap Installed : Waits(calls, p, x)
  /\ p \in Installed =>
       \A S \in Range(pool.triggers[p]) :
         \A x \in (S \ {p}) \cap transactsmap \cap New : ~SameName(x, p) => Waits(calls, x, p)
  /\ p \notin Installed =>
       /\ \A S \in Range(pool.recommends[p]) \cup Range(pool.suggests[p]) :
            p \notin S => \A x \in S \cap transactsmap \cap New : Waits(calls, p, x)
       /\ \A S \in Range(pool.orderwithrequires[p]) :
            \A x \in (S \ {p}) \cap transactsmap \cap New : Waits(calls, p, x)

LEMMA AddsolvableedgesFacts ==
  ASSUME Given, InfoRight, Depends, NEW p \in Pkgs
  PROVE  /\ addsolvableedges(p) \in Seq(PackageCall)
         /\ EdgesRight(p, addsolvableedges(p))
<1> DEFINE req == pool.requires[p]
           con == pool.conflicts[p]
           tri == pool.triggers[p]
           rec == pool.recommends[p]
           sug == pool.suggests[p]
           ord == pool.orderwithrequires[p]
           sreq == [i \in DOMAIN req |-> RequiresEdges(p, req[i])]
           scon == [i \in DOMAIN con |-> ConflictsEdges(p, con[i])]
           stri == [i \in DOMAIN tri |-> TriggersEdges(p, tri[i])]
           srec == [i \in DOMAIN rec |-> WeakEdges(p, rec[i], TYPE_REC)]
           ssug == [i \in DOMAIN sug |-> WeakEdges(p, sug[i], TYPE_SUG)]
           sord == [i \in DOMAIN ord |-> OrderWithEdges(p, ord[i])]
           creq == FlattenSeq(sreq)
           ccon == FlattenSeq(scon)
           ctri == FlattenSeq(stri)
           crec == FlattenSeq(srec)
           csug == FlattenSeq(ssug)
           cord == FlattenSeq(sord)
           calls == addsolvableedges(p)
<1>1. calls = (creq \o ccon) \o (IF p \in Installed THEN ctri ELSE (crec \o csug) \o cord)
  BY DEF addsolvableedges, EachDep
<1>2. /\ req \in Seq(Requirement) /\ con \in Seq(SUBSET Pkgs) /\ tri \in Seq(SUBSET Pkgs)
      /\ rec \in Seq(SUBSET Pkgs) /\ sug \in Seq(SUBSET Pkgs) /\ ord \in Seq(SUBSET Pkgs)
  BY DependsFacts
<1>3. /\ \A i \in DOMAIN req : req[i] \in Requirement
      /\ \A i \in DOMAIN con : con[i] \in SUBSET Pkgs
      /\ \A i \in DOMAIN tri : tri[i] \in SUBSET Pkgs
      /\ \A i \in DOMAIN rec : rec[i] \in SUBSET Pkgs
      /\ \A i \in DOMAIN sug : sug[i] \in SUBSET Pkgs
      /\ \A i \in DOMAIN ord : ord[i] \in SUBSET Pkgs
  BY <1>2
<1>4. TYPE_REC \in DepTypes /\ TYPE_SUG \in DepTypes
  BY DEF DepTypes
<1> HIDE DEF req, con, tri, rec, sug, ord, Requirement, PackageCall, EdgesRight, calls
<1>5. /\ \A i \in DOMAIN req : RequiresEdges(p, req[i]) \in Seq(PackageCall)
      /\ \A i \in DOMAIN con : ConflictsEdges(p, con[i]) \in Seq(PackageCall)
      /\ \A i \in DOMAIN tri : TriggersEdges(p, tri[i]) \in Seq(PackageCall)
      /\ \A i \in DOMAIN rec : WeakEdges(p, rec[i], TYPE_REC) \in Seq(PackageCall)
      /\ \A i \in DOMAIN sug : WeakEdges(p, sug[i], TYPE_SUG) \in Seq(PackageCall)
      /\ \A i \in DOMAIN ord : OrderWithEdges(p, ord[i]) \in Seq(PackageCall)
  BY <1>3, <1>4, RequiresFacts, ConflictsFacts, TriggersFacts, WeakFacts, OrderWithFacts
<1> DEFINE Among(deps, ss, cs) ==
             /\ cs \in Seq(PackageCall)
             /\ \A i \in DOMAIN deps : \A a, b : Waits(ss[i], a, b) => Waits(cs, a, b)
<1>6. Among(req, sreq, creq)
  <2>1. sreq = [i \in DOMAIN req |-> sreq[i]] /\ \A i \in DOMAIN req : sreq[i] \in Seq(PackageCall)
    BY <1>5
  <2> HIDE DEF sreq
  <2>. QED BY <1>2, <2>1, DepCalls
<1>7. Among(con, scon, ccon)
  <2>1. scon = [i \in DOMAIN con |-> scon[i]] /\ \A i \in DOMAIN con : scon[i] \in Seq(PackageCall)
    BY <1>5
  <2> HIDE DEF scon
  <2>. QED BY <1>2, <2>1, DepCalls
<1>8. Among(tri, stri, ctri)
  <2>1. stri = [i \in DOMAIN tri |-> stri[i]] /\ \A i \in DOMAIN tri : stri[i] \in Seq(PackageCall)
    BY <1>5
  <2> HIDE DEF stri
  <2>. QED BY <1>2, <2>1, DepCalls
<1>9. Among(rec, srec, crec)
  <2>1. srec = [i \in DOMAIN rec |-> srec[i]] /\ \A i \in DOMAIN rec : srec[i] \in Seq(PackageCall)
    BY <1>5
  <2> HIDE DEF srec
  <2>. QED BY <1>2, <2>1, DepCalls
<1>10. Among(sug, ssug, csug)
  <2>1. ssug = [i \in DOMAIN sug |-> ssug[i]] /\ \A i \in DOMAIN sug : ssug[i] \in Seq(PackageCall)
    BY <1>5
  <2> HIDE DEF ssug
  <2>. QED BY <1>2, <2>1, DepCalls
<1>11. Among(ord, sord, cord)
  <2>1. sord = [i \in DOMAIN ord |-> sord[i]] /\ \A i \in DOMAIN ord : sord[i] \in Seq(PackageCall)
    BY <1>5
  <2> HIDE DEF sord
  <2>. QED BY <1>2, <2>1, DepCalls
<1>12. /\ \A i \in DOMAIN req : \A a, b : Waits(RequiresEdges(p, req[i]), a, b) => Waits(creq, a, b)
       /\ \A i \in DOMAIN con : \A a, b : Waits(ConflictsEdges(p, con[i]), a, b) => Waits(ccon, a, b)
       /\ \A i \in DOMAIN tri : \A a, b : Waits(TriggersEdges(p, tri[i]), a, b) => Waits(ctri, a, b)
       /\ \A i \in DOMAIN rec : \A a, b : Waits(WeakEdges(p, rec[i], TYPE_REC), a, b) => Waits(crec, a, b)
       /\ \A i \in DOMAIN sug : \A a, b : Waits(WeakEdges(p, sug[i], TYPE_SUG), a, b) => Waits(csug, a, b)
       /\ \A i \in DOMAIN ord : \A a, b : Waits(OrderWithEdges(p, ord[i]), a, b) => Waits(cord, a, b)
  <2> HIDE DEF creq, ccon, ctri, crec, csug, cord
  <2>. QED BY <1>6, <1>7, <1>8, <1>9, <1>10, <1>11
<1>13. /\ creq \in Seq(PackageCall) /\ ccon \in Seq(PackageCall) /\ ctri \in Seq(PackageCall)
       /\ crec \in Seq(PackageCall) /\ csug \in Seq(PackageCall) /\ cord \in Seq(PackageCall)
  <2> HIDE DEF sreq, scon, stri, srec, ssug, sord, creq, ccon, ctri, crec, csug, cord
  <2>. QED BY <1>6, <1>7, <1>8, <1>9, <1>10, <1>11
<1> HIDE DEF sreq, scon, stri, srec, ssug, sord, creq, ccon, ctri, crec, csug, cord
<1> DEFINE base == creq \o ccon
           weak == (crec \o csug) \o cord
<1>14. base \in Seq(PackageCall) /\ \A a, b : Waits(creq, a, b) \/ Waits(ccon, a, b) => Waits(base, a, b)
  BY <1>13, WaitsConcat
<1>15. /\ weak \in Seq(PackageCall)
       /\ \A a, b : Waits(crec, a, b) \/ Waits(csug, a, b) \/ Waits(cord, a, b) => Waits(weak, a, b)
  <2>1. /\ crec \o csug \in Seq(PackageCall)
        /\ \A a, b : Waits(crec, a, b) \/ Waits(csug, a, b) => Waits(crec \o csug, a, b)
    BY <1>13, WaitsConcat
  <2>. QED BY <1>13, <2>1, WaitsConcat
<1> HIDE DEF base, weak
<1>16. /\ calls \in Seq(PackageCall)
       /\ \A a, b : Waits(creq, a, b) \/ Waits(ccon, a, b) => Waits(calls, a, b)
       /\ p \in Installed => \A a, b : Waits(ctri, a, b) => Waits(calls, a, b)
       /\ p \notin Installed =>
            \A a, b : Waits(crec, a, b) \/ Waits(csug, a, b) \/ Waits(cord, a, b) => Waits(calls, a, b)
  <2>1. calls = base \o (IF p \in Installed THEN ctri ELSE weak)
    BY <1>1 DEF base, weak
  <2>2. CASE p \in Installed
    <3>1. calls = base \o ctri
      BY <2>1, <2>2
    <3>2. /\ calls \in Seq(PackageCall)
          /\ \A a, b : Waits(calls, a, b) <=> Waits(base, a, b) \/ Waits(ctri, a, b)
      BY <1>13, <1>14, <3>1, WaitsConcat
    <3>. QED BY <1>14, <2>2, <3>2
  <2>3. CASE p \notin Installed
    <3>1. calls = base \o weak
      BY <2>1, <2>3
    <3>2. /\ calls \in Seq(PackageCall)
          /\ \A a, b : Waits(calls, a, b) <=> Waits(base, a, b) \/ Waits(weak, a, b)
      BY <1>14, <1>15, <3>1, WaitsConcat
    <3>. QED BY <1>14, <1>15, <2>3, <3>2
  <2>. QED BY <2>2, <2>3
<1>17. ASSUME NEW r \in Range(req)
       PROVE  LET N1 == r.prv \cap transactsmap \cap New
                  O1 == r.prv \cap transactsmap \cap Installed
              IN  /\ p \in New /\ p \notin r.prv => \A q \in N1 : Waits(calls, p, q)
                  /\ p \in Installed /\ p \notin r.prv /\ ~(r.pre /\ r.ignoreinst) =>
                       /\ \A q \in N1 : Waits(calls, p, q)
                       /\ N1 = {} /\ r.prv \cap (Installed \ transactsmap) = {} /\ havescriptsLeft(p) =>
                            \A q \in O1 : Waits(calls, q, p)
  <2>1. PICK i \in DOMAIN req : req[i] = r
    BY DEF Range
  <2>2. r \in Requirement
    BY <1>3, <2>1
  <2>3. \A a, b : Waits(RequiresEdges(p, r), a, b) => Waits(calls, a, b)
    BY <1>12, <1>16, <2>1
  <2> DEFINE N1 == r.prv \cap transactsmap \cap New
             O1 == r.prv \cap transactsmap \cap Installed
             cs == RequiresEdges(p, r)
  <2>4. /\ p \in New /\ p \notin r.prv => \A q \in N1 : Waits(cs, p, q)
        /\ p \in Installed /\ p \notin r.prv /\ ~(r.pre /\ r.ignoreinst) =>
             /\ \A q \in N1 : Waits(cs, p, q)
             /\ N1 = {} /\ r.prv \cap (Installed \ transactsmap) = {} /\ havescriptsLeft(p) =>
                  \A q \in O1 : Waits(cs, q, p)
    BY <2>2, RequiresFacts
  <2> HIDE DEF N1, O1, cs
  <2>5. /\ p \in New /\ p \notin r.prv => \A q \in N1 : Waits(calls, p, q)
        /\ p \in Installed /\ p \notin r.prv /\ ~(r.pre /\ r.ignoreinst) =>
             /\ \A q \in N1 : Waits(calls, p, q)
             /\ N1 = {} /\ r.prv \cap (Installed \ transactsmap) = {} /\ havescriptsLeft(p) =>
                  \A q \in O1 : Waits(calls, q, p)
    BY <2>3, <2>4 DEF cs
  <2>. QED BY <2>5 DEF N1, O1
<1>18. ASSUME NEW S \in Range(con)
       PROVE  /\ p \in Installed => \A x \in S \cap transactsmap \cap New : Waits(calls, x, p)
              /\ p \in New => \A x \in S \cap transactsmap \cap Installed : Waits(calls, p, x)
  <2>1. PICK i \in DOMAIN con : con[i] = S
    BY DEF Range
  <2>2. S \in SUBSET Pkgs
    BY <1>3, <2>1
  <2>3. \A a, b : Waits(ConflictsEdges(p, S), a, b) => Waits(calls, a, b)
    BY <1>12, <1>16, <2>1
  <2>. QED BY <2>2, <2>3, ConflictsFacts
<1>19. ASSUME p \in Installed, NEW S \in Range(tri)
       PROVE  \A x \in (S \ {p}) \cap transactsmap \cap New : ~SameName(x, p) => Waits(calls, x, p)
  <2>1. PICK i \in DOMAIN tri : tri[i] = S
    BY DEF Range
  <2>2. S \in SUBSET Pkgs
    BY <1>3, <2>1
  <2>3. \A a, b : Waits(TriggersEdges(p, S), a, b) => Waits(calls, a, b)
    BY <1>12, <1>16, <1>19, <2>1
  <2>. QED BY <2>2, <2>3, TriggersFacts
<1>20. ASSUME p \notin Installed, NEW S \in Range(rec) \cup Range(sug)
       PROVE  p \notin S => \A x \in S \cap transactsmap \cap New : Waits(calls, p, x)
  <2>1. CASE S \in Range(rec)
    <3>1. PICK i \in DOMAIN rec : rec[i] = S
      BY <2>1 DEF Range
    <3>2. S \in SUBSET Pkgs
      BY <1>3, <3>1
    <3>3. \A a, b : Waits(WeakEdges(p, S, TYPE_REC), a, b) => Waits(calls, a, b)
      BY <1>12, <1>16, <1>20, <3>1
    <3>. QED BY <1>4, <3>2, <3>3, WeakFacts
  <2>2. CASE S \in Range(sug)
    <3>1. PICK i \in DOMAIN sug : sug[i] = S
      BY <2>2 DEF Range
    <3>2. S \in SUBSET Pkgs
      BY <1>3, <3>1
    <3>3. \A a, b : Waits(WeakEdges(p, S, TYPE_SUG), a, b) => Waits(calls, a, b)
      BY <1>12, <1>16, <1>20, <3>1
    <3>. QED BY <1>4, <3>2, <3>3, WeakFacts
  <2>. QED BY <1>20, <2>1, <2>2
<1>21. ASSUME p \notin Installed, NEW S \in Range(ord)
       PROVE  \A x \in (S \ {p}) \cap transactsmap \cap New : Waits(calls, p, x)
  <2>1. PICK i \in DOMAIN ord : ord[i] = S
    BY DEF Range
  <2>2. S \in SUBSET Pkgs
    BY <1>3, <2>1
  <2>3. \A a, b : Waits(OrderWithEdges(p, S), a, b) => Waits(calls, a, b)
    BY <1>12, <1>16, <1>21, <2>1
  <2>. QED BY <2>2, <2>3, OrderWithFacts
<1>22. EdgesRight(p, calls)
  BY <1>17, <1>18, <1>19, <1>20, <1>21 DEF EdgesRight, req, con, tri, rec, sug, ord
<1>. QED BY <1>16, <1>22 DEF calls

-----------------------------------------------------------------------------
(***************************************************************************)
(* The graph.                                                              *)
(***************************************************************************)
\* The calls make every package of the transaction wait for what it depends
\* on, ...
WaitsRight(all) == \A p \in transactsmap : EdgesRight(p, all)

\* ... and become calls for the elements that stand for the packages.
GraphWaits(all, calls) ==
  \A a, b : Waits(all, a, b) =>
    \A i, j \in 1 .. Len(TESeq) : TESeq[i] \in StandFor(a) /\ TESeq[j] \in StandFor(b) =>
      \E k \in DOMAIN calls : calls[k][1] = i /\ calls[k][2] = j

LEMMA EdgesMore ==
  ASSUME NEW p, NEW s, NEW u, EdgesRight(p, s), \A a, b : Waits(s, a, b) => Waits(u, a, b)
  PROVE  EdgesRight(p, u)
<1> DEFINE req == pool.requires[p]
           con == pool.conflicts[p]
           tri == pool.triggers[p]
           weak == Range(pool.recommends[p]) \cup Range(pool.suggests[p])
           owr == pool.orderwithrequires[p]
<1> HIDE DEF req, con, tri, weak, owr
<1>1. EdgesRight(p, s) /\ \A a, b : Waits(s, a, b) => Waits(u, a, b)
  OBVIOUS
<1>. QED BY <1>1, Zenon DEF EdgesRight, req, con, tri, weak, owr

LEMMA GraphFacts ==
  ASSUME Given, InfoRight, Depends, StepsRight
  PROVE  /\ IsGraph(TransactionGraph)
         /\ TransactionGraph.n = Len(TESeq)
         /\ \E all : WaitsRight(all) /\ GraphWaits(all, TransactionGraph.calls)
<1> DEFINE n == Len(TESeq)
           sp == [i \in DOMAIN steps |-> addsolvableedges(steps[i])]
           calls == FlattenSeq(sp)
           st == [k \in DOMAIN calls |-> addedge(calls[k][1], calls[k][2], calls[k][3])]
           tecalls == FlattenSeq(st)
           G == TransactionGraph
<1>1. G = [n |-> n, calls |-> tecalls,
           el |-> [uninst |-> {i \in DOMAIN TESeq : TESeq[i] \in Installed},
                   scripts |-> {i \in DOMAIN TESeq : havescripts(TESeq[i])},
                   repo |-> [i \in DOMAIN TESeq |-> pool.repo[TESeq[i]]],
                   media |-> [i \in DOMAIN TESeq |-> IF TESeq[i] \in Installed THEN 1
                                                     ELSE pool.medianr[TESeq[i]]]]]
  BY DEF TransactionGraph
<1> HIDE DEF G
<1>2. /\ G.n = n /\ G.calls = tecalls
      /\ G.el.uninst = {i \in DOMAIN TESeq : TESeq[i] \in Installed}
      /\ G.el.scripts = {i \in DOMAIN TESeq : havescripts(TESeq[i])}
      /\ G.el.repo = [i \in DOMAIN TESeq |-> pool.repo[TESeq[i]]]
      /\ G.el.media = [i \in DOMAIN TESeq |-> IF TESeq[i] \in Installed THEN 1 ELSE pool.medianr[TESeq[i]]]
  <2> HIDE DEF n, tecalls
  <2>. QED BY <1>1
<1>3. /\ n \in Nat /\ DOMAIN TESeq = 1 .. n
      /\ \A i \in 1 .. n : TESeq[i] \in Elements
      /\ Elements \subseteq Pkgs
  BY NumberFacts, ElementFacts
<1> HIDE DEF n
<1>4. /\ G.el.repo \in [1 .. n -> Nat \ {0}] /\ G.el.media \in [1 .. n -> Nat]
      /\ G.el.uninst \subseteq 1 .. n /\ G.el.scripts \subseteq 1 .. n
  <2>1. \A i \in 1 .. n : pool.repo[TESeq[i]] \in Nat \ {0} /\ pool.medianr[TESeq[i]] \in Nat
    BY <1>3, DependsFacts
  <2>. QED BY <1>2, <1>3, <2>1
<1>5. /\ calls \in Seq(PackageCall)
      /\ \A p \in transactsmap : \A a, b, t :
           <<a, b, t>> \in Range(addsolvableedges(p)) => <<a, b, t>> \in Range(calls)
  <2>1. /\ steps \in Seq(Pkgs) /\ Range(steps) = transactsmap
        /\ DOMAIN steps = 1 .. Len(steps) /\ Len(steps) \in Nat
    BY DEF StepsRight
  <2>2. \A i \in DOMAIN steps : steps[i] \in Pkgs
    BY <2>1
  <2>3. \A i \in DOMAIN steps : addsolvableedges(steps[i]) \in Seq(PackageCall)
    BY <2>2, AddsolvableedgesFacts
  <2>4. sp = [i \in 1 .. Len(steps) |-> sp[i]] /\ \A i \in 1 .. Len(steps) : sp[i] \in Seq(PackageCall)
    BY <2>1, <2>3
  <2>5. \A p \in transactsmap : \E i \in 1 .. Len(steps) : sp[i] = addsolvableedges(p)
    BY <2>1 DEF Range
  <2> HIDE DEF sp, PackageCall
  <2>6. /\ FlattenSeq(sp) \in Seq(PackageCall)
        /\ \A i \in 1 .. Len(steps) : \A x \in Range(sp[i]) : x \in Range(FlattenSeq(sp))
    BY <2>1, <2>4, FlattenEach
  <2>. QED BY <2>5, <2>6
<1> HIDE DEF calls
<1>6. DOMAIN calls = 1 .. Len(calls) /\ Len(calls) \in Nat /\ \A k \in DOMAIN calls : calls[k] \in PackageCall
  <2> HIDE DEF PackageCall
  <2>. QED BY <1>5
<1>7. \A k \in DOMAIN calls : /\ calls[k][1] \in Pkgs /\ calls[k][2] \in Pkgs
                              /\ calls[k][3] \in SUBSET DepTypes
  BY <1>6 DEF PackageCall
<1>8. /\ tecalls \in Seq(TECall)
      /\ \A k \in DOMAIN calls :
           \A x \in Range(addedge(calls[k][1], calls[k][2], calls[k][3])) : x \in Range(tecalls)
  <2>1. \A k \in DOMAIN calls : addedge(calls[k][1], calls[k][2], calls[k][3]) \in Seq(TECall)
    BY <1>7, AddedgeFacts
  <2>2. /\ st = [k \in 1 .. Len(calls) |-> st[k]] /\ \A k \in 1 .. Len(calls) : st[k] \in Seq(TECall)
        /\ \A k \in DOMAIN calls : st[k] = addedge(calls[k][1], calls[k][2], calls[k][3])
    BY <1>6, <2>1
  <2> HIDE DEF st, TECall
  <2>3. /\ FlattenSeq(st) \in Seq(TECall)
        /\ \A k \in 1 .. Len(calls) : \A x \in Range(st[k]) : x \in Range(FlattenSeq(st))
    BY <1>6, <2>2, FlattenEach
  <2>. QED BY <1>6, <2>2, <2>3
<1> HIDE DEF tecalls
<1>9. ASSUME NEW a, NEW b, Waits(calls, a, b), NEW i \in 1 .. n, NEW j \in 1 .. n,
             TESeq[i] \in StandFor(a), TESeq[j] \in StandFor(b)
      PROVE  \E k \in DOMAIN tecalls : tecalls[k][1] = i /\ tecalls[k][2] = j
  <2>1. PICK t : <<a, b, t>> \in Range(calls)
    BY <1>9 DEF Waits
  <2>2. PICK k \in DOMAIN calls : calls[k] = <<a, b, t>>
    BY <2>1 DEF Range
  <2>3. a \in Pkgs /\ b \in Pkgs /\ t \in SUBSET DepTypes
        /\ calls[k][1] = a /\ calls[k][2] = b /\ calls[k][3] = t
    BY <1>7, <2>2
  <2>4. TESeq[i] \in Elements /\ TESeq[j] \in Elements /\ TeOf(TESeq[i]) = i /\ TeOf(TESeq[j]) = j
    BY NumberFacts DEF n
  <2>5. <<TeOf(TESeq[i]), TeOf(TESeq[j]), t>> \in Range(addedge(a, b, t))
    BY <1>9, <2>3, <2>4, AddedgeFacts
  <2>6. <<i, j, t>> \in Range(tecalls)
    BY <1>8, <2>3, <2>4, <2>5
  <2>7. PICK m \in DOMAIN tecalls : tecalls[m] = <<i, j, t>>
    BY <2>6 DEF Range
  <2>. QED BY <2>7
<1>10. WaitsRight(calls) /\ GraphWaits(calls, tecalls)
  <2>1. ASSUME NEW p \in transactsmap
        PROVE  EdgesRight(p, calls)
    <3>1. p \in Pkgs
      BY ElementFacts
    <3>2. EdgesRight(p, addsolvableedges(p))
      BY <3>1, AddsolvableedgesFacts
    <3>3. \A a, b : Waits(addsolvableedges(p), a, b) => Waits(calls, a, b)
      BY <1>5 DEF Waits
    <3>. QED BY <3>2, <3>3, EdgesMore
  <2>. QED BY <1>9, <2>1 DEF WaitsRight, GraphWaits, n
<1>11. IsGraph(G)
  <2>1. tecalls \in Seq((1 .. n) \X (1 .. n) \X SUBSET DepTypes)
    BY <1>8 DEF TECall, n
  <2>. QED BY <1>2, <1>3, <1>4, <2>1 DEF IsGraph
<1>. QED BY <1>2, <1>10, <1>11 DEF G, n

-----------------------------------------------------------------------------
(***************************************************************************)
(* The packages that are put back: they come in blocks, each an element    *)
(* and the packages that are erased with it.                               *)
(***************************************************************************)
\* seq has the elements, each once.
Arranged(seq) == seq \in Seq(Elements) /\ IsInjective(seq) /\ Range(seq) = Elements

\* The block of a package: that of the first element that stands for it.
Block(seq, x) == Min({i \in DOMAIN seq : seq[i] \in StandFor(x)})

LEMMA BlockFacts ==
  ASSUME Given, InfoRight, StepsRight, NEW seq, Arranged(seq), NEW x \in transactsmap
  PROVE  /\ Block(seq, x) \in 1 .. Len(seq)
         /\ seq[Block(seq, x)] \in StandFor(x)
         /\ \A i \in 1 .. Len(seq) : seq[i] \in StandFor(x) => Block(seq, x) <= i
<1> DEFINE I == {i \in DOMAIN seq : seq[i] \in StandFor(x)}
<1>1. DOMAIN seq = 1 .. Len(seq) /\ Len(seq) \in Nat /\ Range(seq) = Elements
  BY DEF Arranged
<1>2. StandFor(x) \subseteq Elements /\ StandFor(x) # {}
  BY ElementFacts
<1>3. I # {} /\ I \subseteq Nat
  BY <1>1, <1>2 DEF Range
<1>4. Min(I) \in I /\ \A i \in I : Min(I) <= i
  <2> HIDE DEF I
  <2>. QED BY <1>3, MinIn
<1>. QED BY <1>1, <1>4 DEF Block

LEMMA ElementBlock ==
  ASSUME Given, InfoRight, StepsRight, NEW seq, Arranged(seq), NEW k \in 1 .. Len(seq)
  PROVE  seq[k] \in Elements /\ seq[k] \in transactsmap /\ Block(seq, seq[k]) = k
<1>1. seq \in Seq(Elements) /\ DOMAIN seq = 1 .. Len(seq) /\ seq[k] \in Elements
  BY DEF Arranged
<1>2. seq[k] \in transactsmap /\ StandFor(seq[k]) = {seq[k]}
  BY <1>1, ElementFacts
<1>3. Block(seq, seq[k]) \in 1 .. Len(seq) /\ seq[Block(seq, seq[k])] = seq[k]
  BY <1>2, BlockFacts
<1>. QED BY <1>1, <1>2, <1>3 DEF Arranged, IsInjective

\* What elements 1 to k and the packages erased with them make.
InBlocks(s, seq, k) ==
  /\ s \in Seq(transactsmap) /\ IsInjective(s)
  /\ \A x \in transactsmap : x \in Range(s) <=> Block(seq, x) <= k
  /\ \A i, j \in 1 .. Len(s) : i < j =>
       /\ Block(seq, s[i]) <= Block(seq, s[j])
       /\ Block(seq, s[i]) = Block(seq, s[j]) => s[j] \notin Elements

\* What is put back after element p.
PutBack(s, p) == IF p \in Installed THEN <<>>
                 ELSE Those(transaction_all_obs_pkgs(p), transactsmap \ Range(s))

LEMMA PutBackFacts ==
  ASSUME Given, InfoRight, NEW s, NEW p \in Pkgs
  PROVE  /\ PutBack(s, p) \in Seq(transactsmap) /\ IsInjective(PutBack(s, p))
         /\ Range(PutBack(s, p)) = Obsoleted(p) \ Range(s)
<1> DEFINE t == PutBack(s, p)
           all == transaction_all_obs_pkgs(p)
           A == transactsmap \ Range(s)
<1>1. /\ Obsoleted(p) \subseteq Installed \cap transactsmap
      /\ Obsoleted(p) # {} => p \in New
  BY InfoFacts
<1>2. CASE p \in Installed
  <2>1. t = <<>> /\ Obsoleted(p) = {}
    BY <1>1, <1>2 DEF PutBack, New
  <2>2. Range(<<>>) = {} /\ IsInjective(<<>>) /\ <<>> \in Seq(transactsmap)
    BY DEF Range, IsInjective
  <2>. QED BY <2>1, <2>2
<1>3. CASE p \notin Installed
  <2>1. all \in Seq(Pkgs) /\ IsInjective(all) /\ Range(all) = Obsoleted(p)
    BY <1>3, PartnersListed
  <2>2. t = Those(all, A)
    BY <1>3 DEF PutBack
  <2> HIDE DEF A, t, all
  <2>3. t \in Seq(Pkgs) /\ IsInjective(t) /\ Range(t) = Obsoleted(p) \cap A
    BY <2>1, <2>2, ThoseFacts
  <2>4. Range(t) = Obsoleted(p) \ Range(s) /\ Range(t) \subseteq transactsmap
    BY <1>1, <2>3 DEF A
  <2>5. t \in Seq(transactsmap)
    <3>1. \A i \in 1 .. Len(t) : t[i] \in transactsmap
      BY <2>3, <2>4 DEF Range
    <3>. QED BY <2>3, <3>1
  <2>. QED BY <2>3, <2>4, <2>5 DEF t
<1>. QED BY <1>2, <1>3

LEMMA BlockAdded ==
  ASSUME Given, InfoRight, StepsRight, NEW seq, Arranged(seq),
         NEW k \in Nat, k + 1 \in 1 .. Len(seq), NEW s, InBlocks(s, seq, k)
  PROVE  InBlocks(WithObsoleted(s, seq[k + 1]), seq, k + 1)
<1> DEFINE p == seq[k + 1]
           t == PutBack(s, p)
           u == (s \o <<p>>) \o t
           l == Len(s)
<1>1. WithObsoleted(s, p) = u
  BY DEF WithObsoleted, PutBack
<1>2. p \in Elements /\ p \in transactsmap /\ Block(seq, p) = k + 1 /\ p \in Pkgs
  BY ElementBlock, ElementFacts
<1>3. /\ t \in Seq(transactsmap) /\ IsInjective(t) /\ Range(t) = Obsoleted(p) \ Range(s)
  BY <1>2, PutBackFacts
<1>4. /\ s \in Seq(transactsmap) /\ IsInjective(s)
      /\ \A x \in transactsmap : x \in Range(s) <=> Block(seq, x) <= k
  BY DEF InBlocks
<1>5. \A x \in transactsmap : Block(seq, x) \in Nat
  BY BlockFacts
<1>6. ASSUME NEW x \in transactsmap
      PROVE  x \in Range(t) <=> x # p /\ Block(seq, x) = k + 1
  <2>1. x \in Pkgs /\ (x \in New <=> x \notin Installed)
    BY ElementFacts, PackageFacts
  <2>2. ASSUME x \in Range(t)
        PROVE  x # p /\ Block(seq, x) = k + 1
    <3>1. x \in Obsoleted(p) /\ x \notin Range(s)
      BY <1>3, <2>2
    <3>2. p \in Obsoleters(x) /\ x \in Installed /\ p \in New
      BY <1>2, <2>1, <3>1, InfoFacts
    <3>3. p \in StandFor(x) /\ x # p
      BY <2>1, <3>2 DEF StandFor
    <3>4. Block(seq, x) <= k + 1
      BY <3>3, BlockFacts
    <3>5. ~(Block(seq, x) <= k)
      BY <1>4, <3>1
    <3>6. Block(seq, x) = k + 1
      BY <1>5, <3>4, <3>5
    <3>. QED BY <3>3, <3>6
  <2>3. ASSUME x # p, Block(seq, x) = k + 1
        PROVE  x \in Range(t)
    <3>1. p \in StandFor(x)
      BY <2>3, BlockFacts
    <3>2. p \in Obsoleters(x)
      BY <2>3, <3>1 DEF StandFor
    <3>3. x \in Obsoleted(p)
      BY <1>2, <2>1, <3>2, InfoFacts
    <3>4. x \notin Range(s)
      BY <1>4, <2>3
    <3>. QED BY <1>3, <3>3, <3>4
  <2>. QED BY <2>2, <2>3
<1>7. \A x \in Range(t) : x \in transactsmap /\ x \notin Elements
  <2>1. Obsoleted(p) \subseteq Installed \cap transactsmap
    BY <1>2, InfoFacts
  <2>2. ASSUME NEW x \in Range(t)
        PROVE  x \notin Elements
    <3>1. x \in Obsoleted(p) /\ x \in Installed /\ x \in Pkgs
      BY <1>3, <2>1, <2>2, PackageFacts
    <3>2. Obsoleters(x) # {}
      BY <1>2, <3>1, InfoFacts
    <3>. QED BY <3>1, <3>2 DEF Elements, New
  <2>. QED BY <1>3, <2>1, <2>2
<1> HIDE DEF p, t, u
<1>8. /\ s \o <<p>> \in Seq(transactsmap) /\ IsInjective(s \o <<p>>)
      /\ Range(s \o <<p>>) = Range(s) \cup {p}
  <2>1. s \o <<p>> = Append(s, p)
    BY <1>2, <1>4
  <2>2. p \notin Range(s)
    BY <1>2, <1>4
  <2>3. /\ Append(s, p) \in Seq(transactsmap) /\ Range(Append(s, p)) = Range(s) \cup {p}
        /\ IsInjective(s) /\ p \notin Range(s) => IsInjective(Append(s, p))
    BY <1>2, <1>4, AppendFacts
  <2>. QED BY <1>4, <2>1, <2>2, <2>3
<1>9. /\ u \in Seq(transactsmap) /\ IsInjective(u) /\ Range(u) = (Range(s) \cup {p}) \cup Range(t)
  <2>1. (Range(s) \cup {p}) \cap Range(t) = {}
    BY <1>3, <1>6, <1>7
  <2> DEFINE v == s \o <<p>>
  <2>2. v \in Seq(transactsmap) /\ IsInjective(v) /\ Range(v) = Range(s) \cup {p} /\ u = v \o t
    BY <1>8 DEF u
  <2> HIDE DEF v
  <2>3. /\ v \o t \in Seq(transactsmap) /\ Range(v \o t) = Range(v) \cup Range(t)
        /\ IsInjective(v) /\ IsInjective(t) /\ Range(v) \cap Range(t) = {} => IsInjective(v \o t)
    BY <1>3, <2>2, ConcatFacts
  <2>. QED BY <1>3, <2>1, <2>2, <2>3
<1>10. \A x \in transactsmap : x \in Range(u) <=> Block(seq, x) <= k + 1
  <2>1. ASSUME NEW x \in transactsmap
        PROVE  x \in Range(u) <=> Block(seq, x) <= k + 1
    <3>1. Block(seq, x) <= k + 1 <=> Block(seq, x) <= k \/ Block(seq, x) = k + 1
      BY <1>5
    <3>. QED BY <1>2, <1>4, <1>6, <1>9, <3>1
  <2>. QED BY <2>1
<1>11. /\ l \in Nat /\ Len(t) \in Nat /\ Len(u) = l + 1 + Len(t)
       /\ \A i \in 1 .. l : u[i] = s[i]
       /\ u[l + 1] = p
       /\ \A i \in l + 2 .. Len(u) : u[i] = t[i - l - 1] /\ i - l - 1 \in 1 .. Len(t)
  BY <1>2, <1>3, <1>4, <1>8 DEF u
<1>12. \A i \in 1 .. l : Block(seq, u[i]) <= k /\ u[i] \in transactsmap
  <2>1. \A i \in 1 .. l : s[i] \in transactsmap /\ s[i] \in Range(s)
    BY <1>4 DEF Range
  <2>. QED BY <1>4, <1>11, <2>1
<1>13. \A i \in l + 2 .. Len(u) : Block(seq, u[i]) = k + 1 /\ u[i] \notin Elements
  <2>1. \A i \in 1 .. Len(t) : t[i] \in Range(t)
    BY <1>3 DEF Range
  <2>. QED BY <1>6, <1>7, <1>11, <2>1
<1>14. ASSUME NEW i \in 1 .. Len(u), NEW j \in 1 .. Len(u), i < j
       PROVE  /\ Block(seq, u[i]) <= Block(seq, u[j])
              /\ Block(seq, u[i]) = Block(seq, u[j]) => u[j] \notin Elements
  <2>1. CASE j \in 1 .. l
    <3>1. i \in 1 .. l /\ u[i] = s[i] /\ u[j] = s[j]
      BY <1>11, <1>14, <2>1
    <3>. QED BY <1>14, <2>1, <3>1 DEF InBlocks
  <2>2. CASE j \in l + 1 .. Len(u) /\ i \in 1 .. l
    <3>1. Block(seq, u[j]) = k + 1
      <4> DEFINE m == Len(u)
      <4>0. l \in Nat /\ m \in Nat /\ j \in l + 1 .. m
        BY <1>11, <2>2
      <4>1. j = l + 1 \/ j \in l + 2 .. Len(u)
        <5> HIDE DEF l, m
        <5>1. j = l + 1 \/ j \in l + 2 .. m
          BY <4>0
        <5>. QED BY <5>1 DEF m
      <4>. QED BY <1>2, <1>11, <1>13, <4>1
    <3>2. Block(seq, u[i]) <= k /\ Block(seq, u[i]) \in Nat
      BY <1>5, <1>12, <2>2
    <3>. QED BY <3>1, <3>2
  <2>3. CASE i \in l + 1 .. Len(u)
    <3>1. j \in l + 2 .. Len(u) /\ (i = l + 1 \/ i \in l + 2 .. Len(u))
      <4> DEFINE m == Len(u)
      <4>1. l \in Nat /\ m \in Nat /\ i \in l + 1 .. m /\ j \in 1 .. m /\ i < j
        BY <1>11, <1>14, <2>3
      <4> HIDE DEF l, m
      <4>2. j \in l + 2 .. m /\ (i = l + 1 \/ i \in l + 2 .. m)
        BY <4>1
      <4>. QED BY <4>2 DEF m
    <3>2. Block(seq, u[i]) = k + 1
      BY <1>2, <1>11, <1>13, <3>1
    <3>. QED BY <1>13, <3>1, <3>2
  <2>. QED BY <1>11, <1>14, <2>1, <2>2, <2>3
<1>15. InBlocks(u, seq, k + 1)
  BY <1>9, <1>10, <1>14 DEF InBlocks
<1>. QED BY <1>1, <1>15 DEF p

\* How transaction_add_obsoleted goes through the elements.
BlockSteps(f, seq) ==
  f = [k \in 0 .. Len(seq) |-> IF k = 0 THEN <<>> ELSE WithObsoleted(f[k - 1], seq[k])]

LEMMA BlockStepsExist ==
  ASSUME Given, InfoRight, StepsRight, NEW seq, Arranged(seq)
  PROVE  \E f : BlockSteps(f, seq)
<1> DEFINE n == Len(seq)
           X == Seq(transactsmap)
           h == [i \in 1 .. n |-> [s \in X |-> WithObsoleted(s, seq[i])]]
<1>1. n \in Nat /\ <<>> \in X
  BY DEF Arranged
<1>2. \A i \in 1 .. n : seq[i] \in transactsmap /\ seq[i] \in Pkgs
  BY ElementBlock, ElementFacts
<1>3. ASSUME NEW i \in 1 .. n, NEW s \in X PROVE WithObsoleted(s, seq[i]) \in X
  <2> DEFINE p == seq[i]
             t == PutBack(s, p)
  <2>1. p \in transactsmap /\ t \in Seq(transactsmap)
    BY <1>2, PutBackFacts
  <2>2. WithObsoleted(s, p) = (s \o <<p>>) \o t
    BY DEF WithObsoleted, PutBack
  <2> HIDE DEF p, t
  <2>3. (s \o <<p>>) \o t \in Seq(transactsmap)
    BY <2>1, <1>3
  <2>. QED BY <2>2, <2>3 DEF p
<1>4. h \in [1 .. n -> [X -> X]]
  <2> HIDE DEF X
  <2>. QED BY <1>3
<1>5. PICK f \in [0 .. n -> X] : Stepwise(f, n, <<>>, h)
  <2> HIDE DEF h, n, X
  <2>. QED BY <1>1, <1>4, StepsExist
<1> DEFINE F(i) == IF i = 0 THEN <<>> ELSE WithObsoleted(f[i - 1], seq[i])
<1>6. ASSUME NEW i \in 0 .. n PROVE f[i] = F(i)
  <2>1. CASE i = 0
    BY <1>5, <2>1 DEF Stepwise
  <2>2. CASE i # 0
    <3>1. i \in 1 .. n /\ i - 1 \in 0 .. n
      BY <1>1, <2>2
    <3>2. f[i - 1] \in X
      BY <3>1
    <3>3. h[i][f[i - 1]] = F(i)
      <4> HIDE DEF X
      <4>. QED BY <2>2, <3>1, <3>2
    <3>. QED BY <1>5, <3>1, <3>3 DEF Stepwise
  <2>. QED BY <2>1, <2>2
<1>7. f = [i \in 0 .. n |-> F(i)]
  <2> HIDE DEF F
  <2>. QED BY <1>6
<1>. QED BY <1>7 DEF BlockSteps

\* transaction_add_obsoleted makes the blocks of all elements.
LEMMA AddObsoletedFacts ==
  ASSUME Given, InfoRight, StepsRight, NEW seq, Arranged(seq)
  PROVE  InBlocks(transaction_add_obsoleted(seq), seq, Len(seq))
<1> DEFINE f == CHOOSE x : BlockSteps(x, seq)
           n == Len(seq)
<1>1. BlockSteps(f, seq)
  BY BlockStepsExist, Zenon
<1>2. transaction_add_obsoleted(seq) = f[n]
  BY Zenon DEF transaction_add_obsoleted, BlockSteps
<1> HIDE DEF f
<1>3. n \in Nat
  BY DEF Arranged
<1>4. f[0] = <<>> /\ \A k \in 1 .. n : f[k] = WithObsoleted(f[k - 1], seq[k])
  <2>1. \A k \in 0 .. n : f[k] = IF k = 0 THEN <<>> ELSE WithObsoleted(f[k - 1], seq[k])
    BY <1>1 DEF BlockSteps
  <2>2. 0 \in 0 .. n /\ \A i \in 1 .. n : i \in 0 .. n /\ i # 0
    BY <1>3
  <2> HIDE DEF n
  <2>. QED BY <2>1, <2>2
<1> DEFINE T == {m \in 0 .. n : InBlocks(f[m], seq, m)}
<1>5. 0 \in T
  <2>1. \A x \in transactsmap : ~(Block(seq, x) <= 0)
    BY BlockFacts
  <2>2. <<>> \in Seq(transactsmap) /\ IsInjective(<<>>) /\ Range(<<>>) = {} /\ Len(<<>>) = 0
    BY DEF IsInjective, Range
  <2>3. InBlocks(<<>>, seq, 0)
    BY <2>1, <2>2 DEF InBlocks
  <2>. QED BY <1>3, <1>4, <2>3
<1>6. ASSUME NEW m \in 0 .. n - 1, m \in T PROVE m + 1 \in T
  <2>1. m \in Nat /\ m + 1 \in 1 .. n /\ m + 1 \in 0 .. n /\ (m + 1) - 1 = m
    BY <1>3
  <2>2. InBlocks(f[m], seq, m)
    BY <1>6
  <2>3. f[m + 1] = WithObsoleted(f[m], seq[m + 1])
    BY <1>4, <2>1
  <2>4. InBlocks(WithObsoleted(f[m], seq[m + 1]), seq, m + 1)
    <3> HIDE DEF T
    <3>. QED BY <2>1, <2>2, BlockAdded
  <2>. QED BY <2>1, <2>3, <2>4
<1>7. n \in T
  <2> HIDE DEF T, n
  <2>1. \A k \in 0 .. n : k \in T
    BY <1>3, <1>5, <1>6, UpTo
  <2>. QED BY <1>3, <2>1
<1>. QED BY <1>2, <1>7

\* The packages come block by block, in each block the element first.
InBlockOrder(s, seq) ==
  /\ s \in Seq(transactsmap) /\ IsInjective(s) /\ Range(s) = transactsmap
  /\ \A i, j \in 1 .. Len(s) : Block(seq, s[i]) < Block(seq, s[j]) => i < j
  /\ \A i, j \in 1 .. Len(s) :
       i # j /\ Block(seq, s[i]) = Block(seq, s[j]) /\ s[i] \in Elements => i < j

LEMMA BlocksInOrder ==
  ASSUME Given, InfoRight, StepsRight, NEW seq, Arranged(seq)
  PROVE  InBlockOrder(transaction_add_obsoleted(seq), seq)
<1> DEFINE s == transaction_add_obsoleted(seq)
           n == Len(s)
<1>1. InBlocks(s, seq, Len(seq))
  BY AddObsoletedFacts
<1> HIDE DEF s
<1>2. /\ s \in Seq(transactsmap) /\ IsInjective(s)
      /\ \A x \in transactsmap : x \in Range(s) <=> Block(seq, x) <= Len(seq)
      /\ \A i, j \in 1 .. n : i < j =>
           /\ Block(seq, s[i]) <= Block(seq, s[j])
           /\ Block(seq, s[i]) = Block(seq, s[j]) => s[j] \notin Elements
  BY <1>1 DEF InBlocks
<1>3. \A x \in transactsmap : Block(seq, x) \in Nat /\ Block(seq, x) <= Len(seq)
  BY BlockFacts DEF Arranged
<1>4. n \in Nat /\ DOMAIN s = 1 .. n /\ \A i \in 1 .. n : s[i] \in transactsmap
  BY <1>2
<1>5. Range(s) = transactsmap
  <2>1. Range(s) \subseteq transactsmap
    BY <1>4 DEF Range
  <2>. QED BY <1>2, <1>3, <2>1
<1>6. ASSUME NEW i \in 1 .. n, NEW j \in 1 .. n, Block(seq, s[i]) < Block(seq, s[j])
      PROVE  i < j
  <2>1. Block(seq, s[i]) \in Nat /\ Block(seq, s[j]) \in Nat
    BY <1>3, <1>4
  <2>2. i # j /\ ~(j < i)
    BY <1>2, <1>6, <2>1
  <2>. QED BY <1>4, <2>2
<1>7. ASSUME NEW i \in 1 .. n, NEW j \in 1 .. n, i # j, Block(seq, s[i]) = Block(seq, s[j]),
             s[i] \in Elements
      PROVE  i < j
  <2>1. ~(j < i)
    BY <1>2, <1>7
  <2>. QED BY <1>4, <1>7, <2>1
<1>. QED BY <1>2, <1>5, <1>6, <1>7 DEF InBlockOrder, s

-----------------------------------------------------------------------------
(***************************************************************************)
(* What the order of the steps is worth.                                   *)
(***************************************************************************)
\* The elements wait for those they have to wait for.
SeqWaits(seq, all) ==
  \A a, b : Waits(all, a, b) =>
    \A i, j \in 1 .. Len(seq) :
      seq[i] \in StandFor(a) /\ seq[j] \in StandFor(b) /\ i # j => j < i

\* The steps were put in order.
InOrder(seq, all) ==
  /\ Arranged(seq) /\ InBlockOrder(steps, seq)
  /\ WaitsRight(all)
  /\ cycles = <<>> => SeqWaits(seq, all)

\* Where a package is among the steps.
LEMMA StepOf ==
  ASSUME StepsRight, NEW x \in transactsmap
  PROVE  \E i \in DOMAIN steps : steps[i] = x
BY DEF StepsRight, Range

\* A package that waits for an element comes after it.
LEMMA AfterElement ==
  ASSUME Given, InfoRight, StepsRight, NEW seq, NEW all, InOrder(seq, all), cycles = <<>>,
         NEW i \in DOMAIN steps, NEW j \in DOMAIN steps, i # j, steps[j] \in Elements,
         Waits(all, steps[i], steps[j])
  PROVE  j < i
<1> DEFINE a == steps[i]
           b == steps[j]
           k == Block(seq, a)
           l == Block(seq, b)
<1>1. a \in transactsmap /\ b \in transactsmap /\ StandFor(b) = {b} /\ DOMAIN steps = 1 .. Len(steps)
  BY ElementFacts DEF StepsRight, Range
<1>2. Arranged(seq) /\ InBlockOrder(steps, seq) /\ SeqWaits(seq, all)
  BY DEF InOrder
<1>3. /\ k \in 1 .. Len(seq) /\ seq[k] \in StandFor(a)
      /\ l \in 1 .. Len(seq) /\ seq[l] = b
  <2>1. k \in 1 .. Len(seq) /\ seq[k] \in StandFor(a)
    BY <1>1, <1>2, BlockFacts
  <2>2. l \in 1 .. Len(seq) /\ seq[l] \in StandFor(b)
    BY <1>1, <1>2, BlockFacts
  <2>. QED BY <1>1, <2>1, <2>2
<1>4. Waits(all, a, b) /\ seq[l] \in StandFor(b)
  BY <1>1, <1>3
<1> HIDE DEF k, l
<1>5. k = l \/ l < k
  BY <1>2, <1>3, <1>4 DEF SeqWaits
<1>6. CASE k = l
  BY <1>1, <1>2, <1>6 DEF InBlockOrder, k, l
<1>7. CASE l < k
  BY <1>1, <1>2, <1>7 DEF InBlockOrder, k, l
<1>. QED BY <1>5, <1>6, <1>7

\* A package that waits for one that other elements stand for comes after it.
LEMMA AfterOther ==
  ASSUME Given, InfoRight, StepsRight, NEW seq, NEW all, InOrder(seq, all), cycles = <<>>,
         NEW i \in DOMAIN steps, NEW j \in DOMAIN steps,
         StandFor(steps[i]) \cap StandFor(steps[j]) = {}, Waits(all, steps[i], steps[j])
  PROVE  j < i
<1> DEFINE a == steps[i]
           b == steps[j]
           k == Block(seq, a)
           l == Block(seq, b)
<1>1. a \in transactsmap /\ b \in transactsmap /\ DOMAIN steps = 1 .. Len(steps)
  BY DEF StepsRight, Range
<1>2. Arranged(seq) /\ InBlockOrder(steps, seq) /\ SeqWaits(seq, all)
  BY DEF InOrder
<1>3. k \in 1 .. Len(seq) /\ seq[k] \in StandFor(a)
  BY <1>1, <1>2, BlockFacts
<1>4. l \in 1 .. Len(seq) /\ seq[l] \in StandFor(b)
  BY <1>1, <1>2, BlockFacts
<1>5. Waits(all, a, b) /\ StandFor(a) \cap StandFor(b) = {}
  OBVIOUS
<1> HIDE DEF k, l, a, b
<1>6. k # l
  BY <1>3, <1>4, <1>5
<1>7. l < k
  BY <1>2, <1>3, <1>4, <1>5, <1>6 DEF SeqWaits
<1>. QED BY <1>1, <1>2, <1>7 DEF InBlockOrder, k, l, a, b

LEMMA PreservedWhenInOrder ==
  ASSUME Given, InfoRight, StepsRight, NEW seq, NEW all, InOrder(seq, all)
  PROVE  StepsArePreserved
<1>1. IsInjective(steps) /\ Range(steps) = transactsmap /\ DOMAIN steps = 1 .. Len(steps)
      /\ Len(steps) \in Nat /\ \A i \in DOMAIN steps : steps[i] \in transactsmap /\ steps[i] \in Pkgs
  BY DEF StepsRight, Range
<1>2. Arranged(seq) /\ InBlockOrder(steps, seq)
  BY DEF InOrder
<1>3. ASSUME NEW i \in DOMAIN steps, steps[i] \in Installed, Obsoleters(steps[i]) # {}
      PROVE  \E j \in 1 .. i - 1 :
                /\ steps[j] \in Obsoleters(steps[i])
                /\ \A k \in j + 1 .. i : Obsoleters(steps[k]) # {} /\ steps[k] \in Installed
  <2> DEFINE x == steps[i]
             b == seq[Block(seq, x)]
  <2>1. x \in transactsmap /\ StandFor(x) = Obsoleters(x)
    BY <1>1, <1>3 DEF StandFor, New
  <2>2. Block(seq, x) \in 1 .. Len(seq) /\ b \in Obsoleters(x)
    BY <1>2, <2>1, BlockFacts
  <2>3. b \in Elements /\ b \in transactsmap /\ Block(seq, b) = Block(seq, x)
    BY <1>2, <2>2, ElementBlock
  <2>4. PICK j \in DOMAIN steps : steps[j] = b
    BY <2>3, StepOf
  <2>5. b # x
    <3>1. b \in New
      BY <1>1, <2>2, InfoFacts
    <3>. QED BY <1>3, <3>1 DEF New
  <2> HIDE DEF x, b
  <2>6. j \in 1 .. i - 1
    <3>1. j # i /\ Block(seq, steps[j]) = Block(seq, steps[i]) /\ steps[j] \in Elements
      BY <2>3, <2>4, <2>5 DEF x
    <3>2. j < i
      BY <1>1, <1>2, <3>1 DEF InBlockOrder
    <3>. QED BY <1>1, <3>2
  <2>7. ASSUME NEW k \in j + 1 .. i
        PROVE  Obsoleters(steps[k]) # {} /\ steps[k] \in Installed
    <3>1. k \in 1 .. Len(steps) /\ ~(k < j) /\ k # j /\ ~(i < k)
      BY <1>1, <2>6
    <3>2. steps[k] \in transactsmap /\ steps[k] \in Pkgs
      BY <1>1, <3>1
    <3>3. Block(seq, steps[k]) \in Nat /\ Block(seq, x) \in Nat
      BY <1>2, <2>1, <3>2, BlockFacts
    <3>4. ~(Block(seq, steps[k]) < Block(seq, steps[j])) /\ ~(Block(seq, steps[i]) < Block(seq, steps[k]))
      BY <1>1, <1>2, <3>1 DEF InBlockOrder
    <3>5. Block(seq, steps[k]) = Block(seq, x)
      BY <2>3, <2>4, <3>3, <3>4 DEF x
    <3>6. steps[k] \notin Elements
      <4>1. Block(seq, steps[k]) = Block(seq, steps[j])
        BY <2>3, <2>4, <3>5
      <4>. QED BY <1>1, <1>2, <3>1, <4>1 DEF InBlockOrder
    <3>. QED BY <3>2, <3>6 DEF Elements, New
  <2>. QED BY <2>2, <2>4, <2>6, <2>7 DEF x
<1>. QED BY <1>1, <1>3 DEF StepsArePreserved

\* What is there while a step is taken.
LEMMA PresentFacts ==
  ASSUME Given, InfoRight, StepsRight, NEW i \in DOMAIN steps
  PROVE  /\ \A j \in DOMAIN steps : steps[j] \in New /\ (j < i \/ j = i) => steps[j] \in Present(i)
         /\ \A j \in DOMAIN steps : steps[j] \in Installed => (steps[j] \in Present(i) <=> ~(j < i))
         /\ Installed \ transactsmap \subseteq Present(i)
<1>1. IsInjective(steps) /\ Range(steps) = transactsmap /\ DOMAIN steps = 1 .. Len(steps)
      /\ Len(steps) \in Nat /\ \A j \in DOMAIN steps : steps[j] \in transactsmap
  BY DEF StepsRight, Range
<1>2. \A j \in 1 .. i - 1 : j \in DOMAIN steps
  BY <1>1
<1>3. ASSUME NEW j \in DOMAIN steps, steps[j] \in New, j < i \/ j = i
      PROVE  steps[j] \in Present(i)
  <2>1. j \in 1 .. i
    BY <1>1, <1>3
  <2>. QED BY <1>3, <2>1 DEF Present
<1>4. ASSUME NEW j \in DOMAIN steps, steps[j] \in Installed
      PROVE  steps[j] \in Present(i) <=> ~(j < i)
  <2>1. steps[j] \notin New
    BY <1>4 DEF New
  <2>2. steps[j] \in Present(i) <=> steps[j] \notin {steps[k] : k \in 1 .. i - 1}
    BY <1>4, <2>1 DEF Present
  <2>3. steps[j] \in {steps[k] : k \in 1 .. i - 1} <=> j \in 1 .. i - 1
    BY <1>1, <1>2 DEF IsInjective
  <2>4. j \in 1 .. i - 1 <=> j < i
    BY <1>1
  <2>. QED BY <2>2, <2>3, <2>4
<1>5. Installed \ transactsmap \subseteq Present(i)
  BY <1>1, <1>2 DEF Present
<1>. QED BY <1>3, <1>4, <1>5

LEMMA InstallsWhenInOrder ==
  ASSUME Given, InfoRight, StepsRight, Depends, NEW seq, NEW all, InOrder(seq, all)
  PROVE  InstallsFindDependencies
<1> SUFFICES ASSUME cycles = <<>>, NEW i \in DOMAIN steps, steps[i] \in New
             PROVE  /\ \A r \in Range(pool.requires[steps[i]]) :
                         r.prv \cap transaction_installedresult # {} => r.prv \cap Present(i) # {}
                    /\ \A S \in Range(pool.recommends[steps[i]]) \cup Range(pool.suggests[steps[i]])
                                \cup Range(pool.orderwithrequires[steps[i]]) :
                         steps[i] \in S \/ S \cap New \cap transactsmap \subseteq Present(i)
  BY DEF InstallsFindDependencies
<1> DEFINE p == steps[i]
<1>1. p \in transactsmap /\ p \in New /\ p \notin Installed /\ p \in Pkgs
      /\ Range(steps) = transactsmap
  BY DEF StepsRight, Range, New
<1>2. EdgesRight(p, all)
  BY <1>1 DEF InOrder, WaitsRight
<1>3. ASSUME NEW q \in New \cap transactsmap, q # p, Waits(all, p, q)
      PROVE  q \in Present(i)
  <2>1. PICK j \in DOMAIN steps : steps[j] = q
    BY StepOf
  <2>2. q \in Elements /\ i # j
    BY <1>3, <2>1 DEF Elements
  <2>3. j < i
    BY <1>3, <2>1, <2>2, AfterElement
  <2>. QED BY <2>1, <2>3, PresentFacts
<1>4. p \in Present(i)
  BY <1>1, PresentFacts
<1>5. ASSUME NEW r \in Range(pool.requires[p]), r.prv \cap transaction_installedresult # {}
      PROVE  r.prv \cap Present(i) # {}
  <2>1. PICK q \in r.prv : q \in transaction_installedresult
    BY <1>5
  <2>2. q \in Installed \ transactsmap \/ q \in New \cap transactsmap
    BY <1>1, <2>1 DEF transaction_installedresult
  <2>3. CASE q \in Installed \ transactsmap
    BY <2>3, PresentFacts
  <2>4. CASE p \in r.prv
    BY <1>4, <2>4
  <2>5. CASE q \in New \cap transactsmap /\ p \notin r.prv
    <3>1. Waits(all, p, q)
      <4>1. q \in r.prv \cap transactsmap \cap New
        BY <2>5
      <4> HIDE DEF p
      <4>. QED BY <1>1, <1>2, <1>5, <2>5, <4>1 DEF EdgesRight
    <3>. QED BY <1>3, <2>5, <3>1
  <2>. QED BY <2>2, <2>3, <2>4, <2>5
<1>6. ASSUME NEW S \in Range(pool.recommends[p]) \cup Range(pool.suggests[p])
                       \cup Range(pool.orderwithrequires[p]), p \notin S,
             NEW q \in S \cap New \cap transactsmap
      PROVE  q \in Present(i)
  <2>1. Waits(all, p, q)
    <3>1. /\ \A T \in Range(pool.recommends[p]) \cup Range(pool.suggests[p]) :
               p \notin T => \A x \in T \cap transactsmap \cap New : Waits(all, p, x)
          /\ \A T \in Range(pool.orderwithrequires[p]) :
               \A x \in (T \ {p}) \cap transactsmap \cap New : Waits(all, p, x)
      BY <1>1, <1>2 DEF EdgesRight
    <3>2. q \in S \cap transactsmap \cap New /\ q \in (S \ {p}) \cap transactsmap \cap New
      BY <1>6
    <3> HIDE DEF p
    <3>3. CASE S \in Range(pool.recommends[p]) \cup Range(pool.suggests[p])
      BY <1>6, <3>1, <3>2, <3>3
    <3>4. CASE S \in Range(pool.orderwithrequires[p])
      BY <3>1, <3>2, <3>4
    <3>. QED BY <1>6, <3>3, <3>4
  <2>. QED BY <1>3, <1>6, <2>1
<1>. QED BY <1>5, <1>6

LEMMA ErasesWhenInOrder ==
  ASSUME Given, InfoRight, StepsRight, Depends, NEW seq, NEW all, InOrder(seq, all)
  PROVE  ErasesFindPrerequisites
<1> SUFFICES ASSUME cycles = <<>>, NEW i \in DOMAIN steps, steps[i] \in Installed,
                    havescriptsLeft(steps[i]), NEW r \in Range(pool.requires[steps[i]]),
                    r.pre, ~r.ignoreinst, r.prv \cap (Installed \cup transactsmap) # {},
                    \A q \in r.prv \cap Installed : Obsoleters(q) \cap Obsoleters(steps[i]) = {}
             PROVE  r.prv \cap Present(i) # {}
  BY DEF ErasesFindPrerequisites
<1> DEFINE p == steps[i]
           N1 == r.prv \cap transactsmap \cap New
           O1 == r.prv \cap transactsmap \cap Installed
<1>1. p \in transactsmap /\ p \in Installed /\ p \notin New /\ p \in Pkgs
      /\ DOMAIN steps = 1 .. Len(steps)
  BY PackageFacts DEF StepsRight, Range, New
<1>2. EdgesRight(p, all)
  BY <1>1 DEF InOrder, WaitsRight
<1>3. /\ p \notin r.prv =>
           /\ \A q \in N1 : Waits(all, p, q)
           /\ N1 = {} /\ r.prv \cap (Installed \ transactsmap) = {} => \A q \in O1 : Waits(all, q, p)
  <2>1. r \in Range(pool.requires[p]) /\ havescriptsLeft(p) /\ ~(r.pre /\ r.ignoreinst)
    OBVIOUS
  <2>2. \A x \in Range(pool.requires[p]) :
       LET N2 == x.prv \cap transactsmap \cap New
           O2 == x.prv \cap transactsmap \cap Installed
       IN  p \notin x.prv /\ ~(x.pre /\ x.ignoreinst) =>
                /\ \A q \in N2 : Waits(all, p, q)
                /\ N2 = {} /\ x.prv \cap (Installed \ transactsmap) = {} /\ havescriptsLeft(p) =>
                     \A q \in O2 : Waits(all, q, p)
    <3> HIDE DEF p
    <3>. QED BY <1>1, <1>2, Zenon DEF EdgesRight
  <2> HIDE DEF p
  <2>. QED BY <2>1, <2>2
<1>4. CASE p \in r.prv
  <2>1. ~(i < i)
    BY <1>1
  <2>2. p \in Present(i)
    BY <1>1, <2>1, PresentFacts
  <2>. QED BY <1>4, <2>2
<1>5. CASE r.prv \cap (Installed \ transactsmap) # {}
  BY <1>5, PresentFacts
<1>6. CASE p \notin r.prv /\ N1 # {}
  <2>1. PICK q \in N1 : TRUE
    BY <1>6
  <2>2. PICK j \in DOMAIN steps : steps[j] = q
    BY <2>1, StepOf
  <2>3. Waits(all, p, q) /\ q \in Elements /\ i # j
    BY <1>1, <1>3, <1>6, <2>1, <2>2 DEF Elements
  <2>4. j < i
    BY <2>2, <2>3, AfterElement
  <2>. QED BY <2>1, <2>2, <2>4, PresentFacts
<1>7. CASE p \notin r.prv /\ N1 = {} /\ r.prv \cap (Installed \ transactsmap) = {}
  <2>1. transactsmap \subseteq Installed \cup New
    BY PackageFacts DEF InfoRight
  <2>2. PICK q \in O1 : TRUE
    BY <1>7, <2>1
  <2>3. PICK j \in DOMAIN steps : steps[j] = q
    BY <2>2, StepOf
  <2>4. Waits(all, q, p)
    BY <1>3, <1>7, <2>2
  <2>5. StandFor(q) \cap StandFor(p) = {}
    <3>1. q \in Pkgs /\ q # p /\ q \in Installed
      BY <1>1, <1>7, <2>2, PackageFacts
    <3>2. Obsoleters(q) \subseteq New /\ Obsoleters(p) \subseteq New
      BY <1>1, <3>1, InfoFacts
    <3>3. Obsoleters(q) \cap Obsoleters(p) = {}
      BY <2>2
    <3>4. q \notin New
      BY <3>1 DEF New
    <3> HIDE DEF p
    <3>. QED BY <1>1, <3>1, <3>2, <3>3, <3>4 DEF StandFor
  <2>6. i < j
    BY <2>3, <2>4, <2>5, AfterOther
  <2>7. ~(j < i)
    BY <1>1, <2>6
  <2>. QED BY <2>2, <2>3, <2>7, PresentFacts
<1>. QED BY <1>4, <1>5, <1>6, <1>7

LEMMA ConflictsWhenInOrder ==
  ASSUME Given, InfoRight, StepsRight, Depends, NEW seq, NEW all, InOrder(seq, all)
  PROVE  ConflictsAreGone
<1> SUFFICES ASSUME cycles = <<>>, NEW i \in DOMAIN steps, steps[i] \in New,
                    NEW q \in Present(i) \cap Installed \cap transactsmap, GoesFirst(q, steps[i]),
                    steps[i] \notin Obsoleters(q)
             PROVE  FALSE
  BY DEF ConflictsAreGone
<1> DEFINE p == steps[i]
<1>1. p \in transactsmap /\ p \in New /\ p \notin Installed /\ q \notin New /\ p # q
      /\ DOMAIN steps = 1 .. Len(steps)
  BY DEF StepsRight, Range, New
<1>2. EdgesRight(p, all) /\ EdgesRight(q, all)
  BY <1>1 DEF InOrder, WaitsRight
<1>3. Waits(all, p, q)
  <2>1. CASE \E S \in Range(pool.conflicts[q]) : p \in S
    <3>1. PICK S \in Range(pool.conflicts[q]) : p \in S
      BY <2>1
    <3>2. p \in S \cap transactsmap \cap New
      BY <1>1, <3>1
    <3> HIDE DEF p
    <3>. QED BY <1>2, <3>2 DEF EdgesRight
  <2>2. CASE \E S \in Range(pool.conflicts[p]) : q \in S
    <3>1. PICK S \in Range(pool.conflicts[p]) : q \in S
      BY <2>2
    <3>2. q \in S \cap transactsmap \cap Installed
      BY <3>1
    <3> HIDE DEF p
    <3>. QED BY <1>1, <1>2, <3>2 DEF EdgesRight
  <2>3. CASE \E S \in Range(pool.triggers[q]) : p \in S /\ ~SameName(q, p)
    <3>1. PICK S \in Range(pool.triggers[q]) : p \in S /\ ~SameName(q, p)
      BY <2>3
    <3>2. p \in (S \ {q}) \cap transactsmap \cap New /\ ~SameName(p, q)
      BY <1>1, <3>1 DEF SameName
    <3> HIDE DEF p
    <3>. QED BY <1>2, <3>2 DEF EdgesRight
  <2>. QED BY <2>1, <2>2, <2>3 DEF GoesFirst
<1>4. PICK j \in DOMAIN steps : steps[j] = q
  BY StepOf
<1>5. StandFor(p) \cap StandFor(q) = {}
  <2>1. StandFor(p) = {p}
    BY <1>1 DEF StandFor
  <2>2. p \notin StandFor(q)
    BY <1>1 DEF StandFor
  <2>. QED BY <2>1, <2>2
<1>6. j < i
  BY <1>3, <1>4, <1>5, AfterOther
<1>. QED BY <1>4, <1>6, PresentFacts

-----------------------------------------------------------------------------
(***************************************************************************)
(* The steps of the ordering leave the packages alone.                     *)
(***************************************************************************)
PackagesStay == UNCHANGED <<pool, decisionq, multiversionmap, transactsmap, info>>

LEMMA SamePackages ==
  ASSUME PackagesStay
  PROVE  /\ Given' <=> Given
         /\ Depends' <=> Depends
         /\ InfoRight' <=> InfoRight
         /\ Pkgs' = Pkgs /\ Installed' = Installed /\ New' = New
         /\ \A p : Obsoleters(p)' = Obsoleters(p)
<1>1. /\ pool' = pool /\ decisionq' = decisionq /\ multiversionmap' = multiversionmap
      /\ transactsmap' = transactsmap /\ info' = info
  BY DEF PackagesStay
<1>2. /\ Pkgs' = Pkgs /\ Installed' = Installed /\ New' = New
      /\ \A x, y : obsq_sortcmp(x, y)' <=> obsq_sortcmp(x, y)
  BY <1>1, PoolStays
<1>3. Given' <=> Given
  BY <1>1 DEF Given
<1>4. Depends' <=> Depends
  BY <1>1 DEF Depends
<1>5. InfoRight' <=> InfoRight
  BY <1>1, <1>2 DEF InfoRight, ObsoletesPkg, SameNevra, SameName, Pkg
<1>6. \A p : Obsoleters(p)' = Obsoleters(p)
  BY <1>1, <1>2 DEF Obsoleters
<1>. QED BY <1>2, <1>3, <1>4, <1>5, <1>6

LEMMA SameElements ==
  ASSUME PackagesStay
  PROVE  /\ Elements' = Elements
         /\ \A p : StandFor(p)' = StandFor(p)
         /\ \A seq : Arranged(seq)' <=> Arranged(seq)
         /\ \A seq, x : Block(seq, x)' = Block(seq, x)
         /\ \A all : WaitsRight(all)' <=> WaitsRight(all)
         /\ \A seq, all : SeqWaits(seq, all)' <=> SeqWaits(seq, all)
<1>1. pool' = pool /\ transactsmap' = transactsmap
  BY DEF PackagesStay
<1>2. Installed' = Installed /\ New' = New /\ \A p : Obsoleters(p)' = Obsoleters(p)
  BY SamePackages
<1>3. Elements' = Elements
  BY <1>1, <1>2 DEF Elements
<1>4. \A p : StandFor(p)' = StandFor(p)
  BY <1>2 DEF StandFor
<1>5. \A seq : Arranged(seq)' <=> Arranged(seq)
  BY <1>3 DEF Arranged
<1>6. ASSUME NEW seq, NEW x
      PROVE  Block(seq, x)' = Block(seq, x)
  <2>1. {i \in DOMAIN seq : seq[i] \in StandFor(x)'} = {i \in DOMAIN seq : seq[i] \in StandFor(x)}
    BY <1>4
  <2>. QED BY <2>1 DEF Block
<1>7. ASSUME NEW p, NEW all
      PROVE  EdgesRight(p, all)' <=> EdgesRight(p, all)
  <2>1. havescriptsLeft(p)' <=> havescriptsLeft(p)
    BY <1>1 DEF havescriptsLeft
  <2>2. \A x : SameName(x, p)' <=> SameName(x, p)
    BY <1>1 DEF SameName, Pkg
  <2>3. ASSUME EdgesRight(p, all)
        PROVE  EdgesRight(p, all)'
    BY <1>1, <1>2, <2>1, <2>2, <2>3 DEF EdgesRight
  <2>4. ASSUME EdgesRight(p, all)'
        PROVE  EdgesRight(p, all)
    BY <1>1, <1>2, <2>1, <2>2, <2>4 DEF EdgesRight
  <2>. QED BY <2>3, <2>4
<1>8. \A all : WaitsRight(all)' <=> WaitsRight(all)
  BY <1>1, <1>7 DEF WaitsRight
<1>9. ASSUME NEW seq, NEW all
      PROVE  SeqWaits(seq, all)' <=> SeqWaits(seq, all)
  BY <1>4 DEF SeqWaits
<1>. QED BY <1>3, <1>4, <1>5, <1>6, <1>8, <1>9

\* The sequence of the elements.
Free == {p \in Pkgs : p \in New \/ Obsoleters(p) = {}}

LEMMA ElementSeq == Given /\ InfoRight => TESeq = Those(steps, Free)
<1> SUFFICES ASSUME Given, InfoRight PROVE TESeq = Those(steps, Free)
  OBVIOUS
<1>1. {p \in Pkgs : p \in New \/ transaction_installed(p) = 0} = Free
  BY InstalledFacts DEF Free
<1>. QED BY <1>1 DEF TESeq

LEMMA ElementSeqNext == (Given /\ InfoRight => TESeq = Those(steps, Free))'
BY ElementSeq, PTL

LEMMA SameElementSeq ==
  ASSUME Given, InfoRight, UNCHANGED transVars
  PROVE  TESeq' = TESeq
<1>1. PackagesStay /\ steps' = steps
  BY DEF PackagesStay, transVars
<1>2. Given' /\ InfoRight' /\ Free' = Free
  BY <1>1, SamePackages DEF Free
<1>3. TESeq' = Those(steps', Free')
  BY <1>2, ElementSeqNext
<1>. QED BY <1>1, <1>2, <1>3, ElementSeq

-----------------------------------------------------------------------------
(***************************************************************************)
(* The ordering keeps the edges it was started with.                       *)
(***************************************************************************)
OrderGoesOn ==
  \/ EndOfEdges \/ AlreadyFinished \/ VisitEdges \/ BreakCycle
  \/ CyclesBroken \/ AddCycleEdges \/ InvertEdges
  \/ TakeUninstall \/ TakeSameRepo \/ TakeNextMedium

UnderWay == {"break", "cycle", "order"}

TargetsStay ==
  /\ N' = N
  /\ \A x \in 1 .. N : Targets(edges, x) \subseteq Targets(edges', x)

LEMMA BreakCycleTargets ==
  ASSUME OrderInductive, BreakCycle
  PROVE  TargetsStay
<1> DEFINE l == EdgeToBreak(MetCycle)
           from == MetCycle[l]
           to == Succ(MetCycle, l)
           fs == addteedge(edges, from, to, {TYPE_BROKEN})
<1>1. N \in Nat /\ Shaped(edges, N)
  BY Records
<1>2. edges' = fs
  BY DEF BreakCycle, MetCycle
<1>3. from \in 1 .. N /\ to \in Targets(edges, from)
  BY MetCycleFacts
<1>4. OneBroken(edges, fs, N, from, to)
  BY <1>1, <1>3, BreakEdge
<1> HIDE DEF fs
<1>5. Shaped(fs, N) /\ \A x \in 1 .. N : Targets(fs, x) = Targets(edges, x)
  BY <1>4 DEF OneBroken
<1>6. N' = N
  BY <1>1, <1>2, <1>5, ShapedLen DEF N
<1>. QED BY <1>2, <1>5, <1>6 DEF TargetsStay

LEMMA AddCycleEdgesTargets ==
  ASSUME OrderInductive, AddCycleEdges
  PROVE  TargetsStay
<1> DEFINE c == Head(cycq).tes
           gs == TailEdges(edges, c)
           fs == HeadEdges(gs, c)
<1>1. cycq # <<>> /\ edges' = fs
  BY DEF AddCycleEdges
<1>2. /\ N \in Nat /\ Shaped(edges, N) /\ TEs = 1 .. N
      /\ \A r \in Range(cycles) : r.tes \in Seq(1 .. N) /\ Len(r.tes) > 1
  BY Records
<1>3. Head(cycq) \in Range(cycles)
  <2>1. cycq \in Seq(Range(cycles))
    BY DEF OrderInductive, RecordInv
  <2>. QED BY <1>1, <2>1, TailFacts
<1>4. c \in Seq(1 .. N) /\ Len(c) > 1
  BY <1>2, <1>3
<1> HIDE DEF c, gs, fs
<1>5. Shaped(gs, N) /\ Grown(edges, gs, N)
  BY <1>2, <1>4, TailLinked DEF gs, Linked
<1>6. Shaped(fs, N) /\ Grown(gs, fs, N)
  BY <1>4, <1>2, <1>5, HeadLinked DEF fs, Linked
<1>7. N' = N
  BY <1>1, <1>2, <1>6, ShapedLen DEF N
<1>. QED BY <1>1, <1>5, <1>6, <1>7 DEF TargetsStay, Grown

LEMMA OrderGoesOnKeeps ==
  ASSUME OrderInductive, OrderGoesOn
  PROVE  /\ OrderInductive' /\ TargetsStay
         /\ opc \in UnderWay /\ opc' \in UnderWay
<1>1. ASSUME edges' = edges
      PROVE  TargetsStay
  BY <1>1 DEF TargetsStay, N
<1>2. CASE EndOfEdges
  <2>1. edges' = edges /\ opc \in UnderWay /\ opc' \in UnderWay
    BY <1>2 DEF EndOfEdges, Searching, UnderWay
  <2>. QED BY <1>1, <1>2, <2>1, EndOfEdgesKeeps
<1>3. CASE AlreadyFinished
  <2>1. edges' = edges /\ opc \in UnderWay /\ opc' \in UnderWay
    BY <1>3 DEF AlreadyFinished, Searching, UnderWay
  <2>. QED BY <1>1, <1>3, <2>1, AlreadyFinishedKeeps
<1>4. CASE VisitEdges
  <2>1. edges' = edges /\ opc \in UnderWay /\ opc' \in UnderWay
    BY <1>4 DEF VisitEdges, Searching, UnderWay
  <2>. QED BY <1>1, <1>4, <2>1, VisitEdgesKeeps
<1>5. CASE BreakCycle
  <2>1. opc \in UnderWay /\ opc' \in UnderWay
    BY <1>5 DEF BreakCycle, Searching, UnderWay
  <2>. QED BY <1>5, <2>1, BreakCycleTargets, BreakCycleKeeps
<1>6. CASE CyclesBroken
  <2>1. edges' = edges /\ opc \in UnderWay /\ opc' \in UnderWay
    BY <1>6 DEF CyclesBroken, UnderWay
  <2>. QED BY <1>1, <1>6, <2>1, CyclesBrokenKeeps
<1>7. CASE AddCycleEdges
  <2>1. opc \in UnderWay /\ opc' \in UnderWay
    BY <1>7 DEF AddCycleEdges, UnderWay
  <2>. QED BY <1>7, <2>1, AddCycleEdgesTargets, AddCycleEdgesKeeps
<1>8. CASE InvertEdges
  <2>1. edges' = edges /\ opc \in UnderWay /\ opc' \in UnderWay
    BY <1>8 DEF InvertEdges, UnderWay
  <2>. QED BY <1>1, <1>8, <2>1, InvertEdgesKeeps
<1>9. CASE TakeUninstall
  <2>1. edges' = edges /\ opc \in UnderWay /\ opc' \in UnderWay
    BY <1>9 DEF TakeUninstall, Output, UnderWay
  <2>. QED BY <1>1, <1>9, <2>1, TakeUninstallKeeps
<1>10. CASE TakeSameRepo
  <2>1. edges' = edges /\ opc \in UnderWay /\ opc' \in UnderWay
    BY <1>10 DEF TakeSameRepo, Output, UnderWay
  <2>. QED BY <1>1, <1>10, <2>1, TakeSameRepoKeeps
<1>11. CASE TakeNextMedium
  <2>1. edges' = edges /\ opc \in UnderWay /\ opc' \in UnderWay
    BY <1>11 DEF TakeNextMedium, Output, UnderWay
  <2>. QED BY <1>1, <1>11, <2>1, TakeNextMediumKeeps
<1>. QED BY <1>2, <1>3, <1>4, <1>5, <1>6, <1>7, <1>8, <1>9, <1>10, <1>11 DEF OrderGoesOn

-----------------------------------------------------------------------------
(***************************************************************************)
(* The invariant.                                                          *)
(***************************************************************************)
\* The edges that the calls for the packages have made are there.
EdgesMade(all) ==
  /\ WaitsRight(all)
  /\ \A a, b : Waits(all, a, b) =>
       \A i, j \in 1 .. Len(TESeq) :
         TESeq[i] \in StandFor(a) /\ TESeq[j] \in StandFor(b) /\ i # j => j \in Targets(edges, i)

TransInductive ==
  /\ Given /\ Depends /\ InfoRight /\ StepsRight
  /\ OrderInductive
  /\ opc # "idle" => transactsmap # {}
  /\ opc \in UnderWay => N = Len(TESeq) /\ \E all : EdgesMade(all)
  /\ opc # "choices"
  /\ opc = "done" => \E seq, all : InOrder(seq, all)

LEMMA TransStarts ==
  ASSUME TransOrderInit
  PROVE  TransInductive
<1>1. PICK in \in Inputs : TransStart(in)
  BY DEF TransOrderInit, TransInit
<1>2. /\ pool = in.pool /\ decisionq = in.dq /\ multiversionmap = in.multi
      /\ transactsmap = {} /\ info = <<>> /\ steps = <<>> /\ opc = "idle"
  BY <1>1 DEF TransStart, NoTransaction, TransOrderInit, OrderInit
<1>3. Given /\ Depends
  BY <1>2, InputsAssumption DEF Given, Depends, IsDecided
<1>4. InfoRight /\ StepsRight
  BY <1>2 DEF InfoRight, StepsRight, IsInjective, Range
<1>5. OrderInductive
  BY OrderStarts DEF TransOrderInit
<1>. QED BY <1>2, <1>3, <1>4, <1>5 DEF TransInductive, UnderWay

LEMMA CreateKeeps ==
  ASSUME TransInductive, CreateTransaction, UNCHANGED orderVars
  PROVE  TransInductive'
<1>1. Given' /\ InfoRight' /\ StepsRight'
  BY CreateMakes DEF TransInductive
<1>2. Depends'
  BY DEF TransInductive, CreateTransaction, Depends
<1>3. OrderInductive'
  BY OrderStays DEF TransInductive
<1>4. opc' = opc /\ opc = "idle"
  <2>1. transactsmap = {}
    BY DEF CreateTransaction, NoTransaction
  <2>. QED BY <2>1 DEF TransInductive, orderVars
<1>. QED BY <1>1, <1>2, <1>3, <1>4 DEF TransInductive, UnderWay

LEMMA StartKeeps ==
  ASSUME TransInductive, StartOrder(TransactionGraph), UNCHANGED transVars
  PROVE  TransInductive'
<1> DEFINE G == TransactionGraph
<1>1. PackagesStay /\ steps' = steps /\ transactsmap' = transactsmap
  BY DEF PackagesStay, transVars
<1>2. Given' /\ Depends' /\ InfoRight' /\ StepsRight'
  <2>1. Pkgs' = Pkgs
    BY <1>1, SamePackages
  <2>. QED BY <1>1, <2>1, SamePackages DEF TransInductive, StepsRight
<1>3. IsGraph(G) /\ G.n = Len(TESeq) /\ \E all : WaitsRight(all) /\ GraphWaits(all, G.calls)
  BY GraphFacts DEF TransInductive
<1>4. OrderInductive' /\ N' = G.n /\ Covered(edges', G.calls)
  BY <1>3, StartOrderKeeps DEF TransInductive
<1>5. opc' = "break" /\ G.n > 0
  BY DEF StartOrder
<1> HIDE DEF G
<1>6. transactsmap # {}
  <2>1. Len(TESeq) \in Nat /\ \A i \in 1 .. Len(TESeq) : TESeq[i] \in Elements
    BY NumberFacts DEF TransInductive
  <2>2. 1 \in 1 .. Len(TESeq)
    BY <1>3, <1>5, <2>1
  <2>. QED BY <2>1, <2>2 DEF Elements
<1>7. TESeq' = TESeq
  BY SameElementSeq DEF TransInductive
<1>8. PICK all : WaitsRight(all) /\ GraphWaits(all, G.calls)
  BY <1>3
<1>9. EdgesMade(all)'
  <2>1. WaitsRight(all)' /\ \A p : StandFor(p)' = StandFor(p)
    BY <1>1, <1>8, SameElements
  <2>2. ASSUME NEW a, NEW b, Waits(all, a, b), NEW i \in 1 .. Len(TESeq), NEW j \in 1 .. Len(TESeq),
               TESeq[i] \in StandFor(a), TESeq[j] \in StandFor(b), i # j
        PROVE  j \in Targets(edges', i)
    <3>1. PICK k \in DOMAIN G.calls : G.calls[k][1] = i /\ G.calls[k][2] = j
      BY <1>8, <2>2 DEF GraphWaits
    <3>. QED BY <1>4, <2>2, <3>1 DEF Covered
  <2>. QED BY <1>7, <2>1, <2>2 DEF EdgesMade
<1>. QED BY <1>1, <1>2, <1>3, <1>4, <1>5, <1>6, <1>7, <1>9 DEF TransInductive, UnderWay

LEMMA GoesOnKeeps ==
  ASSUME TransInductive, OrderGoesOn, UNCHANGED transVars
  PROVE  TransInductive'
<1>1. PackagesStay /\ steps' = steps /\ transactsmap' = transactsmap
  BY DEF PackagesStay, transVars
<1>2. Given' /\ Depends' /\ InfoRight' /\ StepsRight'
  <2>1. Pkgs' = Pkgs
    BY <1>1, SamePackages
  <2>. QED BY <1>1, <2>1, SamePackages DEF TransInductive, StepsRight
<1>3. OrderInductive' /\ TargetsStay /\ opc \in UnderWay /\ opc' \in UnderWay
  BY OrderGoesOnKeeps DEF TransInductive
<1>4. TESeq' = TESeq
  BY SameElementSeq DEF TransInductive
<1>5. N = Len(TESeq) /\ transactsmap # {}
  BY <1>3 DEF TransInductive, UnderWay
<1>6. PICK all : EdgesMade(all)
  BY <1>3 DEF TransInductive
<1>7. EdgesMade(all)'
  <2>1. WaitsRight(all)' /\ \A p : StandFor(p)' = StandFor(p)
    BY <1>1, <1>6, SameElements DEF EdgesMade
  <2>2. \A x \in 1 .. Len(TESeq) : Targets(edges, x) \subseteq Targets(edges', x)
    BY <1>3, <1>5 DEF TargetsStay
  <2>. QED BY <1>4, <1>6, <2>1, <2>2 DEF EdgesMade
<1>. QED BY <1>1, <1>2, <1>3, <1>4, <1>5, <1>7 DEF TransInductive, UnderWay, TargetsStay

LEMMA FinishKeeps ==
  ASSUME TransInductive, FinishOrder
  PROVE  TransInductive'
<1>0. PICK seq : seq = [i \in DOMAIN order |-> TESeq[order[i]]]
  OBVIOUS
<1>1. /\ OrderDone /\ steps' = transaction_add_obsoleted(seq)
      /\ PackagesStay /\ transactsmap' = transactsmap
      /\ opc = "order" /\ opc' = "done" /\ order' = order /\ edges' = edges /\ cycles' = cycles
  BY <1>0 DEF FinishOrder, PackagesStay, OrderDone, queueVars
<1>2. Given /\ InfoRight /\ StepsRight /\ OrderInductive /\ N = Len(TESeq) /\ transactsmap # {}
  BY <1>1 DEF TransInductive, UnderWay
<1>3. OrderInductive'
  BY <1>1, <1>2, OrderDoneKeeps
<1>4. /\ order \in Seq(1 .. N) /\ IsInjective(order) /\ Range(order) = 1 .. N
      /\ \A y \in Range(order) : \A x \in Unbroken(edges, y) : Before(x, y)
  <2>1. N' = N
    BY <1>1 DEF N
  <2>2. Range(order) = 1 .. N
    BY <1>1, <1>3, <2>1 DEF OrderInductive, OutputInv
  <2>. QED BY <1>2, <2>2 DEF OrderInductive, OutputInv, ValueInv
<1>5. /\ DOMAIN order = 1 .. Len(order) /\ Len(order) \in Nat
      /\ \A i \in DOMAIN order : order[i] \in 1 .. Len(TESeq)
  BY <1>2, <1>4
<1>6. /\ TESeq \in Seq(Pkgs) /\ IsInjective(TESeq) /\ Range(TESeq) = Elements
      /\ DOMAIN TESeq = 1 .. Len(TESeq) /\ \A i \in 1 .. Len(TESeq) : TESeq[i] \in Elements
  BY <1>2, ElementFacts, NumberFacts
<1>7. Arranged(seq)
  <2>1. seq \in Seq(Elements)
    BY <1>0, <1>5, <1>6
  <2>2. IsInjective(seq)
    BY <1>0, <1>4, <1>5, <1>6 DEF IsInjective
  <2>3. Range(seq) = Elements
    <3>1. Range(seq) \subseteq Elements
      BY <1>0, <1>5, <1>6 DEF Range
    <3>2. ASSUME NEW x \in Elements PROVE x \in Range(seq)
      <4>1. PICK i \in 1 .. Len(TESeq) : TESeq[i] = x
        BY <1>6 DEF Range
      <4>2. PICK k \in DOMAIN order : order[k] = i
        BY <1>2, <1>4, <4>1 DEF Range
      <4>. QED BY <1>0, <4>1, <4>2 DEF Range
    <3>. QED BY <3>1, <3>2
  <2>. QED BY <2>1, <2>2, <2>3 DEF Arranged
<1>8. InBlockOrder(steps', seq)
  BY <1>1, <1>2, <1>7, BlocksInOrder
<1>9. PICK all : EdgesMade(all)
  BY <1>1 DEF TransInductive, UnderWay
<1>10. cycles = <<>> => SeqWaits(seq, all)
  <2> SUFFICES ASSUME cycles = <<>>, NEW a, NEW b, Waits(all, a, b),
                      NEW i \in 1 .. Len(seq), NEW j \in 1 .. Len(seq),
                      seq[i] \in StandFor(a), seq[j] \in StandFor(b), i # j
               PROVE  j < i
    BY DEF SeqWaits
  <2>1. i \in DOMAIN order /\ j \in DOMAIN order /\ Len(seq) = Len(order)
    BY <1>0, <1>5
  <2>2. order[i] \in 1 .. Len(TESeq) /\ order[j] \in 1 .. Len(TESeq) /\ order[i] # order[j]
        /\ TESeq[order[i]] \in StandFor(a) /\ TESeq[order[j]] \in StandFor(b)
    BY <1>0, <1>4, <1>5, <2>1 DEF IsInjective
  <2>3. order[j] \in Targets(edges, order[i])
    BY <1>9, <2>2 DEF EdgesMade
  <2>4. TYPE_BROKEN \notin EdgeType(edges, order[i], order[j])
    <3>1. Range(cycles) = {}
      BY DEF Range
    <3>. QED BY <1>2, <2>2, <2>3, <3>1 DEF OrderInductive, RecordInv
  <2>5. order[j] \in Unbroken(edges, order[i])
    <3>1. N \in Nat /\ Shaped(edges, N)
      BY <1>2, Records
    <3>. QED BY <1>2, <2>2, <2>3, <2>4, <3>1, UnbrokenFacts
  <2>6. Before(order[j], order[i])
    BY <1>4, <2>1, <2>5 DEF Range
  <2>7. PICK k \in DOMAIN order, l \in DOMAIN order : k < l /\ order[k] = order[j] /\ order[l] = order[i]
    BY <2>6 DEF Before
  <2>8. k = j /\ l = i
    BY <1>4, <2>1, <2>7 DEF IsInjective
  <2>. QED BY <2>7, <2>8
<1>11. WaitsRight(all)
  BY <1>9 DEF EdgesMade
<1>12. StepsRight'
  <2>1. Pkgs' = Pkgs /\ transactsmap \subseteq Pkgs
    BY <1>1, <1>2, SamePackages DEF InfoRight
  <2>2. steps' \in Seq(transactsmap) /\ IsInjective(steps') /\ Range(steps') = transactsmap
    BY <1>8 DEF InBlockOrder
  <2>3. steps' \in Seq(Pkgs)
    BY <2>1, <2>2, SeqGrows
  <2>. QED BY <1>1, <2>1, <2>2, <2>3 DEF StepsRight
<1>13. InOrder(seq, all)'
  <2>1. Arranged(seq)' /\ WaitsRight(all)' /\ (cycles' = <<>> => SeqWaits(seq, all)')
    BY <1>1, <1>7, <1>10, <1>11, SameElements
  <2>2. InBlockOrder(steps, seq)'
    <3>1. Elements' = Elements /\ \A x : Block(seq, x)' = Block(seq, x)
      BY <1>1, SameElements
    <3>. QED BY <1>1, <1>8, <3>1 DEF InBlockOrder
  <2>. QED BY <2>1, <2>2 DEF InOrder
<1>14. Given' /\ Depends' /\ InfoRight'
  BY <1>1, SamePackages DEF TransInductive
<1>. QED BY <1>1, <1>2, <1>3, <1>12, <1>13, <1>14 DEF TransInductive, UnderWay

LEMMA TransStutters ==
  ASSUME TransInductive, UNCHANGED allTransVars
  PROVE  TransInductive'
<1>1. /\ PackagesStay /\ steps' = steps /\ transactsmap' = transactsmap
      /\ UNCHANGED transVars /\ UNCHANGED orderVars
  BY DEF PackagesStay, transVars, allTransVars
<1>2. opc' = opc /\ cycles' = cycles /\ edges' = edges
  BY <1>1 DEF orderVars
<1>3. Given' /\ Depends' /\ InfoRight' /\ StepsRight'
  <2>1. Pkgs' = Pkgs
    BY <1>1, SamePackages
  <2>. QED BY <1>1, <2>1, SamePackages DEF TransInductive, StepsRight
<1>4. OrderInductive'
  BY <1>1, OrderStays DEF TransInductive
<1>5. ASSUME opc \in UnderWay
      PROVE  N' = Len(TESeq)' /\ \E all : EdgesMade(all)'
  <2>1. TESeq' = TESeq
    BY <1>1, SameElementSeq DEF TransInductive
  <2>2. N = Len(TESeq) /\ N' = N
    BY <1>2, <1>5 DEF TransInductive, N
  <2>3. PICK all : EdgesMade(all)
    BY <1>5 DEF TransInductive
  <2>4. WaitsRight(all)' /\ \A p : StandFor(p)' = StandFor(p)
    BY <1>1, <2>3, SameElements DEF EdgesMade
  <2>5. EdgesMade(all)'
    BY <1>2, <2>1, <2>3, <2>4 DEF EdgesMade
  <2>. QED BY <2>1, <2>2, <2>5
<1>6. ASSUME opc = "done"
      PROVE  \E seq, all : InOrder(seq, all)'
  <2>1. PICK seq, all : InOrder(seq, all)
    BY <1>6 DEF TransInductive
  <2>2. Arranged(seq)' /\ WaitsRight(all)' /\ (cycles' = <<>> => SeqWaits(seq, all)')
    BY <1>1, <1>2, <2>1, SameElements DEF InOrder
  <2>3. InBlockOrder(steps, seq)'
    <3>1. Elements' = Elements /\ \A x : Block(seq, x)' = Block(seq, x)
      BY <1>1, SameElements
    <3>. QED BY <1>1, <2>1, <3>1 DEF InOrder, InBlockOrder
  <2>4. InOrder(seq, all)'
    BY <2>2, <2>3 DEF InOrder
  <2>. QED BY <2>4
<1>7. opc # "choices" /\ (opc # "idle" => transactsmap # {})
  BY DEF TransInductive
<1>. QED BY <1>1, <1>2, <1>3, <1>4, <1>5, <1>6, <1>7 DEF TransInductive

LEMMA TransKeeps ==
  ASSUME TransInductive, [TransOrderNext]_allTransVars
  PROVE  TransInductive'
<1>1. CASE CreateTransaction /\ UNCHANGED orderVars
  BY <1>1, CreateKeeps
<1>2. CASE StartOrder(TransactionGraph) /\ UNCHANGED transVars
  BY <1>2, StartKeeps
<1>3. CASE OrderGoesOn /\ UNCHANGED transVars
  BY <1>3, GoesOnKeeps
<1>4. CASE FinishOrder
  BY <1>4, FinishKeeps
<1>5. CASE UNCHANGED allTransVars
  BY <1>5, TransStutters
<1>. QED BY <1>1, <1>2, <1>3, <1>4, <1>5 DEF TransOrderNext, OrderGoesOn

\* The inductive invariant of a transaction and its order.
THEOREM TransInductiveHolds == TransOrderSpec => []TransInductive
<1>1. TransOrderInit => TransInductive
  BY TransStarts
<1>2. TransInductive /\ [TransOrderNext]_allTransVars => TransInductive'
  BY TransKeeps
<1>. QED BY <1>1, <1>2, PTL DEF TransOrderSpec

-----------------------------------------------------------------------------
LEMMA OrderedIsInOrder ==
  ASSUME TransInductive, Ordered
  PROVE  \E seq, all : InOrder(seq, all)
BY DEF TransInductive, Ordered

\* The ordered steps are the steps of the transaction, each once, and what is
\* obsoleted is erased with the first of its obsoleters.
THEOREM StepsArePreservedHolds == TransOrderSpec => []StepsArePreserved
<1>1. TransInductive => StepsArePreserved
  <2> SUFFICES ASSUME TransInductive, Ordered PROVE StepsArePreserved
    BY DEF StepsArePreserved
  <2>1. PICK seq, all : InOrder(seq, all)
    BY OrderedIsInOrder
  <2>. QED BY <2>1, PreservedWhenInOrder DEF TransInductive
<1>. QED BY <1>1, TransInductiveHolds, PTL

\* Unless a cycle was broken, a package is installed after what it requires,
\* its erase scripts find what they need, and what conflicts with it is gone.
THEOREM DependenciesMetHolds == TransOrderSpec => []DependenciesMet
<1>1. TransInductive => DependenciesMet
  <2> SUFFICES ASSUME TransInductive, Ordered PROVE DependenciesMet
    BY DEF DependenciesMet, InstallsFindDependencies, ErasesFindPrerequisites, ConflictsAreGone
  <2>1. PICK seq, all : InOrder(seq, all)
    BY OrderedIsInOrder
  <2>. QED BY <2>1, InstallsWhenInOrder, ErasesWhenInOrder, ConflictsWhenInOrder
           DEF TransInductive, DependenciesMet
<1>. QED BY <1>1, TransInductiveHolds, PTL

\* The calls of the RPM_ONLY view, in the order of the steps before and after
\* the ordering, make of the installed packages the installed result.
THEOREM ManagerReachesResultHolds == TransOrderSpec => []ManagerReachesResult
<1>1. TransInductive => ManagerReachesResult
  BY ManagerResult DEF TransInductive
<1>. QED BY <1>1, TransInductiveHolds, PTL

-----------------------------------------------------------------------------
(***************************************************************************)
(* What an application is shown.                                           *)
(***************************************************************************)
Partners(p) == IF p \in Installed THEN Obsoleters(p) ELSE Obsoleted(p)

LEMMA PartnersFacts ==
  ASSUME Given, InfoRight, NEW p \in Pkgs
  PROVE  /\ Range(transaction_all_obs_pkgs(p)) = Partners(p)
         /\ Partners(p) = {} => transaction_obs_pkg(p) = 0
         /\ Partners(p) # {} => transaction_obs_pkg(p) \in Partners(p)
         /\ \A q \in Partners(p) : /\ q \in Pkgs /\ q \in transactsmap /\ p \in transactsmap
                                   /\ p \in Partners(q)
                                   /\ q \in Installed <=> p \notin Installed
                                   /\ q # 0
<1>1. Range(transaction_all_obs_pkgs(p)) = Partners(p)
  BY PartnersListed DEF Partners
<1>2. /\ Partners(p) = {} => transaction_obs_pkg(p) = 0
      /\ Partners(p) # {} => transaction_obs_pkg(p) \in Partners(p)
  BY PartnerListed DEF Partners
<1>3. ASSUME NEW q \in Partners(p)
      PROVE  /\ q \in Pkgs /\ q \in transactsmap /\ p \in transactsmap
             /\ p \in Partners(q)
             /\ q \in Installed <=> p \notin Installed
             /\ q # 0
  <2>1. CASE p \in Installed
    <3>1. q \in Obsoleters(p)
      BY <1>3, <2>1 DEF Partners
    <3>2. q \in New \cap transactsmap /\ p \in Installed \cap transactsmap
      BY <3>1, InfoFacts
    <3>3. q \in Pkgs /\ q \notin Installed /\ q # 0
      BY <3>2, PackageFacts
    <3>4. p \in Obsoleted(q)
      BY <3>1, <3>3, InfoFacts
    <3>. QED BY <2>1, <3>2, <3>3, <3>4 DEF Partners
  <2>2. CASE p \notin Installed
    <3>1. q \in Obsoleted(p)
      BY <1>3, <2>2 DEF Partners
    <3>2. q \in Installed \cap transactsmap /\ p \in New \cap transactsmap
      BY <3>1, InfoFacts
    <3>3. q \in Pkgs /\ q # 0
      BY <3>2, PackageFacts
    <3>4. p \in Obsoleters(q)
      BY <3>1, <3>3, InfoFacts
    <3>. QED BY <2>2, <3>2, <3>3, <3>4 DEF Partners
  <2>. QED BY <2>1, <2>2
<1>. QED BY <1>1, <1>2, <1>3

\* The partners of a package are listed from the best to the last.
LEMMA PartnersSorted ==
  ASSUME Given, InfoRight, NEW p \in Pkgs,
         NEW i \in DOMAIN transaction_all_obs_pkgs(p), NEW j \in DOMAIN transaction_all_obs_pkgs(p), i < j
  PROVE  BetterPartner(p, transaction_all_obs_pkgs(p)[i], transaction_all_obs_pkgs(p)[j])
<1> DEFINE all == transaction_all_obs_pkgs(p)
<1>1. CASE p \in Installed
  <2> DEFINE S == Obsoleters(p)
             R == {t \in S \X S : BetterPartner(p, t[1], t[2])}
  <2>1. S \subseteq Pkgs /\ IsFiniteSet(S)
    BY InfoFacts, PackageFacts
  <2>2. Orders(R, S)
    BY <2>1, PartnersOrder
  <2>3. all = Sorted(S, R)
    BY <1>1 DEF transaction_all_obs_pkgs
  <2>4. i \in DOMAIN all /\ j \in DOMAIN all
    OBVIOUS
  <2>5. <<all[i], all[j]>> \in R
    <3> HIDE DEF S, R, all
    <3>. QED BY <2>1, <2>2, <2>3, <2>4, SortedFacts
  <2>. QED BY <2>5
<1>2. CASE p \notin Installed
  <2> DEFINE K == (New \cap transactsmap) \X (Installed \cap transactsmap)
             A == {t \in Range(info) : t[1] = p}
             mine == Those(info, A)
  <2>1. info \in Seq(K) /\ \A x, y \in DOMAIN info : x < y => obsq_sortcmp(info[x], info[y])
    BY DEF InfoRight
  <2>2. all = [k \in 1 .. Len(mine) |-> mine[k][2]]
    BY <1>2 DEF transaction_all_obs_pkgs
  <2>3. i \in DOMAIN all /\ j \in DOMAIN all
    OBVIOUS
  <2>4. mine \in Seq(K) /\ \E g : Picks(g, mine, info, A, Len(info))
    <3> HIDE DEF K, A
    <3>. QED BY <2>1, ThosePicks
  <2> HIDE DEF mine
  <2>5. PICK g : Picks(g, mine, info, A, Len(info))
    BY <2>4
  <2>6. i \in 1 .. Len(mine) /\ j \in 1 .. Len(mine) /\ all[i] = mine[i][2] /\ all[j] = mine[j][2]
    BY <2>2, <2>3
  <2> HIDE DEF all, K
  <2>7. /\ g[i] \in 1 .. Len(info) /\ g[j] \in 1 .. Len(info) /\ g[i] < g[j]
        /\ mine[i] = info[g[i]] /\ mine[j] = info[g[j]]
        /\ mine[i] \in A /\ mine[j] \in A
    BY <2>5, <2>6 DEF Picks
  <2>8. obsq_sortcmp(mine[i], mine[j])
    BY <2>1, <2>7
  <2>9. mine[i][1] = p /\ mine[j][1] = p
    BY <2>7
  <2>. QED BY <2>6, <2>8, <2>9 DEF obsq_sortcmp, all
<1>. QED BY <1>1, <1>2

\* The partner is the best of them; so it has the name if one of them has it.
LEMMA BestPartnerName ==
  ASSUME Given, InfoRight, NEW p \in Pkgs, NEW q \in Partners(p), SameName(p, q)
  PROVE  SameName(p, transaction_obs_pkg(p))
<1> DEFINE all == transaction_all_obs_pkgs(p)
<1>1. all \in Seq(Pkgs) /\ Range(all) = Partners(p)
  BY PartnersListed, PartnersFacts
<1>2. transaction_obs_pkg(p) = IF all = <<>> THEN 0 ELSE all[1]
  BY PartnerGiven
<1>3. PICK k \in DOMAIN all : all[k] = q
  BY <1>1 DEF Range
<1>4. CASE k = 1
  <2>1. all # <<>>
    BY <1>3
  <2>. QED BY <1>2, <1>3, <1>4, <2>1
<1>5. CASE k # 1
  <2>1. 1 \in DOMAIN all /\ 1 < k
    <3> HIDE DEF all
    <3>. QED BY <1>1, <1>3, <1>5
  <2>2. BetterPartner(p, all[1], q)
    BY <1>3, <2>1, PartnersSorted
  <2>3. transaction_obs_pkg(p) = all[1]
    BY <1>2, <2>1
  <2> HIDE DEF all
  <2>. QED BY <2>2, <2>3 DEF BetterPartner, SameName
<1>. QED BY <1>4, <1>5

\* The types of the elements that have partners.
Joined == OldTypes \cup (NewTypes \ Final)

LEMMA JoinedTypes ==
  ASSUME Given, InfoRight, NEW p \in transactsmap
  PROVE  /\ Partners(p) = {} => transaction_base_type(p) \in Final
         /\ Partners(p) # {} => transaction_base_type(p) \in Joined
         /\ Partners(p) # {} /\ SameName(p, transaction_obs_pkg(p)) =>
              transaction_base_type(p) \notin {"OBSOLETED", "OBSOLETES"}
<1> DEFINE q == transaction_obs_pkg(p)
<1>1. /\ p \in Pkgs
      /\ p \in Installed /\ Obsoleters(p) = {} => transaction_base_type(p) = "ERASE"
      /\ p \in Installed /\ Obsoleters(p) # {} => transaction_base_type(p) \in OldTypes
  BY BaseTypes
<1>2. /\ Partners(p) = {} => q = 0
      /\ Partners(p) # {} => q \in Partners(p) /\ q # 0 /\ q \in Pkgs
  BY <1>1, PartnersFacts
<1>3. Compared(p, q, "REINSTALLED", "DOWNGRADED", "UPGRADED", "CHANGED")
        \in {"REINSTALLED", "DOWNGRADED", "UPGRADED", "CHANGED"}
  BY ComparedType
<1>4. Compared(p, q, "REINSTALL", "UPGRADE", "DOWNGRADE", "CHANGE")
        \in {"REINSTALL", "UPGRADE", "DOWNGRADE", "CHANGE"}
  BY ComparedType
<1>5. CASE p \in Installed
  <2>1. p \notin New /\ Partners(p) = Obsoleters(p)
    BY <1>5 DEF New, Partners
  <2>2. transaction_base_type(p) =
          IF q = 0 THEN "ERASE"
          ELSE IF SameName(p, q)
          THEN Compared(p, q, "REINSTALLED", "DOWNGRADED", "UPGRADED", "CHANGED")
          ELSE "OBSOLETED"
    BY <1>5, <2>1 DEF transaction_base_type
  <2> HIDE DEF q
  <2>. QED BY <1>1, <1>2, <1>3, <1>5, <2>1, <2>2 DEF Joined, OldTypes, Final, q
<1>6. CASE p \notin Installed
  <2>1. p \in New /\ Partners(p) = Obsoleted(p)
    BY <1>1, <1>6 DEF New, Partners
  <2>2. CASE p \in multiversionmap
    <3>1. transaction_base_type(p) = IF q # 0 /\ SameNevra(p, q) THEN "MULTIREINSTALL" ELSE "MULTIINSTALL"
      BY <1>6, <2>1, <2>2 DEF transaction_base_type
    <3>2. Partners(p) # {} => SameNevra(p, q)
      <4> SUFFICES ASSUME Partners(p) # {} PROVE SameNevra(p, q)
        OBVIOUS
      <4>1. <<p, q>> \in Range(info)
        BY <1>2, <2>1 DEF Obsoleted
      <4>2. ObsoletesPkg(p, q)
        BY <4>1 DEF InfoRight
      <4>. QED BY <2>2, <4>2 DEF ObsoletesPkg
    <3> HIDE DEF q
    <3>. QED BY <1>2, <3>1, <3>2 DEF Joined, NewTypes, Final, q
  <2>3. CASE p \notin multiversionmap
    <3>1. transaction_base_type(p) =
            IF q = 0 THEN "INSTALL"
            ELSE IF SameName(p, q)
            THEN Compared(p, q, "REINSTALL", "UPGRADE", "DOWNGRADE", "CHANGE")
            ELSE "OBSOLETES"
      BY <1>6, <2>1, <2>3 DEF transaction_base_type
    <3> HIDE DEF q
    <3>. QED BY <1>2, <1>4, <3>1 DEF Joined, NewTypes, Final, q
  <2>. QED BY <2>2, <2>3
<1>. QED BY <1>5, <1>6

\* The renamings of the mode flags leave the kinds of types apart.
LEMMA RenamedTypes ==
  ASSUME NEW mode, NEW type
  PROVE  /\ type \in Final => Renamed(mode, type) \in Final
         /\ type \in Joined => Renamed(mode, type) \in Joined
         /\ type \notin {"OBSOLETED", "OBSOLETES"} => Renamed(mode, type) \notin {"OBSOLETED", "OBSOLETES"}
<1> DEFINE t == IF "SHOW_MULTIINSTALL" \in mode THEN type
                ELSE CASE type = "MULTIINSTALL" -> "INSTALL"
                       [] type = "MULTIREINSTALL" -> "REINSTALL"
                       [] OTHER -> type
<1>1. /\ type \in Final => t \in Final
      /\ type \in Joined => t \in Joined
      /\ type \notin {"OBSOLETED", "OBSOLETES"} => t \notin {"OBSOLETED", "OBSOLETES"}
  BY DEF Final, Joined, OldTypes, NewTypes
<1> HIDE DEF t
<1>2. Renamed(mode, type) =
        IF "CHANGE_IS_REINSTALL" \notin mode THEN t
        ELSE CASE t = "CHANGED" -> "REINSTALLED"
               [] t = "CHANGE" -> "REINSTALL"
               [] OTHER -> t
  BY DEF Renamed, t
<1>. QED BY <1>1, <1>2 DEF Final, Joined, OldTypes, NewTypes

\* An element is shown with its partner unless its side is hidden.
LEMMA ShownElement ==
  ASSUME Given, InfoRight, NEW mode, "RPM_ONLY" \notin mode, NEW p \in transactsmap,
         Partners(p) # {}, ShownSide(p, mode), ~is_noinst_pseudo_package(p) \/ "KEEP_PSEUDO" \in mode,
         "SHOW_OBSOLETES" \in mode \/ SameName(p, transaction_obs_pkg(p))
  PROVE  transaction_type(p, mode) \notin Final \cup {"IGNORE"}
<1> DEFINE base == transaction_base_type(p)
           type == Renamed(mode, base)
<1>1. /\ base \in Joined
      /\ SameName(p, transaction_obs_pkg(p)) => base \notin {"OBSOLETED", "OBSOLETES"}
  BY JoinedTypes
<1>2. base # "IGNORE"
  BY <1>1 DEF Joined, OldTypes, NewTypes
<1> HIDE DEF base
<1>3. /\ type \in Joined
      /\ "SHOW_OBSOLETES" \in mode \/ type \notin {"OBSOLETED", "OBSOLETES"}
  BY <1>1, RenamedTypes
<1> HIDE DEF type
<1>4. type \notin Final
  BY <1>3 DEF Joined, OldTypes, Final
<1>5. transaction_type(p, mode) = ShownType(p, mode, type)
  BY <1>2, <1>4 DEF transaction_type, type, base
<1>6. ShownType(p, mode, type) \in {type, "UPGRADED", "UPGRADE"}
  BY <1>3 DEF ShownType
<1>. QED BY <1>3, <1>4, <1>5, <1>6 DEF Joined, OldTypes, NewTypes, Final

\* An element that is not shown has a partner that may be shown for it.
LEMMA HiddenElement ==
  ASSUME Given, InfoRight, NEW mode, "RPM_ONLY" \notin mode, NEW p \in transactsmap,
         ~is_noinst_pseudo_package(p), transaction_type(p, mode) = "IGNORE"
  PROVE  /\ ~ShownSide(p, mode)
         /\ \E q \in Partners(p) : /\ "SHOW_OBSOLETES" \in mode \/ SameName(p, q)
                                   /\ "SHOW_ALL" \in mode \/ transaction_obs_pkg(q) = p
<1> DEFINE base == transaction_base_type(p)
           type == Renamed(mode, base)
           q == transaction_obs_pkg(p)
<1>1. p \in Pkgs
  BY DEF InfoRight
<1>2. /\ Partners(p) = {} => base \in Final
      /\ Partners(p) # {} => base \in Joined
  BY JoinedTypes
<1>3. base # "IGNORE"
  BY <1>2 DEF Joined, OldTypes, NewTypes, Final
<1> HIDE DEF base
<1>4. /\ Partners(p) = {} => type \in Final
      /\ Partners(p) # {} => type \in Joined
  BY <1>2, RenamedTypes
<1> HIDE DEF type
<1>5. transaction_type(p, mode) = IF type \in Final THEN type
                                  ELSE IF ShownSide(p, mode) THEN ShownType(p, mode, type)
                                  ELSE HiddenType(p, mode, type)
  BY <1>3 DEF transaction_type, type, base
<1>6. type \notin Final
  BY <1>5 DEF Final
<1>7. Partners(p) # {} /\ type \in Joined
  BY <1>4, <1>6
<1>8. ShownType(p, mode, type) \in {type, "ERASE", "INSTALL", "UPGRADED", "UPGRADE"}
  BY DEF ShownType
<1>9. ~ShownSide(p, mode) /\ HiddenType(p, mode, type) = "IGNORE"
  BY <1>5, <1>6, <1>7, <1>8 DEF Joined, OldTypes, NewTypes
<1>10. Unreferenced(p, type) # "IGNORE"
  BY DEF Unreferenced
<1>11. \/ {"SHOW_ALL", "SHOW_OBSOLETES"} \subseteq mode
       \/ /\ "SHOW_OBSOLETES" \in mode \/ SameName(p, q)
          /\ transaction_obs_pkg(q) = p \/ Referenced(p, mode)
  BY <1>9, <1>10 DEF HiddenType
<1>12. q \in Partners(p)
  BY <1>1, <1>7, PartnersFacts
<1> HIDE DEF q
<1>13. CASE {"SHOW_ALL", "SHOW_OBSOLETES"} \subseteq mode
  BY <1>9, <1>12, <1>13
<1>14. CASE ("SHOW_OBSOLETES" \in mode \/ SameName(p, q)) /\ transaction_obs_pkg(q) = p
  BY <1>9, <1>12, <1>14
<1>15. CASE Referenced(p, mode)
  <2>1. PICK r \in Range(transaction_all_obs_pkgs(p)) :
          /\ "SHOW_OBSOLETES" \notin mode => SameName(p, r)
          /\ IF "SHOW_ALL" \in mode THEN p \in Range(transaction_all_obs_pkgs(r))
                                    ELSE transaction_obs_pkg(r) = p
    BY <1>15 DEF Referenced
  <2>2. r \in Partners(p)
    BY <1>1, <2>1, PartnersFacts
  <2>. QED BY <1>9, <2>1, <2>2
<1>. QED BY <1>11, <1>13, <1>14, <1>15

\* Every element is shown, by itself or by a partner.
LEMMA AllShown ==
  ASSUME Given, InfoRight, StepsRight
  PROVE  ShownUnlessPseudo
<1> SUFFICES ASSUME NEW mode \in Modes, "RPM_ONLY" \notin mode, NEW p \in transactsmap,
                    transaction_type(p, mode) = "IGNORE", ~is_noinst_pseudo_package(p)
             PROVE  \/ \E q \in transactsmap : p \in StandsFor(q, mode)
                    \/ p \in Installed /\ \E q \in Obsoleters(p) : is_noinst_pseudo_package(q)
  BY DEF ShownUnlessPseudo, StepsRight
<1>1. p \in Pkgs
  BY DEF InfoRight
<1>2. ~ShownSide(p, mode)
  BY HiddenElement
<1>3. PICK q \in Partners(p) : /\ "SHOW_OBSOLETES" \in mode \/ SameName(p, q)
                               /\ "SHOW_ALL" \in mode \/ transaction_obs_pkg(q) = p
  BY HiddenElement
<1>4. q \in Pkgs /\ q \in transactsmap /\ p \in Partners(q) /\ (q \in Installed <=> p \notin Installed)
  BY <1>1, <1>3, PartnersFacts
<1>5. CASE is_noinst_pseudo_package(q)
  <2>1. q \notin Installed
    BY <1>4, <1>5 DEF Given, IsDecided, is_noinst_pseudo_package, Installed, Pkg
  <2>. QED BY <1>3, <1>4, <1>5, <2>1 DEF Partners
<1>6. CASE ~is_noinst_pseudo_package(q)
  <2>1. ShownSide(q, mode)
    BY <1>2, <1>4 DEF ShownSide
  <2>2. SameName(p, q) => SameName(q, transaction_obs_pkg(q))
    <3>1. SameName(p, q) => SameName(q, p)
      BY DEF SameName
    <3>. QED BY <1>4, <3>1, BestPartnerName
  <2>3. transaction_type(q, mode) \notin Final \cup {"IGNORE"}
    BY <1>3, <1>4, <1>6, <2>1, <2>2, ShownElement
  <2>4. p \in Range(transaction_all_obs_pkgs(q))
    BY <1>4, PartnersFacts
  <2>5. p \in StandsFor(q, mode)
    BY <1>3, <2>3, <2>4 DEF StandsFor
  <2>. QED BY <1>4, <2>5
<1>. QED BY <1>5, <1>6

\* Partners agree from both sides, the first of them is the partner.
LEMMA PartnersAgree ==
  ASSUME Given, InfoRight
  PROVE  OtherIsFirst
<1> SUFFICES ASSUME NEW p \in transactsmap
             PROVE  LET all == transaction_all_obs_pkgs(p)
                    IN  /\ transaction_obs_pkg(p) = IF all = <<>> THEN 0 ELSE all[1]
                        /\ \A q \in Range(all) : p \in Range(transaction_all_obs_pkgs(q))
  BY DEF OtherIsFirst
<1>1. p \in Pkgs
  BY DEF InfoRight
<1>2. ASSUME NEW q \in Range(transaction_all_obs_pkgs(p))
      PROVE  p \in Range(transaction_all_obs_pkgs(q))
  <2>1. q \in Partners(p)
    BY <1>1, PartnersFacts
  <2>2. q \in Pkgs /\ p \in Partners(q)
    BY <1>1, <2>1, PartnersFacts
  <2>. QED BY <2>2, PartnersFacts
<1>. QED BY <1>1, <1>2, PartnerGiven

\* The class of a package that changes its architecture or its vendor.
LEMMA ChangeOfFacts ==
  ASSUME NEW p, NEW q, NEW mode, NEW type, NEW class
  PROVE  LET value(r) == IF type = "ARCHCHANGE" THEN Pkg(r).arch ELSE Vendor(r)
             flag == IF type = "ARCHCHANGE" THEN "MERGE_ARCHCHANGES" ELSE "MERGE_VENDORCHANGES"
         IN  class \in ChangeOf(p, q, mode, type) <=>
               /\ value(p) # value(q)
               /\ class = IF flag \in mode THEN <<type, 0, 0>> ELSE <<type, value(p), value(q)>>
BY DEF ChangeOf

LEMMA VendorType ==
  ASSUME Given, NEW p \in Pkgs
  PROVE  Pkg(p).arch \in Nat /\ Vendor(p) \in Nat \ {0}
BY PackageFacts DEF Vendor

\* A package is counted in a class that is not merged if it is listed there.
LEMMA CountedIsListed ==
  ASSUME Given, InfoRight, NEW mode, NEW class, class[2] # 0,
         \E p \in transactsmap : class \in ChangesCounted(p, mode), NEW p \in transactsmap
  PROVE  class \in ChangesCounted(p, mode) <=>
           LET q == transaction_obs_pkg(p)
               value(r) == IF class[1] = "ARCHCHANGE" THEN Pkg(r).arch ELSE Vendor(r)
           IN  /\ p \in Installed /\ q # 0
               /\ (class[2] = 0 /\ class[3] = 0) \/ (value(p) = class[2] /\ value(q) = class[3])
               /\ transaction_type(p, mode) # "ERASE"
<1> DEFINE Value(t, r) == IF t = "ARCHCHANGE" THEN Pkg(r).arch ELSE Vendor(r)
           Flag(t) == IF t = "ARCHCHANGE" THEN "MERGE_ARCHCHANGES" ELSE "MERGE_VENDORCHANGES"
           ChangeTypes == {"ARCHCHANGE", "VENDORCHANGE"}
           q == transaction_obs_pkg(p)
<1>1. \A x, t, y : class \in ChangeOf(x, y, mode, t) <=>
        /\ Value(t, x) # Value(t, y)
        /\ class = IF Flag(t) \in mode THEN <<t, 0, 0>> ELSE <<t, Value(t, x), Value(t, y)>>
  BY ChangeOfFacts
<1>2. \A x : class \in ChangesCounted(x, mode) <=>
        /\ x \in Installed /\ transaction_obs_pkg(x) # 0 /\ transaction_type(x, mode) # "ERASE"
        /\ \E t \in ChangeTypes : class \in ChangeOf(x, transaction_obs_pkg(x), mode, t)
  BY DEF ChangesCounted
<1>3. PICK x \in transactsmap, t \in ChangeTypes : class \in ChangeOf(x, transaction_obs_pkg(x), mode, t)
  BY <1>2
<1> HIDE DEF q, Value, Flag
<1>4. PICK a, b : class = <<t, a, b>> /\ Flag(t) \notin mode /\ a # b /\ a # 0
  <2>1. /\ Value(t, x) # Value(t, transaction_obs_pkg(x))
        /\ class = IF Flag(t) \in mode THEN <<t, 0, 0>>
                   ELSE <<t, Value(t, x), Value(t, transaction_obs_pkg(x))>>
    BY <1>1, <1>3
  <2>2. Flag(t) \notin mode
    BY <2>1
  <2>3. class = <<t, Value(t, x), Value(t, transaction_obs_pkg(x))>>
    BY <2>1, <2>2
  <2>. QED BY <2>1, <2>2, <2>3
<1>5. class[1] = t /\ class[2] = a /\ class[3] = b
  BY <1>4
<1>6. (\E u \in ChangeTypes : class \in ChangeOf(p, q, mode, u)) <=> Value(t, p) = a /\ Value(t, q) = b
  <2>1. ASSUME NEW u \in ChangeTypes, class \in ChangeOf(p, q, mode, u) PROVE Value(t, p) = a /\ Value(t, q) = b
    <3>1. class = IF Flag(u) \in mode THEN <<u, 0, 0>> ELSE <<u, Value(u, p), Value(u, q)>>
      BY <1>1, <2>1
    <3>2. class = <<u, Value(u, p), Value(u, q)>>
      BY <1>4, <1>5, <3>1
    <3>. QED BY <1>4, <3>2
  <2>2. ASSUME Value(t, p) = a, Value(t, q) = b PROVE class \in ChangeOf(p, q, mode, t)
    BY <1>1, <1>4, <2>2
  <2>. QED BY <2>1, <2>2
<1>7. class \in ChangesCounted(p, mode) <=>
        /\ p \in Installed /\ q # 0 /\ transaction_type(p, mode) # "ERASE"
        /\ Value(t, p) = a /\ Value(t, q) = b
  BY <1>2, <1>6 DEF q
<1>. QED BY <1>4, <1>5, <1>7 DEF q, Value

LEMMA ClassesMatch ==
  ASSUME Given, InfoRight, StepsRight
  PROVE  ClassCountsMatch
<1> SUFFICES ASSUME NEW mode \in Modes, NEW class \in ChangeClasses(mode), class[2] # 0
             PROVE  transaction_classify(mode, class) =
                      Cardinality({p \in transaction_classify_pkgs(class) :
                                     transaction_type(p, mode) # "ERASE"})
  BY DEF ClassCountsMatch
<1>1. \E p \in transactsmap : class \in ChangesCounted(p, mode)
  BY DEF ChangeClasses, StepsRight
<1>2. \A p \in transactsmap : class \in ChangesCounted(p, mode) <=>
        p \in {x \in transaction_classify_pkgs(class) : transaction_type(x, mode) # "ERASE"}
  BY <1>1, CountedIsListed DEF transaction_classify_pkgs, StepsRight
<1>3. transaction_classify_pkgs(class) \subseteq transactsmap
  BY DEF transaction_classify_pkgs, StepsRight
<1>4. {p \in Range(steps) : class \in ChangesCounted(p, mode)} =
        {p \in transaction_classify_pkgs(class) : transaction_type(p, mode) # "ERASE"}
  BY <1>2, <1>3 DEF StepsRight
<1>. QED BY <1>4 DEF transaction_classify

LEMMA TransTypes ==
  ASSUME Given, InfoRight, StepsRight
  PROVE  TransTypeOK
<1> DEFINE K == (New \cap transactsmap) \X (Installed \cap transactsmap)
<1>1. info \in Seq(K) /\ K \subseteq New \X Installed
  BY DEF InfoRight
<1>2. info \in Seq(New \X Installed)
  <2> HIDE DEF K
  <2>. QED BY <1>1, SeqGrows
<1>. QED BY <1>2 DEF TransTypeOK, Given, InfoRight, StepsRight

\* What the application is told is right at every point of the ordering: every
\* element is shown, partners agree from both sides, the classes add up.
THEOREM ViewsRightHolds == TransOrderSpec => []ViewsRight
<1>1. TransInductive => ViewsRight
  BY TransTypes, AllShown, PartnersAgree, ClassesMatch DEF TransInductive, ViewsRight
<1>. QED BY <1>1, TransInductiveHolds, PTL

\* In particular whenever the application can ask, before and after the ordering.
THEOREM ViewsStayRightHolds == TransOrderSpec => []ViewsStayRight
<1>1. ViewsRight => ViewsStayRight
  BY DEF ViewsStayRight
<1>. QED BY <1>1, ViewsRightHolds, PTL

=============================================================================
