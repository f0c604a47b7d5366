--------------------------- MODULE SatOutcomeProof ---------------------------
(***************************************************************************)
(* What the SAT engine learns, reports and leaves behind is right on every *)
(* rule set: LearningOK and OutcomeRight of Sat, for all constants.        *)
(*                                                                         *)
(* Neither is inductive.  A learnt rule is right because analyze resolves  *)
(* one rule after the other: at each of its steps the rules resolved so    *)
(* far imply the clause it has got (ProofOK), and what it learns in the    *)
(* end implies nothing the older rules do not (LearntOK).  That a learnt   *)
(* rule is in use only over enabled rules is broken while                  *)
(* makeruledecisions disables rules and repaired when it starts over; in   *)
(* between it still has a learnt assertion to come (StatusOK), or the      *)
(* rules in use have a solution and it cannot have disabled any (SatOK).   *)
(*                                                                         *)
(* A problem is real because the rules of its proof imply the empty        *)
(* clause, and because makeruledecisions, which reports a conflict of two  *)
(* assertions without a proof, has decided by assertions only              *)
(* (AssertReasons) over rules nobody changed (BaseSame).                   *)
(***************************************************************************)
EXTENDS SatSearchProof

\* The phases of makeruledecisions.
Asserting == {"assert", "weakassert"}

\* A rule that is enabled and has literals.
InUse(i) == i \notin disabled /\ rules[i].w1 # 0

\* The literal of package v that is false.
FalseLit(v) == IF decisionmap[v] > 0 THEN -v ELSE v

\* The clause analyze has got by resolution so far.
Clause == {FalseLit(v) : v \in seen} \cup q \cup ({uip} \ {0})

\* The one analyze_unsolvable has: the decisions still to be explained.
UnsolvableClause == {-decisionq[k].p : k \in {j \in 1 .. idx : Pkg(decisionq[j].p) \in seen}}

\* The rules in proof are in use and imply the clause.
ProofOK ==
  /\ pc = "analyze" =>
       IF proof = {} THEN idx = Len(decisionq) /\ q = {} /\ uip = 0 /\ seen = {}
       ELSE idx < Len(decisionq) /\ Entails(rules, proof, Clause \cup {-decisionq[idx + 1].p})
  /\ pc = "next" => proof # {} /\ Entails(rules, proof, Clause)
  /\ pc = "learn" => Entails(rules, proof, q \cup {uip})
  /\ pc = "unsolvable" => Entails(rules, proof, UnsolvableClause)
  /\ pc \in Resolving \cup {"unsolvable"} => \A i \in proof \cup {confl} : InUse(i)

\* A learnt rule follows from its proof, which has no placeholder in it.
LearntOK ==
  \A j \in 1 .. Len(why) :
    /\ Entails(rules, why[j], rules[NBase + j].lits)
    /\ \A i \in why[j] : rules[i].w1 # 0

\* A rule learnt is an assertion.
LearntAssertion == \E i \in RuleId : i > NBase /\ IsAssertion(rules[i])

\* A learnt rule in use rests on enabled rules, except after makeruledecisions
\* has disabled rules: then it still has a learnt assertion to come.
StatusOK ==
  /\ ~(pc \in Asserting /\ havedisabled) /\ pc # "failed" =>
       \A i \in RuleId \ disabled : BaseRules({i}) \cap disabled = {}
  /\ pc \in Asserting /\ havedisabled /\ Len(rules) > NBase => pc = "assert" /\ LearntAssertion

\* The rules in use have a solution.
Satisfiable ==
  \E M \in Installations : \A i \in RuleId : InUse(i) => Holds(M, rules[i].lits)

\* The rules in use have a solution where the engine relies on it: when none
\* of the rules learnt at higher levels is an assertion, and when a phase
\* decides without disablerules.
SatOK ==
  /\ pc \in Asserting => disablerules = inst.disablerules
  /\ pc # "failed" /\ level <= 1 /\ Len(rules) > NBase /\ ~LearntAssertion => Satisfiable
  /\ pc # "start" /\ inst.disablerules /\ ~disablerules => Satisfiable

LearnInv == ProofOK /\ LearntOK /\ StatusOK /\ SatOK

-----------------------------------------------------------------------------
(* The rules a learnt rule rests on. *)

\* BaseRules(R) where W holds the proofs of the rules k + 1 .. n.
Rests(W, n, k, R) ==
  LET base[i \in 1 .. n] ==
        IF i <= k THEN {i} ELSE UNION {base[w] : w \in W[i - k]}
  IN  UNION {base[i] : i \in R}

IsBase(f, W, n, k) ==
  f = [i \in 1 .. n |-> IF i <= k THEN {i} ELSE UNION {f[w] : w \in W[i - k]}]

\* Every proof is made of older rules.
Older(W, n, k) == \A i \in k + 1 .. n : W[i - k] \subseteq 1 .. i - 1

\* The table of what the rules rest on exists where every proof is made of
\* older rules.
LEMMA RestsExists ==
  ASSUME NEW n \in Nat, NEW k \in 0 .. n, NEW W, Older(W, n, k)
  PROVE  \E f : IsBase(f, W, n, k)
<1> DEFINE Body(f, i) == IF i <= k THEN {i} ELSE UNION {f[w] : w \in W[i - k]}
           Good(m) == \E f : f = [i \in 1 .. m |-> Body(f, i)]
           Bad == {m \in 0 .. n : ~Good(m)}
<1>2. ASSUME Bad # {} PROVE FALSE
  <2> DEFINE m == Min(Bad)
  <2>1. m \in Bad /\ \A j \in Bad : m <= j
    <3> HIDE DEF Good
    <3>1. Bad \subseteq 0 .. n
      OBVIOUS
    <3>2. Bad \subseteq Nat
      BY <3>1
    <3> HIDE DEF Bad
    <3>. QED BY <1>2, <3>2, MinIn
  <2> HIDE DEF m
  <2>2. m \in 0 .. n /\ ~Good(m) /\ m \in Nat
    <3> HIDE DEF Good
    <3>1. m \in 0 .. n /\ ~Good(m)
      BY <2>1
    <3>. QED BY <3>1
  <2>3. CASE m = 0
    <3> DEFINE g == [i \in 1 .. 0 |-> {}]
    <3>1. g = [i \in 1 .. 0 |-> Body(g, i)]
      OBVIOUS
    <3> HIDE DEF g
    <3>. QED BY <2>2, <2>3, <3>1
  <2>4. CASE m # 0
    <3>1. m - 1 \in 0 .. n /\ ~(m <= m - 1)
      BY <2>2, <2>4
    <3>2. Good(m - 1)
      BY <2>1, <3>1
    <3>3. PICK f : f = [i \in 1 .. m - 1 |-> Body(f, i)]
      BY <3>2
    <3> DEFINE g == [i \in 1 .. m |-> Body(f, i)]
    <3>4. \A i \in 1 .. m - 1 : g[i] = f[i]
      <4> TAKE i \in 1 .. m - 1
      <4>1. i \in 1 .. m
        BY <2>2
      <4>2. f[i] = Body(f, i)
        BY <3>3
      <4>. QED BY <4>1, <4>2
    <3>5. ASSUME NEW i \in 1 .. m PROVE Body(f, i) = Body(g, i)
      <4>1. CASE i <= k
        BY <4>1
      <4>2. CASE ~(i <= k)
        <5>1. i \in k + 1 .. n
          BY <2>2, <4>2
        <5>2. W[i - k] \subseteq 1 .. i - 1
          BY <5>1 DEF Older
        <5>3. \A w \in W[i - k] : w \in 1 .. m - 1
          BY <2>2, <5>2
        <5>4. \A w \in W[i - k] : g[w] = f[w]
          BY <3>4, <5>3
        <5> HIDE DEF g
        <5>5. {f[w] : w \in W[i - k]} = {g[w] : w \in W[i - k]}
          BY <5>4
        <5>. QED BY <4>2, <5>5
      <4>. QED BY <4>1, <4>2
    <3>6. g = [i \in 1 .. m |-> Body(g, i)]
      <4> DEFINE B(i) == Body(f, i)
                 C(i) == Body(g, i)
      <4>1. \A i \in 1 .. m : B(i) = C(i)
        BY <3>5
      <4>2. g = [i \in 1 .. m |-> B(i)]
        OBVIOUS
      <4> HIDE DEF B, C, g
      <4>3. [i \in 1 .. m |-> B(i)] = [i \in 1 .. m |-> C(i)]
        BY <4>1
      <4>4. g = [i \in 1 .. m |-> C(i)]
        BY <4>2, <4>3
      <4>. QED BY <4>4 DEF C
    <3> HIDE DEF g
    <3>7. Good(m)
      BY <3>6
    <3>. QED BY <2>2, <3>7
  <2>. QED BY <2>3, <2>4
<1>3. n \in 0 .. n
  OBVIOUS
<1>4. Good(n)
  BY <1>2, <1>3
<1>. QED BY <1>4, Zenon DEF IsBase

\* A rule of the instance rests on itself, a learnt rule on what the rules of
\* its proof rest on, and all of it are rules of the instance.
RestsRight(W, n, k) ==
  /\ \A i \in 1 .. k : Rests(W, n, k, {i}) = {i}
  /\ \A i \in k + 1 .. n : Rests(W, n, k, {i}) = Rests(W, n, k, W[i - k])
  /\ \A R : Rests(W, n, k, R) = UNION {Rests(W, n, k, {i}) : i \in R}
  /\ \A i \in 1 .. n : Rests(W, n, k, {i}) \subseteq 1 .. k

\* What rules rest on, as RestsRight states it.
LEMMA RestsFacts ==
  ASSUME NEW n \in Nat, NEW k \in 0 .. n, NEW W, Older(W, n, k)
  PROVE  RestsRight(W, n, k)
<1> DEFINE base == CHOOSE f : IsBase(f, W, n, k)
           B(i) == Rests(W, n, k, {i})
<1>1. base = [i \in 1 .. n |-> IF i <= k THEN {i} ELSE UNION {base[w] : w \in W[i - k]}]
  <2>1. \E f : IsBase(f, W, n, k)
    BY RestsExists
  <2>2. IsBase(base, W, n, k)
    BY <2>1, Zenon
  <2> HIDE DEF base
  <2>. QED BY <2>2, Zenon DEF IsBase
<1>2. \A R : Rests(W, n, k, R) = UNION {base[i] : i \in R}
  BY Zenon DEF Rests, IsBase
<1> HIDE DEF base
<1>3. \A i \in 1 .. n : base[i] = IF i <= k THEN {i} ELSE UNION {base[w] : w \in W[i - k]}
  BY <1>1
<1>4. \A i : B(i) = base[i]
  <2> TAKE i
  <2>1. {base[j] : j \in {i}} = {base[i]}
    OBVIOUS
  <2>2. UNION {base[i]} = base[i]
    OBVIOUS
  <2>. QED BY <1>2, <2>1, <2>2
<1>5. ASSUME NEW i \in 1 .. k PROVE B(i) = {i}
  <2>1. i \in 1 .. n /\ i <= k
    OBVIOUS
  <2>2. base[i] = {i}
    BY <1>3, <2>1
  <2>. QED BY <1>4, <2>2
<1>6. ASSUME NEW i \in k + 1 .. n PROVE B(i) = Rests(W, n, k, W[i - k])
  <2>1. i \in 1 .. n /\ ~(i <= k)
    OBVIOUS
  <2>2. base[i] = UNION {base[w] : w \in W[i - k]}
    BY <1>3, <2>1
  <2>. QED BY <1>2, <1>4, <2>2
<1>7. \A R : Rests(W, n, k, R) = UNION {B(i) : i \in R}
  <2> TAKE R
  <2>1. {B(i) : i \in R} = {base[i] : i \in R}
    <3> HIDE DEF B
    <3>. QED BY <1>4
  <2>. QED BY <1>2, <2>1
<1> HIDE DEF B
<1> DEFINE Bad == {i \in 1 .. n : ~(B(i) \subseteq 1 .. k)}
<1>8. ASSUME Bad # {} PROVE FALSE
  <2> DEFINE m == Min(Bad)
  <2>1. m \in Bad /\ \A j \in Bad : m <= j
    <3>1. Bad \subseteq Nat
      OBVIOUS
    <3> HIDE DEF Bad
    <3>. QED BY <1>8, <3>1, MinIn
  <2> HIDE DEF m
  <2>2. m \in 1 .. n /\ ~(B(m) \subseteq 1 .. k)
    BY <2>1
  <2>3. m \in k + 1 .. n
    BY <1>5, <2>2
  <2>4. PICK w \in W[m - k] : ~(B(w) \subseteq 1 .. k)
    BY <1>6, <1>7, <2>2, <2>3
  <2>5. w \in 1 .. m - 1
    BY <2>3 DEF Older
  <2>6. w \in Bad
    BY <2>2, <2>4, <2>5
  <2>. QED BY <2>1, <2>2, <2>5, <2>6
<1>9. \A i \in 1 .. n : B(i) \subseteq 1 .. k
  BY <1>8
<1>. QED BY <1>5, <1>6, <1>7, <1>9 DEF B, RestsRight

\* What the rules rest on does not change when a rule is learnt.
Appended(W, n, k, W2) == \A i \in 1 .. n - k : W2[i] = W[i]

RestsAlike(W, n, k, W2, n2) == \A i \in 1 .. n : Rests(W2, n2, k, {i}) = Rests(W, n, k, {i})

\* Learning leaves alone what the older rules rest on.
LEMMA RestsSame ==
  ASSUME NEW n \in Nat, NEW k \in 0 .. n, NEW W, Older(W, n, k),
         NEW n2 \in Nat, n <= n2, NEW W2, Older(W2, n2, k), Appended(W, n, k, W2)
  PROVE  RestsAlike(W, n, k, W2, n2)
<1>1. k \in 0 .. n2
  OBVIOUS
<1>2. RestsRight(W, n, k)
  BY RestsFacts
<1>3. RestsRight(W2, n2, k)
  BY <1>1, RestsFacts
<1> DEFINE B(i) == Rests(W, n, k, {i})
           C(i) == Rests(W2, n2, k, {i})
           Bad == {i \in 1 .. n : C(i) # B(i)}
<1>4. /\ \A i \in 1 .. k : B(i) = C(i)
      /\ \A i \in k + 1 .. n : B(i) = Rests(W, n, k, W[i - k])
      /\ \A i \in k + 1 .. n2 : C(i) = Rests(W2, n2, k, W2[i - k])
      /\ \A R : Rests(W, n, k, R) = UNION {B(i) : i \in R}
      /\ \A R : Rests(W2, n2, k, R) = UNION {C(i) : i \in R}
  BY <1>2, <1>3, Zenon DEF RestsRight
<1> HIDE DEF B, C
<1>5. ASSUME Bad # {} PROVE FALSE
  <2> DEFINE m == Min(Bad)
  <2>1. m \in Bad /\ \A j \in Bad : m <= j
    <3>1. Bad \subseteq Nat
      OBVIOUS
    <3> HIDE DEF Bad
    <3>. QED BY <1>5, <3>1, MinIn
  <2> HIDE DEF m
  <2>2. m \in 1 .. n /\ C(m) # B(m)
    BY <2>1
  <2>3. m \in k + 1 .. n
    <3>1. m \notin 1 .. k
      BY <1>4, <2>2
    <3>. QED BY <2>2, <3>1
  <2>4. W2[m - k] = W[m - k] /\ W[m - k] \subseteq 1 .. m - 1 /\ m \in k + 1 .. n2
    BY <2>3 DEF Older, Appended
  <2>5. \A w \in W[m - k] : C(w) = B(w)
    <3> TAKE w \in W[m - k]
    <3>1. w \in 1 .. m - 1
      BY <2>4
    <3>2. w \in 1 .. n /\ w \notin Bad
      BY <2>1, <2>2, <3>1
    <3>. QED BY <3>2
  <2>6. {C(w) : w \in W[m - k]} = {B(w) : w \in W[m - k]}
    BY <2>5
  <2>7. C(m) = UNION {C(w) : w \in W[m - k]}
    BY <1>4, <2>4
  <2>8. B(m) = UNION {B(w) : w \in W[m - k]}
    BY <1>4, <2>3
  <2>. QED BY <2>2, <2>6, <2>7, <2>8
<1>6. \A i \in 1 .. n : C(i) = B(i)
  BY <1>5
<1>. QED BY <1>6 DEF B, C, RestsAlike

\* BaseRules, rule by rule.
BaseRight ==
  /\ \A i \in 1 .. NBase : BaseRules({i}) = {i}
  /\ \A i \in RuleId : i > NBase => BaseRules({i}) = BaseRules(why[i - NBase])
  /\ \A R, b : b \in BaseRules(R) <=> \E i \in R : b \in BaseRules({i})
  /\ \A i \in RuleId : BaseRules({i}) \subseteq 1 .. NBase

\* The proofs of the engine are made of older rules.
LEMMA WhyIsOlder ==
  ASSUME TypeInv, WhyOlder
  PROVE  Older(why, Len(rules), NBase) /\ NBase \in 0 .. Len(rules) /\ Len(rules) \in Nat
<1>1. NBase \in Nat /\ Len(rules) = NBase + Len(why) /\ Len(why) \in Nat
  BY TypeFacts DEF TypeRules
<1>2. ASSUME NEW i \in NBase + 1 .. Len(rules) PROVE why[i - NBase] \subseteq 1 .. i - 1
  <2>1. i - NBase \in 1 .. Len(why) /\ NBase + (i - NBase) - 1 = i - 1
    BY <1>1
  <2>. QED BY <2>1 DEF WhyOlder
<1>3. Older(why, Len(rules), NBase)
  BY <1>2 DEF Older
<1>. QED BY <1>1, <1>3

\* BaseRules, solver_reset's walk to the rules a learnt rule rests on,
\* gives rules of the instance.
LEMMA BaseFacts ==
  ASSUME TypeInv, WhyOlder
  PROVE  BaseRight
<1>1. RestsRight(why, Len(rules), NBase)
  BY WhyIsOlder, RestsFacts
<1>2. \A R : BaseRules(R) = Rests(why, Len(rules), NBase, R)
  BY Zenon DEF BaseRules, Rests
<1>3. NBase \in Nat /\ Len(rules) \in Nat /\ RuleId = 1 .. Len(rules)
  BY TypeFacts DEF RuleId
<1> DEFINE T(R) == Rests(why, Len(rules), NBase, R)
<1>4. /\ \A i \in 1 .. NBase : T({i}) = {i}
      /\ \A i \in NBase + 1 .. Len(rules) : T({i}) = T(why[i - NBase])
      /\ \A i \in 1 .. Len(rules) : T({i}) \subseteq 1 .. NBase
  BY <1>1, Zenon DEF RestsRight
<1>5. \A R : T(R) = UNION {T({i}) : i \in R}
  BY <1>1, Zenon DEF RestsRight
<1>6. \A R : BaseRules(R) = T(R)
  BY <1>2
<1> HIDE DEF T
<1> DEFINE S(i) == T({i})
<1>7. \A R, b : b \in T(R) <=> \E i \in R : b \in S(i)
  <2>1. \A R : T(R) = UNION {S(i) : i \in R}
    BY <1>5
  <2> HIDE DEF S
  <2>. QED BY <2>1
<1>8. \A i \in RuleId : i > NBase => T({i}) = T(why[i - NBase])
  <2>1. \A i \in RuleId : i > NBase => i \in NBase + 1 .. Len(rules)
    BY <1>3
  <2>. QED BY <1>4, <2>1
<1>. QED BY <1>3, <1>4, <1>6, <1>7, <1>8, Zenon DEF BaseRight

\* What a rule rests on does not change while the engine runs.
LEMMA BaseKept ==
  ASSUME TypeInv, WhyOlder, TypeInv', WhyOlder', inst' = inst, Len(rules) <= Len(rules'),
         \A j \in 1 .. Len(why) : why'[j] = why[j]
  PROVE  \A i \in RuleId : BaseRules({i})' = BaseRules({i})
<1>1. Older(why, Len(rules), NBase) /\ NBase \in 0 .. Len(rules) /\ Len(rules) \in Nat
  BY WhyIsOlder
<1>2. TypeInv' /\ WhyOlder' => (Older(why, Len(rules), NBase) /\ NBase \in 0 .. Len(rules) /\ Len(rules) \in Nat)'
  BY WhyIsOlder, PTL
<1>3. NBase' = NBase
  BY DEF NBase
<1>4. Older(why', Len(rules'), NBase) /\ Len(rules') \in Nat
  BY <1>2, <1>3
<1>5. \A i \in 1 .. Len(rules) - NBase : why'[i] = why[i]
  BY <1>1, TypeFacts DEF TypeRules
<1>6. \A i \in 1 .. Len(rules) : Rests(why', Len(rules'), NBase, {i}) = Rests(why, Len(rules), NBase, {i})
  <2>1. Appended(why, Len(rules), NBase, why')
    BY <1>5 DEF Appended
  <2>2. RestsAlike(why, Len(rules), NBase, why', Len(rules'))
    BY <1>1, <1>4, <2>1, RestsSame
  <2>. QED BY <2>2 DEF RestsAlike
<1>7. \A R : BaseRules(R) = Rests(why, Len(rules), NBase, R)
  BY Zenon DEF BaseRules, Rests
<1>8. \A R : BaseRules(R)' = Rests(why', Len(rules'), NBase', R)
  BY Zenon DEF BaseRules, Rests
<1>. QED BY <1>3, <1>6, <1>7, <1>8, Zenon DEF RuleId

-----------------------------------------------------------------------------
(* What the rules mean. *)

\* The installation M satisfies the rules R of rs.
Satisfies(M, rs, R) == \A i \in R : Holds(M, rs[i].lits)

\* An installation makes one of a literal and its negation true.
LEMMA LitSign ==
  ASSUME NEW M, NEW l \in Lit
  PROVE  LitHolds(M, -l) <=> ~LitHolds(M, l)
<1>1. l \in Int /\ l # 0
  BY LitFacts
<1>2. CASE l > 0
  <2>1. ~(-l > 0) /\ -(-l) = l
    BY <1>1, <1>2
  <2>. QED BY <1>2, <2>1 DEF LitHolds
<1>3. CASE ~(l > 0)
  <2>1. -l > 0
    BY <1>1, <1>3
  <2>. QED BY <1>3, <2>1 DEF LitHolds
<1>. QED BY <1>2, <1>3

\* Entailment, an installation at a time.
LEMMA EntailsMeans ==
  ASSUME NEW rs, NEW R, NEW ls
  PROVE  Entails(rs, R, ls) <=> \A M \in Installations : Satisfies(M, rs, R) => Holds(M, ls)
BY DEF Entails, Satisfies

\* The same rules, up to their watches.
Alike ==
  /\ RuleId' = RuleId /\ UNCHANGED <<inst, why>>
  /\ \A i \in RuleId : /\ rules'[i].lits = rules[i].lits
                       /\ rules'[i].w1 = 0 <=> rules[i].w1 = 0
                       /\ IsAssertion(rules'[i]) <=> IsAssertion(rules[i])

\* Moving watches changes nothing of what is said of learnt rules.
LEMMA AlikeKeeps ==
  ASSUME TypeInv, WhyOlder, TypeInv', Alike
  PROVE  /\ \A R \in SUBSET RuleId : \A ls : Entails(rules', R, ls) <=> Entails(rules, R, ls)
         /\ LearntOK => LearntOK'
         /\ LearntAssertion' <=> LearntAssertion
         /\ NBase' = NBase /\ Len(rules') = Len(rules)
         /\ \A i \in RuleId : BaseRules({i})' = BaseRules({i})
         /\ disabled' = disabled /\ Satisfiable => Satisfiable'
         /\ disabled' = disabled => \A i \in RuleId : InUse(i)' <=> InUse(i)
<1>1. \A R \in SUBSET RuleId : \A M : Satisfies(M, rules', R) <=> Satisfies(M, rules, R)
  BY DEF Alike, Satisfies
<1>2. \A R \in SUBSET RuleId : \A ls : Entails(rules', R, ls) <=> Entails(rules, R, ls)
  BY <1>1, EntailsMeans
<1>3. NBase' = NBase /\ inst' = inst /\ why' = why /\ RuleId' = RuleId
  BY DEF Alike, NBase
<1>4. Len(rules') = Len(rules)
  <2>1. Len(rules) = NBase + Len(why)
    BY TypeFacts DEF TypeRules
  <2>2. (Len(rules) = NBase + Len(why))'
    BY DEF TypeInv, TypeOK, TypeRules
  <2>. QED BY <1>3, <2>1, <2>2
<1>5. ASSUME LearntOK, NEW j \in 1 .. Len(why)
      PROVE  Entails(rules', why[j], rules'[NBase + j].lits) /\ \A i \in why[j] : rules'[i].w1 # 0
  <2>1. why[j] \in SUBSET RuleId /\ NBase + j \in RuleId
    BY TypeFacts DEF TypeRules, RuleId
  <2>2. Entails(rules, why[j], rules[NBase + j].lits) /\ \A i \in why[j] : rules[i].w1 # 0
    BY <1>5 DEF LearntOK
  <2>3. Entails(rules', why[j], rules[NBase + j].lits)
    BY <1>2, <2>1, <2>2
  <2>4. rules'[NBase + j].lits = rules[NBase + j].lits /\ \A i \in why[j] : rules'[i].w1 # 0
    BY <2>1, <2>2 DEF Alike
  <2>. QED BY <2>3, <2>4
<1>6. LearntOK => LearntOK'
  BY <1>3, <1>5 DEF LearntOK
<1>7. LearntAssertion' <=> LearntAssertion
  BY <1>3 DEF LearntAssertion, Alike
<1>8. \A i \in RuleId : BaseRules({i})' = BaseRules({i})
  <2>1. WhyOlder'
    BY <1>3, WhyKept
  <2>2. Len(rules) <= Len(rules')
    BY <1>4, TypeFacts
  <2>3. \A j \in 1 .. Len(why) : why'[j] = why[j]
    BY <1>3
  <2>. QED BY <1>3, <2>1, <2>2, <2>3, BaseKept
<1>9. ASSUME disabled' = disabled PROVE \A i \in RuleId : InUse(i)' <=> InUse(i)
  BY <1>9 DEF InUse, Alike
<1>10. ASSUME disabled' = disabled, Satisfiable PROVE Satisfiable'
  <2>1. PICK M \in Installations : \A i \in RuleId : InUse(i) => Holds(M, rules[i].lits)
    BY <1>10 DEF Satisfiable
  <2>2. \A i \in RuleId : InUse(i)' => Holds(M, rules'[i].lits)
    BY <1>9, <1>10, <2>1 DEF Alike
  <2>. QED BY <1>3, <2>2 DEF Satisfiable
<1>. QED BY <1>2, <1>3, <1>4, <1>6, <1>7, <1>8, <1>9, <1>10

\* So does a step that leaves the rules alone.
LEMMA AlikeSame ==
  ASSUME UNCHANGED ruleVars
  PROVE  Alike
BY DEF ruleVars, Alike, RuleId

\* A learnt rule holds wherever the rules of the instance it rests on do.
LEMMA BaseImplies ==
  ASSUME TypeInv, WhyOlder, LearntOK, NEW M \in Installations, NEW R \in SUBSET RuleId,
         Satisfies(M, rules, BaseRules(R))
  PROVE  Satisfies(M, rules, R)
<1> DEFINE Bad == {i \in RuleId : Satisfies(M, rules, BaseRules({i})) /\ ~Holds(M, rules[i].lits)}
<1>1. BaseRight
  BY BaseFacts
<1>2. ASSUME Bad # {} PROVE FALSE
  <2> DEFINE m == Min(Bad)
  <2>1. m \in Bad /\ \A j \in Bad : m <= j
    <3>1. Bad \subseteq Nat
      BY TypeFacts
    <3> HIDE DEF Bad
    <3>. QED BY <1>2, <3>1, MinIn
  <2> HIDE DEF m
  <2>2. m \in RuleId /\ Satisfies(M, rules, BaseRules({m})) /\ ~Holds(M, rules[m].lits)
    BY <2>1
  <2>3. m > NBase
    <3>1. m \notin 1 .. NBase
      BY <1>1, <2>2 DEF BaseRight, Satisfies
    <3>. QED BY <2>2, <3>1, TypeFacts DEF RuleId
  <2> DEFINE j == m - NBase
  <2>4. j \in 1 .. Len(why) /\ NBase + j = m /\ NBase \in Nat /\ Len(why) \in Nat
    BY <2>2, <2>3, TypeFacts DEF RuleId, TypeRules
  <2>5. why[j] \subseteq 1 .. m - 1
    BY <2>4 DEF WhyOlder
  <2>6. Entails(rules, why[j], rules[m].lits)
    BY <2>4 DEF LearntOK
  <2>7. PICK w \in why[j] : ~Holds(M, rules[w].lits)
    BY <2>2, <2>6 DEF Entails
  <2>8. w \in RuleId /\ w < m
    <3>1. w \in 1 .. m - 1
      BY <2>5, <2>7
    <3>. QED BY <2>2, <3>1, TypeFacts DEF RuleId
  <2>9. \A b \in BaseRules({w}) : b \in BaseRules({m})
    BY <1>1, <2>2, <2>3, <2>7 DEF BaseRight
  <2>10. w \in Bad
    BY <2>2, <2>7, <2>8, <2>9 DEF Satisfies
  <2>11. m \in Nat /\ w \in Nat
    BY <2>2, <2>8, TypeFacts
  <2>12. m <= w /\ w < m
    <3> HIDE DEF Bad
    <3>. QED BY <2>1, <2>8, <2>10
  <2>. QED BY <2>11, <2>12
<1>3. \A i \in R : Satisfies(M, rules, BaseRules({i}))
  BY <1>1 DEF BaseRight, Satisfies
<1>. QED BY <1>2, <1>3 DEF Satisfies

\* No placeholder is among the rules a rule rests on.
LEMMA BaseInUse ==
  ASSUME TypeInv, WhyOlder, LearntOK
  PROVE  \A i \in RuleId : rules[i].w1 # 0 => \A b \in BaseRules({i}) : rules[b].w1 # 0
<1> DEFINE Bad == {i \in RuleId : rules[i].w1 # 0 /\ \E b \in BaseRules({i}) : rules[b].w1 = 0}
<1>1. BaseRight
  BY BaseFacts
<1>2. ASSUME Bad # {} PROVE FALSE
  <2> DEFINE m == Min(Bad)
  <2>1. m \in Bad /\ \A j \in Bad : m <= j
    <3>1. Bad \subseteq Nat
      BY TypeFacts
    <3> HIDE DEF Bad
    <3>. QED BY <1>2, <3>1, MinIn
  <2> HIDE DEF m
  <2>2. m \in RuleId /\ rules[m].w1 # 0
    BY <2>1
  <2>3. PICK b \in BaseRules({m}) : rules[b].w1 = 0
    BY <2>1
  <2>4. m > NBase
    <3>1. m \notin 1 .. NBase
      BY <1>1, <2>2, <2>3 DEF BaseRight
    <3>. QED BY <2>2, <3>1, TypeFacts DEF RuleId
  <2> DEFINE j == m - NBase
  <2>5. j \in 1 .. Len(why) /\ NBase + j = m /\ NBase \in Nat /\ Len(why) \in Nat
    BY <2>2, <2>4, TypeFacts DEF RuleId, TypeRules
  <2>6. why[j] \subseteq 1 .. m - 1
    BY <2>5 DEF WhyOlder
  <2>7. PICK w \in why[j] : b \in BaseRules({w})
    <3>1. b \in BaseRules(why[j])
      BY <1>1, <2>2, <2>3, <2>4 DEF BaseRight
    <3>. QED BY <1>1, <3>1 DEF BaseRight
  <2>8. w \in RuleId /\ w < m
    <3>1. w \in 1 .. m - 1
      BY <2>6, <2>7
    <3>. QED BY <2>2, <3>1, TypeFacts DEF RuleId
  <2>9. rules[w].w1 # 0
    BY <2>5, <2>7 DEF LearntOK
  <2>10. w \in Bad
    BY <2>3, <2>7, <2>8, <2>9
  <2>11. m \in Nat /\ w \in Nat
    BY <2>2, <2>8, TypeFacts
  <2>. QED BY <2>1, <2>8, <2>10, <2>11
<1>. QED BY <1>2

\* A decision of level 1 holds in every solution of the rules in use.
LEMMA LevelOneForced ==
  ASSUME TypeInv, TrailInv, WatchInv, pc \notin {"start", "failed"}, NEW M \in Installations,
         \A i \in RuleId : InUse(i) => Holds(M, rules[i].lits)
  PROVE  \A k \in 1 .. Len(decisionq) : DecisionLev(k) = 1 => LitHolds(M, decisionq[k].p)
<1> DEFINE Bad == {k \in 1 .. Len(decisionq) : DecisionLev(k) = 1 /\ ~LitHolds(M, decisionq[k].p)}
<1>1. /\ TrailFull(decisionq, decisionmap, rules) /\ LevelOK
      /\ \A k \in 1 .. Len(decisionq) : DecisionLev(k) \in Nat /\ DecisionLev(k) >= 1
      /\ \A k \in 1 .. Len(decisionq) : DecisionLev(k) = LevIn(decisionmap, decisionq[k].p)
  BY TrailFacts
<1>2. decisionq[1] = Decision(SYSTEMSOLVABLE, 0)
  BY <1>1 DEF LevelOK
<1>3. ASSUME Bad # {} PROVE FALSE
  <2> DEFINE m == Min(Bad)
  <2>1. m \in Bad /\ \A j \in Bad : m <= j
    <3>1. Bad \subseteq Nat
      OBVIOUS
    <3> HIDE DEF Bad
    <3>. QED BY <1>3, <3>1, MinIn
  <2> HIDE DEF m
  <2>2. m \in 1 .. Len(decisionq) /\ DecisionLev(m) = 1 /\ ~LitHolds(M, decisionq[m].p)
    BY <2>1
  <2> DEFINE w == decisionq[m].why
  <2>3. CASE w = 0
    <3>1. m = 1 \/ LevIn(decisionmap, decisionq[m - 1].p) < LevIn(decisionmap, decisionq[m].p)
      BY <1>1, <2>2, <2>3 DEF TrailFull, FreeFirst
    <3>2. m = 1
      <4>1. ASSUME m # 1 PROVE FALSE
        <5>1. m - 1 \in 1 .. Len(decisionq)
          BY <2>2, <4>1
        <5>2. DecisionLev(m - 1) < DecisionLev(m)
          BY <1>1, <2>2, <3>1, <4>1, <5>1
        <5>. QED BY <1>1, <2>2, <5>1, <5>2
      <4>. QED BY <4>1
    <3>3. decisionq[m].p = SYSTEMSOLVABLE
      BY <1>2, <3>2 DEF Decision
    <3>4. LitHolds(M, SYSTEMSOLVABLE)
      BY DEF LitHolds, Installations, SYSTEMSOLVABLE
    <3>. QED BY <2>2, <3>3, <3>4
  <2>4. CASE w # 0
    <3>1. w \in RuleId /\ w \notin disabled
      <4>1. w \in RuleId
        BY <2>2, <2>4, TypeFacts
      <4>2. w \notin disabled
        BY <2>2, <2>4 DEF WatchInv, EnabledReasons
      <4>. QED BY <4>1, <4>2
    <3>2. /\ decisionq[m].p \in rules[w].lits
          /\ \A l \in rules[w].lits \ {decisionq[m].p} : \E j \in 1 .. m - 1 : decisionq[j].p = -l
      BY <1>1, <2>2, <2>4 DEF TrailFull, Reasons
    <3>3. rules[w].w1 # 0
      BY <3>1, <3>2, TypeFacts DEF RuleShape
    <3>4. PICK l \in rules[w].lits : LitHolds(M, l)
      BY <3>1, <3>3 DEF InUse, Holds
    <3>5. l # decisionq[m].p
      BY <2>2, <3>4
    <3>6. PICK j \in 1 .. m - 1 : decisionq[j].p = -l
      BY <3>2, <3>4, <3>5
    <3>7. j \in 1 .. Len(decisionq) /\ j < m
      BY <2>2, <3>6
    <3>8. DecisionLev(j) = 1
      <4>1. LevIn(decisionmap, decisionq[j].p) <= LevIn(decisionmap, decisionq[m].p)
        BY <1>1, <2>2, <3>7 DEF TrailFull, Trail
      <4>. QED BY <1>1, <2>2, <3>7, <4>1
    <3>9. j \notin Bad
      BY <2>1, <2>2, <3>7
    <3>10. LitHolds(M, -l)
      BY <3>6, <3>7, <3>8, <3>9
    <3>11. l \in Lit
      BY <3>1, <3>4, TypeFacts
    <3>. QED BY <3>4, <3>10, <3>11, LitSign
  <2>. QED BY <2>3, <2>4
<1>. QED BY <1>3

\* When nothing is left to explain, the proof cannot be satisfied.
LEMMA Refuted ==
  ASSUME TypeInv, TrailInv, LearnInv, Proved
  PROVE  \A M \in Installations : ~Satisfies(M, rules, proof)
<1> SUFFICES ASSUME NEW M \in Installations, Satisfies(M, rules, proof) PROVE FALSE
  OBVIOUS
<1>1. Entails(rules, proof, UnsolvableClause)
  BY DEF Proved, LearnInv, ProofOK
<1>2. PICK k \in 1 .. idx : Pkg(decisionq[k].p) \in seen /\ LitHolds(M, -decisionq[k].p)
  BY <1>1 DEF Entails, Satisfies, Holds, UnsolvableClause
<1>3. Pkg(decisionq[k].p) = SYSTEMSOLVABLE
  BY <1>2 DEF Proved, Involved
<1>4. k \in 1 .. Len(decisionq) /\ 1 \in 1 .. Len(decisionq) /\ decisionq[1].p = SYSTEMSOLVABLE
  <2>1. idx \in 0 .. Len(decisionq) /\ Len(decisionq) \in Nat
    BY TypeFacts DEF TypeAnalysis
  <2>2. decisionq[1] = Decision(SYSTEMSOLVABLE, 0)
    BY TrailFacts DEF LevelOK, Proved
  <2>. QED BY <1>2, <2>1, <2>2 DEF Decision
<1>5. Pkg(decisionq[1].p) = SYSTEMSOLVABLE
  BY <1>4 DEF Pkg, SYSTEMSOLVABLE
<1>6. k = 1
  BY <1>3, <1>4, <1>5, TrailFacts DEF TrailFull, Trail
<1>7. LitHolds(M, -SYSTEMSOLVABLE) /\ LitHolds(M, SYSTEMSOLVABLE) /\ SYSTEMSOLVABLE \in Lit
  BY <1>2, <1>4, <1>6, LitFacts DEF LitHolds, Installations, SYSTEMSOLVABLE
<1>. QED BY <1>7, LitSign

-----------------------------------------------------------------------------
(* What every step keeps. *)

\* After enabledisablelearntrules no learnt rule in use rests on a disabled rule.
LEMMA SettledStatus ==
  ASSUME TypeInv, WhyOlder, NEW d
  PROVE  \A i \in RuleId \ EnableDisableLearntRules(d) :
           BaseRules({i}) \cap EnableDisableLearntRules(d) = {}
<1> DEFINE E == EnableDisableLearntRules(d)
           Bad == {i \in RuleId \ E : BaseRules({i}) \cap E # {}}
<1>1. BaseRight
  BY BaseFacts
<1>2. \A i \in RuleId : i > NBase => (i \in E <=> \E w \in why[i - NBase] : w \in E)
  BY StatusFacts
<1> HIDE DEF E
<1>3. ASSUME Bad # {} PROVE FALSE
  <2> DEFINE m == Min(Bad)
  <2>1. m \in Bad /\ \A j \in Bad : m <= j
    <3>1. Bad \subseteq Nat
      BY TypeFacts
    <3> HIDE DEF Bad
    <3>. QED BY <1>3, <3>1, MinIn
  <2> HIDE DEF m
  <2>2. m \in RuleId /\ m \notin E
    BY <2>1
  <2>3. PICK b \in BaseRules({m}) : b \in E
    BY <2>1
  <2>4. m > NBase
    <3>1. m \notin 1 .. NBase
      BY <1>1, <2>2, <2>3 DEF BaseRight
    <3>. QED BY <2>2, <3>1, TypeFacts DEF RuleId
  <2> DEFINE j == m - NBase
  <2>5. j \in 1 .. Len(why) /\ NBase + j = m /\ NBase \in Nat /\ Len(why) \in Nat
    BY <2>2, <2>4, TypeFacts DEF RuleId, TypeRules
  <2>6. why[j] \subseteq 1 .. m - 1
    BY <2>5 DEF WhyOlder
  <2>7. PICK w \in why[j] : b \in BaseRules({w})
    <3>1. b \in BaseRules(why[j])
      BY <1>1, <2>2, <2>3, <2>4 DEF BaseRight
    <3>. QED BY <1>1, <3>1 DEF BaseRight
  <2>8. w \in RuleId /\ w < m
    <3>1. w \in 1 .. m - 1
      BY <2>6, <2>7
    <3>. QED BY <2>2, <3>1, TypeFacts DEF RuleId
  <2>9. w \notin E
    BY <1>2, <2>2, <2>4, <2>7
  <2>10. w \in Bad
    BY <2>3, <2>7, <2>8, <2>9
  <2>11. m \in Nat /\ w \in Nat
    BY <2>2, <2>8, TypeFacts
  <2>. QED BY <2>1, <2>8, <2>10, <2>11
<1>. QED BY <1>3 DEF E

\* Steps that leave the rules and their status alone.
LEMMA RunKeeps ==
  ASSUME TypeInv, WhyOlder, TypeInv', LearnInv, Alike, disabled' = disabled,
         pc \notin Asserting, pc' \notin Asserting, pc # "failed", pc' # "failed", pc # "start",
         level' <= 1 => level <= 1,
         disablerules' = disablerules \/ disablerules' = inst.disablerules \/ Satisfiable
  PROVE  LearntOK' /\ StatusOK' /\ SatOK'
<1>1. /\ LearntAssertion' <=> LearntAssertion
      /\ NBase' = NBase /\ Len(rules') = Len(rules)
      /\ \A i \in RuleId : BaseRules({i})' = BaseRules({i})
      /\ Satisfiable => Satisfiable'
  BY AlikeKeeps
<1>2. RuleId' = RuleId /\ inst' = inst
  BY DEF Alike
<1>3. LearntOK'
  BY AlikeKeeps DEF LearnInv
<1>4. StatusOK'
  <2>1. \A i \in RuleId \ disabled : BaseRules({i}) \cap disabled = {}
    BY DEF LearnInv, StatusOK
  <2>2. \A i \in RuleId \ disabled : BaseRules({i})' \cap disabled = {}
    BY <1>1, <2>1
  <2>. QED BY <1>2, <2>2 DEF StatusOK, Asserting
<1>5. SatOK'
  <2>1. ASSUME level' <= 1, Len(rules') > NBase', ~LearntAssertion' PROVE Satisfiable'
    <3>1. Satisfiable
      BY <1>1, <2>1, AlikeKeeps DEF LearnInv, SatOK
    <3>. QED BY <1>1, <3>1
  <2>2. ASSUME inst'.disablerules, ~disablerules' PROVE Satisfiable'
    <3>1. Satisfiable
      BY <1>2, <2>2 DEF LearnInv, SatOK
    <3>. QED BY <1>1, <3>1
  <2>. QED BY <2>1, <2>2 DEF SatOK, Asserting
<1>. QED BY <1>3, <1>4, <1>5

\* Outside of analyze and analyze_unsolvable there is no proof to speak of.
LEMMA NoProof == ASSUME pc' \notin Resolving \cup {"unsolvable"} PROVE ProofOK'
BY DEF ProofOK, Resolving

-----------------------------------------------------------------------------
(* makeruledecisions *)

\* While it runs, an assertion in use that is false leaves no solution.
LEMMA NoSolution ==
  ASSUME TypeInv, TrailInv, WatchInv, pc \in Asserting, NEW i \in RuleId, i \notin disabled,
         IsAssertion(rules[i]), IsFalse(rules[i].w1)
  PROVE  ~Satisfiable
<1> SUFFICES ASSUME Satisfiable PROVE FALSE
  OBVIOUS
<1>1. PICK M \in Installations : \A j \in RuleId : InUse(j) => Holds(M, rules[j].lits)
  BY DEF Satisfiable
<1> DEFINE l == rules[i].w1
<1>2. l \in Lit /\ l # 0 /\ rules[i].lits = {l}
  BY TypeFacts DEF RuleShape, IsAssertion
<1>3. LitHolds(M, l)
  BY <1>1, <1>2 DEF InUse, Holds
<1>4. -l \in Lit /\ HoldsIn(decisionmap, -l)
  BY <1>2, TruthFacts, LitFacts
<1>5. PICK k \in 1 .. Len(decisionq) : decisionq[k].p = -l
  BY <1>4, TrailFacts
<1>6. DecisionLev(k) = 1
  BY <1>5, TrailFacts DEF LevelOK, Asserting
<1>7. pc \notin {"start", "failed"}
  BY DEF Asserting
<1>8. LitHolds(M, -l)
  BY <1>1, <1>5, <1>6, <1>7, LevelOneForced
<1>. QED BY <1>2, <1>3, <1>8, LitSign

\* Starting over after rules were disabled: a learnt assertion is to come.
LEMMA StartOverLearn ==
  ASSUME TypeInv, TrailInv, WatchInv, LearnInv, TypeInv', pc \in Asserting, NEW d, StartOver(d),
         UNCHANGED <<ruleVars, level, disablerules>>, ~Satisfiable
  PROVE  LearnInv'
<1>1. Alike
  BY AlikeSame
<1>2. /\ LearntAssertion' <=> LearntAssertion
      /\ NBase' = NBase /\ Len(rules') = Len(rules)
  BY <1>1, AlikeKeeps DEF WatchInv
<1>3. LearntOK'
  BY <1>1, AlikeKeeps DEF WatchInv, LearnInv
<1>4. pc' = "assert" /\ havedisabled' = TRUE /\ inst' = inst
  BY DEF StartOver, ruleVars
<1>5. Len(rules) > NBase => LearntAssertion
  <2>1. level = 0 /\ pc # "failed"
    BY TrailFacts DEF LevelOK, Asserting
  <2>. QED BY <2>1 DEF LearnInv, SatOK
<1>6. StatusOK'
  <2>1. Len(rules') > NBase' => LearntAssertion'
    BY <1>2, <1>5
  <2>2. pc' \in Asserting /\ pc' # "failed"
    BY <1>4 DEF Asserting
  <2>. QED BY <1>4, <2>1, <2>2, Zenon DEF StatusOK
<1>7. disablerules' = inst'.disablerules
  BY <1>4 DEF LearnInv, SatOK
<1>8. SatOK'
  <2>1. Len(rules') > NBase' => LearntAssertion'
    BY <1>2, <1>5
  <2>. QED BY <1>7, <2>1, Zenon DEF SatOK
<1>9. ProofOK'
  BY <1>4, NoProof DEF Resolving
<1>. QED BY <1>3, <1>6, <1>8, <1>9 DEF LearnInv

\* Passing an assertion, or dropping a learnt one.
LEMMA PassLearn ==
  ASSUME TypeInv, WatchInv, LearnInv, TypeInv', pc \in Asserting, pc' = pc,
         UNCHANGED <<ruleVars, level, disablerules, havedisabled>>,
         \/ disabled' = disabled
         \/ \E i \in RuleId : i > NBase /\ disabled' = disabled \cup {i}
  PROVE  LearnInv'
<1>1. Alike
  BY AlikeSame
<1>2. /\ LearntAssertion' <=> LearntAssertion
      /\ NBase' = NBase /\ Len(rules') = Len(rules)
      /\ \A i \in RuleId : BaseRules({i})' = BaseRules({i})
  BY <1>1, AlikeKeeps DEF WatchInv
<1>3. LearntOK'
  BY <1>1, AlikeKeeps DEF WatchInv, LearnInv
<1>4. inst' = inst /\ rules' = rules /\ RuleId' = RuleId
  BY <1>1 DEF Alike, ruleVars
<1>5. /\ disabled \subseteq disabled'
      /\ \A b \in 1 .. NBase : b \in disabled' => b \in disabled
  <2>1. \A i \in RuleId : i > NBase => i \notin 1 .. NBase
    BY TypeFacts
  <2>. QED BY <2>1
<1>6. StatusOK'
  <2>1. ASSUME ~havedisabled, NEW i \in RuleId, i \notin disabled'
        PROVE  BaseRules({i}) \cap disabled' = {}
    <3>1. i \notin disabled /\ pc # "failed"
      BY <1>5, <2>1 DEF Asserting
    <3>2. BaseRules({i}) \cap disabled = {}
      BY <2>1, <3>1 DEF LearnInv, StatusOK
    <3>3. BaseRules({i}) \subseteq 1 .. NBase
      BY BaseFacts DEF BaseRight, WatchInv
    <3>. QED BY <1>5, <3>2, <3>3
  <2>2. ASSUME havedisabled, Len(rules) > NBase PROVE pc = "assert" /\ LearntAssertion
    BY <2>2 DEF LearnInv, StatusOK
  <2>3. havedisabled' = havedisabled /\ pc' = pc
    OBVIOUS
  <2>4. ASSUME ~havedisabled', NEW i \in RuleId', i \notin disabled'
        PROVE  BaseRules({i})' \cap disabled' = {}
    BY <1>2, <1>4, <2>1, <2>3, <2>4
  <2>5. pc' \in Asserting /\ pc' # "failed"
    BY <2>3 DEF Asserting
  <2>. QED BY <1>2, <2>2, <2>3, <2>4, <2>5 DEF StatusOK
<1>7. Satisfiable => Satisfiable'
  <2> SUFFICES ASSUME Satisfiable PROVE Satisfiable'
    OBVIOUS
  <2>1. PICK M \in Installations : \A i \in RuleId : InUse(i) => Holds(M, rules[i].lits)
    BY DEF Satisfiable
  <2>2. \A i \in RuleId' : InUse(i)' => Holds(M, rules'[i].lits)
    BY <1>4, <1>5, <2>1 DEF InUse
  <2>. QED BY <2>2 DEF Satisfiable
<1>8. SatOK'
  BY <1>2, <1>4, <1>7 DEF LearnInv, SatOK
<1>9. ProofOK'
  BY NoProof DEF Resolving, Asserting
<1>. QED BY <1>3, <1>6, <1>8, <1>9 DEF LearnInv

\* Leaving the strong or the weak assertions.
LEMMA PhaseLearn ==
  ASSUME TypeInv, TrailInv, WatchInv, LearnInv, TypeInv', pc \in Asserting,
         pc = "assert" => RuleAssertions(ri) = {},
         \/ pc' = "propagate" /\ level' = 1
         \/ pc' = "weakassert" /\ level' = level /\ pc = "assert",
         UNCHANGED <<ruleVars, disabled, disablerules, havedisabled>>
  PROVE  LearnInv'
<1>1. Alike
  BY AlikeSame
<1>2. /\ LearntAssertion' <=> LearntAssertion
      /\ NBase' = NBase /\ Len(rules') = Len(rules)
      /\ \A i \in RuleId : BaseRules({i})' = BaseRules({i})
      /\ Satisfiable => Satisfiable'
  BY <1>1, AlikeKeeps DEF WatchInv
<1>3. LearntOK'
  BY <1>1, AlikeKeeps DEF WatchInv, LearnInv
<1>4. inst' = inst /\ RuleId' = RuleId
  BY <1>1 DEF Alike
<1>5. ASSUME havedisabled, Len(rules) > NBase PROVE FALSE
  <2>1. pc = "assert" /\ LearntAssertion
    BY <1>5 DEF LearnInv, StatusOK
  <2>2. PICK i \in RuleId : i > NBase /\ IsAssertion(rules[i])
    BY <2>1 DEF LearntAssertion
  <2>3. ri <= NBase + 1 /\ ri \in Nat
    BY <1>5, <2>1, TypeFacts DEF WatchInv, AssertedOK, TypeLocals
  <2>4. i \in ri .. Len(rules)
    BY <2>2, <2>3, TypeFacts DEF RuleId
  <2>5. i \in RuleAssertions(ri)
    BY <2>2, <2>4 DEF RuleAssertions
  <2>. QED BY <2>1, <2>5
<1>6. \A i \in RuleId \ disabled : BaseRules({i}) \cap disabled = {}
  <2>1. CASE havedisabled
    <3>1. RuleId = 1 .. NBase
      BY <1>5, <2>1, TypeFacts DEF RuleId
    <3>2. \A i \in RuleId : BaseRules({i}) = {i}
      BY <3>1, BaseFacts DEF BaseRight, WatchInv
    <3>. QED BY <3>2
  <2>2. CASE ~havedisabled
    <3>1. pc # "failed"
      BY DEF Asserting
    <3>. QED BY <2>2, <3>1 DEF LearnInv, StatusOK
  <2>. QED BY <2>1, <2>2
<1>7. StatusOK'
  <2>1. ASSUME NEW i \in RuleId' \ disabled' PROVE (BaseRules({i}) \cap disabled)' = {}
    BY <1>2, <1>4, <1>6, <2>1
  <2>2. havedisabled' /\ Len(rules') > NBase' => FALSE
    BY <1>2, <1>5
  <2>. QED BY <2>1, <2>2 DEF StatusOK
<1>8. level <= 1 /\ pc # "failed" /\ disablerules = inst.disablerules
  <2>1. level = 0
    BY TrailFacts DEF LevelOK, Asserting
  <2>. QED BY <2>1 DEF LearnInv, SatOK, Asserting
<1>9. SatOK'
  <2>1. Len(rules) > NBase /\ ~LearntAssertion => Satisfiable
    BY <1>8 DEF LearnInv, SatOK
  <2>. QED BY <1>2, <1>4, <1>8, <2>1 DEF SatOK
<1>10. ProofOK'
  BY NoProof DEF Resolving
<1>. QED BY <1>3, <1>7, <1>9, <1>10 DEF LearnInv

\* Every step of makeruledecisions keeps LearnInv.
LEMMA AssertionsLearn ==
  TypeInv /\ TrailInv /\ WatchInv /\ LearnInv /\ Assertions => LearnInv'
<1> SUFFICES ASSUME TypeInv, TrailInv, WatchInv, LearnInv, Assertions PROVE LearnInv'
  OBVIOUS
<1>1. TypeInv' /\ WhyOlder
  BY NextType DEF Next, WatchInv
<1>2. CASE MakeRuleDecisions
  <2>1. Alike /\ disabled' = disabled /\ pc = "start" /\ pc' = "assert" /\ havedisabled' = FALSE
        /\ disablerules' = inst'.disablerules /\ level' = level /\ inst' = inst /\ RuleId' = RuleId
    BY <1>2, AlikeSame DEF MakeRuleDecisions, ruleVars, Alike
  <2>2. /\ LearntAssertion' <=> LearntAssertion
        /\ NBase' = NBase /\ Len(rules') = Len(rules)
        /\ \A i \in RuleId : BaseRules({i})' = BaseRules({i})
        /\ Satisfiable => Satisfiable'
    BY <1>1, <2>1, AlikeKeeps
  <2>3. LearntOK'
    BY <1>1, <2>1, AlikeKeeps DEF LearnInv
  <2>4. StatusOK'
    <3>1. \A i \in RuleId \ disabled : BaseRules({i}) \cap disabled = {}
      BY <2>1 DEF LearnInv, StatusOK, Asserting
    <3>2. ASSUME NEW i \in RuleId' \ disabled' PROVE (BaseRules({i}) \cap disabled)' = {}
      BY <2>1, <2>2, <3>1, <3>2
    <3>. QED BY <2>1, <3>2 DEF StatusOK
  <2>5. SatOK'
    <3>1. level <= 1 /\ Len(rules) > NBase /\ ~LearntAssertion => Satisfiable
      BY <2>1 DEF LearnInv, SatOK
    <3>2. level' <= 1 /\ Len(rules') > NBase' /\ ~LearntAssertion' => Satisfiable'
      BY <2>1, <2>2, <3>1
    <3>. QED BY <2>1, <3>2, Zenon DEF SatOK
  <2>. QED BY <2>1, <2>3, <2>4, <2>5, NoProof DEF LearnInv, Resolving
<1>3. CASE AssertLearntStatus
  <2>1. Alike /\ disabled' = EnableDisableLearntRules(disabled) /\ pc = "assert" /\ pc' = "assert"
        /\ havedisabled' = FALSE /\ disablerules' = disablerules /\ level' = level
        /\ inst' = inst /\ RuleId' = RuleId
    BY <1>3, AlikeSame DEF AssertLearntStatus, ruleVars, Alike
  <2>2. /\ LearntAssertion' <=> LearntAssertion
        /\ NBase' = NBase /\ Len(rules') = Len(rules)
        /\ \A i \in RuleId : BaseRules({i})' = BaseRules({i})
    BY <1>1, <2>1, AlikeKeeps
  <2>3. LearntOK'
    BY <1>1, <2>1, AlikeKeeps DEF LearnInv
  <2>4. StatusOK'
    <3>1. ASSUME NEW i \in RuleId', i \notin disabled' PROVE BaseRules({i})' \cap disabled' = {}
      BY <1>1, <2>1, <2>2, <3>1, SettledStatus
    <3>. QED BY <2>1, <3>1 DEF StatusOK
  <2>5. LearntAssertion
    <3>1. RuleAssertions(ri) # {} /\ Min(RuleAssertions(ri)) > NBase
      BY <1>3 DEF AssertLearntStatus
    <3>2. RuleAssertions(ri) \subseteq RuleId /\ RuleAssertions(ri) \subseteq Nat
      BY TypeFacts DEF RuleAssertions, RuleId, TypeLocals
    <3>3. Min(RuleAssertions(ri)) \in RuleAssertions(ri)
      BY <3>1, <3>2, MinIn
    <3>. QED BY <3>1, <3>2, <3>3 DEF LearntAssertion, RuleAssertions
  <2>6. disablerules' = inst'.disablerules
    BY <2>1 DEF LearnInv, SatOK, Asserting
  <2>7. SatOK'
    BY <2>2, <2>5, <2>6 DEF SatOK
  <2>. QED BY <2>1, <2>3, <2>4, <2>7, NoProof DEF LearnInv, Resolving
<1>4. CASE AssertDecide \/ AssertSkip \/ WeakDecide
  <2>1. /\ pc \in Asserting /\ pc' = pc /\ UNCHANGED <<ruleVars, level, disablerules, havedisabled>>
        /\ disabled' = disabled
    BY <1>4 DEF AssertDecide, AssertSkip, WeakDecide, Asserting
  <2>. QED BY <1>1, <2>1, PassLearn
<1>5. CASE AssertDropLearnt
  <2>1. /\ pc \in Asserting /\ pc' = pc /\ UNCHANGED <<ruleVars, level, disablerules, havedisabled>>
    BY <1>5 DEF AssertDropLearnt, Asserting
  <2>2. PICK i \in RuleAssertions(ri) : i > NBase /\ disabled' = disabled \cup {i}
    BY <1>5 DEF AssertDropLearnt
  <2>3. i \in RuleId
    BY <2>2, TypeFacts DEF RuleAssertions, RuleId, TypeLocals
  <2>. QED BY <1>1, <2>1, <2>2, <2>3, PassLearn
<1>6. CASE AssertUninstall
  <2>1. PICK i \in 1 .. NBase, k \in 1 .. Len(decisionq) :
          /\ InConflict(i, k)
          /\ \E v \in AutoUninstall(ConflictElems(i, k)) : StartOver(disabled \cup Group(v))
    BY <1>6 DEF AssertUninstall
  <2>2. PICK v : StartOver(disabled \cup Group(v))
    BY <2>1
  <2>3. pc = "assert" /\ i \in RuleAssertions(ri) /\ i \notin disabled /\ IsFalse(rules[i].w1)
    BY <2>1 DEF InConflict, Skipped
  <2>4. i \in RuleId /\ IsAssertion(rules[i])
    BY <2>1, <2>3, TypeFacts DEF RuleAssertions
  <2>5. ~Satisfiable
    BY <2>3, <2>4, NoSolution DEF Asserting
  <2>6. UNCHANGED <<ruleVars, level, disablerules>>
    BY <1>6 DEF AssertUninstall
  <2>. QED BY <1>1, <2>2, <2>3, <2>5, <2>6, StartOverLearn DEF Asserting
<1>7. CASE AssertConflict
  <2>1. PICK i \in 1 .. NBase, k \in 1 .. Len(decisionq) :
          /\ InConflict(i, k)
          /\ \/ /\ inst.disablerules
                /\ StartOver(disabled \cup UNION {Group(v) : v \in ConflictElems(i, k)})
                /\ level' = level
             \/ pc' = "failed" /\ level' = -1 /\ disabled' = disabled /\ ~inst.disablerules
    BY <1>7 DEF AssertConflict
  <2>3. pc = "assert" /\ i \in RuleAssertions(ri) /\ i \notin disabled /\ IsFalse(rules[i].w1)
    BY <2>1 DEF InConflict, Skipped
  <2>4. i \in RuleId /\ IsAssertion(rules[i])
    BY <2>1, <2>3, TypeFacts DEF RuleAssertions
  <2>5. ~Satisfiable
    BY <2>3, <2>4, NoSolution DEF Asserting
  <2>6. UNCHANGED <<ruleVars, disablerules>>
    BY <1>7 DEF AssertConflict
  <2>7. CASE pc' = "failed" /\ level' = -1 /\ disabled' = disabled /\ ~inst.disablerules
    <3>1. Alike /\ inst' = inst
      BY <2>6, AlikeSame DEF Alike
    <3>2. LearntOK'
      BY <1>1, <3>1, AlikeKeeps DEF LearnInv
    <3>3. StatusOK' /\ SatOK'
      BY <2>7, <3>1 DEF StatusOK, SatOK, Asserting
    <3>. QED BY <2>7, <3>2, <3>3, NoProof DEF LearnInv, Resolving
  <2>8. CASE ~(pc' = "failed")
    <3>1. StartOver(disabled \cup UNION {Group(v) : v \in ConflictElems(i, k)}) /\ level' = level
      BY <2>1, <2>8
    <3> DEFINE d == disabled \cup UNION {Group(v) : v \in ConflictElems(i, k)}
    <3> HIDE DEF d
    <3>2. StartOver(d) /\ level' = level
      BY <3>1 DEF d
    <3>. QED BY <1>1, <2>3, <2>5, <2>6, <3>2, StartOverLearn DEF Asserting
  <2>9. pc' = "failed" => level' = -1 /\ disabled' = disabled /\ ~inst.disablerules
    BY <2>1 DEF StartOver
  <2>. QED BY <2>7, <2>8, <2>9
<1>8. CASE AssertEnd
  <2>1. /\ pc = "assert" /\ RuleAssertions(ri) = {}
        /\ UNCHANGED <<ruleVars, disabled, disablerules, havedisabled>>
        /\ \/ pc' = "propagate" /\ level' = 1
           \/ pc' = "weakassert" /\ level' = level
    BY <1>8 DEF AssertEnd
  <2>. QED BY <1>1, <2>1, PhaseLearn DEF Asserting
<1>9. CASE WeakConflict
  <2> DEFINE i == Min(WeakAssertions(ri))
  <2>1. /\ pc = "weakassert" /\ WeakAssertions(ri) # {} /\ IsFalse(rules[i].w1)
        /\ StartOver(FixProblem(i, disabled)) /\ UNCHANGED <<ruleVars, level, disablerules>>
    BY <1>9 DEF WeakConflict
  <2>2. WeakAssertions(ri) \subseteq RuleId /\ RuleId \subseteq Nat
    BY TypeFacts DEF WeakAssertions, RuleAssertions, RuleId, TypeLocals
  <2>3. i \in WeakAssertions(ri)
    BY <2>1, <2>2, MinIn
  <2> HIDE DEF i
  <2>4. i \in RuleId /\ i \notin disabled /\ IsAssertion(rules[i])
    BY <2>2, <2>3 DEF WeakAssertions, RuleAssertions
  <2>5. ~Satisfiable
    BY <2>1, <2>4, NoSolution DEF Asserting
  <2>. QED BY <1>1, <2>1, <2>5, StartOverLearn DEF Asserting
<1>10. CASE WeakEnd
  <2>1. /\ pc = "weakassert" /\ UNCHANGED <<ruleVars, disabled, disablerules, havedisabled>>
        /\ pc' = "propagate" /\ level' = 1
    BY <1>10 DEF WeakEnd, assertVars
  <2>. QED BY <1>1, <2>1, PhaseLearn DEF Asserting
<1>. QED BY <1>2, <1>3, <1>4, <1>5, <1>6, <1>7, <1>8, <1>9, <1>10 DEF Assertions

-----------------------------------------------------------------------------
(* propagate *)

\* A watch that moves leaves the rule what it was.
LEMMA MoveAlike ==
  ASSUME TypeInv, TrailInv, PropagateMove
  PROVE  Alike
<1>1. PICK i \in todo : /\ ~SkipRule(i)
                        /\ \E l \in FreeLits(i) : rules' = [rules EXCEPT ![i] = MoveWatch(rules[i], l)]
  BY DEF PropagateMove, Visit
<1>2. PICK l \in FreeLits(i) : rules' = [rules EXCEPT ![i] = MoveWatch(rules[i], l)]
  BY <1>1
<1>3. /\ rules \in Seq(Rule) /\ i \in RuleId /\ RuleId = 1 .. Len(rules)
      /\ l \in Lit /\ l # 0 /\ OtherWatch(i) # 0 /\ rules[i] \in Rule
      /\ rules[i].w1 # 0 /\ rules[i].w2 # 0
  BY <1>1, VisitFacts, VisitLevel, TypeFacts, LitFacts DEF TypeRules, FreeLits, RuleId
<1>4. /\ MoveWatch(rules[i], l).lits = rules[i].lits
      /\ MoveWatch(rules[i], l).w1 # 0 /\ MoveWatch(rules[i], l).w2 # 0
  BY <1>3 DEF MoveWatch, Rule
<1>5. RuleId' = RuleId
  BY <1>2, <1>3 DEF RuleId
<1>6. \A j \in RuleId : j # i => rules'[j] = rules[j]
  BY <1>2, <1>3
<1>7. rules'[i] = MoveWatch(rules[i], l)
  BY <1>2, <1>3
<1>8. UNCHANGED <<inst, why>>
  BY DEF PropagateMove
<1>. QED BY <1>3, <1>4, <1>5, <1>6, <1>7, <1>8 DEF Alike, IsAssertion

\* Every literal of the rule in conflict was made false by a decision.
LEMMA ConflictFalse ==
  ASSUME TypeInv, TrailInv, NEW i \in todo, FreeLits(i) = {}, IsFalse(OtherWatch(i))
  PROVE  \A l \in rules[i].lits : l \in Lit /\ \E k \in 1 .. Len(decisionq) : decisionq[k].p = -l
<1>1. i \in RuleId /\ OtherWatch(i) \in Lit
  BY VisitFacts, VisitLevel
<1>2. \A l \in rules[i].lits : l \in Lit
  BY <1>1, TypeFacts
<1>3. HoldsIn(decisionmap, -OtherWatch(i))
  BY <1>1, TruthFacts
<1>4. \A l \in rules[i].lits : HoldsIn(decisionmap, -l)
  BY <1>3, NoFreeLit DEF Falsified
<1>. QED BY <1>2, <1>4, TrailFacts, LitFacts

\* A conflict starts with the rule in conflict, or with no proof at all.
LEMMA ConflictLearn ==
  ASSUME TypeInv, TrailInv, WatchInv, TypeInv', PropagateConflict
  PROVE  ProofOK'
<1>1. PICK i \in todo :
        /\ pc = "propagate" /\ ~SkipRule(i) /\ FreeLits(i) = {} /\ IsFalse(OtherWatch(i)) /\ confl' = i
        /\ IF level = 1
           THEN pc' = "unsolvable" /\ seen' = {Pkg(l) : l \in rules[i].lits} /\ proof' = {i}
           ELSE pc' = "analyze" /\ seen' = {} /\ proof' = {}
  BY DEF PropagateConflict
<1>2. /\ idx' = Len(decisionq) /\ q' = {} /\ uip' = 0
      /\ UNCHANGED <<inst, rules, why, disabled, decisionq, decisionmap, level>>
  BY DEF PropagateConflict, ruleVars, trailVars
<1>3. i \in RuleId /\ i \notin disabled /\ rules[i].w1 # 0
  BY <1>1, VisitFacts, LitFacts DEF SkipRule
<1>4. \A j \in proof' \cup {confl'} : InUse(j)'
  BY <1>1, <1>2, <1>3 DEF InUse
<1>5. CASE level = 1
  <2>1. pc' = "unsolvable" /\ seen' = {Pkg(l) : l \in rules[i].lits} /\ proof' = {i}
    BY <1>1, <1>5
  <2>2. ASSUME NEW M \in Installations, Satisfies(M, rules', proof') PROVE Holds(M, UnsolvableClause')
    <3>1. PICK l \in rules[i].lits : LitHolds(M, l)
      BY <1>2, <2>1, <2>2 DEF Satisfies, Holds
    <3>2. l \in Lit /\ \E k \in 1 .. Len(decisionq) : decisionq[k].p = -l
      BY <1>1, ConflictFalse
    <3>3. PICK k \in 1 .. Len(decisionq) : decisionq[k].p = -l
      BY <3>2
    <3>4. k \in 1 .. idx' /\ decisionq'[k].p = -l
      BY <1>2, <3>3
    <3>5. Pkg(-l) = Pkg(l) /\ -(-l) = l
      BY <3>2, LitFacts, PkgFacts
    <3>6. Pkg(decisionq'[k].p) \in seen'
      BY <2>1, <3>4, <3>5
    <3>7. -decisionq'[k].p = l
      BY <3>4, <3>5
    <3>8. l \in UnsolvableClause'
      BY <3>4, <3>6, <3>7 DEF UnsolvableClause
    <3>. QED BY <3>1, <3>8 DEF Holds
  <2>3. Entails(rules, proof, UnsolvableClause)'
    BY <2>2 DEF Entails, Satisfies
  <2>. QED BY <1>4, <2>1, <2>3 DEF ProofOK
<1>6. CASE level # 1
  <2>1. pc' = "analyze" /\ seen' = {} /\ proof' = {}
    BY <1>1, <1>6
  <2>. QED BY <1>2, <1>4, <2>1 DEF ProofOK
<1>. QED BY <1>5, <1>6

\* Every step of propagate keeps LearnInv.
LEMMA PropagateLearn == TypeInv /\ TrailInv /\ WatchInv /\ LearnInv /\ Propagate => LearnInv'
<1> SUFFICES ASSUME TypeInv, TrailInv, WatchInv, LearnInv, Propagate PROVE LearnInv'
  OBVIOUS
<1>1. TypeInv' /\ WhyOlder
  BY NextType DEF Next, WatchInv
<1>2. /\ pc = "propagate" /\ UNCHANGED <<disabled, disablerules, level>>
      /\ pc' \in {"propagate", "decide", "analyze", "unsolvable"}
  BY DEF Propagate, PropagateNext, PropagateDecisionDone, PropagateSkip, PropagateMove,
         PropagateUnit, PropagateConflict, PropagateEnd, Visit
<1>3. Alike
  <2>1. CASE PropagateMove
    BY <2>1, MoveAlike
  <2>2. CASE ~PropagateMove
    <3>1. UNCHANGED ruleVars
      BY <2>2 DEF Propagate, PropagateNext, PropagateDecisionDone, PropagateSkip,
         PropagateUnit, PropagateConflict, PropagateEnd
    <3>. QED BY <3>1, AlikeSame
  <2>. QED BY <2>1, <2>2
<1>4. LearntOK' /\ StatusOK' /\ SatOK'
  BY <1>1, <1>2, <1>3, RunKeeps DEF Asserting
<1>5. ProofOK'
  <2>1. CASE PropagateConflict
    BY <1>1, <2>1, ConflictLearn
  <2>2. CASE ~PropagateConflict
    <3>1. pc' \in {"propagate", "decide"}
      BY <2>2 DEF Propagate, PropagateNext, PropagateDecisionDone, PropagateSkip, PropagateMove,
         PropagateUnit, PropagateEnd, Visit
    <3>. QED BY <3>1, NoProof DEF Resolving
  <2>. QED BY <2>1, <2>2
<1>. QED BY <1>4, <1>5 DEF LearnInv

-----------------------------------------------------------------------------
(* analyze *)

\* The literals of the clause, before and after a step of analyze.
LEMMA ClauseMeans ==
  ASSUME decisionmap' = decisionmap
  PROVE  /\ \A l : l \in Clause <=> (\E v \in seen : l = FalseLit(v)) \/ l \in q \/ (l = uip /\ uip # 0)
         /\ \A l : l \in Clause' <=> (\E v \in seen' : l = FalseLit(v)) \/ l \in q' \/ (l = uip' /\ uip' # 0)
<1>1. \A v : FalseLit(v)' = FalseLit(v)
  BY DEF FalseLit
<1>2. \A l : l \in Clause <=> (\E v \in seen : l = FalseLit(v)) \/ l \in q \/ (l = uip /\ uip # 0)
  BY DEF Clause
<1>3. \A l : l \in Clause' <=> (\E v \in seen' : l = FalseLit(v)') \/ l \in q' \/ (l = uip' /\ uip' # 0)
  BY DEF Clause
<1>. QED BY <1>1, <1>2, <1>3

\* The literal of a package that is false is the one a decision made false.
LEMMA FalseLitIs ==
  ASSUME TypeInv, NEW l \in Lit, HoldsIn(decisionmap, -l)
  PROVE  FalseLit(Pkg(l)) = l
<1>1. l \in Int /\ l # 0 /\ decisionmap[Pkg(l)] \in Int
  BY LitFacts, TypeFacts
<1>2. CASE l > 0
  <2>1. ~(-l > 0) /\ -(-l) = l /\ Pkg(l) = l
    BY <1>1, <1>2 DEF Pkg
  <2>2. decisionmap[l] < 0
    BY <2>1 DEF HoldsIn
  <2>. QED BY <1>1, <2>1, <2>2 DEF FalseLit
<1>3. CASE ~(l > 0)
  <2>1. -l > 0 /\ -(-l) = l /\ Pkg(l) = -l
    BY <1>1, <1>3 DEF Pkg
  <2>2. decisionmap[-l] > 0
    BY <2>1 DEF HoldsIn
  <2>. QED BY <2>1, <2>2 DEF FalseLit
<1>. QED BY <1>2, <1>3

\* Steps of analyze up to the one that learns.
LEMMA AnalyzeKeeps ==
  ASSUME TypeInv, WatchInv, LearnInv, TypeInv', pc \in Resolving, pc' \in Resolving,
         UNCHANGED <<ruleVars, disabled, level, disablerules>>, ProofOK'
  PROVE  LearnInv'
<1>1. LearntOK' /\ StatusOK' /\ SatOK'
  BY AlikeSame, RunKeeps DEF WatchInv, Resolving, Asserting
<1>. QED BY <1>1 DEF LearnInv

\* Resolving with the rule confl: its literals but the one it decided are false.
LEMMA AnalyzeRuleLearn ==
  TypeInv /\ TrailInv /\ WatchInv /\ LearnInv /\ AnalyzeRule => LearnInv'
<1> SUFFICES ASSUME TypeInv, TrailInv, WatchInv, LearnInv, AnalyzeRule PROVE LearnInv'
  OBVIOUS
<1>1. /\ pc = "analyze" /\ pc' = "next"
      /\ UNCHANGED <<inst, rules, why, disabled, decisionq, decisionmap, level, disablerules, idx, uip, confl>>
      /\ seen' = seen \cup {Pkg(l) : l \in NewLits}
      /\ q' = q \cup LowerLits /\ proof' = proof \cup {confl}
  BY DEF AnalyzeRule, ruleVars, trailVars
<1>2. TypeInv'
  BY NextType DEF Next, Analyze
<1>3. confl \in RuleId /\ \A l \in rules[confl].lits : ResolvedLit(l) /\ l \in Lit
  <2>1. confl \in RuleId
    BY <1>1, NewLitsFacts
  <2>2. \A l \in rules[confl].lits : ResolvedLit(l)
    BY <1>1, TrailFacts DEF AnalyzeOK, Resolving
  <2>. QED BY <2>1, <2>2, TypeFacts
<1>4. /\ \A l : l \in Clause <=> (\E v \in seen : l = FalseLit(v)) \/ l \in q \/ (l = uip /\ uip # 0)
      /\ \A l : l \in Clause' <=> (\E v \in seen' : l = FalseLit(v)) \/ l \in q' \/ (l = uip' /\ uip' # 0)
  BY <1>1, ClauseMeans
<1>5. \A l \in Clause : l \in Clause'
  BY <1>1, <1>4
<1>6. ASSUME NEW l \in rules[confl].lits, NEW k \in 1 .. idx, decisionq[k].p = -l PROVE l \in Clause'
  <2>1. l \in Lit /\ k \in 1 .. Len(decisionq)
    BY <1>3, TypeFacts DEF TypeAnalysis
  <2>2. HoldsIn(decisionmap, -l)
    BY <1>6, <2>1, TrailFacts
  <2>3. FalseLit(Pkg(l)) = l
    BY <2>1, <2>2, FalseLitIs
  <2>4. Pkg(l) \in seen'
    <3>1. CASE Pkg(l) \in seen
      BY <1>1, <3>1
    <3>2. CASE Pkg(l) \notin seen
      <4>1. -l \in Lit /\ -(-l) = l
        BY <2>1, LitFacts, PkgFacts
      <4>2. ~HoldsIn(decisionmap, l)
        BY <2>2, <4>1, TrailFacts, SignFacts
      <4>3. ~IsTrue(l)
        BY <2>1, <4>2, TruthFacts
      <4>4. l \in NewLits
        BY <3>2, <4>3 DEF NewLits
      <4>. QED BY <1>1, <4>4
    <3>. QED BY <3>1, <3>2
  <2>. QED BY <1>4, <2>3, <2>4
<1>7. ASSUME NEW M \in Installations, Satisfies(M, rules, proof') PROVE Holds(M, Clause')
  <2>1. PICK l \in rules[confl].lits : LitHolds(M, l)
    BY <1>1, <1>7 DEF Satisfies, Holds
  <2>2. CASE \E k \in 1 .. idx : decisionq[k].p = -l
    <3>1. l \in Clause'
      BY <1>6, <2>2
    <3>. QED BY <2>1, <3>1 DEF Holds
  <2>3. CASE ~ \E k \in 1 .. idx : decisionq[k].p = -l
    <3>1. idx < Len(decisionq) /\ l = decisionq[idx + 1].p
      BY <1>3, <2>3 DEF ResolvedLit
    <3>2. proof # {}
      BY <1>1, <3>1, TypeFacts DEF LearnInv, ProofOK
    <3>3. Entails(rules, proof, Clause \cup {-decisionq[idx + 1].p})
      BY <1>1, <3>2 DEF LearnInv, ProofOK
    <3>4. Satisfies(M, rules, proof)
      BY <1>1, <1>7 DEF Satisfies
    <3>5. PICK m \in Clause \cup {-l} : LitHolds(M, m)
      BY <3>1, <3>3, <3>4 DEF Entails, Satisfies, Holds
    <3>6. ~LitHolds(M, -l)
      BY <1>3, <2>1, LitSign
    <3>7. m \in Clause'
      BY <1>5, <3>5, <3>6
    <3>. QED BY <3>5, <3>7 DEF Holds
  <2>. QED BY <2>2, <2>3
<1>8. Entails(rules, proof, Clause)'
  BY <1>1, <1>7 DEF Entails, Satisfies
<1>9. \A i \in proof' \cup {confl'} : InUse(i)'
  <2>1. \A i \in proof \cup {confl} : InUse(i)
    BY <1>1 DEF LearnInv, ProofOK, Resolving
  <2>. QED BY <1>1, <2>1 DEF InUse
<1>10. ProofOK'
  BY <1>1, <1>8, <1>9 DEF ProofOK
<1>. QED BY <1>1, <1>2, <1>10, AnalyzeKeeps DEF Resolving, ruleVars

\* Only the literal to learn and those of lower levels are left.
LEMMA AnalyzeDoneLearn ==
  TypeInv /\ TrailInv /\ WatchInv /\ LearnInv /\ AnalyzeDone => LearnInv'
<1> SUFFICES ASSUME TypeInv, TrailInv, WatchInv, LearnInv, AnalyzeDone PROVE LearnInv'
  OBVIOUS
<1>1. /\ pc = "next" /\ num = 0 /\ l1num = 1 /\ pc' = "learn" /\ pc \in Resolving
      /\ UNCHANGED <<inst, rules, why, disabled, decisionq, decisionmap, level, disablerules, seen, q, uip, proof, confl>>
  BY DEF AnalyzeDone, ruleVars, trailVars, Resolving
<1>2. TypeInv'
  BY NextType DEF Next, Analyze
<1>3. uip # 0 /\ l1num = 1 + Cardinality(seen) /\ IsFiniteSet(seen) /\ Cardinality(seen) \in Nat
  BY <1>1, AnalyzeFacts
<1>4. seen = {}
  <2>1. Cardinality(seen) = 0
    BY <1>1, <1>3
  <2>. QED BY <1>3, <2>1, FS_EmptySet
<1>5. Clause = q \cup {uip}
  BY <1>3, <1>4 DEF Clause
<1>6. Entails(rules, proof, q \cup {uip})
  BY <1>1, <1>5 DEF LearnInv, ProofOK
<1>7. Entails(rules, proof, q \cup {uip})'
  BY <1>1, <1>6 DEF Entails
<1>8. \A i \in proof' \cup {confl'} : InUse(i)'
  BY <1>1 DEF LearnInv, ProofOK, InUse
<1>9. ProofOK'
  BY <1>1, <1>7, <1>8 DEF ProofOK
<1>. QED BY <1>1, <1>2, <1>9, AnalyzeKeeps DEF Resolving, ruleVars

\* The last literal of this level becomes the one to learn; packages of q
\* need no mark to be in the clause.
LEMMA AnalyzeUipLearn ==
  TypeInv /\ TrailInv /\ WatchInv /\ LearnInv /\ AnalyzeUip => LearnInv'
<1> SUFFICES ASSUME TypeInv, TrailInv, WatchInv, LearnInv, AnalyzeUip PROVE LearnInv'
  OBVIOUS
<1> DEFINE k == LastMarked
           v == Pkg(decisionq[k].p)
<1>1. /\ pc = "next" /\ num = 1 /\ Marked # {} /\ pc \in Resolving /\ pc' \in Resolving
      /\ UNCHANGED <<inst, rules, why, disabled, decisionq, decisionmap, level, disablerules, q, proof, confl>>
      /\ uip' = -decisionq[k].p
      /\ \/ pc' = "next" /\ seen' = (seen \ {v}) \ {Pkg(l) : l \in q}
         \/ pc' = "learn" /\ seen' = seen \ {v} /\ l1num = 0
  BY DEF AnalyzeUip, ruleVars, trailVars, Resolving, Unmark, NeedLevelOne
<1>2. TypeInv'
  BY NextType DEF Next, Analyze
<1>3. /\ uip = 0 /\ num = Cardinality(SeenAt(level)) /\ l1num = Cardinality(SeenAt(1))
      /\ \A u \in seen : LevIn(decisionmap, u) \in {1, level} \/ \E l \in q : Pkg(l) = u
      /\ IsFiniteSet(SeenAt(level)) /\ IsFiniteSet(SeenAt(1))
      /\ \A l \in q : l \in Lit /\ HoldsIn(decisionmap, -l)
  BY <1>1, AnalyzeFacts DEF Falsified
<1>4. /\ k \in 1 .. Len(decisionq) /\ v \in seen /\ decisionq[k].p \in Lit
      /\ LevIn(decisionmap, v) = DecisionLev(k) /\ DecisionLev(k) = level
  BY <1>1, <1>3, MarkedFacts, MarkedLevel
<1> DEFINE l0 == -decisionq[k].p
<1>5. l0 \in Lit /\ l0 # 0 /\ Pkg(l0) = v /\ FalseLit(v) = l0 /\ uip' = l0
  <2>1. l0 \in Lit /\ l0 # 0 /\ Pkg(l0) = v /\ -l0 = decisionq[k].p
    BY <1>4, LitFacts, PkgFacts
  <2>2. HoldsIn(decisionmap, -l0)
    BY <1>4, <2>1, TrailFacts
  <2>. QED BY <1>1, <2>1, <2>2, FalseLitIs
<1> HIDE DEF k, l0
<1>6. \A l : l \in Clause <=> (\E u \in seen : l = FalseLit(u)) \/ l \in q
  BY <1>1, <1>3, ClauseMeans
<1>7. \A l \in q : FalseLit(Pkg(l)) = l
  BY <1>3, FalseLitIs
<1>8. Entails(rules, proof, Clause)
  BY <1>1 DEF LearnInv, ProofOK
<1>9. \A i \in proof' \cup {confl'} : InUse(i)'
  BY <1>1 DEF LearnInv, ProofOK, InUse
<1>10. CASE pc' = "next"
  <2>1. seen' = (seen \ {v}) \ {Pkg(l) : l \in q}
    BY <1>1, <1>10
  <2>2. \A l : l \in Clause' <=> (\E u \in seen' : l = FalseLit(u)) \/ l \in q \/ l = l0
    BY <1>1, <1>5, ClauseMeans
  <2>3. \A l \in Clause : l \in Clause'
    <3> TAKE l \in Clause
    <3>1. CASE l \in q
      BY <2>2, <3>1
    <3>2. CASE l \notin q
      <4>1. PICK u \in seen : l = FalseLit(u)
        BY <1>6, <3>2
      <4>2. u = v \/ u \in seen' \/ \E m \in q : u = Pkg(m)
        BY <2>1
      <4>. QED BY <1>5, <1>7, <2>2, <4>1, <4>2
    <3>. QED BY <3>1, <3>2
  <2>4. Entails(rules, proof, Clause)'
    BY <1>1, <1>8, <2>3 DEF Entails, Holds
  <2>5. proof' # {}
    BY <1>1 DEF LearnInv, ProofOK
  <2>6. ProofOK'
    BY <1>9, <1>10, <2>4, <2>5 DEF ProofOK
  <2>. QED BY <1>1, <1>2, <2>6, AnalyzeKeeps DEF ruleVars
<1>11. CASE pc' = "learn"
  <2>1. l1num = 0
    BY <1>1, <1>11
  <2>2. SeenAt(1) = {}
    BY <1>3, <2>1, FS_EmptySet
  <2>3. SeenAt(level) = {v}
    <3>1. PICK x : SeenAt(level) = {x}
      BY <1>1, <1>3, FS_Singleton
    <3>2. v \in SeenAt(level)
      BY <1>4 DEF SeenAt
    <3>. QED BY <3>1, <3>2
  <2>4. \A l \in Clause : l \in q \cup {l0}
    <3> TAKE l \in Clause
    <3>1. CASE l \in q
      BY <3>1
    <3>2. CASE l \notin q
      <4>1. PICK u \in seen : l = FalseLit(u)
        BY <1>6, <3>2
      <4>2. u \in SeenAt(1) \/ u \in SeenAt(level) \/ \E m \in q : Pkg(m) = u
        BY <1>3 DEF SeenAt
      <4>. QED BY <1>5, <1>7, <2>2, <2>3, <4>1, <4>2
    <3>. QED BY <3>1, <3>2
  <2>5. Entails(rules, proof, q \cup {l0})
    BY <1>8, <2>4 DEF Entails, Holds
  <2>6. Entails(rules, proof, q \cup {uip})'
    BY <1>1, <1>5, <2>5 DEF Entails
  <2>7. ProofOK'
    BY <1>9, <1>11, <2>6 DEF ProofOK
  <2>. QED BY <1>1, <1>2, <2>7, AnalyzeKeeps DEF ruleVars
<1>. QED BY <1>1, <1>10, <1>11

\* A marked decision without a reason is the system solvable: every other
\* one is the first of its level, and more of its level are still marked.
LEMMA OnlySystemFree ==
  ASSUME TypeInv, TrailInv, pc = "next", Marked # {}, num > 1 \/ num = 0,
         decisionq[LastMarked].why = 0
  PROVE  decisionq[LastMarked].p = SYSTEMSOLVABLE
<1> DEFINE k == LastMarked
           v == Pkg(decisionq[k].p)
<1>1. /\ k \in 1 .. Len(decisionq) /\ v \in seen
      /\ \A u \in seen \ {v} : \E j \in 1 .. k - 1 : Pkg(decisionq[j].p) = u
      /\ LevIn(decisionmap, v) = DecisionLev(k)
  BY MarkedFacts
<1> HIDE DEF k
<1>2. /\ TrailFull(decisionq, decisionmap, rules) /\ LevelOK
      /\ \A j \in 1 .. Len(decisionq) : /\ DecisionLev(j) \in Nat /\ DecisionLev(j) >= 1
                                        /\ DecisionLev(j) = LevIn(decisionmap, decisionq[j].p)
  BY TrailFacts
<1>3. k = 1 \/ DecisionLev(k - 1) < DecisionLev(k)
  <2>1. k = 1 \/ LevIn(decisionmap, decisionq[k - 1].p) < LevIn(decisionmap, decisionq[k].p)
    BY <1>1, <1>2 DEF TrailFull, FreeFirst, k
  <2>2. k # 1 => k - 1 \in 1 .. Len(decisionq)
    BY <1>1
  <2>. QED BY <1>1, <1>2, <2>1, <2>2
<1>4. ASSUME k # 1 PROVE FALSE
  <2>1. k - 1 \in 1 .. Len(decisionq) /\ DecisionLev(k - 1) < DecisionLev(k)
    BY <1>1, <1>3, <1>4
  <2>2. CASE num = 0
    <3>1. uip # 0
      BY <2>2, AnalyzeFacts DEF Resolving
    <3>2. DecisionLev(k) = 1
      BY <1>1, <3>1, AnalyzeFacts DEF Resolving
    <3>. QED BY <1>2, <2>1, <3>2
  <2>3. CASE num > 1
    <3>1. uip = 0
      BY <2>3, AnalyzeFacts DEF Resolving
    <3>2. num = Cardinality(SeenAt(level)) /\ SeenAt(level) \subseteq seen
      BY <3>1, AnalyzeFacts DEF Resolving
    <3>3. DecisionLev(k) = level
      BY <3>1, MarkedLevel DEF k
    <3>4. PICK u \in SeenAt(level) : u # v
      <4>1. SeenAt(level) # {v}
        BY <2>3, <3>2, FS_Singleton
      <4>2. v \in SeenAt(level)
        BY <1>1, <3>3 DEF SeenAt
      <4>. QED BY <4>1, <4>2
    <3>5. PICK j \in 1 .. k - 1 : Pkg(decisionq[j].p) = u
      BY <1>1, <3>2, <3>4
    <3>6. j \in 1 .. Len(decisionq) /\ (j = k - 1 \/ j < k - 1)
      BY <1>1, <3>5
    <3>7. DecisionLev(j) = level
      <4>1. decisionq[j].p \in Lit /\ u \in Solvable /\ Pkg(u) = u
        BY <3>2, <3>4, <3>6, TypeFacts, AnalyzeFacts DEF Resolving
      <4>2. LevIn(decisionmap, u) = LevIn(decisionmap, decisionq[j].p)
        BY <3>5, <4>1 DEF LevIn
      <4>. QED BY <1>2, <3>4, <3>6, <4>2 DEF SeenAt
    <3>8. DecisionLev(j) <= DecisionLev(k - 1)
      <4>1. CASE j = k - 1
        BY <1>2, <2>1, <4>1
      <4>2. CASE j < k - 1
        <5>1. LevIn(decisionmap, decisionq[j].p) <= LevIn(decisionmap, decisionq[k - 1].p)
          BY <1>2, <2>1, <3>6, <4>2 DEF TrailFull, Trail
        <5>. QED BY <1>2, <2>1, <3>6, <5>1
      <4>. QED BY <3>6, <4>1, <4>2
    <3>. QED BY <1>2, <2>1, <3>3, <3>6, <3>7, <3>8
  <2>. QED BY <2>2, <2>3
<1>5. decisionq[1].p = SYSTEMSOLVABLE
  BY <1>2 DEF LevelOK, Decision
<1>. QED BY <1>4, <1>5 DEF k

\* A marked decision is replaced by its reason; the system solvable, which
\* has none, cannot help.
LEMMA AnalyzeResolveLearn ==
  TypeInv /\ TrailInv /\ WatchInv /\ LearnInv /\ AnalyzeResolve => LearnInv'
<1> SUFFICES ASSUME TypeInv, TrailInv, WatchInv, LearnInv, AnalyzeResolve PROVE LearnInv'
  OBVIOUS
<1> DEFINE k == LastMarked
           v == Pkg(decisionq[k].p)
           w == decisionq[k].why
           l0 == -decisionq[k].p
<1>1. /\ pc = "next" /\ Marked # {} /\ pc \in Resolving /\ pc' \in Resolving
      /\ UNCHANGED <<inst, rules, why, disabled, decisionq, decisionmap, level, disablerules, q, uip, proof>>
      /\ num > 1 \/ num = 0
      /\ idx' = k - 1 /\ seen' = seen \ {v}
      /\ IF w > 0 THEN confl' = w /\ pc' = "analyze" ELSE pc' = "next" /\ confl' = confl
  BY DEF AnalyzeResolve, ruleVars, trailVars, Resolving, Unmark
<1>2. TypeInv'
  BY NextType DEF Next, Analyze
<1>3. k \in 1 .. Len(decisionq) /\ v \in seen /\ decisionq[k].p \in Lit /\ Len(decisionq) \in Nat
  BY <1>1, MarkedFacts, TypeFacts
<1>4. w \in RuleId \cup {0} /\ (w > 0 <=> w # 0)
  BY <1>3, TypeFacts
<1>5. l0 \in Lit /\ Pkg(l0) = v /\ FalseLit(v) = l0
  <2>1. l0 \in Lit /\ Pkg(l0) = v /\ -l0 = decisionq[k].p
    BY <1>3, LitFacts, PkgFacts
  <2>2. HoldsIn(decisionmap, -l0)
    BY <1>3, <2>1, TrailFacts
  <2>. QED BY <2>1, <2>2, FalseLitIs
<1>6. w = 0 => decisionq[k].p = SYSTEMSOLVABLE
  BY <1>1, OnlySystemFree
<1>7. w # 0 => InUse(w)
  <2> SUFFICES ASSUME w # 0 PROVE InUse(w)
    OBVIOUS
  <2>1. w \notin disabled
    BY <1>1, <1>3 DEF WatchInv, EnabledReasons
  <2>2. decisionq[k].p \in rules[w].lits
    BY <1>3, TrailFacts DEF TrailFull, Reasons
  <2>3. w \in RuleId
    BY <1>4
  <2>4. rules[w].w1 # 0
    BY <2>2, <2>3, TypeFacts DEF RuleShape
  <2>. QED BY <2>1, <2>4 DEF InUse
<1> HIDE DEF k, w, l0
<1>8. \A l \in Clause : l \in Clause' \/ l = l0
  BY <1>1, <1>5, ClauseMeans
<1>9. Entails(rules, proof, Clause) /\ proof # {} /\ \A i \in proof \cup {confl} : InUse(i)
  BY <1>1 DEF LearnInv, ProofOK
<1>10. Entails(rules, proof, Clause' \cup {l0})
  BY <1>8, <1>9 DEF Entails, Holds
<1>11. \A i \in proof' \cup {confl'} : InUse(i)'
  <2>1. \A i \in proof' \cup {confl'} : InUse(i)
    BY <1>1, <1>4, <1>7, <1>9
  <2>. QED BY <1>1, <2>1 DEF InUse
<1>12. CASE w # 0
  <2>1. pc' = "analyze" /\ idx' < Len(decisionq') /\ idx' + 1 = k
    BY <1>1, <1>3, <1>4, <1>12
  <2>2. -decisionq'[idx' + 1].p = l0
    BY <1>1, <2>1 DEF l0
  <2>3. Entails(rules', proof', Clause' \cup {-decisionq'[idx' + 1].p})
    BY <1>1, <1>10, <2>2
  <2>4. ProofOK'
    BY <1>1, <1>9, <1>11, <2>1, <2>3 DEF ProofOK
  <2>. QED BY <1>1, <1>2, <2>4, AnalyzeKeeps DEF ruleVars
<1>13. CASE w = 0
  <2>1. pc' = "next"
    BY <1>1, <1>4, <1>13
  <2>2. \A M \in Installations : ~LitHolds(M, l0)
    <3>1. l0 = -SYSTEMSOLVABLE
      BY <1>6, <1>13 DEF l0
    <3>2. \A M \in Installations : LitHolds(M, SYSTEMSOLVABLE)
      BY DEF LitHolds, Installations, SYSTEMSOLVABLE
    <3>. QED BY <3>1, <3>2, LitSign, LitFacts
  <2>3. Entails(rules, proof, Clause')
    BY <1>10, <2>2 DEF Entails, Holds
  <2>4. Entails(rules', proof', Clause')
    BY <1>1, <2>3
  <2>5. ProofOK'
    BY <1>1, <1>9, <1>11, <2>1, <2>4 DEF ProofOK
  <2>. QED BY <1>1, <1>2, <2>5, AnalyzeKeeps DEF ruleVars
<1>. QED BY <1>12, <1>13

\* The new rule follows from the rules that were resolved, is in use as they
\* are, and is an assertion when the search goes back to level 1.
LEMMA LearnLearn ==
  TypeInv /\ TrailInv /\ WatchInv /\ LearnInv /\ Learn => LearnInv'
<1> SUFFICES ASSUME TypeInv, TrailInv, WatchInv, LearnInv, Learn PROVE LearnInv'
  OBVIOUS
<1>0. PICK n, P : n = Len(rules) + 1 /\ P = proof
  OBVIOUS
<1>1. TypeInv' /\ WhyOlder' /\ WhyOlder
  BY NextType, LearnWatch DEF Next, Analyze, WatchInv
<1>2. /\ pc = "learn" /\ pc' = "propagate" /\ level' = rlevel
      /\ UNCHANGED <<inst, disabled, disablerules>> /\ why' = Append(why, P)
  BY <1>0 DEF Learn
<1>3. /\ Len(rules) \in Nat /\ Len(rules') = n /\ RuleId' = RuleId \cup {n} /\ n \notin RuleId
      /\ \A i \in RuleId : rules'[i] = rules[i]
      /\ rules'[n].lits = {uip} \cup q /\ rules'[n].w1 = uip /\ uip # 0
      /\ q = {} => rules'[n].w2 = 0
  BY <1>0, LearnFacts
<1>4. /\ NBase' = NBase /\ NBase \in Nat /\ Len(why) \in Nat
      /\ NBase + Len(why) + 1 = n /\ n > NBase /\ n - NBase = Len(why) + 1
      /\ why \in Seq(SUBSET RuleId) /\ P \in SUBSET RuleId
      /\ \A j \in 1 .. Len(why) : why[j] \in SUBSET RuleId /\ NBase + j \in RuleId
  <2>1. NBase' = NBase
    BY <1>2 DEF NBase
  <2>2. NBase \in Nat /\ Len(why) \in Nat /\ Len(rules) = NBase + Len(why)
        /\ why \in Seq(SUBSET RuleId) /\ P \in SUBSET RuleId
    BY <1>0, TypeFacts DEF TypeRules, TypeAnalysis
  <2>3. \A j \in 1 .. Len(why) : why[j] \in SUBSET RuleId /\ NBase + j \in RuleId
    BY <2>2 DEF RuleId
  <2>. QED BY <1>0, <2>1, <2>2, <2>3
<1>5. Len(why') = Len(why) + 1 /\ why'[Len(why) + 1] = P /\ \A j \in 1 .. Len(why) : why'[j] = why[j]
  BY <1>2, <1>4
<1>6. /\ Entails(rules, P, q \cup {uip})
      /\ \A i \in P : i \notin disabled /\ rules[i].w1 # 0
  BY <1>0, <1>2 DEF LearnInv, ProofOK, Resolving, InUse
<1>7. \A R \in SUBSET RuleId : \A ls : Entails(rules, R, ls) => Entails(rules', R, ls)
  BY <1>3 DEF Entails
<1>8. LearntOK'
  <2>1. ASSUME NEW j \in 1 .. Len(why)
        PROVE  Entails(rules', why'[j], rules'[NBase + j].lits) /\ \A i \in why'[j] : rules'[i].w1 # 0
    <3>1. Entails(rules, why[j], rules[NBase + j].lits) /\ \A i \in why[j] : rules[i].w1 # 0
      BY DEF LearnInv, LearntOK
    <3>. QED BY <1>3, <1>4, <1>5, <1>7, <3>1
  <2>2. /\ Entails(rules', why'[Len(why) + 1], rules'[NBase + (Len(why) + 1)].lits)
        /\ \A i \in why'[Len(why) + 1] : rules'[i].w1 # 0
    <3>1. NBase + (Len(why) + 1) = n
      BY <1>4
    <3>2. {uip} \cup q = q \cup {uip}
      OBVIOUS
    <3>3. Entails(rules', P, rules'[n].lits)
      BY <1>3, <1>4, <1>6, <1>7, <3>2
    <3>4. \A i \in P : rules'[i].w1 # 0
      BY <1>3, <1>4, <1>6
    <3>. QED BY <1>5, <3>1, <3>3, <3>4
  <2>3. \A j \in 1 .. Len(why') : j \in 1 .. Len(why) \/ j = Len(why) + 1
    BY <1>4, <1>5
  <2>. QED BY <1>4, <2>1, <2>2, <2>3 DEF LearntOK
<1>9. StatusOK'
  <2>1. \A i \in RuleId : BaseRules({i})' = BaseRules({i})
    <3>1. inst' = inst /\ Len(rules) <= Len(rules')
      BY <1>0, <1>2, <1>3
    <3>. QED BY <1>1, <1>5, <3>1, BaseKept
  <2>2. \A i \in RuleId \ disabled : BaseRules({i}) \cap disabled = {}
    BY <1>2 DEF LearnInv, StatusOK, Asserting
  <2>3. BaseRight'
    <3>1. TypeInv' /\ WhyOlder' => BaseRight'
      BY BaseFacts, PTL
    <3>. QED BY <1>1, <3>1
  <2>4. \A b : b \in BaseRules({n})' => \E i \in P : b \in BaseRules({i})'
    <3>1. n \in RuleId' /\ n > NBase' /\ why'[n - NBase'] = P
      BY <1>3, <1>4, <1>5
    <3>2. BaseRules({n})' = BaseRules(P)'
      BY <2>3, <3>1 DEF BaseRight
    <3>. QED BY <2>3, <3>2 DEF BaseRight
  <2>5. ASSUME NEW i \in RuleId', i \notin disabled' PROVE BaseRules({i})' \cap disabled' = {}
    <3>1. CASE i \in RuleId
      BY <1>2, <2>1, <2>2, <2>5, <3>1
    <3>2. CASE i = n
      <4>1. \A w \in P : BaseRules({w})' \cap disabled = {}
        BY <1>4, <1>6, <2>1, <2>2
      <4>. QED BY <1>2, <2>4, <3>2, <4>1
    <3>. QED BY <1>3, <2>5, <3>1, <3>2
  <2>. QED BY <1>2, <2>5 DEF StatusOK, Asserting
<1>10. Satisfiable => Satisfiable'
  <2> SUFFICES ASSUME Satisfiable PROVE Satisfiable'
    OBVIOUS
  <2>1. PICK M \in Installations : \A i \in RuleId : InUse(i) => Holds(M, rules[i].lits)
    BY DEF Satisfiable
  <2>2. Holds(M, rules'[n].lits)
    <3>1. \A i \in P : Holds(M, rules[i].lits)
      BY <1>4, <1>6, <2>1 DEF InUse
    <3>. QED BY <1>3, <1>6, <3>1 DEF Entails, Holds
  <2>3. \A i \in RuleId' : InUse(i)' => Holds(M, rules'[i].lits)
    BY <1>2, <1>3, <2>1, <2>2 DEF InUse
  <2>. QED BY <2>3 DEF Satisfiable
<1>11. rlevel <= 1 => LearntAssertion'
  <2> SUFFICES ASSUME rlevel <= 1 PROVE LearntAssertion'
    OBVIOUS
  <2>1. q = {}
    <3>1. /\ rlevel \in Nat /\ \A l \in q : 1 < LevIn(decisionmap, l)
          /\ q # {} => \E l \in q : LevIn(decisionmap, l) = rlevel
      BY <1>2, AnalyzeFacts DEF Resolving
    <3>. QED BY <3>1
  <2>2. IsAssertion(rules'[n])
    BY <1>3, <2>1 DEF IsAssertion
  <2>. QED BY <1>3, <1>4, <2>2 DEF LearntAssertion
<1>12. SatOK'
  <2>1. level' <= 1 => LearntAssertion'
    BY <1>2, <1>11
  <2>2. inst'.disablerules /\ ~disablerules' => Satisfiable'
    <3>1. inst.disablerules /\ ~disablerules => Satisfiable
      BY <1>2 DEF LearnInv, SatOK
    <3>. QED BY <1>2, <1>10, <3>1
  <2>3. pc' \notin Asserting
    BY <1>2 DEF Asserting
  <2>. QED BY <2>1, <2>2, <2>3, Zenon DEF SatOK
<1>. QED BY <1>2, <1>8, <1>9, <1>12, NoProof DEF LearnInv, Resolving

\* Before the first call there is nothing learnt.
LEMMA InitLearn == Init => LearnInv
<1> SUFFICES ASSUME Init PROVE LearnInv
  OBVIOUS
<1>1. TypeInv /\ WhyOlder
  BY InitType, InitWatch DEF WatchInv
<1>2. pc = "start" /\ disablerules = inst.disablerules /\ Len(why) = 0 /\ Len(rules) = NBase
  BY DEF Init, NBase
<1>3. ProofOK
  BY <1>2 DEF ProofOK, Resolving
<1>4. LearntOK
  BY <1>2 DEF LearntOK
<1>5. StatusOK
  <2>1. RuleId = 1 .. NBase
    BY <1>2 DEF RuleId
  <2>2. \A i \in RuleId : BaseRules({i}) = {i}
    BY <1>1, <2>1, BaseFacts DEF BaseRight
  <2>3. \A i \in RuleId \ disabled : BaseRules({i}) \cap disabled = {}
    BY <2>2
  <2>. QED BY <1>2, <2>3 DEF StatusOK, Asserting
<1>6. SatOK
  BY <1>1, <1>2, TypeFacts DEF SatOK, Asserting
<1>. QED BY <1>3, <1>4, <1>5, <1>6 DEF LearnInv

-----------------------------------------------------------------------------
(* analyze_unsolvable *)

\* A decision of level 1 is replaced by its reason.
LEMMA UnsolvableWalkLearn ==
  TypeInv /\ TrailInv /\ WatchInv /\ LearnInv /\ UnsolvableWalk => LearnInv'
<1> SUFFICES ASSUME TypeInv, TrailInv, WatchInv, LearnInv, UnsolvableWalk PROVE LearnInv'
  OBVIOUS
<1> DEFINE k == Max(Involved)
           r == decisionq[k].why
           s == {Pkg(l) : l \in {m \in rules[r].lits : ~IsTrue(m)}}
<1>1. /\ pc = "unsolvable" /\ pc' = "unsolvable" /\ Involved # {} /\ r > 0 /\ confl' = confl
      /\ UNCHANGED <<inst, rules, why, disabled, decisionq, decisionmap, level, disablerules>>
      /\ idx' = k - 1 /\ proof' = proof \cup {r} /\ seen' = seen \cup s
  BY DEF UnsolvableWalk, ruleVars, trailVars
<1>2. TypeInv'
  BY NextType DEF Next, AnalyzeUnsolvable
<1>3. idx \in 0 .. Len(decisionq) /\ Len(decisionq) \in Nat
  BY TypeFacts DEF TypeAnalysis
<1>4. /\ k \in 1 .. idx /\ k \in 1 .. Len(decisionq)
      /\ \A j \in 1 .. idx : j > k => Pkg(decisionq[j].p) \notin seen \ {SYSTEMSOLVABLE}
  <2>1. Involved \subseteq 0 .. Len(decisionq)
    BY <1>3 DEF Involved
  <2>2. k \in Involved /\ \A j \in Involved : k >= j
    BY <1>1, <1>3, <2>1, MaxIn
  <2> HIDE DEF k
  <2>3. k \in 1 .. idx
    BY <2>2 DEF Involved
  <2>4. ASSUME NEW j \in 1 .. idx, j > k PROVE j \notin Involved
    BY <2>2, <2>3, <2>4
  <2>. QED BY <1>3, <2>3, <2>4 DEF Involved
<1> HIDE DEF k
<1>5. r \in RuleId /\ r # 0 /\ InUse(r)
  <2>1. r \in RuleId /\ r # 0
    BY <1>1, <1>4, TypeFacts
  <2>2. r \notin disabled
    BY <1>1, <1>4, <2>1 DEF WatchInv, EnabledReasons
  <2>3. decisionq[k].p \in rules[r].lits
    BY <1>4, <2>1, TrailFacts DEF TrailFull, Reasons
  <2>4. rules[r].w1 # 0
    BY <2>1, <2>3, TypeFacts DEF RuleShape
  <2>. QED BY <2>1, <2>2, <2>4 DEF InUse
<1>6. \A l \in rules[r].lits \ {decisionq[k].p} : \E j \in 1 .. k - 1 : decisionq[j].p = -l
  BY <1>4, <1>5, TrailFacts DEF TrailFull, Reasons
<1> HIDE DEF r
<1>7. ASSUME NEW l \in rules[r].lits, l # decisionq[k].p
      PROVE  l \in UnsolvableClause'
  <2>1. PICK j \in 1 .. k - 1 : decisionq[j].p = -l
    BY <1>6, <1>7
  <2>2. j \in 1 .. idx' /\ j \in 1 .. Len(decisionq)
    BY <1>1, <1>4, <2>1
  <2>3. l \in Lit /\ -l \in Lit /\ -(-l) = l /\ Pkg(-l) = Pkg(l)
    BY <1>5, TypeFacts, LitFacts, PkgFacts
  <2>4. ~HoldsIn(decisionmap, l)
    <3>1. HoldsIn(decisionmap, -l)
      BY <2>1, <2>2, TrailFacts
    <3>. QED BY <2>3, <3>1, TrailFacts, SignFacts
  <2>5. ~IsTrue(l)
    BY <2>3, <2>4, TruthFacts
  <2>6. Pkg(decisionq'[j].p) \in seen'
    BY <1>1, <2>1, <2>3, <2>5
  <2>7. -decisionq'[j].p = l
    BY <1>1, <2>1, <2>3
  <2>. QED BY <2>2, <2>6, <2>7 DEF UnsolvableClause
<1>8. ASSUME NEW M \in Installations, NEW l \in UnsolvableClause, LitHolds(M, l)
      PROVE  l = -decisionq[k].p \/ l \in UnsolvableClause'
  <2>1. PICK j \in 1 .. idx : Pkg(decisionq[j].p) \in seen /\ l = -decisionq[j].p
    BY DEF UnsolvableClause
  <2>2. j \in 1 .. Len(decisionq)
    BY <1>3, <2>1
  <2>3. CASE j > k
    <3>1. Pkg(decisionq[j].p) = SYSTEMSOLVABLE
      BY <1>4, <2>1, <2>3
    <3>2. 1 \in 1 .. Len(decisionq) /\ decisionq[1].p = SYSTEMSOLVABLE /\ k >= 1
      <4>1. decisionq[1] = Decision(SYSTEMSOLVABLE, 0)
        BY <1>1, TrailFacts DEF LevelOK
      <4>. QED BY <1>3, <1>4, <4>1 DEF Decision
    <3>3. Pkg(decisionq[1].p) = SYSTEMSOLVABLE
      BY <3>2 DEF Pkg, SYSTEMSOLVABLE
    <3>4. j = 1
      BY <2>2, <3>1, <3>2, <3>3, TrailFacts DEF TrailFull, Trail
    <3>. QED BY <1>4, <2>3, <3>4
  <2>4. CASE ~(j > k)
    <3>1. j = k \/ j \in 1 .. idx'
      BY <1>1, <1>4, <2>1, <2>4
    <3>2. Pkg(decisionq'[j].p) \in seen' /\ l = -decisionq'[j].p
      BY <1>1, <2>1
    <3>. QED BY <2>1, <3>1, <3>2 DEF UnsolvableClause
  <2>. QED BY <2>3, <2>4
<1>9. ASSUME NEW M \in Installations, Satisfies(M, rules, proof') PROVE Holds(M, UnsolvableClause')
  <2>1. PICK l \in rules[r].lits : LitHolds(M, l)
    BY <1>1, <1>9 DEF Satisfies, Holds
  <2>2. CASE l # decisionq[k].p
    BY <1>7, <2>1, <2>2 DEF Holds
  <2>3. CASE l = decisionq[k].p
    <3>1. Entails(rules, proof, UnsolvableClause)
      BY <1>1 DEF LearnInv, ProofOK
    <3>2. Satisfies(M, rules, proof)
      BY <1>1, <1>9 DEF Satisfies
    <3>3. PICK m \in UnsolvableClause : LitHolds(M, m)
      BY <3>1, <3>2 DEF Entails, Satisfies, Holds
    <3>4. l \in Lit
      BY <1>5, TypeFacts
    <3>5. ~LitHolds(M, -l)
      BY <2>1, <3>4, LitSign
    <3>. QED BY <1>8, <2>3, <3>3, <3>5 DEF Holds
  <2>. QED BY <2>2, <2>3
<1>10. Entails(rules, proof, UnsolvableClause)'
  BY <1>1, <1>9 DEF Entails, Satisfies
<1>11. \A i \in proof' \cup {confl'} : InUse(i)'
  <2>1. \A i \in proof \cup {confl} : InUse(i)
    BY <1>1 DEF LearnInv, ProofOK
  <2>. QED BY <1>1, <1>5, <2>1 DEF InUse
<1>12. ProofOK'
  BY <1>1, <1>10, <1>11 DEF ProofOK, Resolving
<1>13. LearntOK' /\ StatusOK' /\ SatOK'
  BY <1>1, <1>2, AlikeSame, RunKeeps DEF WatchInv, Asserting, ruleVars
<1>. QED BY <1>12, <1>13 DEF LearnInv

\* solver_reset settles the learnt rules; what is left to show is that the
\* rules in use still have a solution if no learnt rule is an assertion.
LEMMA ResetLearn ==
  ASSUME TypeInv, WatchInv, LearnInv, TypeInv', NEW d, Reset(d), UNCHANGED <<ruleVars, disablerules>>,
         Len(rules) > NBase /\ ~LearntAssertion => Satisfiable'
  PROVE  LearnInv'
<1>1. Alike /\ RuleId' = RuleId
  BY AlikeSame DEF Alike
<1>2. pc' = "start" /\ disabled' = EnableDisableLearntRules(d)
  BY DEF Reset
<1>3. /\ LearntAssertion' <=> LearntAssertion
      /\ NBase' = NBase /\ Len(rules') = Len(rules)
      /\ \A i \in RuleId : BaseRules({i})' = BaseRules({i})
  BY <1>1, AlikeKeeps DEF WatchInv
<1>4. LearntOK'
  BY <1>1, AlikeKeeps DEF WatchInv, LearnInv
<1>5. StatusOK'
  <2>1. ASSUME NEW i \in RuleId', i \notin disabled' PROVE BaseRules({i})' \cap disabled' = {}
    BY <1>1, <1>2, <1>3, <2>1, SettledStatus DEF WatchInv
  <2>. QED BY <1>2, <2>1 DEF StatusOK, Asserting
<1>6. SatOK'
  BY <1>2, <1>3 DEF SatOK, Asserting
<1>. QED BY <1>2, <1>4, <1>5, <1>6, NoProof DEF LearnInv, Resolving

\* A proof that cannot be satisfied is made of rules in use.
LEMMA ProvedNoSolution ==
  ASSUME TypeInv, TrailInv, LearnInv, Proved
  PROVE  ~Satisfiable
<1> SUFFICES ASSUME Satisfiable PROVE FALSE
  OBVIOUS
<1>1. PICK M \in Installations : \A i \in RuleId : InUse(i) => Holds(M, rules[i].lits)
  BY DEF Satisfiable
<1>2. proof \in SUBSET RuleId /\ \A i \in proof : InUse(i)
  BY TypeFacts DEF TypeAnalysis, LearnInv, ProofOK, Proved
<1>3. Satisfies(M, rules, proof)
  BY <1>1, <1>2 DEF Satisfies
<1>. QED BY <1>3, Refuted

\* A problem at level 1: rules are given up and the search starts again, or
\* it fails.
LEMMA AnalyzeUnsolvableLearn ==
  TypeInv /\ TrailInv /\ WatchInv /\ LearnInv /\ AnalyzeUnsolvable => LearnInv'
<1> SUFFICES ASSUME TypeInv, TrailInv, WatchInv, LearnInv, AnalyzeUnsolvable PROVE LearnInv'
  OBVIOUS
<1>1. TypeInv'
  BY NextType DEF Next
<1>2. ASSUME Proved PROVE ~(Len(rules) > NBase /\ ~LearntAssertion)
  <2>1. level = 1 /\ pc # "failed"
    BY <1>2, TrailFacts DEF LevelOK, Proved
  <2>2. ~Satisfiable
    BY <1>2, ProvedNoSolution
  <2>. QED BY <2>1, <2>2 DEF LearnInv, SatOK
<1>3. CASE UnsolvableWalk
  BY <1>3, UnsolvableWalkLearn
<1>4. CASE UnsolvableWeak
  BY <1>1, <1>2, <1>4, ResetLearn DEF UnsolvableWeak
<1>5. CASE UnsolvableUninstall
  BY <1>1, <1>2, <1>5, ResetLearn DEF UnsolvableUninstall
<1>6. CASE UnsolvableDisable
  BY <1>1, <1>2, <1>6, ResetLearn DEF UnsolvableDisable, RecordProblem
<1>7. CASE UnsolvableFail
  <2>1. Alike /\ pc = "unsolvable" /\ pc' = "failed" /\ level' = -1 /\ inst' = inst
        /\ UNCHANGED <<disabled, disablerules>>
    BY <1>7, AlikeSame DEF UnsolvableFail, RecordProblem, Proved, ruleVars
  <2>2. LearntOK' /\ (Satisfiable => Satisfiable')
    BY <1>1, <2>1, AlikeKeeps DEF WatchInv, LearnInv
  <2>3. StatusOK'
    BY <2>1 DEF StatusOK, Asserting
  <2>4. SatOK'
    <3>1. inst.disablerules /\ ~disablerules => Satisfiable
      BY <2>1 DEF LearnInv, SatOK
    <3>. QED BY <2>1, <2>2, <3>1 DEF SatOK, Asserting
  <2>. QED BY <2>1, <2>2, <2>3, <2>4, NoProof DEF LearnInv, Resolving
<1>. QED BY <1>3, <1>4, <1>5, <1>6, <1>7 DEF AnalyzeUnsolvable

-----------------------------------------------------------------------------
(* The decisions of solver_run_sat *)

\* When no rule is unfulfilled, the packages decided to be installed are a
\* solution of the rules in use.
LEMMA ConsistentSolves ==
  ASSUME TypeInv, TrailInv, pc # "start", Consistent
  PROVE  /\ Packages \in Installations
         /\ \A i \in RuleId : InUse(i) => Holds(Packages, rules[i].lits)
         /\ Satisfiable
<1>1. Packages \in Installations
  <2>1. 1 \in 1 .. Len(decisionq) /\ decisionq[1].p = SYSTEMSOLVABLE
    BY TrailFacts, TypeFacts DEF LevelOK, Decision
  <2>2. HoldsIn(decisionmap, SYSTEMSOLVABLE)
    BY <2>1, TrailFacts
  <2>. QED BY <2>2, LitFacts DEF HoldsIn, Packages, Installations, SYSTEMSOLVABLE
<1>2. ASSUME NEW i \in RuleId, InUse(i) PROVE Holds(Packages, rules[i].lits)
  <2>1. Fulfilled(i)
    BY <1>2 DEF Consistent, Unfulfilled, InUse, RuleId
  <2>2. PICK l \in rules[i].lits : IsTrue(l) \/ (l < 0 /\ IsUndef(l))
    BY <2>1 DEF Fulfilled
  <2>3. l \in Lit /\ l \in Int /\ l # 0 /\ Pkg(l) \in Solvable /\ (l > 0 => l \in Solvable)
    BY TypeFacts, LitFacts
  <2>4. LitHolds(Packages, l)
    <3>1. CASE l > 0
      BY <2>2, <2>3, <3>1 DEF IsTrue, Packages, LitHolds
    <3>2. CASE ~(l > 0)
      <4>1. -l \in Solvable /\ Pkg(l) = -l
        BY <2>3, <3>2 DEF Pkg
      <4>2. decisionmap[-l] <= 0
        BY <2>2, <3>2, <4>1, TypeFacts DEF IsTrue, IsUndef
      <4>. QED BY <3>2, <4>1, <4>2, TypeFacts DEF Packages, LitHolds
    <3>. QED BY <3>1, <3>2
  <2>. QED BY <2>4 DEF Holds
<1>. QED BY <1>1, <1>2 DEF Satisfiable

\* The table of solver_check_unneeded_choicerules: what is disabled after the
\* choice rules up to c.
ChoicesDropped(f, n, d0) ==
  f = [c \in 0 .. n |->
         IF c = 0 THEN d0
         ELSE IF UnneededChoice(c, f[c - 1]) THEN DisableChoiceRules(c, f[c - 1])
         ELSE f[c - 1]]

\* There is one for every bound.
LEMMA ChoicesExist ==
  ASSUME NEW n \in Nat, NEW d0
  PROVE  \E f : ChoicesDropped(f, n, d0)
<1> DEFINE Next1(c, d) == IF UnneededChoice(c, d) THEN DisableChoiceRules(c, d) ELSE d
           Good(m) == \E f : f = [c \in 0 .. m |-> IF c = 0 THEN d0 ELSE Next1(c, f[c - 1])]
           Bad == {m \in 0 .. n : ~Good(m)}
<1> HIDE DEF Next1
<1>1. ASSUME Bad # {} PROVE FALSE
  <2> DEFINE m == Min(Bad)
  <2>1. m \in Bad /\ \A j \in Bad : m <= j
    <3> HIDE DEF Good
    <3>1. Bad \subseteq 0 .. n
      OBVIOUS
    <3>2. Bad \subseteq Nat
      BY <3>1
    <3> HIDE DEF Bad
    <3>. QED BY <1>1, <3>2, MinIn
  <2> HIDE DEF m
  <2>2. m \in 0 .. n /\ ~Good(m)
    <3> HIDE DEF Good
    <3>. QED BY <2>1
  <2>3. CASE m = 0
    <3> DEFINE g == [c \in 0 .. 0 |-> d0]
    <3>1. g = [c \in 0 .. 0 |-> IF c = 0 THEN d0 ELSE Next1(c, g[c - 1])]
      OBVIOUS
    <3> HIDE DEF g
    <3>. QED BY <2>2, <2>3, <3>1
  <2>4. CASE m # 0
    <3>1. m - 1 \in 0 .. n /\ ~(m <= m - 1)
      BY <2>2, <2>4
    <3>2. Good(m - 1)
      BY <2>1, <3>1
    <3>3. PICK f : f = [c \in 0 .. m - 1 |-> IF c = 0 THEN d0 ELSE Next1(c, f[c - 1])]
      BY <3>2
    <3> DEFINE B(c) == IF c = 0 THEN d0 ELSE Next1(c, f[c - 1])
               g == [c \in 0 .. m |-> B(c)]
               C(c) == IF c = 0 THEN d0 ELSE Next1(c, g[c - 1])
    <3>4. \A c \in 0 .. m - 1 : g[c] = f[c]
      <4> TAKE c \in 0 .. m - 1
      <4>1. c \in 0 .. m
        BY <2>2
      <4>2. f[c] = B(c)
        BY <3>3
      <4> HIDE DEF B
      <4>. QED BY <4>1, <4>2
    <3>5. \A c \in 0 .. m : B(c) = C(c)
      <4> TAKE c \in 0 .. m
      <4>1. c # 0 => c - 1 \in 0 .. m - 1
        BY <2>2
      <4> HIDE DEF g
      <4>. QED BY <3>4, <4>1
    <3> HIDE DEF B
    <3>6. g = [c \in 0 .. m |-> B(c)]
      OBVIOUS
    <3> HIDE DEF g, C
    <3>7. [c \in 0 .. m |-> B(c)] = [c \in 0 .. m |-> C(c)]
      BY <3>5
    <3>8. g = [c \in 0 .. m |-> C(c)]
      BY <3>6, <3>7
    <3>9. Good(m)
      BY <3>8 DEF C
    <3>. QED BY <2>2, <3>9
  <2>. QED BY <2>3, <2>4
<1>2. Good(n)
  <2>1. n \in 0 .. n
    OBVIOUS
  <2>. QED BY <1>1, <2>1
<1>. QED BY <1>2, Zenon DEF Next1, ChoicesDropped

\* solver_run_sat's clean-up of choice rules disables choice rules only.
LEMMA ChoiceGrows ==
  ASSUME TypeInv, NEW d0
  PROVE  d0 \subseteq CheckUnneededChoiceRules(d0) /\ CheckUnneededChoiceRules(d0) \subseteq d0 \cup DOMAIN inst.choice
<1> DEFINE d == CHOOSE f : ChoicesDropped(f, NBase, d0)
<1>1. NBase \in Nat
  BY TypeFacts
<1>2. ChoicesDropped(d, NBase, d0)
  BY <1>1, ChoicesExist, Zenon
<1>3. CheckUnneededChoiceRules(d0) = d[NBase]
  BY Zenon DEF CheckUnneededChoiceRules, ChoicesDropped
<1> HIDE DEF d
<1>4. \A c \in 0 .. NBase : d[c] = IF c = 0 THEN d0
                                    ELSE IF UnneededChoice(c, d[c - 1]) THEN DisableChoiceRules(c, d[c - 1])
                                    ELSE d[c - 1]
  BY <1>2 DEF ChoicesDropped
<1> DEFINE Right(x) == d0 \subseteq x /\ x \subseteq d0 \cup DOMAIN inst.choice
           Bad == {c \in 0 .. NBase : ~Right(d[c])}
<1>5. ASSUME Bad # {} PROVE FALSE
  <2> DEFINE m == Min(Bad)
  <2>1. m \in Bad /\ \A j \in Bad : m <= j
    <3> HIDE DEF Right
    <3>1. Bad \subseteq Nat
      OBVIOUS
    <3> HIDE DEF Bad
    <3>. QED BY <1>5, <3>1, MinIn
  <2> HIDE DEF m
  <2>2. m \in 0 .. NBase /\ ~Right(d[m])
    <3> HIDE DEF Right
    <3>. QED BY <2>1
  <2>3. m # 0
    BY <1>4, <2>2
  <2>4. m - 1 \in 0 .. NBase /\ ~(m <= m - 1)
    BY <1>1, <2>2, <2>3
  <2>5. Right(d[m - 1])
    <3> HIDE DEF Right
    <3>. QED BY <2>1, <2>4
  <2>6. CASE UnneededChoice(m, d[m - 1])
    <3>1. d[m] = DisableChoiceRules(m, d[m - 1])
      BY <1>4, <2>2, <2>3, <2>6
    <3>2. m \in DOMAIN inst.choice
      BY <2>6 DEF UnneededChoice
    <3>3. Right(DisableChoiceRules(m, d[m - 1]))
      BY <2>5, <3>2 DEF DisableChoiceRules
    <3>. QED BY <2>2, <3>1, <3>3
  <2>7. CASE ~UnneededChoice(m, d[m - 1])
    <3>1. d[m] = d[m - 1]
      BY <1>4, <2>2, <2>3, <2>7
    <3>. QED BY <2>2, <2>5, <3>1
  <2>. QED BY <2>6, <2>7
<1>6. Right(d[NBase])
  <2>1. NBase \in 0 .. NBase
    BY <1>1
  <2> HIDE DEF Right
  <2>. QED BY <1>5, <2>1
<1>. QED BY <1>3, <1>6

\* A solution of the rules in use solves those in use after rules were
\* disabled and the learnt rules settled: a learnt rule that is enabled again
\* rests on rules in use.
LEMMA SettledSolved ==
  ASSUME TypeInv, WhyOlder, LearntOK, NEW d, disabled \subseteq d, NEW M \in Installations,
         \A i \in RuleId : InUse(i) => Holds(M, rules[i].lits)
  PROVE  \A i \in RuleId : i \notin EnableDisableLearntRules(d) /\ rules[i].w1 # 0 => Holds(M, rules[i].lits)
<1> DEFINE E == EnableDisableLearntRules(d)
<1>1. /\ \A i \in RuleId \ E : BaseRules({i}) \cap E = {}
      /\ \A i \in 1 .. NBase : i \in E <=> i \in d
  BY SettledStatus, StatusFacts
<1> HIDE DEF E
<1>2. ASSUME NEW i \in RuleId, i \notin E, rules[i].w1 # 0 PROVE Holds(M, rules[i].lits)
  <2>1. BaseRules({i}) \subseteq 1 .. NBase
    BY BaseFacts DEF BaseRight
  <2>2. \A b \in BaseRules({i}) : rules[b].w1 # 0
    BY <1>2, BaseInUse
  <2>3. ASSUME NEW b \in BaseRules({i}) PROVE Holds(M, rules[b].lits)
    <3>1. b \in 1 .. NBase /\ b \notin d
      BY <1>1, <1>2, <2>1
    <3>2. b \in RuleId /\ b \notin disabled
      BY <3>1, TypeFacts
    <3>. QED BY <2>2, <3>2 DEF InUse
  <2>4. Satisfies(M, rules, BaseRules({i}))
    BY <2>3 DEF Satisfies
  <2>5. {i} \in SUBSET RuleId
    OBVIOUS
  <2>6. Satisfies(M, rules, {i})
    BY <2>4, <2>5, BaseImplies
  <2>. QED BY <2>6 DEF Satisfies
<1>. QED BY <1>2 DEF E

\* Unneeded choice rules go: the packages decided satisfy the other rules.
LEMMA DropChoiceRulesLearn ==
  TypeInv /\ TrailInv /\ WatchInv /\ LearnInv /\ DropChoiceRules => LearnInv'
<1> SUFFICES ASSUME TypeInv, TrailInv, WatchInv, LearnInv, DropChoiceRules PROVE LearnInv'
  OBVIOUS
<1>0. PICK M : M = Packages
  OBVIOUS
<1> DEFINE d == CheckUnneededChoiceRules(disabled)
<1>1. /\ TypeInv' /\ WhyOlder /\ LearntOK
      /\ pc = "decide" /\ Consistent /\ Reset(d) /\ UNCHANGED <<ruleVars, disablerules>>
      /\ disabled \subseteq d
  BY NextType, ChoiceGrows DEF Next, Decide, DropChoiceRules, WatchInv, LearnInv
<1> HIDE DEF d
<1>2. /\ M \in Installations /\ \A i \in RuleId : InUse(i) => Holds(M, rules[i].lits)
  BY <1>0, <1>1, ConsistentSolves
<1>3. \A i \in RuleId : i \notin EnableDisableLearntRules(d) /\ rules[i].w1 # 0 => Holds(M, rules[i].lits)
  BY <1>1, <1>2, SettledSolved
<1>4. disabled' = EnableDisableLearntRules(d) /\ rules' = rules /\ RuleId' = RuleId
  BY <1>1, AlikeSame DEF Reset, ruleVars, Alike
<1>5. Satisfiable'
  BY <1>2, <1>3, <1>4 DEF Satisfiable, InUse
<1>. QED BY <1>1, <1>5, ResetLearn

\* A free decision opens a level and keeps the rules; a phase that decides
\* without disablerules does so when a solution is known.
LEMMA DecideLearn == TypeInv /\ TrailInv /\ WatchInv /\ LearnInv /\ Decide => LearnInv'
<1> SUFFICES ASSUME TypeInv, TrailInv, WatchInv, LearnInv, Decide PROVE LearnInv'
  OBVIOUS
<1>1. TypeInv' /\ WhyOlder
  BY NextType DEF Next, WatchInv
<1>2. pc = "decide" /\ level \in Nat /\ level >= 1
  <2>1. pc = "decide"
    BY DEF Decide, DecideRule, DecideInstalled, DecideExtra, DecideErase, TakeBranch, DropChoiceRules, Finish
  <2>. QED BY <2>1, SearchFacts DEF Searching
<1>3. ASSUME UNCHANGED ruleVars, disabled' = disabled, pc' \in {"propagate", "done"},
             level' <= 1 => level <= 1,
             disablerules' = disablerules \/ disablerules' = inst.disablerules \/ Satisfiable
      PROVE  LearnInv'
  <2>1. LearntOK' /\ StatusOK' /\ SatOK'
    BY <1>1, <1>2, <1>3, AlikeSame, RunKeeps DEF Asserting
  <2>. QED BY <1>3, <2>1, NoProof DEF LearnInv, Resolving
<1>4. ASSUME NEW p, NEW flag, SetPropagateLearn(p, flag), flag = inst.disablerules \/ flag = disablerules \/ Satisfiable
      PROVE  LearnInv'
  <2>1. UNCHANGED <<ruleVars, disabled>> /\ pc' = "propagate" /\ level' = level + 1 /\ disablerules' = flag
    BY <1>4 DEF SetPropagateLearn
  <2>2. ~(level' <= 1)
    BY <1>2, <2>1
  <2>. QED BY <1>3, <1>4, <2>1, <2>2
<1>5. CASE DecideRule \/ DecideInstalled
  BY <1>4, <1>5 DEF DecideRule, DecideInstalled, SelectAndInstall
<1>6. Consistent => Satisfiable
  BY <1>2, ConsistentSolves
<1>7. CASE DecideExtra
  <2>1. Consistent \/ ~disablerules
    BY <1>7 DEF DecideExtra
  <2>2. FALSE = inst.disablerules \/ FALSE = disablerules \/ Satisfiable
    <3>1. disablerules \in BOOLEAN
      BY TypeFacts DEF TypeSearch
    <3>. QED BY <1>6, <2>1, <3>1
  <2>. QED BY <1>4, <1>7, <2>2 DEF DecideExtra, SelectAndInstall
<1>8. CASE DecideErase
  BY <1>4, <1>6, <1>8 DEF DecideErase
<1>9. CASE TakeBranch
  <2>0. PICK b \in 1 .. Len(branches) : \E j : TakeBranchTo(b, j)
    BY <1>9 DEF TakeBranch
  <2>1. PICK j : TakeBranchTo(b, j)
    BY <2>0
  <2>2. /\ UNCHANGED <<ruleVars, disabled>> /\ pc' = "propagate" /\ disablerules' = inst.disablerules
        /\ level' = branches[b].level + 1
    BY <2>1 DEF TakeBranchTo
  <2>3. branches[b].level \in Nat /\ branches[b].level >= 1
    <3>1. branches[b].level >= 1
      BY <1>2, <2>1, TrailFacts DEF BranchesOK
    <3>2. branches[b] \in BranchRec
      BY TypeFacts, ElementOfSeq DEF TypeSearch
    <3>. QED BY <3>1, <3>2 DEF BranchRec
  <2>4. ~(level' <= 1)
    BY <2>2, <2>3
  <2>. QED BY <1>3, <2>2, <2>4
<1>10. CASE DropChoiceRules
  BY <1>10, DropChoiceRulesLearn
<1>11. CASE Finish
  <2>1. UNCHANGED <<ruleVars, disabled, level, disablerules>> /\ pc' = "done"
    BY <1>11 DEF Finish
  <2>. QED BY <1>3, <2>1
<1>. QED BY <1>5, <1>7, <1>8, <1>9, <1>10, <1>11 DEF Decide

-----------------------------------------------------------------------------
\* A step that changes nothing keeps LearnInv.
LEMMA StutterLearn == TypeInv /\ WatchInv /\ LearnInv /\ UNCHANGED vars => LearnInv'
<1> SUFFICES ASSUME TypeInv, WatchInv, LearnInv, UNCHANGED vars PROVE LearnInv'
  OBVIOUS
<1>1. /\ UNCHANGED ruleVars
      /\ UNCHANGED <<inst, rules, why, disabled, decisionq, decisionmap, level, disablerules, pc, havedisabled,
                     confl, idx, seen, q, uip, proof>>
  BY DEF vars, ruleVars, trailVars, assertVars, analyzeVars
<1>2. TypeInv' /\ Alike /\ RuleId' = RuleId
  BY <1>1, StutterType, AlikeSame DEF Alike
<1>3. /\ LearntOK'
      /\ LearntAssertion' <=> LearntAssertion
      /\ NBase' = NBase /\ Len(rules') = Len(rules)
      /\ \A i \in RuleId : BaseRules({i})' = BaseRules({i})
      /\ Satisfiable => Satisfiable'
  BY <1>1, <1>2, AlikeKeeps DEF WatchInv, LearnInv
<1>4. ProofOK'
  <2>1. Clause' = Clause /\ UnsolvableClause' = UnsolvableClause /\ \A i : InUse(i)' <=> InUse(i)
    BY <1>1 DEF Clause, FalseLit, UnsolvableClause, InUse
  <2>. QED BY <1>1, <2>1 DEF LearnInv, ProofOK
<1>5. StatusOK' /\ SatOK'
  BY <1>1, <1>2, <1>3 DEF LearnInv, StatusOK, SatOK
<1>. QED BY <1>3, <1>4, <1>5 DEF LearnInv

\* Every step keeps what is known about learnt rules.
LEMMA NextLearn == TypeInv /\ TrailInv /\ WatchInv /\ LearnInv /\ [Next]_vars => LearnInv'
BY AssertionsLearn, PropagateLearn, AnalyzeRuleLearn, AnalyzeDoneLearn, AnalyzeUipLearn,
   AnalyzeResolveLearn, LearnLearn, AnalyzeUnsolvableLearn, DecideLearn, StutterLearn
   DEF Next, Analyze, Terminated

\* The invariant of learning is inductive on top of those of the decisions
\* and of the watches.
THEOREM LearningInvariant == Spec => [](TypeInv /\ TrailInv /\ WatchInv /\ LearnInv)
<1>1. Init => LearnInv
  BY InitLearn
<1>2. TypeInv /\ TrailInv /\ WatchInv /\ LearnInv /\ [Next]_vars => LearnInv'
  BY NextLearn
<1>. QED BY <1>1, <1>2, WatchesInvariant, PTL DEF Spec

\* LearningOK from the invariants.
LEMMA LearnGives == TypeInv /\ TrailInv /\ WatchInv /\ LearnInv => LearningOK
<1> SUFFICES ASSUME TypeInv, TrailInv, WatchInv, LearnInv PROVE LearningOK
  OBVIOUS
<1>1. AnalyzeAsserts /\ LearntIsUnit
  BY AnalyzeGives
<1>2. LearntSound
  BY DEF WatchInv, WhyOlder, LearnInv, LearntOK, LearntSound
<1>3. LearntStatusOK
  BY DEF LearnInv, StatusOK, LearntStatusOK, Asserting
<1>. QED BY <1>1, <1>2, <1>3 DEF LearningOK

\* Learning is right on every rule set: what analyze learns follows from the
\* rules it resolved, the decisions of level 1 it leaves out included, it is
\* unit where the search goes on, and it is in use only while every rule of
\* the instance it rests on is.
THEOREM LearningRight == Spec => []LearningOK
  BY LearningInvariant, LearnGives, PTL

-----------------------------------------------------------------------------
(* What solver_run_sat leaves behind. *)

\* The rules of the instance stay what they were, up to their watches.
BaseSame ==
  \A i \in 1 .. NBase : /\ rules[i].lits = inst.rules[i].lits
                        /\ IsAssertion(rules[i]) <=> IsAssertion(inst.rules[i])

\* makeruledecisions decides by assertions only.
AssertReasons ==
  pc \in Asserting => \A k \in 1 .. Len(decisionq) :
                       decisionq[k].why # 0 => IsAssertion(rules[decisionq[k].why])

OutInv == BaseSame /\ AssertReasons /\ OutcomeRight

\* No step changes a rule of the instance.
BaseKeeps ==
  /\ inst' = inst /\ NBase' = NBase
  /\ \A i \in 1 .. NBase : /\ rules'[i].lits = rules[i].lits
                           /\ IsAssertion(rules'[i]) <=> IsAssertion(rules[i])

\* No step changes a rule of the instance, up to its watches.
LEMMA NextBase == TypeInv /\ TrailInv /\ [Next]_vars => BaseKeeps
<1> SUFFICES ASSUME TypeInv, TrailInv, [Next]_vars PROVE BaseKeeps
  OBVIOUS
<1>1. 1 .. NBase \subseteq RuleId
  BY TypeFacts
<1>2. CASE Learn
  <2>1. inst' = inst /\ \A i \in RuleId : rules'[i] = rules[i]
    BY <1>2, LearnFacts
  <2>. QED BY <1>1, <2>1 DEF BaseKeeps, NBase
<1>3. ASSUME Alike PROVE BaseKeeps
  <2>1. inst' = inst /\ NBase' = NBase
    BY <1>3 DEF Alike, NBase
  <2>. QED BY <1>1, <1>3, <2>1 DEF Alike, BaseKeeps
<1>4. CASE PropagateMove
  BY <1>3, <1>4, MoveAlike
<1>5. ASSUME Assertions PROVE UNCHANGED ruleVars
  BY <1>5 DEF Assertions, MakeRuleDecisions, AssertLearntStatus, AssertDecide, AssertSkip, AssertDropLearnt,
     AssertUninstall, AssertConflict, AssertEnd, WeakDecide, WeakConflict, WeakEnd
<1>6. ASSUME Propagate, ~PropagateMove PROVE UNCHANGED ruleVars
  BY <1>6 DEF Propagate, PropagateNext, PropagateDecisionDone, PropagateSkip, PropagateUnit,
     PropagateConflict, PropagateEnd
<1>7. ASSUME Analyze, ~Learn PROVE UNCHANGED ruleVars
  BY <1>7 DEF Analyze, AnalyzeRule, AnalyzeDone, AnalyzeUip, AnalyzeResolve
<1>8. ASSUME AnalyzeUnsolvable PROVE UNCHANGED ruleVars
  BY <1>8 DEF AnalyzeUnsolvable, UnsolvableWalk, UnsolvableWeak, UnsolvableUninstall, UnsolvableDisable,
     UnsolvableFail
<1>9. ASSUME Decide PROVE UNCHANGED ruleVars
  BY <1>9 DEF Decide, DecideRule, DecideInstalled, DecideExtra, DecideErase, SelectAndInstall,
     SetPropagateLearn, TakeBranch, TakeBranchTo, DropChoiceRules, Finish
<1>10. ASSUME UNCHANGED vars PROVE UNCHANGED ruleVars
  BY <1>10 DEF vars
<1>11. CASE UNCHANGED ruleVars
  BY <1>3, <1>11, AlikeSame
<1>. QED BY <1>2, <1>4, <1>5, <1>6, <1>7, <1>8, <1>9, <1>10, <1>11 DEF Next, Terminated

\* What the instance says of its package rules holds of the rules in use.
LEMMA PackageFacts ==
  ASSUME TypeInv, BaseSame
  PROVE  /\ \A i \in PkgRules : i \in 1 .. NBase
         /\ \A i \in PkgRules : IsAssertion(rules[i]) =>
              rules[i].lits = {rules[i].w1} /\ rules[i].w1 < 0 /\ rules[i].w1 # -SYSTEMSOLVABLE
         /\ \A i \in PkgRules : \E l \in rules[i].lits : l < 0 /\ l # -SYSTEMSOLVABLE
<1>1. inst \in Instances /\ inst.pkgend \in 1 .. NBase + 1 /\ NBase \in Nat
  BY TypeFacts, InstanceFacts DEF TypeRules
<1>2. /\ \A i \in 1 .. inst.pkgend - 1 :
           IsAssertion(inst.rules[i]) => inst.rules[i].w1 < 0 /\ inst.rules[i].w1 # -SYSTEMSOLVABLE
      /\ \A i \in 1 .. inst.pkgend - 1 : \E l \in inst.rules[i].lits : l < 0 /\ l # -SYSTEMSOLVABLE
  BY <1>1, InstancesAssumption DEF Instance
<1>3. \A i \in PkgRules : i \in 1 .. NBase
  BY <1>1 DEF PkgRules
<1>4. \A i \in PkgRules : \E l \in rules[i].lits : l < 0 /\ l # -SYSTEMSOLVABLE
  BY <1>2, <1>3 DEF PkgRules, BaseSame
<1>5. ASSUME NEW i \in PkgRules, IsAssertion(rules[i])
      PROVE  rules[i].lits = {rules[i].w1} /\ rules[i].w1 < 0 /\ rules[i].w1 # -SYSTEMSOLVABLE
  <2>1. rules[i].lits = {rules[i].w1}
    BY <1>3, <1>5, TypeFacts DEF RuleShape, IsAssertion
  <2>. QED BY <1>4, <2>1
<1>. QED BY <1>3, <1>4, <1>5

\* A run starts over with the system solvable only, which has no reason.
LEMMA SystemOnlyReasons == SystemOnly => \A k \in 1 .. Len(decisionq') : decisionq'[k].why = 0
  BY DEF SystemOnly, Decision

\* An assertion decided keeps AssertReasons.
LEMMA PushReasons ==
  ASSUME TypeInv, TrailInv, AssertReasons, pc \in Asserting,
         NEW i \in RuleAssertions(ri), Push(rules[i].w1, i, 1), rules' = rules
  PROVE  AssertReasons'
<1>1. /\ decisionq' = Append(decisionq, Decision(rules[i].w1, i)) /\ IsAssertion(rules[i])
      /\ decisionq \in DecisionSeq /\ Len(decisionq) \in Nat
  BY TrailFacts, TypeFacts DEF Push, RuleAssertions
<1>2. ASSUME NEW k \in 1 .. Len(decisionq'), decisionq'[k].why # 0 PROVE IsAssertion(rules[decisionq'[k].why])
  <2>1. CASE k = Len(decisionq) + 1
    <3>1. decisionq'[k] = Decision(rules[i].w1, i)
      BY <1>1, <2>1 DEF DecisionSeq
    <3>. QED BY <1>1, <3>1 DEF Decision
  <2>2. CASE k # Len(decisionq) + 1
    <3>1. k \in 1 .. Len(decisionq) /\ decisionq'[k] = decisionq[k]
      BY <1>1, <2>2 DEF DecisionSeq
    <3>. QED BY <1>2, <3>1 DEF AssertReasons
  <2>. QED BY <2>1, <2>2
<1>. QED BY <1>2 DEF AssertReasons

\* Every step keeps AssertReasons.
LEMMA NextReasons == TypeInv /\ TrailInv /\ AssertReasons /\ [Next]_vars => AssertReasons'
<1> SUFFICES ASSUME TypeInv, TrailInv, AssertReasons, [Next]_vars, pc' \in Asserting PROVE AssertReasons'
  BY DEF AssertReasons
<1>1. CASE SystemOnly
  BY <1>1, SystemOnlyReasons DEF AssertReasons
<1>2. ASSUME pc \in Asserting, UNCHANGED <<rules, decisionq>> PROVE AssertReasons'
  BY <1>2 DEF AssertReasons
<1>3. CASE AssertDecide
  <2>1. PICK i \in RuleAssertions(ri) : pc = "assert" /\ Push(rules[i].w1, i, 1) /\ rules' = rules
    BY <1>3 DEF AssertDecide, ruleVars
  <2>. QED BY <2>1, PushReasons DEF Asserting
<1>3a. CASE WeakDecide
  <2> DEFINE i == Min(WeakAssertions(ri))
  <2>1. /\ pc = "weakassert" /\ WeakAssertions(ri) # {} /\ rules' = rules
        /\ Push(rules[i].w1, i, 1) \/ UNCHANGED decisionq
    BY <1>3a DEF WeakDecide, ruleVars
  <2>2. WeakAssertions(ri) \subseteq Nat /\ WeakAssertions(ri) \subseteq RuleAssertions(ri)
    BY TypeFacts DEF WeakAssertions, RuleAssertions, TypeLocals
  <2>3. i \in RuleAssertions(ri)
    BY <2>1, <2>2, MinIn
  <2> HIDE DEF i
  <2>4. CASE Push(rules[i].w1, i, 1)
    BY <2>1, <2>3, <2>4, PushReasons DEF Asserting
  <2>. QED BY <1>2, <2>1, <2>4 DEF Asserting
<1>4. ASSUME Assertions, ~SystemOnly, ~AssertDecide, ~WeakDecide
      PROVE  pc \in Asserting /\ UNCHANGED <<rules, decisionq>>
  BY <1>4 DEF Assertions, MakeRuleDecisions, AssertLearntStatus, AssertSkip, AssertDropLearnt,
     AssertUninstall, AssertConflict, AssertEnd, WeakConflict, WeakEnd, StartOver, ruleVars, trailVars, Asserting
<1>5. ASSUME UNCHANGED vars PROVE pc \in Asserting /\ UNCHANGED <<rules, decisionq>>
  BY <1>5 DEF vars, ruleVars, trailVars
<1>6. ~(Propagate \/ Analyze \/ AnalyzeUnsolvable \/ Decide)
  BY DEF Propagate, PropagateNext, PropagateDecisionDone, PropagateSkip, PropagateMove, PropagateUnit,
     PropagateConflict, PropagateEnd, Visit, Analyze, AnalyzeRule, AnalyzeDone, AnalyzeUip, AnalyzeResolve, Learn,
     AnalyzeUnsolvable, UnsolvableWalk, UnsolvableWeak, UnsolvableUninstall, UnsolvableDisable, UnsolvableFail,
     Reset, Decide, DecideRule, DecideInstalled, DecideExtra, DecideErase, SelectAndInstall,
     SetPropagateLearn, TakeBranch, TakeBranchTo, DropChoiceRules, Finish, Asserting
<1>. QED BY <1>1, <1>2, <1>3, <1>3a, <1>4, <1>5, <1>6 DEF Next, Terminated

\* A problem is only reported by makeruledecisions and analyze_unsolvable.
LEMMA ProblemsStep == [Next]_vars => UNCHANGED problems \/ AssertConflict \/ RecordProblem
<1>1. Assertions => UNCHANGED problems \/ AssertConflict
  BY DEF Assertions, MakeRuleDecisions, AssertLearntStatus, AssertDecide, AssertSkip, AssertDropLearnt,
     AssertUninstall, AssertEnd, WeakDecide, WeakConflict, WeakEnd
<1>2. Propagate \/ Analyze => UNCHANGED problems
  BY DEF Propagate, PropagateNext, PropagateDecisionDone, PropagateSkip, PropagateMove, PropagateUnit,
     PropagateConflict, PropagateEnd, Analyze, AnalyzeRule, AnalyzeDone, AnalyzeUip, AnalyzeResolve, Learn
<1>3. AnalyzeUnsolvable => UNCHANGED problems \/ RecordProblem
  BY DEF AnalyzeUnsolvable, UnsolvableWalk, UnsolvableWeak, UnsolvableUninstall, UnsolvableDisable, UnsolvableFail
<1>4. Decide => UNCHANGED problems
  BY DEF Decide, DecideRule, DecideInstalled, DecideExtra, DecideErase, SelectAndInstall, SetPropagateLearn,
     TakeBranch, TakeBranchTo, DropChoiceRules, Finish
<1>5. UNCHANGED vars => UNCHANGED problems
  BY DEF vars
<1>. QED BY <1>1, <1>2, <1>3, <1>4, <1>5 DEF Next, Terminated

\* A reported problem has the rules of its elements, and the package rules,
\* against it.
RealProblem(elems) == Unsatisfiable(rules, PkgRules \cup UNION {Group(v) : v \in elems})

\* A reported problem stays one.
LEMMA RealKept ==
  ASSUME TypeInv, BaseKeeps
  PROVE  \A elems : RealProblem(elems) => Unsatisfiable(rules', PkgRules' \cup UNION {Group(v)' : v \in elems})
<1>1. PkgRules' = PkgRules /\ PkgRules \subseteq 1 .. NBase
  <2>1. inst.pkgend \in 1 .. NBase + 1 /\ NBase \in Nat
    BY TypeFacts, InstanceFacts DEF TypeRules
  <2>. QED BY <2>1 DEF PkgRules, BaseKeeps
<1>2. \A v : Group(v)' = Group(v) /\ Group(v) \subseteq 1 .. NBase
  BY DEF Group, BaseKeeps
<1>3. ASSUME NEW elems PROVE UNION {Group(v)' : v \in elems} = UNION {Group(v) : v \in elems}
  BY <1>2
<1>4. ASSUME NEW elems PROVE PkgRules \cup UNION {Group(v) : v \in elems} \subseteq 1 .. NBase
  BY <1>1, <1>2
<1>5. ASSUME NEW R, R \subseteq 1 .. NBase, Unsatisfiable(rules, R) PROVE Unsatisfiable(rules', R)
  BY <1>5 DEF Unsatisfiable, BaseKeeps
<1> SUFFICES ASSUME NEW elems, RealProblem(elems)
             PROVE  Unsatisfiable(rules', PkgRules' \cup UNION {Group(v)' : v \in elems})
  OBVIOUS
<1>6. Unsatisfiable(rules', PkgRules \cup UNION {Group(v) : v \in elems})
  BY <1>4, <1>5 DEF RealProblem
<1>. QED BY <1>1, <1>3, <1>6

\* What analyze_unsolvable proved.
LEMMA ProofIsReal ==
  ASSUME TypeInv, TrailInv, WatchInv, LearnInv, Proved
  PROVE  RealProblem(ElemsOfProof)
<1> SUFFICES ASSUME NEW M \in Installations
             PROVE  \E i \in PkgRules \cup UNION {Group(v) : v \in ElemsOfProof} : ~Holds(M, rules[i].lits)
  BY DEF RealProblem, Unsatisfiable
<1>1. proof \in SUBSET RuleId /\ ~Satisfies(M, rules, proof)
  BY Refuted, TypeFacts DEF TypeAnalysis
<1>2. ~Satisfies(M, rules, BaseRules(proof))
  BY <1>1, BaseImplies DEF WatchInv, LearnInv
<1>3. PICK b \in BaseRules(proof) : ~Holds(M, rules[b].lits)
  BY <1>2 DEF Satisfies
<1>4. b \in 1 .. NBase /\ NBase \in Nat
  <2>1. BaseRight
    BY BaseFacts DEF WatchInv
  <2>2. PICK i \in proof : b \in BaseRules({i})
    <3>1. \A R, c : c \in BaseRules(R) <=> \E i \in R : c \in BaseRules({i})
      BY <2>1, Zenon DEF BaseRight
    <3>. QED BY <1>3, <3>1
  <2>3. i \in RuleId
    BY <1>1, <2>2
  <2>. QED BY <2>1, <2>2, <2>3, TypeFacts DEF BaseRight
<1>5. inst.pkgend \in 1 .. NBase + 1
  BY TypeFacts, InstanceFacts DEF TypeRules
<1>6. CASE b < inst.pkgend
  <2>1. b \in PkgRules
    BY <1>4, <1>5, <1>6 DEF PkgRules
  <2>. QED BY <1>3, <2>1
<1>7. CASE ~(b < inst.pkgend)
  <2>1. b \in inst.pkgend .. NBase
    BY <1>4, <1>5, <1>7
  <2>2. inst.problem[b] \in ElemsOfProof
    BY <1>3, <2>1 DEF ElemsOfProof, ProblemOf
  <2>3. b \in Group(inst.problem[b])
    BY <1>4 DEF Group
  <2>. QED BY <1>3, <2>2, <2>3
<1>. QED BY <1>6, <1>7

\* Rules of the instance that are enabled and have no solution.
IsCore(C) == C \subseteq (1 .. NBase) \ disabled /\ Unsatisfiable(rules, C)

\* The rules in conflict when the assertion i contradicts the decision k.
ConflictRules(i, k) ==
  IF decisionq[k].why < inst.pkgend THEN ConflictProof(i, k) ELSE AssertionConflict(i, decisionq[k].why)

\* A conflict of two assertions is a core of strong rules, and what
\* makeruledecisions records are the problems of its rules.
LEMMA ConflictCore ==
  ASSUME TypeInv, TrailInv, WatchInv, BaseSame, AssertReasons,
         NEW i \in 1 .. NBase, NEW k \in 1 .. Len(decisionq), InConflict(i, k)
  PROVE  /\ IsCore(ConflictRules(i, k)) /\ ConflictRules(i, k) \cap inst.weak = {}
         /\ ProblemOf(ConflictRules(i, k)) = ConflictElems(i, k)
         /\ inst.problem[i] \in ConflictElems(i, k)
<1> DEFINE o == decisionq[k].why
           l == rules[i].w1
           J == AssertionConflict(i, o)
           C == ConflictRules(i, k)
<1>1. /\ pc = "assert" /\ i \in RuleAssertions(ri) /\ i \notin disabled /\ i \notin inst.weak
      /\ decisionq[k].p = -l /\ i \in RuleId /\ IsAssertion(rules[i])
  BY TypeFacts DEF InConflict, Skipped, RuleAssertions
<1>2. l \in Lit /\ rules[i].lits = {l} /\ -l \in Lit /\ -(-l) = l
  BY <1>1, TypeFacts, LitFacts, PkgFacts DEF RuleShape, IsAssertion
<1>3. inst.pkgend \in 1 .. NBase + 1 /\ NBase \in Nat
  BY TypeFacts, InstanceFacts DEF TypeRules
<1>5. o \in RuleId \cup {0} /\ RuleId \subseteq Nat
  BY TypeFacts
<1>6. o # 0 => /\ IsAssertion(rules[o]) /\ rules[o].lits = {-l} /\ rules[o].w1 = -l
  <2> SUFFICES ASSUME o # 0 PROVE IsAssertion(rules[o]) /\ rules[o].lits = {-l} /\ rules[o].w1 = -l
    OBVIOUS
  <2>1. IsAssertion(rules[o])
    BY <1>1 DEF AssertReasons, Asserting
  <2>2. rules[o].lits = {rules[o].w1}
    BY <1>5, <2>1, TypeFacts DEF RuleShape, IsAssertion
  <2>3. -l \in rules[o].lits
    BY <1>1, TrailFacts DEF TrailFull, Reasons
  <2>. QED BY <2>1, <2>2, <2>3
<1>6a. o = 0 => k = 1
  <2> SUFFICES ASSUME o = 0, k # 1 PROVE FALSE
    OBVIOUS
  <2>1. DecisionLev(k) = 1 /\ k - 1 \in 1 .. Len(decisionq)
    BY <1>1, TypeFacts, TrailFacts DEF LevelOK
  <2>2. LevIn(decisionmap, decisionq[k - 1].p) < LevIn(decisionmap, decisionq[k].p)
    BY TrailFacts DEF TrailFull, FreeFirst
  <2>3. DecisionLev(k - 1) < DecisionLev(k) /\ DecisionLev(k - 1) >= 1 /\ DecisionLev(k - 1) \in Nat
    BY <2>1, <2>2, TrailFacts
  <2>. QED BY <2>1, <2>3
<1>6b. o = 0 => -l = SYSTEMSOLVABLE /\ l = -SYSTEMSOLVABLE
  <2> SUFFICES ASSUME o = 0 PROVE -l = SYSTEMSOLVABLE /\ l = -SYSTEMSOLVABLE
    OBVIOUS
  <2>1. decisionq[1].p = SYSTEMSOLVABLE
    BY <1>1, TrailFacts DEF LevelOK, Decision
  <2>2. -l = SYSTEMSOLVABLE
    BY <1>1, <1>6a, <2>1
  <2>3. l = -(-l)
    BY <1>2
  <2>. QED BY <2>2, <2>3
<1>6c. o # 0 => o < ri /\ o \notin inst.weak /\ o \notin disabled /\ o \in Nat
  <2>1. o < ri /\ o \notin inst.weak
    BY <1>1 DEF WatchInv, AssertedOK
  <2>2. o # 0 => o \notin disabled
    BY <1>1 DEF WatchInv, EnabledReasons
  <2>. QED BY <1>5, <2>1, <2>2
<1>6d. ri <= i /\ ri \in Nat
  <2>1. ri \in Nat
    BY TypeFacts DEF TypeLocals
  <2>. QED BY <1>1, <2>1 DEF RuleAssertions
<1>6e. ASSUME NEW M \in Installations PROVE ~Holds(M, rules[i].lits) \/ (o # 0 /\ ~Holds(M, rules[o].lits))
  <2>1. CASE o = 0
    <3>1. LitHolds(M, -l)
      BY <1>6b, <2>1 DEF LitHolds, Installations, SYSTEMSOLVABLE
    <3>2. ~LitHolds(M, l)
      BY <1>2, <3>1, LitSign
    <3>. QED BY <1>2, <3>2 DEF Holds
  <2>2. CASE o # 0
    <3>1. ~LitHolds(M, l) \/ ~LitHolds(M, -l)
      BY <1>2, LitSign
    <3>. QED BY <1>2, <1>6, <2>2, <3>1 DEF Holds
  <2>. QED BY <2>1, <2>2
<1>7. CASE o < inst.pkgend
  <2>1. C = {i, o} \ {0} /\ J = {i}
    BY <1>7 DEF ConflictRules, ConflictProof, AssertionConflict
  <2>2. ConflictElems(i, k) = ProblemOf(J)
    BY DEF ConflictElems
  <2> HIDE DEF C, J
  <2>3. i \notin PkgRules
    <3> SUFFICES ASSUME i \in PkgRules PROVE FALSE
      OBVIOUS
    <3>1. l < 0 /\ l # -SYSTEMSOLVABLE
      BY <1>1, PackageFacts
    <3>2. CASE o = 0
      BY <1>6b, <3>1, <3>2
    <3>3. CASE o # 0
      <4>0. o \in Nat /\ o < inst.pkgend
        BY <1>6c, <1>7, <3>3
      <4>1. o \in PkgRules
        BY <1>3, <3>3, <4>0 DEF PkgRules
      <4>2. -l < 0
        BY <1>6, <3>3, <4>1, PackageFacts
      <4>3. l \in Int
        BY <1>2, LitFacts
      <4>. QED BY <3>1, <4>2, <4>3
    <3>. QED BY <3>2, <3>3
  <2>4. i \in inst.pkgend .. NBase
    BY <1>3, <2>3 DEF PkgRules
  <2>5. o # 0 => o \in 1 .. NBase /\ o \notin inst.pkgend .. NBase
    BY <1>3, <1>6c, <1>7
  <2>6. ProblemOf(C) = {inst.problem[i]} /\ ProblemOf(J) = {inst.problem[i]}
    <3>1. C \cap inst.pkgend .. NBase = {i} /\ J \cap inst.pkgend .. NBase = {i}
      BY <2>1, <2>4, <2>5
    <3>. QED BY <3>1 DEF ProblemOf
  <2>7. C \subseteq (1 .. NBase) \ disabled /\ C \cap inst.weak = {}
    BY <1>1, <1>6c, <2>1, <2>5
  <2>8. Unsatisfiable(rules, C)
    <3> SUFFICES ASSUME NEW M \in Installations PROVE \E j \in C : ~Holds(M, rules[j].lits)
      BY DEF Unsatisfiable
    <3>1. i \in C /\ (o # 0 => o \in C)
      BY <2>1
    <3>. QED BY <1>6e, <3>1
  <2>. QED BY <2>2, <2>6, <2>7, <2>8 DEF C, IsCore
<1>8. CASE ~(o < inst.pkgend)
  <2>1. o # 0
    BY <1>3, <1>8
  <2>2. C = J /\ ConflictElems(i, k) = ProblemOf(J)
    BY <1>8 DEF ConflictRules, ConflictElems
  <2>3. o \in inst.pkgend .. NBase /\ i \in inst.pkgend .. NBase
    BY <1>3, <1>6c, <1>6d, <1>8, <2>1
  <2>4. Pkg(rules[o].w1) = Pkg(l)
    BY <1>2, <1>6, <2>1, LitFacts
  <2>5. J = {j \in inst.pkgend .. NBase : /\ j \notin disabled /\ j \notin inst.weak
                                          /\ IsAssertion(rules[j]) /\ Pkg(rules[j].w1) = Pkg(l)}
    BY <1>8 DEF AssertionConflict
  <2> HIDE DEF J, C
  <2>6. o \in J /\ i \in J
    BY <1>1, <1>6, <1>6c, <2>1, <2>3, <2>4, <2>5
  <2>7. J \subseteq (1 .. NBase) \ disabled /\ J \cap inst.weak = {}
    BY <1>3, <2>5
  <2>8. Unsatisfiable(rules, J)
    <3> SUFFICES ASSUME NEW M \in Installations PROVE \E j \in J : ~Holds(M, rules[j].lits)
      BY DEF Unsatisfiable
    <3>. QED BY <1>6e, <2>6
  <2>9. inst.problem[i] \in ProblemOf(J)
    BY <2>3, <2>6 DEF ProblemOf
  <2>. QED BY <2>2, <2>7, <2>8, <2>9 DEF C, IsCore
<1>. QED BY <1>7, <1>8

\* The problem makeruledecisions reports is one: the rules in conflict are
\* package rules and rules of its elements.
LEMMA ConflictIsReal ==
  ASSUME TypeInv, TrailInv, WatchInv, BaseSame, AssertReasons,
         NEW i \in 1 .. NBase, NEW k \in 1 .. Len(decisionq), InConflict(i, k)
  PROVE  RealProblem(ConflictElems(i, k))
<1> SUFFICES ASSUME NEW M \in Installations
             PROVE  \E j \in PkgRules \cup UNION {Group(v) : v \in ConflictElems(i, k)} : ~Holds(M, rules[j].lits)
  BY DEF RealProblem, Unsatisfiable
<1> DEFINE C == ConflictRules(i, k)
<1>1. IsCore(C) /\ ProblemOf(C) = ConflictElems(i, k)
  BY ConflictCore
<1> HIDE DEF C
<1>2. PICK j \in C : j \in 1 .. NBase /\ ~Holds(M, rules[j].lits)
  BY <1>1 DEF IsCore, Unsatisfiable
<1>3. inst.pkgend \in 1 .. NBase + 1 /\ NBase \in Nat
  BY TypeFacts, InstanceFacts DEF TypeRules
<1>4. CASE j < inst.pkgend
  BY <1>2, <1>3, <1>4 DEF PkgRules
<1>5. CASE ~(j < inst.pkgend)
  <2>1. j \in inst.pkgend .. NBase
    BY <1>2, <1>3, <1>5
  <2>2. inst.problem[j] \in ConflictElems(i, k) /\ j \in Group(inst.problem[j])
    BY <1>1, <1>2, <2>1 DEF ProblemOf, Group
  <2>. QED BY <1>2, <2>2
<1>. QED BY <1>4, <1>5

\* Every step keeps ProblemsReal.
LEMMA NextProblems ==
  TypeInv /\ TrailInv /\ WatchInv /\ LearnInv /\ OutInv /\ [Next]_vars => ProblemsReal'
<1> SUFFICES ASSUME TypeInv, TrailInv, WatchInv, LearnInv, OutInv, [Next]_vars PROVE ProblemsReal'
  OBVIOUS
<1>1. BaseKeeps /\ problems \in Seq(ProblemRec)
  BY NextBase, TypeFacts DEF TypeSearch
<1> DEFINE Real(elems) == Unsatisfiable(rules', PkgRules' \cup UNION {Group(v)' : v \in elems})
<1>2. \A n \in 1 .. Len(problems) : RealProblem(problems[n].elems)
  BY DEF OutInv, OutcomeRight, ProblemsReal, RealProblem
<1>3. \A elems : RealProblem(elems) => Real(elems)
  BY <1>1, RealKept
<1>4. \A n \in 1 .. Len(problems) : Real(problems[n].elems)
  BY <1>2, <1>3
<1>5. SUFFICES \A n \in 1 .. Len(problems') : Real(problems'[n].elems)
  BY DEF ProblemsReal
<1> HIDE DEF Real
<1>6. ASSUME NEW prf, NEW elems, problems' = Append(problems, Problem(prf, elems)), RealProblem(elems)
      PROVE  \A n \in 1 .. Len(problems') : Real(problems'[n].elems)
  <2> SUFFICES ASSUME NEW n \in 1 .. Len(problems') PROVE Real(problems'[n].elems)
    OBVIOUS
  <2>1. CASE n = Len(problems) + 1
    <3>1. problems'[n] = Problem(prf, elems)
      BY <1>1, <1>6, <2>1
    <3>. QED BY <1>3, <1>6, <3>1 DEF Problem
  <2>2. CASE n # Len(problems) + 1
    <3>1. n \in 1 .. Len(problems) /\ problems'[n] = problems[n]
      BY <1>1, <1>6, <2>2
    <3>. QED BY <1>4, <3>1
  <2>. QED BY <2>1, <2>2
<1>7. CASE AssertConflict
  <2>1. PICK i \in 1 .. NBase, k \in 1 .. Len(decisionq) :
          /\ InConflict(i, k)
          /\ problems' = Append(problems, Problem(ConflictProof(i, k), ConflictElems(i, k)))
    BY <1>7 DEF AssertConflict
  <2>2. RealProblem(ConflictElems(i, k))
    BY <2>1, ConflictIsReal DEF OutInv
  <2>. QED BY <1>6, <2>1, <2>2
<1>8. CASE RecordProblem
  <2>1. Proved /\ problems' = Append(problems, Problem(proof, ElemsOfProof))
    BY <1>8 DEF RecordProblem
  <2>2. RealProblem(ElemsOfProof)
    BY <2>1, ProofIsReal
  <2>. QED BY <1>6, <2>1, <2>2
<1>9. CASE UNCHANGED problems
  BY <1>4, <1>9
<1>. QED BY <1>7, <1>8, <1>9, ProblemsStep

-----------------------------------------------------------------------------
\* The package rules alone always have a solution: nothing is installed.
LEMMA PackagesSolvable ==
  ASSUME TypeInv, BaseSame
  PROVE  {SYSTEMSOLVABLE} \in Installations /\ Satisfies({SYSTEMSOLVABLE}, rules, PkgRules)
<1>1. {SYSTEMSOLVABLE} \in Installations
  BY LitFacts DEF Installations
<1>2. ASSUME NEW i \in PkgRules PROVE Holds({SYSTEMSOLVABLE}, rules[i].lits)
  <2>1. PICK l \in rules[i].lits : l < 0 /\ l # -SYSTEMSOLVABLE
    BY PackageFacts
  <2>2. l \in Int
    BY <1>2, PackageFacts, TypeFacts, LitFacts
  <2>3. LitHolds({SYSTEMSOLVABLE}, l)
    BY <2>1, <2>2 DEF LitHolds, SYSTEMSOLVABLE
  <2>. QED BY <2>3 DEF Holds
<1>. QED BY <1>1, <1>2 DEF Satisfies

\* With disablerules every problem has an element to give up.
LEMMA NoFailure ==
  ASSUME TypeInv, TrailInv, WatchInv, LearnInv, BaseSame, Proved, inst.disablerules
  PROVE  disablerules /\ ElemsOfProof # {}
<1>1. disablerules
  <2>1. ~Satisfiable /\ pc # "start"
    BY ProvedNoSolution DEF Proved
  <2>2. disablerules \in BOOLEAN
    BY TypeFacts DEF TypeSearch
  <2>. QED BY <2>1, <2>2 DEF LearnInv, SatOK
<1>2. ASSUME ElemsOfProof = {} PROVE FALSE
  <2>1. {SYSTEMSOLVABLE} \in Installations /\ Satisfies({SYSTEMSOLVABLE}, rules, PkgRules)
    BY PackagesSolvable
  <2>2. PICK M \in Installations : Satisfies(M, rules, PkgRules)
    BY <2>1
  <2>3. \E i \in PkgRules \cup UNION {Group(v) : v \in ElemsOfProof} : ~Holds(M, rules[i].lits)
    BY ProofIsReal DEF RealProblem, Unsatisfiable
  <2>4. PkgRules \cup UNION {Group(v) : v \in ElemsOfProof} = PkgRules
    BY <1>2
  <2>. QED BY <2>2, <2>3, <2>4 DEF Satisfies
<1>. QED BY <1>1, <1>2

\* Only Finish ends the search well.
LEMMA DoneStep == [Next]_vars /\ pc' = "done" => Finish \/ UNCHANGED vars
<1> SUFFICES ASSUME [Next]_vars, pc' = "done" PROVE Finish \/ UNCHANGED vars
  OBVIOUS
<1>1. ~Assertions
  BY DEF Assertions, MakeRuleDecisions, AssertLearntStatus, AssertDecide, AssertSkip, AssertDropLearnt,
     AssertUninstall, AssertConflict, AssertEnd, WeakDecide, WeakConflict, WeakEnd, StartOver
<1>2. ~(Propagate \/ Analyze)
  BY DEF Propagate, PropagateNext, PropagateDecisionDone, PropagateSkip, PropagateMove, PropagateUnit,
     PropagateConflict, PropagateEnd, Visit, Analyze, AnalyzeRule, AnalyzeDone, AnalyzeUip, AnalyzeResolve, Learn
<1>3. ~AnalyzeUnsolvable
  BY DEF AnalyzeUnsolvable, UnsolvableWalk, UnsolvableWeak, UnsolvableUninstall, UnsolvableDisable,
     UnsolvableFail, RecordProblem, Proved, Reset
<1>4. Decide => Finish
  BY DEF Decide, DecideRule, DecideInstalled, DecideExtra, DecideErase, SelectAndInstall, SetPropagateLearn,
     TakeBranch, TakeBranchTo, DropChoiceRules, Reset
<1>. QED BY <1>1, <1>2, <1>3, <1>4 DEF Next, Terminated

\* A failure is one of makeruledecisions or of analyze_unsolvable.
LEMMA FailStep == [Next]_vars /\ pc' = "failed" => AssertConflict \/ UnsolvableFail \/ UNCHANGED vars
<1> SUFFICES ASSUME [Next]_vars, pc' = "failed" PROVE AssertConflict \/ UnsolvableFail \/ UNCHANGED vars
  OBVIOUS
<1>1. Assertions => AssertConflict
  BY DEF Assertions, MakeRuleDecisions, AssertLearntStatus, AssertDecide, AssertSkip, AssertDropLearnt,
     AssertUninstall, AssertEnd, WeakDecide, WeakConflict, WeakEnd, StartOver
<1>2. ~(Propagate \/ Analyze)
  BY DEF Propagate, PropagateNext, PropagateDecisionDone, PropagateSkip, PropagateMove, PropagateUnit,
     PropagateConflict, PropagateEnd, Visit, Analyze, AnalyzeRule, AnalyzeDone, AnalyzeUip, AnalyzeResolve, Learn
<1>3. AnalyzeUnsolvable => UnsolvableFail
  BY DEF AnalyzeUnsolvable, UnsolvableWalk, UnsolvableWeak, UnsolvableUninstall, UnsolvableDisable,
     RecordProblem, Proved, Reset
<1>4. ~Decide
  BY DEF Decide, DecideRule, DecideInstalled, DecideExtra, DecideErase, SelectAndInstall, SetPropagateLearn,
     TakeBranch, TakeBranchTo, DropChoiceRules, Reset, Finish
<1>. QED BY <1>1, <1>2, <1>3, <1>4 DEF Next, Terminated

\* Every step keeps SolutionValid.
LEMMA NextSolution ==
  TypeInv /\ TrailInv /\ WatchInv /\ LearnInv /\ OutInv /\ [Next]_vars => SolutionValid'
<1> SUFFICES ASSUME TypeInv, TrailInv, WatchInv, LearnInv, OutInv, [Next]_vars PROVE SolutionValid'
  OBVIOUS
<1>1. TypeInv' /\ TrailInv' /\ BaseKeeps /\ BaseSame
  BY NextType, NextTrail, NextBase DEF OutInv
<1>2. CASE UNCHANGED vars
  <2>1. UNCHANGED <<inst, rules, disabled, decisionmap, level, pc>>
    BY <1>2 DEF vars, ruleVars, trailVars
  <2>2. SolutionValid
    BY DEF OutInv, OutcomeRight
  <2>. QED BY <2>1, <2>2 DEF SolutionValid, RuleId
<1>3. CASE ~UNCHANGED vars
  <2>1. ASSUME pc' = "done"
        PROVE  \A i \in RuleId' \ disabled' : rules'[i].w1 # 0 => Holds(Packages', rules'[i].lits)
    <3>1. Finish
      BY <1>3, <2>1, DoneStep
    <3>2. pc = "decide" /\ Consistent /\ UNCHANGED <<rules, disabled, decisionmap>>
      BY <3>1 DEF Finish, ruleVars, trailVars
    <3>3. \A i \in RuleId : InUse(i) => Holds(Packages, rules[i].lits)
      BY <3>2, ConsistentSolves
    <3>4. Packages' = Packages /\ RuleId' = RuleId
      BY <3>2 DEF Packages, RuleId
    <3>. QED BY <3>2, <3>3, <3>4 DEF InUse
  <2>2. ASSUME inst'.disablerules, level' = -1 PROVE FALSE
    <3>1. pc' = "failed"
      <4>1. pc' # "failed" => level' \in Nat
        BY <1>1 DEF TypeInv, LocalsOK
      <4>. QED BY <2>2, <4>1
    <3>2. inst.disablerules
      BY <1>1, <2>2 DEF BaseKeeps
    <3>3. CASE AssertConflict
      <4>1. (\E d : StartOver(d)) \/ ~inst.disablerules
        BY <3>3 DEF AssertConflict
      <4>. QED BY <3>1, <3>2, <4>1 DEF StartOver
    <3>4. CASE UnsolvableFail
      <4>1. Proved /\ ~(disablerules /\ ElemsOfProof # {})
        BY <3>4 DEF UnsolvableFail, RecordProblem
      <4>. QED BY <1>1, <3>2, <4>1, NoFailure
    <3>. QED BY <1>3, <3>1, <3>3, <3>4, FailStep
  <2>. QED BY <2>1, <2>2 DEF SolutionValid, Packages
<1>. QED BY <1>2, <1>3

-----------------------------------------------------------------------------
\* The largest of the numbers a function takes on 1 .. n is one of them.
LEMMA ImageBounded ==
  ASSUME NEW n \in Nat, NEW f, \A i \in 1 .. n : f[i] \in Int
  PROVE  \E a \in Nat : \A i \in 1 .. n : -a <= f[i] /\ f[i] <= a
<1> DEFINE Good(m) == \E a \in Nat : \A i \in 1 .. m : -a <= f[i] /\ f[i] <= a
           Bad == {m \in 0 .. n : ~Good(m)}
<1>1. ASSUME Bad # {} PROVE FALSE
  <2> DEFINE m == Min(Bad)
  <2>1. m \in Bad /\ \A j \in Bad : m <= j
    <3> HIDE DEF Good
    <3>1. Bad \subseteq Nat
      OBVIOUS
    <3> HIDE DEF Bad
    <3>. QED BY <1>1, <3>1, MinIn
  <2> HIDE DEF m
  <2>2. m \in 0 .. n /\ ~Good(m)
    <3> HIDE DEF Good
    <3>. QED BY <2>1
  <2>3. m # 0
    <3>1. Good(0)
      OBVIOUS
    <3> HIDE DEF Good
    <3>. QED BY <2>2, <3>1
  <2>4. m - 1 \in 0 .. n /\ ~(m <= m - 1)
    BY <2>2, <2>3
  <2>5. Good(m - 1)
    <3> HIDE DEF Good
    <3>. QED BY <2>1, <2>4
  <2>6. PICK a \in Nat : \A i \in 1 .. m - 1 : -a <= f[i] /\ f[i] <= a
    BY <2>5
  <2>7. f[m] \in Int
    BY <2>2, <2>3
  <2>8. PICK b \in Nat : a <= b /\ -b <= f[m] /\ f[m] <= b
    <3>1. CASE -a <= f[m] /\ f[m] <= a
      BY <3>1
    <3>2. CASE f[m] > a
      <4>1. f[m] \in Nat
        BY <2>7, <3>2
      <4>. QED BY <3>2, <4>1
    <3>3. CASE -a > f[m]
      <4>1. -f[m] \in Nat /\ a <= -f[m] /\ -(-f[m]) = f[m] /\ f[m] <= -f[m]
        BY <2>7, <3>3
      <4>. QED BY <4>1
    <3>. QED BY <2>7, <3>1, <3>2, <3>3
  <2>9. \A i \in 1 .. m : -b <= f[i] /\ f[i] <= b
    <3> TAKE i \in 1 .. m
    <3>1. i = m \/ i \in 1 .. m - 1
      BY <2>2
    <3>2. f[i] \in Int
      BY <2>2
    <3>. QED BY <2>6, <2>8, <3>1, <3>2
  <2>. QED BY <2>2, <2>9
<1>2. Good(n)
  <2>1. n \in 0 .. n
    OBVIOUS
  <2> HIDE DEF Good
  <2>. QED BY <1>1, <2>1
<1>. QED BY <1>2

\* The largest of a bounded set of integers is one of them.
LEMMA MaxOfBounded ==
  ASSUME NEW a \in Nat, NEW S, S \subseteq -a .. a, S # {}
  PROVE  Max(S) \in S
<1> DEFINE T == {x + a : x \in S}
<1>1. T \subseteq 0 .. a + a /\ T # {} /\ a + a \in Nat
  <2>1. \A x \in S : x + a \in 0 .. a + a
    OBVIOUS
  <2>2. PICK x \in S : TRUE
    OBVIOUS
  <2>3. x + a \in T
    OBVIOUS
  <2>. QED BY <2>1, <2>3
<1>2. Max(T) \in T /\ \A y \in T : Max(T) >= y
  <2> HIDE DEF T
  <2>. QED BY <1>1, MaxIn
<1>3. PICK x \in S : Max(T) = x + a
  BY <1>2
<1>4. \A y \in S : x >= y
  <2> TAKE y \in S
  <2>1. y + a \in T
    OBVIOUS
  <2>2. Max(T) >= y + a
    <3> HIDE DEF T
    <3>. QED BY <1>2, <2>1
  <2>3. x + a >= y + a
    BY <1>3, <2>2
  <2>4. x \in Int /\ y \in Int
    OBVIOUS
  <2>. QED BY <2>3, <2>4
<1>5. \E x1 \in S : \A y \in S : x1 >= y
  BY <1>4
<1>. QED BY <1>5, Zenon DEF Max

\* solver_autouninstall picks update rules it is allowed to.
LEMMA AutoUninstallFacts ==
  ASSUME TypeInv, NEW R, NEW v \in AutoUninstall(ProblemOf(R))
  PROVE  v \in ProblemOf(R) /\ v \in inst.uninstall.update \cup inst.uninstall.feature \cup inst.uninstall.orphan
<1>1. /\ NBase \in Nat /\ inst.problem \in [1 .. NBase -> Int \ {0}] /\ inst.pkgend \in 1 .. NBase + 1
  BY TypeFacts, InstanceFacts DEF TypeRules
<1>2. PICK a \in Nat : \A i \in 1 .. NBase : -a <= inst.problem[i] /\ inst.problem[i] <= a
  <2>1. \A i \in 1 .. NBase : inst.problem[i] \in Int
    BY <1>1
  <2>. QED BY <1>1, <2>1, ImageBounded
<1>3. ProblemOf(R) \subseteq -a .. a
  BY <1>1, <1>2 DEF ProblemOf
<1> DEFINE free(S) == {u \in ProblemOf(R) \cap S : ~ \E b \in ProblemOf(R) : <<b, u>> \in inst.uninstall.best}
<1>4. ASSUME NEW S, free(S) # {} PROVE Max(free(S)) \in S /\ Max(free(S)) \in ProblemOf(R)
  <2>1. free(S) \subseteq -a .. a
    BY <1>3
  <2>2. Max(free(S)) \in free(S)
    <3> HIDE DEF free
    <3>. QED BY <1>4, <2>1, MaxOfBounded
  <2>. QED BY <2>2
<1>5. \/ v \in free(inst.uninstall.orphan)
      \/ free(inst.uninstall.update) # {} /\ v = Max(free(inst.uninstall.update))
      \/ free(inst.uninstall.feature) # {} /\ v = Max(free(inst.uninstall.feature))
  BY DEF AutoUninstall
<1>6. free(inst.uninstall.orphan) \subseteq inst.uninstall.orphan \cap ProblemOf(R)
  OBVIOUS
<1> HIDE DEF free
<1>. QED BY <1>4, <1>5, <1>6

-----------------------------------------------------------------------------
\* Why a rule of the instance may have been given up without a problem.
Silent(i) ==
  \/ \E w \in inst.weak : inst.problem[w] = inst.problem[i]
  \/ i \in DOMAIN inst.choice
  \/ inst.problem[i] \in inst.uninstall.update \cup inst.uninstall.feature \cup inst.uninstall.orphan

\* A reported problem is about rule i.
Reported(i) == \E n \in 1 .. Len(problems) : inst.problem[i] \in problems[n].elems

\* NoSilentDrop in the words of Reported and Silent.
LEMMA DropMeans == NoSilentDrop <=> \A i \in (disabled \cap 1 .. NBase) \ inst.disabled : Reported(i) \/ Silent(i)
BY DEF NoSilentDrop, Reported, Silent

\* What analyze_unsolvable gives up for a weak rule.
LEMMA WeakSilent ==
  ASSUME TypeInv, NEW W, W \subseteq inst.weak, W # {}, NEW d
  PROVE  \A i \in DisableWeakRules(W, d) \cap 1 .. NBase : i \in d \/ Silent(i)
<1> DEFINE last == Max(W)
           rest == {i \in W : \A j \in inst.recommends : i < j}
           lastweak == IF last \in inst.recommends THEN IF rest = {} THEN 0 ELSE Max(rest) ELSE last
<1>1. inst.weak \subseteq 1 .. NBase /\ NBase \in Nat /\ inst.pkgend \in 1 .. NBase + 1
  BY TypeFacts, InstanceFacts DEF TypeRules
<1>2. last \in W
  <2>1. W \subseteq 0 .. NBase
    BY <1>1
  <2>. QED BY <1>1, <2>1, MaxIn
<1>3. rest # {} => Max(rest) \in W
  <2> SUFFICES ASSUME rest # {} PROVE Max(rest) \in W
    OBVIOUS
  <2>1. rest \subseteq 0 .. NBase /\ rest \subseteq W
    BY <1>1
  <2> HIDE DEF rest
  <2>. QED BY <1>1, <2>1, MaxIn
<1>4. lastweak \in W \/ (lastweak = 0 /\ last \in inst.recommends)
  <2>1. CASE last \notin inst.recommends
    BY <1>2, <2>1
  <2>2. CASE last \in inst.recommends /\ rest = {}
    BY <2>2
  <2>3. CASE last \in inst.recommends /\ rest # {}
    <3>1. lastweak = Max(rest)
      BY <2>3
    <3>2. Max(rest) \in W
      BY <1>3, <2>3
    <3> HIDE DEF lastweak, rest
    <3>. QED BY <3>1, <3>2
  <2>. QED BY <2>1, <2>2, <2>3
<1>5. \/ DisableWeakRules(W, d) = DisableRecommendsRules(W, d)
      \/ lastweak \in DOMAIN inst.choice /\ DisableWeakRules(W, d) = DisableChoiceRules(lastweak, d)
      \/ /\ DisableWeakRules(W, d) = FixProblem(lastweak, d)
         /\ ~(last \in inst.recommends /\ lastweak < inst.pkgend)
  BY DEF DisableWeakRules
<1> HIDE DEF lastweak, last, rest
<1>6. ASSUME NEW i \in DisableRecommendsRules(W, d) PROVE i \in d \/ Silent(i)
  BY <1>6 DEF DisableRecommendsRules, Silent
<1>7. ASSUME lastweak \in DOMAIN inst.choice, NEW i \in DisableChoiceRules(lastweak, d) PROVE i \in d \/ Silent(i)
  BY <1>7 DEF DisableChoiceRules, Silent
<1>8. ASSUME lastweak \in W, NEW i \in FixProblem(lastweak, d), i \in 1 .. NBase PROVE i \in d \/ Silent(i)
  <2>1. i \in d \/ inst.problem[i] = inst.problem[lastweak]
    BY <1>8 DEF FixProblem, ReenablePolicyRules, Group
  <2>. QED BY <1>8, <2>1 DEF Silent
<1>9. lastweak = 0 => lastweak < inst.pkgend
  BY <1>1
<1>. QED BY <1>4, <1>5, <1>6, <1>7, <1>8, <1>9

\* A step gives up rules of the instance only if they are reported or silent.
LEMMA DropKept ==
  ASSUME TypeInv, NoSilentDrop, BaseKeeps,
         UNCHANGED problems \/ \E prf, elems : problems' = Append(problems, Problem(prf, elems)),
         \A i \in disabled' \cap 1 .. NBase : i \in disabled \/ Reported(i)' \/ Silent(i)
  PROVE  NoSilentDrop'
<1>1. inst' = inst /\ NBase' = NBase /\ problems \in Seq(ProblemRec)
  BY TypeFacts DEF BaseKeeps, TypeSearch
<1>2. \A i : Silent(i)' <=> Silent(i)
  BY <1>1 DEF Silent
<1>3. ASSUME NEW i, Reported(i) PROVE Reported(i)'
  <2>1. PICK n \in 1 .. Len(problems) : inst.problem[i] \in problems[n].elems
    BY <1>3 DEF Reported
  <2>2. n \in 1 .. Len(problems') /\ problems'[n] = problems[n]
    BY <1>1
  <2>. QED BY <1>1, <2>1, <2>2 DEF Reported
<1>4. \A i \in (disabled \cap 1 .. NBase) \ inst.disabled : Reported(i) \/ Silent(i)
  BY DropMeans
<1>5. \A i \in (disabled' \cap 1 .. NBase') \ inst'.disabled : Reported(i)' \/ Silent(i)'
  BY <1>1, <1>2, <1>3, <1>4
<1>6. (\A i \in (disabled \cap 1 .. NBase) \ inst.disabled : Reported(i) \/ Silent(i))'
  BY <1>5
<1>. QED BY <1>6 DEF NoSilentDrop, Reported, Silent

\* The last problem reported has these elements.
LEMMA JustReported ==
  ASSUME TypeInv, inst' = inst, NEW prf, NEW elems, problems' = Append(problems, Problem(prf, elems)),
         NEW v \in elems, NEW i \in Group(v)
  PROVE  Reported(i)'
<1>1. problems \in Seq(ProblemRec)
  BY TypeFacts DEF TypeSearch
<1>2. Len(problems) + 1 \in 1 .. Len(problems') /\ problems'[Len(problems) + 1] = Problem(prf, elems)
  BY <1>1
<1>3. inst'.problem[i] \in problems'[Len(problems) + 1].elems
  BY <1>2 DEF Group, Problem
<1>. QED BY <1>2, <1>3 DEF Reported

\* solver_reset does not disable a rule of the instance.
LEMMA ResetBase ==
  ASSUME TypeInv, WhyOlder, NEW d
  PROVE  \A i \in EnableDisableLearntRules(d) \cap 1 .. NBase : i \in d
BY StatusFacts

\* makeruledecisions gives up no rule silently.
LEMMA AssertionsDrop ==
  ASSUME TypeInv, WatchInv, BaseKeeps, NoSilentDrop, Assertions
  PROVE  NoSilentDrop'
<1>1. WhyOlder /\ NBase \in Nat
  BY TypeFacts DEF WatchInv
<1>2. CASE UNCHANGED <<disabled, problems>>
  BY <1>2, DropKept
<1>3. CASE AssertLearntStatus
  <2>1. disabled' = EnableDisableLearntRules(disabled) /\ UNCHANGED problems
    BY <1>3 DEF AssertLearntStatus
  <2>2. \A i \in disabled' \cap 1 .. NBase : i \in disabled
    BY <1>1, <2>1, ResetBase
  <2>. QED BY <2>1, <2>2, DropKept
<1>4. CASE AssertDropLearnt
  <2>1. PICK i \in RuleAssertions(ri) : i > NBase /\ disabled' = disabled \cup {i} /\ UNCHANGED problems
    BY <1>4 DEF AssertDropLearnt
  <2>2. i \in Nat
    BY <2>1, TypeFacts DEF RuleAssertions, TypeLocals
  <2>3. \A j \in disabled' \cap 1 .. NBase : j \in disabled
    BY <1>1, <2>1, <2>2
  <2>. QED BY <2>1, <2>3, DropKept
<1>5. CASE AssertUninstall
  <2>1. PICK i \in 1 .. NBase, k \in 1 .. Len(decisionq) :
          \E v \in AutoUninstall(ConflictElems(i, k)) : StartOver(disabled \cup Group(v))
    BY <1>5 DEF AssertUninstall
  <2>2. PICK v \in AutoUninstall(ConflictElems(i, k)) : StartOver(disabled \cup Group(v))
    BY <2>1
  <2>3. v \in inst.uninstall.update \cup inst.uninstall.feature \cup inst.uninstall.orphan
    BY AutoUninstallFacts DEF ConflictElems
  <2>4. disabled' = disabled \cup Group(v) /\ UNCHANGED problems
    BY <1>5, <2>2 DEF StartOver, AssertUninstall
  <2>5. \A j \in disabled' \cap 1 .. NBase : j \in disabled \/ Silent(j)
    BY <2>3, <2>4 DEF Group, Silent
  <2>. QED BY <2>4, <2>5, DropKept
<1>6. CASE AssertConflict
  <2>1. PICK i \in 1 .. NBase, k \in 1 .. Len(decisionq) :
          /\ problems' = Append(problems, Problem(ConflictProof(i, k), ConflictElems(i, k)))
          /\ \/ StartOver(disabled \cup UNION {Group(v) : v \in ConflictElems(i, k)})
             \/ UNCHANGED disabled
    BY <1>6 DEF AssertConflict
  <2>2. PICK prf, elems : prf = ConflictProof(i, k) /\ elems = ConflictElems(i, k)
    OBVIOUS
  <2>3. /\ problems' = Append(problems, Problem(prf, elems))
        /\ disabled' = disabled \cup UNION {Group(v) : v \in elems} \/ disabled' = disabled
    BY <2>1, <2>2 DEF StartOver
  <2>4. inst' = inst
    BY DEF BaseKeeps
  <2>5. \A v \in elems : \A j \in Group(v) : Reported(j)'
    BY <2>3, <2>4, JustReported
  <2>6. \A j \in disabled' \cap 1 .. NBase : j \in disabled \/ Reported(j)'
    BY <2>3, <2>5
  <2>. QED BY <2>3, <2>6, DropKept
<1>7. CASE WeakConflict
  <2> DEFINE w == Min(WeakAssertions(ri))
  <2>1. WeakAssertions(ri) # {} /\ disabled' = FixProblem(w, disabled) /\ UNCHANGED problems
    BY <1>7 DEF WeakConflict, StartOver
  <2>2. WeakAssertions(ri) \subseteq Nat
    BY TypeFacts DEF WeakAssertions, RuleAssertions, TypeLocals
  <2>3. w \in WeakAssertions(ri)
    BY <2>1, <2>2, MinIn
  <2> HIDE DEF w
  <2>4. w \in inst.weak
    BY <2>3 DEF WeakAssertions
  <2>5. \A j \in disabled' : j \in disabled \/ inst.problem[j] = inst.problem[w]
    BY <2>1 DEF FixProblem, ReenablePolicyRules, Group
  <2>6. \A j \in disabled' \cap 1 .. NBase : j \in disabled \/ Silent(j)
    BY <2>4, <2>5 DEF Silent
  <2>. QED BY <2>1, <2>6, DropKept
<1>8. Assertions => \/ UNCHANGED <<disabled, problems>> \/ AssertLearntStatus \/ AssertDropLearnt
                    \/ AssertUninstall \/ AssertConflict \/ WeakConflict
  BY DEF Assertions, MakeRuleDecisions, AssertDecide, AssertSkip, AssertEnd, WeakDecide, WeakEnd
<1>. QED BY <1>2, <1>3, <1>4, <1>5, <1>6, <1>7, <1>8

\* analyze_unsolvable gives up no rule silently.
LEMMA UnsolvableDrop ==
  ASSUME TypeInv, WatchInv, BaseKeeps, NoSilentDrop, AnalyzeUnsolvable
  PROVE  NoSilentDrop'
<1>1. WhyOlder
  BY DEF WatchInv
<1>2. CASE UnsolvableWalk
  BY <1>2, DropKept DEF UnsolvableWalk
<1>3. CASE UnsolvableWeak
  <2>1. /\ WeakOfProof # {} /\ WeakOfProof \subseteq inst.weak /\ UNCHANGED problems
        /\ disabled' = EnableDisableLearntRules(DisableWeakRules(WeakOfProof, disabled))
    BY <1>3 DEF UnsolvableWeak, Reset, WeakOfProof
  <2>2. \A i \in DisableWeakRules(WeakOfProof, disabled) \cap 1 .. NBase : i \in disabled \/ Silent(i)
    BY <2>1, WeakSilent
  <2>3. \A i \in disabled' \cap 1 .. NBase : i \in DisableWeakRules(WeakOfProof, disabled)
    BY <1>1, <2>1, ResetBase
  <2>4. \A i \in disabled' \cap 1 .. NBase : i \in disabled \/ Silent(i)
    BY <2>2, <2>3
  <2>. QED BY <2>1, <2>4, DropKept
<1>4. CASE UnsolvableUninstall
  <2>1. PICK v \in AutoUninstall(ElemsOfProof) : Reset(disabled \cup Group(v))
    BY <1>4 DEF UnsolvableUninstall
  <2>2. UNCHANGED problems
    BY <1>4 DEF UnsolvableUninstall
  <2>3. v \in inst.uninstall.update \cup inst.uninstall.feature \cup inst.uninstall.orphan
    BY AutoUninstallFacts DEF ElemsOfProof
  <2>4. \A i \in disabled' \cap 1 .. NBase : i \in disabled \cup Group(v)
    BY <1>1, <2>1, ResetBase DEF Reset
  <2>5. \A i \in disabled' \cap 1 .. NBase : i \in disabled \/ Silent(i)
    BY <2>3, <2>4 DEF Group, Silent
  <2>. QED BY <2>2, <2>5, DropKept
<1>5. CASE UnsolvableDisable
  <2>1. PICK prf, elems : prf = proof /\ elems = ElemsOfProof
    OBVIOUS
  <2>2. /\ problems' = Append(problems, Problem(prf, elems))
        /\ disabled' = EnableDisableLearntRules(disabled \cup UNION {Group(v) : v \in elems})
    BY <1>5, <2>1 DEF UnsolvableDisable, RecordProblem, Reset
  <2>3. inst' = inst
    BY DEF BaseKeeps
  <2>4. \A v \in elems : \A j \in Group(v) : Reported(j)'
    BY <2>2, <2>3, JustReported
  <2>5. \A i \in disabled' \cap 1 .. NBase : i \in disabled \cup UNION {Group(v) : v \in elems}
    BY <1>1, <2>2, ResetBase
  <2>6. \A i \in disabled' \cap 1 .. NBase : i \in disabled \/ Reported(i)'
    BY <2>4, <2>5
  <2>. QED BY <2>2, <2>6, DropKept
<1>6. CASE UnsolvableFail
  <2>1. PICK prf, elems : prf = proof /\ elems = ElemsOfProof
    OBVIOUS
  <2>2. problems' = Append(problems, Problem(prf, elems)) /\ disabled' = disabled
    BY <1>6, <2>1 DEF UnsolvableFail, RecordProblem
  <2>. QED BY <2>2, DropKept
<1>. QED BY <1>2, <1>3, <1>4, <1>5, <1>6 DEF AnalyzeUnsolvable

\* Every step keeps NoSilentDrop.
LEMMA NextDrop ==
  TypeInv /\ TrailInv /\ WatchInv /\ OutInv /\ [Next]_vars => NoSilentDrop'
<1> SUFFICES ASSUME TypeInv, TrailInv, WatchInv, OutInv, [Next]_vars PROVE NoSilentDrop'
  OBVIOUS
<1>1. BaseKeeps /\ NoSilentDrop /\ WhyOlder
  BY NextBase DEF OutInv, OutcomeRight, WatchInv
<1>2. CASE UNCHANGED <<disabled, problems>>
  BY <1>1, <1>2, DropKept
<1>3. CASE Assertions
  BY <1>1, <1>3, AssertionsDrop
<1>4. CASE AnalyzeUnsolvable
  BY <1>1, <1>4, UnsolvableDrop
<1>5. CASE DropChoiceRules
  <2> DEFINE d == CheckUnneededChoiceRules(disabled)
  <2>1. disabled' = EnableDisableLearntRules(d) /\ UNCHANGED problems
    BY <1>5 DEF DropChoiceRules, Reset
  <2>2. d \subseteq disabled \cup DOMAIN inst.choice
    BY ChoiceGrows
  <2> HIDE DEF d
  <2>3. \A i \in disabled' \cap 1 .. NBase : i \in d
    BY <1>1, <2>1, ResetBase
  <2>4. \A i \in disabled' \cap 1 .. NBase : i \in disabled \/ Silent(i)
    BY <2>2, <2>3 DEF Silent
  <2>. QED BY <1>1, <2>1, <2>4, DropKept
<1>6. Propagate \/ Analyze => UNCHANGED <<disabled, problems>>
  BY DEF Propagate, PropagateNext, PropagateDecisionDone, PropagateSkip, PropagateMove, PropagateUnit,
     PropagateConflict, PropagateEnd, Analyze, AnalyzeRule, AnalyzeDone, AnalyzeUip, AnalyzeResolve, Learn
<1>7. Decide => UNCHANGED <<disabled, problems>> \/ DropChoiceRules
  BY DEF Decide, DecideRule, DecideInstalled, DecideExtra, DecideErase, SelectAndInstall, SetPropagateLearn,
     TakeBranch, TakeBranchTo, Finish
<1>8. UNCHANGED vars => UNCHANGED <<disabled, problems>>
  BY DEF vars
<1>. QED BY <1>2, <1>3, <1>4, <1>5, <1>6, <1>7, <1>8 DEF Next, Terminated

-----------------------------------------------------------------------------
\* It holds at the start.
LEMMA InitOut == Init => OutInv
<1> SUFFICES ASSUME Init PROVE OutInv
  OBVIOUS
<1>1. /\ rules = inst.rules /\ Len(problems) = 0 /\ disabled = inst.disabled /\ pc = "start" /\ level = 0
  BY DEF Init
<1>. QED BY <1>1 DEF OutInv, BaseSame, AssertReasons, Asserting, OutcomeRight, ProblemsReal, SolutionValid,
     NoSilentDrop

\* Every step keeps what is said of the outcome.
LEMMA NextOut == TypeInv /\ TrailInv /\ WatchInv /\ LearnInv /\ OutInv /\ [Next]_vars => OutInv'
<1> SUFFICES ASSUME TypeInv, TrailInv, WatchInv, LearnInv, OutInv, [Next]_vars PROVE OutInv'
  OBVIOUS
<1>1. BaseSame'
  BY NextBase DEF OutInv, BaseSame, BaseKeeps
<1>2. AssertReasons'
  BY NextReasons DEF OutInv
<1>3. OutcomeRight'
  BY NextProblems, NextSolution, NextDrop DEF OutcomeRight
<1>. QED BY <1>1, <1>2, <1>3 DEF OutInv

\* What solver_run_sat leaves behind is right on every rule set: the package
\* rules and the rules of a reported problem contradict each other, a solution
\* satisfies every rule in use and with disablerules there always is one, and
\* no rule is given up that is neither reported nor one that may go silently.
THEOREM OutcomeIsRight == Spec => []OutcomeRight
<1>1. Init => OutInv
  BY InitOut
<1>2. TypeInv /\ TrailInv /\ WatchInv /\ LearnInv /\ OutInv /\ [Next]_vars => OutInv'
  BY NextOut
<1>3. OutInv => OutcomeRight
  BY DEF OutInv
<1>. QED BY <1>1, <1>2, <1>3, LearningInvariant, PTL DEF Spec

(***************************************************************************)
(* The SAT engine implements Resolution (ImplementsResolution of Sat), on  *)
(* every rule set: whatever it gives up, reports or returns is a step of   *)
(* the abstract solver, which knows nothing of decisions, watches and      *)
(* learnt rules.                                                           *)
(*                                                                         *)
(* Each step that gives rules up comes with a core, a set of enabled rules *)
(* of the instance without a solution (IsCore): the two assertions in      *)
(* conflict (ConflictCore, WeakCore), or what the rules of the proof rest  *)
(* on (ProofCore).  That these are enabled is what StatusOK and            *)
(* EnabledReasons are for, that they have no solution what ProofOK and     *)
(* LearntOK are for.  All other steps leave the abstract state alone.      *)
(***************************************************************************)
\* A call of setpropagatelearn asks for disablerules only if solver_run_sat
\* was asked to.
FlagOK == disablerules => inst.disablerules

\* All that is known of the states of the engine.
FlaggedInv == TypeInv /\ TrailInv /\ WatchInv /\ LearnInv /\ OutInv /\ FlagOK

\* Nothing is reported, and the search neither ends nor fails.
Unreported == UNCHANGED <<inst, ReportedElems, Result, Solution>>

-----------------------------------------------------------------------------
\* What an instance says of jobs, choice rules and orphans.
LEMMA GiveUpFacts ==
  ASSUME inst \in Instances
  PROVE  /\ DOMAIN inst.choice \subseteq inst.weak
         /\ \A v \in DOMAIN inst.policy : \A i \in inst.policy[v] : v < 0 /\ inst.problem[i] > 0
         /\ inst.uninstall.orphan \subseteq inst.uninstall.feature
BY InstancesAssumption DEF Instance

\* Every step keeps FlagOK: only inst.disablerules or FALSE is passed on.
LEMMA NextFlag == ASSUME FlagOK, [Next]_vars PROVE FlagOK'
<1>1. inst' = inst /\ disablerules' \in {disablerules, inst.disablerules, FALSE} => FlagOK'
  BY DEF FlagOK
<1>2. Assertions => inst' = inst /\ disablerules' \in {disablerules, inst.disablerules, FALSE}
  BY DEF Assertions, MakeRuleDecisions, AssertLearntStatus, AssertDecide, AssertSkip, AssertDropLearnt,
     AssertUninstall, AssertConflict, AssertEnd, WeakDecide, WeakConflict, WeakEnd, ruleVars
<1>3. Propagate \/ Analyze => inst' = inst /\ disablerules' = disablerules
  BY DEF Propagate, PropagateNext, PropagateDecisionDone, PropagateSkip, PropagateMove, PropagateUnit,
     PropagateConflict, PropagateEnd, Analyze, AnalyzeRule, AnalyzeDone, AnalyzeUip, AnalyzeResolve, Learn, ruleVars
<1>4. AnalyzeUnsolvable => inst' = inst /\ disablerules' = disablerules
  BY DEF AnalyzeUnsolvable, UnsolvableWalk, UnsolvableWeak, UnsolvableUninstall, UnsolvableDisable,
     UnsolvableFail, ruleVars
<1>5. Decide => inst' = inst /\ disablerules' \in {disablerules, inst.disablerules, FALSE}
  BY DEF Decide, DecideRule, DecideInstalled, DecideExtra, DecideErase, SelectAndInstall,
     SetPropagateLearn, TakeBranch, TakeBranchTo, DropChoiceRules, Finish, ruleVars
<1>6. UNCHANGED vars => inst' = inst /\ disablerules' = disablerules
  BY DEF vars, ruleVars
<1>. QED BY <1>1, <1>2, <1>3, <1>4, <1>5, <1>6 DEF Next, Terminated

-----------------------------------------------------------------------------
(* Cores. *)

\* A core of the engine is one of the abstract solver.
LEMMA CoreIs ==
  ASSUME TypeInv, BaseSame, NEW C, IsCore(C)
  PROVE  /\ Abstract!Core(C) /\ C \in SUBSET (Abstract!Base \ Given)
         /\ Abstract!Elems(C) = ProblemOf(C)
         /\ Abstract!Ids(C) = {inst.problem[i] : i \in C}
<1>1. Abstract!Base = 1 .. NBase /\ C \subseteq (1 .. NBase) \ disabled
  BY DEF Abstract!Base, NBase, IsCore
<1>2. C \in SUBSET (Abstract!Base \ Given)
  BY <1>1 DEF Given
<1>3. Abstract!Unsatisfiable(inst.rules, C)
  <2> SUFFICES ASSUME NEW M \in Abstract!Installations
               PROVE  \E i \in C : ~Abstract!Holds(M, inst.rules[i].lits)
    BY DEF Abstract!Unsatisfiable
  <2>1. M \in Installations
    BY DEF Abstract!Installations, Installations, Abstract!Solvable, Solvable,
           Abstract!SYSTEMSOLVABLE, SYSTEMSOLVABLE
  <2>2. PICK i \in C : ~Holds(M, rules[i].lits)
    BY <2>1 DEF IsCore, Unsatisfiable
  <2>3. rules[i].lits = inst.rules[i].lits
    BY <1>1 DEF BaseSame
  <2>. QED BY <2>2, <2>3 DEF Abstract!Holds, Holds, Abstract!LitHolds, LitHolds
<1>4. Abstract!Elems(C) = ProblemOf(C)
  <2>1. inst.pkgend \in 1 .. NBase + 1 /\ NBase \in Nat
    BY TypeFacts, InstanceFacts DEF TypeRules
  <2>2. \A i \in C : i >= inst.pkgend <=> i \in inst.pkgend .. NBase
    <3>1. \A i \in C : i \in 1 .. NBase
      BY <1>1
    <3>. QED BY <2>1, <3>1
  <2>3. {i \in C : i >= inst.pkgend} = C \cap inst.pkgend .. NBase
    BY <2>2
  <2>. QED BY <2>3 DEF Abstract!Elems, Abstract!Ids, ProblemOf
<1>. QED BY <1>2, <1>3, <1>4 DEF Abstract!Core, Abstract!Ids

\* What the enabled rules R rest on is a core if R has no solution.
LEMMA RestIsCore ==
  ASSUME TypeInv, WatchInv, LearnInv, NEW R, R \subseteq RuleId,
         \A i \in R : i \notin disabled /\ BaseRules({i}) \cap disabled = {},
         \A M \in Installations : ~Satisfies(M, rules, R)
  PROVE  IsCore(BaseRules(R))
<1>1. BaseRight
  BY BaseFacts DEF WatchInv
<1>2. \A b \in BaseRules(R) : \E i \in R : b \in BaseRules({i})
  <2>1. \A S, b : b \in BaseRules(S) <=> \E i \in S : b \in BaseRules({i})
    BY <1>1, Zenon DEF BaseRight
  <2>. QED BY <2>1
<1>3. \A i \in R : BaseRules({i}) \subseteq 1 .. NBase
  BY <1>1 DEF BaseRight
<1>4. BaseRules(R) \subseteq (1 .. NBase) \ disabled
  BY <1>2, <1>3
<1>5. ASSUME NEW M \in Installations PROVE \E b \in BaseRules(R) : ~Holds(M, rules[b].lits)
  <2>1. R \in SUBSET RuleId /\ ~Satisfies(M, rules, R)
    OBVIOUS
  <2>2. ~Satisfies(M, rules, BaseRules(R))
    BY <2>1, BaseImplies DEF WatchInv, LearnInv
  <2>. QED BY <2>2 DEF Satisfies
<1>. QED BY <1>4, <1>5 DEF IsCore, Unsatisfiable

\* analyze_unsolvable collects a core.
LEMMA ProofCore ==
  ASSUME TypeInv, TrailInv, WatchInv, LearnInv, Proved
  PROVE  IsCore(BaseRules(proof))
<1>1. proof \in SUBSET RuleId /\ \A i \in proof : i \notin disabled
  BY TypeFacts DEF TypeAnalysis, LearnInv, ProofOK, Proved, InUse
<1>2. \A i \in RuleId \ disabled : BaseRules({i}) \cap disabled = {}
  BY DEF LearnInv, StatusOK, Proved, Asserting
<1>3. \A M \in Installations : ~Satisfies(M, rules, proof)
  BY Refuted
<1>. QED BY <1>1, <1>2, <1>3, RestIsCore

-----------------------------------------------------------------------------
(* What the engine gives up for a core with a weak rule. *)

\* The rules d2 instead of d are what the abstract solver may be left with
\* when it gives up a weak rule of C.
WeakGroups(C) == UNION {Group(inst.problem[i]) : i \in C \cap inst.weak}

PoliciesBack(C) == UNION {inst.policy[v] : v \in {inst.problem[i] : i \in C} \cap DOMAIN inst.policy}

WeakGivenUp(C, d, d2) ==
  /\ (d2 \ d) \cap C \cap inst.weak # {}
  /\ d2 \ d \subseteq WeakGroups(C) \cup inst.weak
  /\ d \ d2 \subseteq PoliciesBack(C)

\* solver_fixproblem gives up the weak rule it is called for: the policy
\* rules that come back are none of a job.
LEMMA FixGivesUp ==
  ASSUME TypeInv, NEW C, NEW w \in C, w \in inst.weak, w \in 1 .. NBase, w \notin disabled
  PROVE  WeakGivenUp(C, Given, FixProblem(w, disabled) \cap 1 .. NBase)
<1> DEFINE v == inst.problem[w]
           d == disabled \cup Group(v)
           d2 == FixProblem(w, disabled)
<1>1. inst \in Instances /\ v \in Int
  BY TypeFacts, InstanceFacts DEF TypeRules
<1>2. w \in Group(v)
  BY DEF Group
<1>3. d2 \subseteq d /\ d \ d2 \subseteq UNION {inst.policy[u] : u \in {v} \cap DOMAIN inst.policy} /\ w \in d2
  <2>1. CASE v \notin DOMAIN inst.policy
    BY <1>2, <2>1 DEF FixProblem
  <2>2. CASE v \in DOMAIN inst.policy
    <3>1. d2 = ReenablePolicyRules(v, d)
      BY <2>2 DEF FixProblem
    <3>2. d2 \subseteq d /\ d \ d2 \subseteq inst.policy[v]
      BY <3>1 DEF ReenablePolicyRules
    <3>3. w \notin inst.policy[v]
      BY <1>1, <2>2, GiveUpFacts
    <3>. QED BY <1>2, <2>2, <3>2, <3>3
  <2>. QED BY <2>1, <2>2
<1> HIDE DEF d2
<1>4. v \in {inst.problem[i] : i \in C} /\ Group(v) \in {Group(inst.problem[i]) : i \in C \cap inst.weak}
  OBVIOUS
<1>5. Group(v) \subseteq WeakGroups(C)
  BY <1>4 DEF WeakGroups
<1>6. d \ d2 \subseteq PoliciesBack(C)
  BY <1>3, <1>4 DEF PoliciesBack
<1> HIDE DEF v
<1>7. d2 \subseteq disabled \cup Group(v) /\ disabled \ d2 \subseteq PoliciesBack(C)
  BY <1>3, <1>6
<1>8. WeakGivenUp(C, Given, d2 \cap 1 .. NBase)
  BY <1>3, <1>5, <1>7 DEF WeakGivenUp, Given
<1>. QED BY <1>8 DEF d2

\* disable_weakrules gives up one of the weak rules it is called for.
LEMMA WeakGivesUp ==
  ASSUME TypeInv, NEW C, C \subseteq (1 .. NBase) \ disabled, C \cap inst.weak # {}
  PROVE  WeakGivenUp(C, Given, DisableWeakRules(C \cap inst.weak, disabled) \cap 1 .. NBase)
<1> DEFINE W == C \cap inst.weak
           last == Max(W)
           rest == {i \in W : \A j \in inst.recommends : i < j}
           lastweak == IF last \in inst.recommends THEN IF rest = {} THEN 0 ELSE Max(rest) ELSE last
           d2 == DisableWeakRules(W, disabled)
<1>1. /\ inst \in Instances /\ inst.weak \subseteq 1 .. NBase /\ NBase \in Nat
      /\ inst.pkgend \in 1 .. NBase + 1 /\ DOMAIN inst.choice \subseteq inst.weak
  BY TypeFacts, InstanceFacts, GiveUpFacts DEF TypeRules
<1>2. last \in W
  <2>1. W \subseteq 0 .. NBase
    BY <1>1
  <2> HIDE DEF W
  <2>. QED BY <1>1, <2>1, MaxIn DEF W
<1>3. rest # {} => Max(rest) \in W
  <2> SUFFICES ASSUME rest # {} PROVE Max(rest) \in W
    OBVIOUS
  <2>1. rest \subseteq 0 .. NBase /\ rest \subseteq W
    BY <1>1
  <2> HIDE DEF rest, W
  <2>. QED BY <1>1, <2>1, MaxIn
<1>4. lastweak \in W \/ (lastweak = 0 /\ last \in inst.recommends)
  <2> HIDE DEF W, rest
  <2>. QED BY <1>2, <1>3
<1>5. \/ /\ d2 = DisableRecommendsRules(W, disabled)
         /\ last \in inst.recommends \/ (lastweak = last /\ lastweak \in inst.recruleq)
      \/ lastweak \in DOMAIN inst.choice /\ d2 = DisableChoiceRules(lastweak, disabled)
      \/ /\ d2 = FixProblem(lastweak, disabled)
         /\ ~(last \in inst.recommends /\ lastweak < inst.pkgend)
  BY DEF DisableWeakRules
<1> SUFFICES WeakGivenUp(C, Given, d2 \cap 1 .. NBase)
  OBVIOUS
<1> HIDE DEF lastweak, last, rest, d2
<1>6. W \cap disabled = {} /\ W \subseteq 1 .. NBase /\ W \subseteq C /\ W \subseteq inst.weak
  BY <1>1
<1>7. lastweak = 0 => lastweak < inst.pkgend /\ lastweak \notin DOMAIN inst.choice
  BY <1>1
<1>8. ASSUME NEW w \in W, w \in d2, disabled \subseteq d2, d2 \subseteq disabled \cup inst.weak
      PROVE  WeakGivenUp(C, Given, d2 \cap 1 .. NBase)
  <2> DEFINE g == d2 \cap 1 .. NBase
  <2>1. w \in (g \ Given) \cap C \cap inst.weak
    BY <1>6, <1>8 DEF Given
  <2>2. g \ Given \subseteq inst.weak
    BY <1>8 DEF Given
  <2>3. Given \ g = {}
    BY <1>8 DEF Given
  <2> HIDE DEF g
  <2>4. (g \ Given) \cap C \cap inst.weak # {} /\ g \ Given \subseteq WeakGroups(C) \cup inst.weak
        /\ Given \ g \subseteq PoliciesBack(C)
    BY <2>1, <2>2, <2>3
  <2>5. WeakGivenUp(C, Given, g)
    BY <2>4 DEF WeakGivenUp
  <2>. QED BY <2>5 DEF g
<1>9. CASE /\ d2 = DisableRecommendsRules(W, disabled)
           /\ last \in inst.recommends \/ (lastweak = last /\ lastweak \in inst.recruleq)
  <2>1. last \in d2 /\ disabled \subseteq d2 /\ d2 \subseteq disabled \cup inst.weak
    BY <1>2, <1>6, <1>9 DEF DisableRecommendsRules
  <2>. QED BY <1>2, <1>8, <2>1
<1>10. CASE lastweak \in DOMAIN inst.choice /\ d2 = DisableChoiceRules(lastweak, disabled)
  <2>1. lastweak \in W
    BY <1>4, <1>7, <1>10
  <2>2. lastweak \in d2 /\ disabled \subseteq d2 /\ d2 \subseteq disabled \cup inst.weak
    BY <1>1, <1>10 DEF DisableChoiceRules
  <2>. QED BY <1>8, <2>1, <2>2
<1>11. CASE d2 = FixProblem(lastweak, disabled) /\ ~(last \in inst.recommends /\ lastweak < inst.pkgend)
  <2>1. lastweak \in W
    BY <1>4, <1>7, <1>11
  <2>2. lastweak \in C /\ lastweak \in inst.weak /\ lastweak \in 1 .. NBase /\ lastweak \notin disabled
    BY <1>6, <2>1
  <2>. QED BY <1>11, <2>2, FixGivesUp
<1>. QED BY <1>5, <1>9, <1>10, <1>11

-----------------------------------------------------------------------------
(* The steps of the abstract solver. *)

\* The rules of some problems, in the words of Resolution.
LEMMA RulesOfIs ==
  ASSUME TypeInv, NEW elems
  PROVE  Abstract!RulesOf(elems) = UNION {Group(v) : v \in elems}
BY DEF Abstract!RulesOf, Abstract!Base, Group, NBase

\* A core contains an enabled rule of each of its problems.
LEMMA CoreGivesUp ==
  ASSUME NEW C, IsCore(C), NEW v \in ProblemOf(C)
  PROVE  \E i \in Group(v) : i \notin Given
<1>1. PICK i \in C : i \in 1 .. NBase /\ i \notin disabled /\ inst.problem[i] = v
  BY DEF ProblemOf, IsCore
<1>. QED BY <1>1 DEF Group, Given

\* Giving up a weak rule of a core.
LEMMA StepGiveUpWeak ==
  ASSUME TypeInv, BaseSame, Unreported, NEW C, IsCore(C), WeakGivenUp(C, Given, Given')
  PROVE  Abstract!GiveUpWeak
<1>1. Abstract!Core(C) /\ C \in SUBSET (Abstract!Base \ Given)
      /\ Abstract!Ids(C) = {inst.problem[i] : i \in C}
  BY CoreIs
<1>2. C \cap inst.weak # {} /\ Given' # Given /\ (Given' \ Given) \cap C \cap inst.weak # {}
  BY DEF WeakGivenUp
<1>3. Abstract!RulesOf(Abstract!Ids(C \cap inst.weak)) = UNION {Group(inst.problem[i]) : i \in C \cap inst.weak}
  <2>1. Abstract!Ids(C \cap inst.weak) = {inst.problem[i] : i \in C \cap inst.weak}
    BY DEF Abstract!Ids
  <2>2. {Group(v) : v \in {inst.problem[i] : i \in C \cap inst.weak}} = {Group(inst.problem[i]) : i \in C \cap inst.weak}
    OBVIOUS
  <2>. QED BY <2>1, <2>2, RulesOfIs
<1>4. Given' \ Given \subseteq Abstract!RulesOf(Abstract!Ids(C \cap inst.weak)) \cup inst.weak
  BY <1>3 DEF WeakGivenUp, WeakGroups
<1>5. Given \ Given' \subseteq UNION {inst.policy[v] : v \in Abstract!Ids(C) \cap DOMAIN inst.policy}
  <2>1. Given \ Given' \subseteq PoliciesBack(C)
    BY DEF WeakGivenUp
  <2>. QED BY <1>1, <2>1 DEF PoliciesBack
<1>. QED BY <1>1, <1>2, <1>4, <1>5 DEF Abstract!GiveUpWeak, Unreported

\* Giving up an update rule that may be given up.
LEMMA StepUninstall ==
  ASSUME TypeInv, BaseSame, Unreported, NEW C, IsCore(C), C \cap inst.weak = {},
         NEW v \in ProblemOf(C), v \in inst.uninstall.update \cup inst.uninstall.feature,
         Given' = Given \cup Group(v)
  PROVE  Abstract!Uninstall
<1>1. Abstract!Core(C) /\ C \in SUBSET (Abstract!Base \ Given) /\ v \in Abstract!Elems(C)
  BY CoreIs
<1>2. Given' # Given /\ Given \subseteq Given'
  BY CoreGivesUp
<1>3. Abstract!RulesOf({v}) = Group(v)
  <2> DEFINE G(u) == Group(u)
  <2>1. Abstract!RulesOf({v}) = UNION {G(u) : u \in {v}}
    BY RulesOfIs
  <2> HIDE DEF G
  <2>2. UNION {G(u) : u \in {v}} = G(v)
    OBVIOUS
  <2>. QED BY <2>1, <2>2 DEF G
<1>. QED BY <1>1, <1>2, <1>3 DEF Abstract!Uninstall, Unreported

\* Telling the problem and giving up all of it that is not a package rule.
LEMMA StepReport ==
  ASSUME TypeInv, BaseSame, inst.disablerules, UNCHANGED <<inst, Result, Solution>>,
         NEW C, IsCore(C), C \cap inst.weak = {}, ProblemOf(C) # {},
         ReportedElems' = Append(ReportedElems, ProblemOf(C)), ReportedElems' # ReportedElems,
         Given' = Given \cup UNION {Group(v) : v \in ProblemOf(C)}
  PROVE  Abstract!Report
<1>1. Abstract!Core(C) /\ C \in SUBSET (Abstract!Base \ Given) /\ Abstract!Elems(C) = ProblemOf(C)
  BY CoreIs
<1>2. Abstract!RulesOf(ProblemOf(C)) = UNION {Group(v) : v \in ProblemOf(C)}
  BY RulesOfIs
<1>. QED BY <1>1, <1>2 DEF Abstract!Report

\* Telling the problem and stopping.
LEMMA StepFail ==
  ASSUME TypeInv, BaseSame, ~inst.disablerules, UNCHANGED <<inst, Given, Solution>>, Result' = "failed",
         NEW C, IsCore(C), C \cap inst.weak = {},
         ReportedElems' = Append(ReportedElems, ProblemOf(C)), ReportedElems' # ReportedElems
  PROVE  Abstract!Fail
<1>1. Abstract!Core(C) /\ C \in SUBSET (Abstract!Base \ Given) /\ Abstract!Elems(C) = ProblemOf(C)
  BY CoreIs
<1>. QED BY <1>1 DEF Abstract!Fail

-----------------------------------------------------------------------------
(* The steps of the engine. *)

Ended == {"done", "failed"}

\* A step that reports nothing and does not end the search.
LEMMA QuietStep ==
  ASSUME pc \notin Ended, pc' \notin Ended, UNCHANGED <<inst, problems>>
  PROVE  Unreported
BY DEF Unreported, Ended, ReportedElems, Result, Solution

\* What is given up after the learnt rules were settled.
LEMMA GivenReset ==
  ASSUME TypeInv, WhyOlder, inst' = inst, NEW d, disabled' = EnableDisableLearntRules(d)
  PROVE  Given' = d \cap 1 .. NBase
<1>1. NBase' = NBase
  BY DEF NBase
<1>. QED BY <1>1, StatusFacts DEF Given

\* Reporting a problem.
LEMMA Reporting ==
  ASSUME TypeInv, NEW prf, NEW elems, problems' = Append(problems, Problem(prf, elems))
  PROVE  ReportedElems' = Append(ReportedElems, elems) /\ ReportedElems' # ReportedElems
<1> DEFINE n == Len(problems)
<1>1. /\ problems \in Seq(ProblemRec) /\ n \in Nat /\ Len(problems') = n + 1
      /\ \A k \in 1 .. n : problems'[k] = problems[k]
      /\ problems'[n + 1] = Problem(prf, elems)
  BY TypeFacts DEF TypeSearch
<1> DEFINE f == [k \in 1 .. n |-> problems[k].elems]
           g == [k \in 1 .. n + 1 |-> problems'[k].elems]
           T == {problems[k].elems : k \in 1 .. n} \cup {elems}
<1>2. f \in Seq(T) /\ Len(f) = n /\ elems \in T
  BY <1>1
<1>3. Problem(prf, elems).elems = elems
  BY DEF Problem
<1>4. g = Append(f, elems)
  <2>1. Append(f, elems) \in Seq(T) /\ Len(Append(f, elems)) = n + 1
    BY <1>1, <1>2
  <2>2. \A k \in 1 .. n + 1 : g[k] = Append(f, elems)[k]
    <3> TAKE k \in 1 .. n + 1
    <3>1. CASE k \in 1 .. n
      BY <1>1, <1>2, <3>1
    <3>2. CASE k = n + 1
      BY <1>1, <1>2, <1>3, <3>2
    <3>. QED BY <1>1, <3>1, <3>2
  <2>3. g \in Seq({g[k] : k \in 1 .. n + 1}) /\ Len(g) = n + 1
    BY <1>1
  <2>4. DOMAIN g = 1 .. n + 1 /\ DOMAIN Append(f, elems) = 1 .. n + 1
    BY <1>1, <1>2, <2>1
  <2>5. Append(f, elems) = [k \in 1 .. n + 1 |-> Append(f, elems)[k]]
    BY <2>1
  <2> DEFINE a == Append(f, elems)
  <2>6. \A k \in 1 .. n + 1 : g[k] = a[k]
    BY <2>2
  <2> HIDE DEF a
  <2>7. g = [k \in 1 .. n + 1 |-> a[k]]
    BY <2>6
  <2>. QED BY <2>5, <2>7 DEF a
<1>5. ReportedElems = f /\ ReportedElems' = g
  BY <1>1 DEF ReportedElems
<1>6. f # g
  <2>1. DOMAIN f = 1 .. n /\ DOMAIN g = 1 .. n + 1 /\ n + 1 \in 1 .. n + 1 /\ n + 1 \notin 1 .. n
    BY <1>1
  <2>. QED BY <2>1
<1>. QED BY <1>4, <1>5, <1>6

\* A conflict of two assertions ends in Uninstall.
LEMMA AssertUninstallStep == ASSUME FlaggedInv, AssertUninstall PROVE Abstract!Uninstall
<1>1. PICK i \in 1 .. NBase, k \in 1 .. Len(decisionq) :
        InConflict(i, k) /\ \E v \in AutoUninstall(ConflictElems(i, k)) : StartOver(disabled \cup Group(v))
  BY DEF AssertUninstall
<1>2. PICK v \in AutoUninstall(ConflictElems(i, k)) : StartOver(disabled \cup Group(v))
  BY <1>1
<1> DEFINE C == ConflictRules(i, k)
<1>3. IsCore(C) /\ C \cap inst.weak = {} /\ ProblemOf(C) = ConflictElems(i, k)
  BY <1>1, ConflictCore DEF FlaggedInv, OutInv
<1> HIDE DEF C
<1>4. v \in ProblemOf(C) /\ v \in inst.uninstall.update \cup inst.uninstall.feature
  <2>1. v \in inst.uninstall.update \cup inst.uninstall.feature \cup inst.uninstall.orphan
    BY AutoUninstallFacts DEF ConflictElems, FlaggedInv
  <2>2. inst.uninstall.orphan \subseteq inst.uninstall.feature
    BY GiveUpFacts, TypeFacts DEF TypeRules, FlaggedInv
  <2>3. v \in ConflictElems(i, k)
    BY AutoUninstallFacts DEF FlaggedInv, ConflictElems
  <2>. QED BY <1>3, <2>1, <2>2, <2>3
<1>5. Unreported /\ disabled' = disabled \cup Group(v) /\ inst' = inst
  <2>1. pc = "assert" /\ pc' = "assert" /\ UNCHANGED <<inst, problems>> /\ disabled' = disabled \cup Group(v)
    BY <1>1, <1>2 DEF AssertUninstall, InConflict, StartOver, ruleVars
  <2>. QED BY <2>1, QuietStep DEF Ended
<1>6. Given' = Given \cup Group(v)
  BY <1>5 DEF Given, Group, NBase
<1>. QED BY <1>3, <1>4, <1>5, <1>6, StepUninstall DEF FlaggedInv, OutInv

\* Or in Report or Fail.
LEMMA AssertConflictStep == ASSUME FlaggedInv, AssertConflict PROVE Abstract!Report \/ Abstract!Fail
<1>1. PICK i \in 1 .. NBase, k \in 1 .. Len(decisionq) :
        /\ InConflict(i, k)
        /\ problems' = Append(problems, Problem(ConflictProof(i, k), ConflictElems(i, k)))
        /\ \/ /\ inst.disablerules
              /\ StartOver(disabled \cup UNION {Group(v) : v \in ConflictElems(i, k)})
           \/ /\ ~inst.disablerules
              /\ pc' = "failed" /\ UNCHANGED disabled
  BY DEF AssertConflict
<1> DEFINE C == ConflictRules(i, k)
           prf == ConflictProof(i, k)
<1>2. IsCore(C) /\ C \cap inst.weak = {} /\ ProblemOf(C) = ConflictElems(i, k) /\ ProblemOf(C) # {}
  BY <1>1, ConflictCore DEF FlaggedInv, OutInv
<1>3. inst' = inst /\ NBase' = NBase /\ pc = "assert" /\ problems' = Append(problems, Problem(prf, ProblemOf(C)))
  BY <1>1, <1>2 DEF AssertConflict, InConflict, ruleVars, NBase
<1> HIDE DEF C, prf
<1>4. ReportedElems' = Append(ReportedElems, ProblemOf(C)) /\ ReportedElems' # ReportedElems
  BY <1>3, Reporting DEF FlaggedInv
<1>5. CASE inst.disablerules /\ StartOver(disabled \cup UNION {Group(v) : v \in ConflictElems(i, k)})
  <2>1. pc' = "assert" /\ disabled' = disabled \cup UNION {Group(v) : v \in ProblemOf(C)}
    BY <1>2, <1>5 DEF StartOver
  <2>2. UNCHANGED <<inst, Result, Solution>>
    BY <1>3, <2>1 DEF Result, Solution
  <2>3. Given' = Given \cup UNION {Group(v) : v \in ProblemOf(C)}
    BY <1>3, <2>1 DEF Given, Group
  <2>. QED BY <1>2, <1>4, <1>5, <2>2, <2>3, StepReport DEF FlaggedInv, OutInv
<1>6. CASE ~inst.disablerules /\ pc' = "failed" /\ UNCHANGED disabled
  <2>1. UNCHANGED <<inst, Given, Solution>> /\ Result' = "failed"
    BY <1>3, <1>6 DEF Given, Result, Solution
  <2>. QED BY <1>2, <1>4, <1>6, <2>1, StepFail DEF FlaggedInv, OutInv
<1>. QED BY <1>1, <1>5, <1>6

\* A weak assertion that contradicts a decision is in a core with what the
\* assertion behind the decision rests on.
LEMMA WeakCore ==
  ASSUME FlaggedInv, pc = "weakassert", NEW i \in WeakAssertions(ri), IsFalse(rules[i].w1)
  PROVE  \E C : IsCore(C) /\ i \in C
<1> USE DEF FlaggedInv
<1> DEFINE l == rules[i].w1
<1>1. i \in 1 .. NBase /\ i \in RuleId /\ i \notin disabled /\ IsAssertion(rules[i])
  BY TypeFacts, InstanceFacts DEF WeakAssertions, RuleAssertions, TypeRules
<1>2. l \in Lit /\ rules[i].lits = {l} /\ -l \in Lit /\ -(-l) = l
  BY <1>1, TypeFacts, LitFacts, PkgFacts DEF RuleShape, IsAssertion
<1>3. PICK k \in 1 .. Len(decisionq) : decisionq[k].p = -l
  <2>1. HoldsIn(decisionmap, -l)
    BY <1>2, TruthFacts
  <2>. QED BY <1>2, <2>1, TrailFacts
<1> DEFINE o == decisionq[k].why
<1>4. o \in RuleId \cup {0}
  BY TypeFacts
<1>5. BaseRules({i}) = {i}
  BY <1>1, BaseFacts DEF WatchInv, BaseRight
<1>6. CASE o # 0
  <2>1. rules[o].lits = {-l} /\ o \in RuleId /\ o \notin disabled
    <3>1. IsAssertion(rules[o])
      BY <1>6 DEF OutInv, AssertReasons, Asserting
    <3>2. rules[o].lits = {rules[o].w1}
      BY <1>4, <1>6, <3>1, TypeFacts DEF RuleShape, IsAssertion
    <3>3. -l \in rules[o].lits
      BY <1>3, <1>6, TrailFacts DEF TrailFull, Reasons
    <3>4. o \notin disabled
      BY <1>6 DEF WatchInv, EnabledReasons
    <3>. QED BY <1>4, <1>6, <3>2, <3>3, <3>4
  <2>2. BaseRules({o}) \cap disabled = {}
    <3>1. CASE ~havedisabled
      BY <2>1, <3>1 DEF LearnInv, StatusOK
    <3>2. CASE havedisabled
      <4>1. ~(Len(rules) > NBase)
        BY <3>2 DEF LearnInv, StatusOK, Asserting
      <4>2. o \in 1 .. NBase
        BY <2>1, <4>1, TypeFacts DEF RuleId
      <4>3. BaseRules({o}) = {o}
        BY <4>2, BaseFacts DEF WatchInv, BaseRight
      <4>. QED BY <2>1, <4>3
    <3>. QED BY <3>1, <3>2
  <2>3. ASSUME NEW M \in Installations PROVE ~Satisfies(M, rules, {i, o})
    <3>1. ~LitHolds(M, l) \/ ~LitHolds(M, -l)
      BY <1>2, LitSign
    <3>2. ~Holds(M, rules[i].lits) \/ ~Holds(M, rules[o].lits)
      BY <1>2, <2>1, <3>1 DEF Holds
    <3>. QED BY <3>2 DEF Satisfies
  <2>4. IsCore(BaseRules({i, o}))
    <3>1. {i, o} \subseteq RuleId
      BY <1>1, <2>1
    <3>2. \A j \in {i, o} : j \notin disabled /\ BaseRules({j}) \cap disabled = {}
      BY <1>1, <1>5, <2>1, <2>2
    <3> HIDE DEF o
    <3>. QED BY <2>3, <3>1, <3>2, RestIsCore
  <2>5. i \in BaseRules({i, o})
    <3>1. \A R, b : b \in BaseRules(R) <=> \E j \in R : b \in BaseRules({j})
      BY BaseFacts, Zenon DEF WatchInv, BaseRight
    <3>. QED BY <1>5, <3>1
  <2>. QED BY <2>4, <2>5
<1>7. CASE o = 0
  <2>1. k = 1
    <3> SUFFICES ASSUME k # 1 PROVE FALSE
      OBVIOUS
    <3>1. DecisionLev(k) = 1 /\ k - 1 \in 1 .. Len(decisionq)
      BY TypeFacts, TrailFacts DEF LevelOK
    <3>2. LevIn(decisionmap, decisionq[k - 1].p) < LevIn(decisionmap, decisionq[k].p)
      BY <1>7, TrailFacts DEF TrailFull, FreeFirst
    <3>3. DecisionLev(k - 1) < DecisionLev(k) /\ DecisionLev(k - 1) >= 1 /\ DecisionLev(k - 1) \in Nat
      BY <3>1, <3>2, TrailFacts
    <3>. QED BY <3>1, <3>3
  <2>2. -l = SYSTEMSOLVABLE
    BY <1>3, <2>1, TrailFacts DEF LevelOK, Decision
  <2>3. ASSUME NEW M \in Installations PROVE ~Holds(M, rules[i].lits)
    <3>1. LitHolds(M, -l)
      BY <2>2 DEF LitHolds, Installations, SYSTEMSOLVABLE
    <3>2. ~LitHolds(M, l)
      BY <1>2, <3>1, LitSign
    <3>. QED BY <1>2, <3>2 DEF Holds
  <2>4. IsCore({i})
    BY <1>1, <2>3 DEF IsCore, Unsatisfiable
  <2>. QED BY <2>4
<1>. QED BY <1>6, <1>7

\* It is given up, as GiveUpWeak allows.
LEMMA WeakConflictStep == ASSUME FlaggedInv, WeakConflict PROVE Abstract!GiveUpWeak
<1> DEFINE i == Min(WeakAssertions(ri))
<1>1. /\ pc = "weakassert" /\ WeakAssertions(ri) # {} /\ IsFalse(rules[i].w1)
      /\ pc' = "assert" /\ disabled' = FixProblem(i, disabled) /\ UNCHANGED <<inst, problems>>
  BY DEF WeakConflict, StartOver, ruleVars
<1>2. WeakAssertions(ri) \subseteq Nat
  BY TypeFacts DEF FlaggedInv, WeakAssertions, RuleAssertions, TypeLocals
<1>3. i \in WeakAssertions(ri)
  BY <1>1, <1>2, MinIn
<1> HIDE DEF i
<1>4. PICK C : IsCore(C) /\ i \in C
  BY <1>1, <1>3, WeakCore
<1>5. i \in inst.weak /\ i \in 1 .. NBase /\ i \notin disabled
  BY <1>3, <1>4 DEF WeakAssertions, IsCore
<1>6. WeakGivenUp(C, Given, FixProblem(i, disabled) \cap 1 .. NBase)
  BY <1>4, <1>5, FixGivesUp DEF FlaggedInv
<1>7. Given' = FixProblem(i, disabled) \cap 1 .. NBase
  BY <1>1 DEF Given, NBase
<1>8. Unreported
  BY <1>1, QuietStep DEF Ended
<1>. QED BY <1>4, <1>6, <1>7, <1>8, StepGiveUpWeak DEF FlaggedInv, OutInv

\* A problem at level 1 that involves a weak rule: GiveUpWeak.
LEMMA UnsolvableWeakStep == ASSUME FlaggedInv, UnsolvableWeak PROVE Abstract!GiveUpWeak
<1> DEFINE C == BaseRules(proof)
           d == DisableWeakRules(C \cap inst.weak, disabled)
<1>1. /\ Proved /\ pc = "unsolvable" /\ C \cap inst.weak # {}
      /\ disabled' = EnableDisableLearntRules(d) /\ pc' = "start" /\ UNCHANGED <<inst, problems>>
  BY DEF UnsolvableWeak, Proved, WeakOfProof, Reset, ruleVars
<1>2. IsCore(C)
  BY <1>1, ProofCore DEF FlaggedInv
<1> HIDE DEF C
<1>3. WeakGivenUp(C, Given, d \cap 1 .. NBase)
  BY <1>1, <1>2, WeakGivesUp DEF FlaggedInv, IsCore
<1> HIDE DEF d
<1>4. Given' = d \cap 1 .. NBase
  BY <1>1, GivenReset DEF FlaggedInv, WatchInv
<1>5. Unreported
  BY <1>1, QuietStep DEF Ended
<1>. QED BY <1>2, <1>3, <1>4, <1>5, StepGiveUpWeak DEF FlaggedInv, OutInv

\* One that allowuninstall solves: Uninstall.
LEMMA UnsolvableUninstallStep == ASSUME FlaggedInv, UnsolvableUninstall PROVE Abstract!Uninstall
<1> DEFINE C == BaseRules(proof)
<1>1. /\ Proved /\ pc = "unsolvable" /\ C \cap inst.weak = {} /\ UNCHANGED <<inst, problems>>
      /\ ElemsOfProof = ProblemOf(C)
  BY DEF UnsolvableUninstall, Proved, WeakOfProof, ElemsOfProof, ruleVars
<1>2. PICK v \in AutoUninstall(ElemsOfProof) : Reset(disabled \cup Group(v))
  BY DEF UnsolvableUninstall
<1>3. IsCore(C)
  BY <1>1, ProofCore DEF FlaggedInv
<1>4. v \in ProblemOf(C) /\ v \in inst.uninstall.update \cup inst.uninstall.feature
  <2>1. v \in inst.uninstall.update \cup inst.uninstall.feature \cup inst.uninstall.orphan
    BY AutoUninstallFacts DEF ElemsOfProof, FlaggedInv
  <2>2. inst.uninstall.orphan \subseteq inst.uninstall.feature
    BY GiveUpFacts, TypeFacts DEF TypeRules, FlaggedInv
  <2>3. v \in ElemsOfProof
    BY AutoUninstallFacts DEF FlaggedInv, ElemsOfProof
  <2>. QED BY <1>1, <2>1, <2>2, <2>3
<1> HIDE DEF C
<1> DEFINE d == disabled \cup Group(v)
<1>5. disabled' = EnableDisableLearntRules(d) /\ pc' = "start"
  BY <1>2 DEF Reset
<1> HIDE DEF d
<1>6. Given' = d \cap 1 .. NBase
  BY <1>1, <1>5, GivenReset DEF FlaggedInv, WatchInv
<1>7. Given' = Given \cup Group(v)
  BY <1>6 DEF d, Given, Group
<1>8. Unreported
  BY <1>1, <1>5, QuietStep DEF Ended
<1>. QED BY <1>1, <1>3, <1>4, <1>7, <1>8, StepUninstall DEF FlaggedInv, OutInv

\* One that is reported: Report.
LEMMA UnsolvableDisableStep == ASSUME FlaggedInv, UnsolvableDisable PROVE Abstract!Report
<1> DEFINE C == BaseRules(proof)
           d == disabled \cup UNION {Group(v) : v \in ProblemOf(C)}
<1>1. /\ Proved /\ pc = "unsolvable" /\ C \cap inst.weak = {} /\ inst' = inst /\ ProblemOf(C) # {}
      /\ problems' = Append(problems, Problem(proof, ProblemOf(C))) /\ disablerules
      /\ disabled' = EnableDisableLearntRules(d) /\ pc' = "start"
  BY DEF UnsolvableDisable, RecordProblem, Proved, WeakOfProof, ElemsOfProof, Reset, ruleVars
<1>2. IsCore(C)
  BY <1>1, ProofCore DEF FlaggedInv
<1> HIDE DEF C, d
<1>3. Given' = d \cap 1 .. NBase
  BY <1>1, GivenReset DEF FlaggedInv, WatchInv
<1>4. Given' = Given \cup UNION {Group(v) : v \in ProblemOf(C)}
  BY <1>3 DEF d, Given, Group
<1>5. ReportedElems' = Append(ReportedElems, ProblemOf(C)) /\ ReportedElems' # ReportedElems
  BY <1>1, Reporting DEF FlaggedInv
<1>6. UNCHANGED <<inst, Result, Solution>> /\ inst.disablerules
  BY <1>1 DEF Result, Solution, FlaggedInv, FlagOK
<1>. QED BY <1>1, <1>2, <1>4, <1>5, <1>6, StepReport DEF FlaggedInv, OutInv

\* One that ends the search: Fail.
LEMMA UnsolvableFailStep == ASSUME FlaggedInv, UnsolvableFail PROVE Abstract!Fail
<1> DEFINE C == BaseRules(proof)
<1>1. /\ Proved /\ pc = "unsolvable" /\ C \cap inst.weak = {} /\ UNCHANGED <<inst, disabled>>
      /\ problems' = Append(problems, Problem(proof, ProblemOf(C))) /\ pc' = "failed"
      /\ ~(disablerules /\ ElemsOfProof # {})
  BY DEF UnsolvableFail, RecordProblem, Proved, WeakOfProof, ElemsOfProof, ruleVars
<1>2. IsCore(C)
  BY <1>1, ProofCore DEF FlaggedInv
<1>3. ~inst.disablerules
  BY <1>1, NoFailure DEF FlaggedInv, OutInv
<1> HIDE DEF C
<1>4. ReportedElems' = Append(ReportedElems, ProblemOf(C)) /\ ReportedElems' # ReportedElems
  BY <1>1, Reporting DEF FlaggedInv
<1>5. UNCHANGED <<inst, Given, Solution>> /\ Result' = "failed"
  BY <1>1 DEF Given, NBase, Result, Solution
<1>. QED BY <1>1, <1>2, <1>3, <1>4, <1>5, StepFail DEF FlaggedInv, OutInv

\* Choice rules that are not needed go: DropChoice, unless all of them were
\* given up already.
LEMMA DropChoiceStep ==
  ASSUME FlaggedInv, DropChoiceRules
  PROVE  Abstract!DropChoice \/ (Unreported /\ UNCHANGED Given)
<1> DEFINE d == CheckUnneededChoiceRules(disabled)
<1>1. /\ pc = "decide" /\ pc' = "start" /\ disabled' = EnableDisableLearntRules(d)
      /\ UNCHANGED <<inst, problems>>
  BY DEF DropChoiceRules, Reset, ruleVars
<1>2. disabled \subseteq d /\ d \subseteq disabled \cup DOMAIN inst.choice
  BY ChoiceGrows DEF FlaggedInv
<1> HIDE DEF d
<1>3. Given' = d \cap 1 .. NBase
  BY <1>1, GivenReset DEF FlaggedInv, WatchInv
<1>4. Given \subseteq Given' /\ Given' \ Given \subseteq DOMAIN inst.choice
  BY <1>2, <1>3 DEF Given
<1>5. Unreported
  BY <1>1, QuietStep DEF Ended
<1>. QED BY <1>4, <1>5 DEF Abstract!DropChoice, Unreported

\* The packages decided when the search ends are a solution: Solve.
LEMMA FinishStep == ASSUME FlaggedInv, Finish PROVE Abstract!Solve
<1>1. /\ pc = "decide" /\ Consistent /\ pc' = "done"
      /\ UNCHANGED <<inst, rules, disabled, decisionmap, problems>>
  BY DEF Finish, ruleVars, trailVars
<1>2. UNCHANGED <<inst, Given, ReportedElems>> /\ Result = "solving" /\ Result' = "solved"
      /\ Solution' = Packages
  BY <1>1 DEF Given, NBase, ReportedElems, Result, Solution, Packages
<1>4. /\ Packages \in Installations
      /\ \A i \in RuleId : InUse(i) => Holds(Packages, rules[i].lits)
  BY <1>1, ConsistentSolves DEF FlaggedInv
<1>5. Solution' \in Abstract!Installations
  BY <1>2, <1>4 DEF Abstract!Installations, Installations, Abstract!Solvable, Solvable,
                          Abstract!SYSTEMSOLVABLE, SYSTEMSOLVABLE
<1>6. ASSUME NEW i \in Abstract!Base \ Given, inst.rules[i].w1 # 0
      PROVE  Abstract!Holds(Solution', inst.rules[i].lits)
  <2>1. i \in 1 .. NBase /\ i \in RuleId /\ i \notin disabled
    BY TypeFacts DEF Abstract!Base, NBase, Given, FlaggedInv
  <2>2. inst.rules[i].w1 \in inst.rules[i].lits
    <3>1. inst \in Instances
      BY TypeFacts DEF TypeRules, FlaggedInv
    <3>2. LET r == inst.rules[i] IN
          \/ r.lits = {} /\ r.w1 = 0 /\ r.w2 = 0
          \/ r.lits = {r.w1} /\ r.w2 = 0
          \/ {r.w1, r.w2} \subseteq r.lits /\ r.w1 # r.w2
      BY <2>1, <3>1, InstanceFacts
    <3>. QED BY <1>6, <3>2
  <2>3. rules[i].w1 # 0 /\ rules[i].lits = inst.rules[i].lits
    <3>1. rules[i].lits = inst.rules[i].lits
      BY <2>1 DEF FlaggedInv, OutInv, BaseSame
    <3>2. rules[i].w1 = 0 => rules[i].lits = {}
      BY <2>1, TypeFacts DEF RuleShape, FlaggedInv
    <3>. QED BY <2>2, <3>1, <3>2
  <2>4. Holds(Packages, rules[i].lits)
    BY <1>4, <2>1, <2>3 DEF InUse
  <2>. QED BY <1>2, <2>3, <2>4 DEF Abstract!Holds, Holds, Abstract!LitHolds, LitHolds
<1>. QED BY <1>2, <1>5, <1>6 DEF Abstract!Solve

\* Every other step leaves the abstract state alone.
LEMMA HiddenStep ==
  ASSUME FlaggedInv, [Next]_vars, ~AssertUninstall, ~AssertConflict, ~WeakConflict, ~UnsolvableWeak,
         ~UnsolvableUninstall, ~UnsolvableDisable, ~UnsolvableFail, ~DropChoiceRules, ~Finish
  PROVE  Unreported /\ UNCHANGED Given
<1>1. NBase \in Nat /\ WhyOlder
  BY TypeFacts DEF FlaggedInv, WatchInv
<1>2. ASSUME UNCHANGED <<inst, disabled>> PROVE UNCHANGED Given
  BY <1>2 DEF Given, NBase
<1>3. CASE UNCHANGED vars
  <2>1. UNCHANGED <<inst, disabled, problems, pc, decisionmap>>
    BY <1>3 DEF vars, ruleVars, trailVars
  <2>2. Unreported
    BY <2>1 DEF Unreported, ReportedElems, Result, Solution, Packages
  <2>. QED BY <1>2, <2>1, <2>2
<1>4. CASE AssertLearntStatus
  <2>1. pc = "assert" /\ pc' = pc /\ UNCHANGED <<inst, problems>> /\ disabled' = EnableDisableLearntRules(disabled)
    BY <1>4 DEF AssertLearntStatus, ruleVars
  <2>2. Given' = Given
    BY <1>1, <2>1, GivenReset DEF FlaggedInv, Given
  <2>. QED BY <2>1, <2>2, QuietStep DEF Ended
<1>5. CASE AssertDropLearnt
  <2>1. PICK i : i > NBase /\ i \in RuleAssertions(ri) /\ disabled' = disabled \cup {i}
    BY <1>5 DEF AssertDropLearnt
  <2>2. pc = "assert" /\ pc' = pc /\ UNCHANGED <<inst, problems>>
    BY <1>5 DEF AssertDropLearnt, ruleVars
  <2>3. i \in Nat
    BY <2>1, TypeFacts DEF FlaggedInv, RuleAssertions, TypeLocals
  <2>4. Given' = Given
    BY <1>1, <2>1, <2>2, <2>3 DEF Given, NBase
  <2>. QED BY <2>2, <2>4, QuietStep DEF Ended
<1>6. ASSUME pc \notin Ended, pc' \notin Ended, UNCHANGED <<inst, problems, disabled>>
      PROVE  Unreported /\ UNCHANGED Given
  BY <1>2, <1>6, QuietStep
<1>7. ASSUME Assertions, ~AssertLearntStatus, ~AssertDropLearnt
      PROVE  pc \notin Ended /\ pc' \notin Ended /\ UNCHANGED <<inst, problems, disabled>>
  BY <1>7 DEF Assertions, MakeRuleDecisions, AssertDecide, AssertSkip, AssertEnd, WeakDecide, WeakEnd,
     ruleVars, Ended
<1>8. ASSUME Propagate PROVE pc \notin Ended /\ pc' \notin Ended /\ UNCHANGED <<inst, problems, disabled>>
  BY <1>8 DEF Propagate, PropagateNext, PropagateDecisionDone, PropagateSkip, PropagateMove, PropagateUnit,
     PropagateConflict, PropagateEnd, Visit, ruleVars, Ended
<1>9. ASSUME Analyze PROVE pc \notin Ended /\ pc' \notin Ended /\ UNCHANGED <<inst, problems, disabled>>
  BY <1>9 DEF Analyze, AnalyzeRule, AnalyzeDone, AnalyzeUip, AnalyzeResolve, Learn, ruleVars, Ended
<1>10. ASSUME UnsolvableWalk PROVE pc \notin Ended /\ pc' \notin Ended /\ UNCHANGED <<inst, problems, disabled>>
  BY <1>10 DEF UnsolvableWalk, ruleVars, Ended
<1>11. ASSUME Decide PROVE pc \notin Ended /\ pc' \notin Ended /\ UNCHANGED <<inst, problems, disabled>>
  BY <1>11 DEF Decide, DecideRule, DecideInstalled, DecideExtra, DecideErase, SelectAndInstall,
     SetPropagateLearn, TakeBranch, TakeBranchTo, ruleVars, Ended
<1>. QED BY <1>3, <1>4, <1>5, <1>6, <1>7, <1>8, <1>9, <1>10, <1>11 DEF Next, Terminated, AnalyzeUnsolvable

\* Every step of the engine is one of the abstract solver or a stutter.
LEMMA NextImplements == FlaggedInv /\ [Next]_vars => [Abstract!Next]_(Abstract!vars)
<1> SUFFICES ASSUME FlaggedInv, [Next]_vars PROVE Abstract!Next \/ UNCHANGED Abstract!vars
  OBVIOUS
<1>1. Unreported /\ UNCHANGED Given => UNCHANGED Abstract!vars
  BY DEF Unreported, Abstract!vars
<1>2. CASE AssertUninstall
  BY <1>2, AssertUninstallStep DEF Abstract!Next
<1>3. CASE AssertConflict
  BY <1>3, AssertConflictStep DEF Abstract!Next
<1>4. CASE WeakConflict
  BY <1>4, WeakConflictStep DEF Abstract!Next
<1>5. CASE UnsolvableWeak
  BY <1>5, UnsolvableWeakStep DEF Abstract!Next
<1>6. CASE UnsolvableUninstall
  BY <1>6, UnsolvableUninstallStep DEF Abstract!Next
<1>7. CASE UnsolvableDisable
  BY <1>7, UnsolvableDisableStep DEF Abstract!Next
<1>8. CASE UnsolvableFail
  BY <1>8, UnsolvableFailStep DEF Abstract!Next
<1>9. CASE DropChoiceRules
  BY <1>1, <1>9, DropChoiceStep DEF Abstract!Next
<1>10. CASE Finish
  BY <1>10, FinishStep DEF Abstract!Next
<1>. QED BY <1>1, <1>2, <1>3, <1>4, <1>5, <1>6, <1>7, <1>8, <1>9, <1>10, HiddenStep

\* The engine starts where the abstract solver does.
LEMMA InitImplements == Init => Abstract!Init
<1> SUFFICES ASSUME Init PROVE Abstract!Init
  OBVIOUS
<1>1. /\ inst \in Instances /\ disabled = inst.disabled /\ problems = <<>> /\ pc = "start"
  BY DEF Init
<1>2. Given = inst.disabled
  BY <1>1, InstanceFacts DEF Given
<1>3. ReportedElems = <<>>
  BY <1>1 DEF ReportedElems
<1>. QED BY <1>1, <1>2, <1>3 DEF Abstract!Init, Result, Solution

\* The engine of solver_run_sat implements Resolution on every rule set: a
\* rule is given up or reported only because it is in a set of enabled rules
\* that has no solution, and what the search ends with is a solution of all
\* the rules that are left.
THEOREM EngineImplementsResolution == Spec => ImplementsResolution
<1>1. Init => Abstract!Init
  BY InitImplements
<1>2. Init => OutInv /\ FlagOK
  BY InitOut DEF Init, FlagOK
<1>3. TypeInv /\ TrailInv /\ WatchInv /\ LearnInv /\ OutInv /\ FlagOK /\ [Next]_vars => OutInv' /\ FlagOK'
  BY NextOut, NextFlag
<1>4. TypeInv /\ TrailInv /\ WatchInv /\ LearnInv /\ OutInv /\ FlagOK /\ [Next]_vars
        => [Abstract!Next]_(Abstract!vars)
  BY NextImplements DEF FlaggedInv
<1>. QED BY <1>1, <1>2, <1>3, <1>4, LearningInvariant, PTL DEF Spec, ImplementsResolution, Abstract!Spec
=============================================================================
