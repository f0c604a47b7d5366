--------------------------- MODULE SatSearchProof ---------------------------
(***************************************************************************)
(* propagate misses nothing: when it ends, no rule in use is false or unit *)
(* (PropagationComplete of Sat), for every rule set.                       *)
(*                                                                         *)
(* The property speaks of one point, the end of propagate; what is         *)
(* inductive is what the two watches of a rule mean while decisions come   *)
(* and go (WatchesOK): once a decision that makes a watch false has been   *)
(* propagated through the rule, the other watch is true, and has been for  *)
(* as long, so that revert can take the decision back but never the other  *)
(* watch alone.  Rules of one literal have no watches: they are decided at *)
(* level 1 by makeruledecisions or by the step that learnt them            *)
(* (AssertedOK), which in turn needs the rules makeruledecisions disables  *)
(* on its way to be none it has decided by (EnabledReasons) and the learnt *)
(* rules to rest on older ones (WhyOlder), so that settling them again     *)
(* leaves those already passed alone.                                      *)
(***************************************************************************)
EXTENDS SatTrailProof

\* The watch on the literal that decision p made false: the other watch of
\* the rule r holds, and holds as long as p does.
Guarded(r, p, map) ==
  /\ p = -r.w1 => HoldsIn(map, r.w2) /\ LevIn(map, r.w2) <= LevIn(map, p)
  /\ p = -r.w2 => HoldsIn(map, r.w1) /\ LevIn(map, r.w1) <= LevIn(map, p)

\* The decision k has been propagated through the rule i.
Settled(i, k) ==
  \/ pc = "propagate" /\ k <= propagate_index /\ ~(k = propagate_index /\ i \in todo)
  \/ pc \in {"decide", "done"}
  \/ pc \in Resolving /\ DecisionLev(k) < level

WatchesOK ==
  \A i \in RuleId \ disabled : rules[i].w2 # 0 =>
    \A k \in 1 .. Len(decisionq) : Settled(i, k) => Guarded(rules[i], decisionq[k].p, decisionmap)

\* Only rules in use force decisions.
EnabledReasons ==
  pc \notin {"start", "failed"} =>
    \A k \in 1 .. Len(decisionq) : decisionq[k].why # 0 => decisionq[k].why \notin disabled

\* The assertions makeruledecisions has passed are decided; a reason is one
\* of them, and rules are disabled only before the first learnt one is.
AssertedOK ==
  /\ pc = "assert" =>
       /\ havedisabled => ri <= NBase + 1
       /\ \A k \in 1 .. Len(decisionq) : decisionq[k].why < ri /\ decisionq[k].why \notin inst.weak
       /\ \A i \in RuleId \ disabled :
            IsAssertion(rules[i]) /\ i < ri /\ i \notin inst.weak => HoldsIn(decisionmap, rules[i].w1)
  /\ pc = "weakassert" =>
       \A i \in RuleId \ disabled :
         IsAssertion(rules[i]) /\ (i < ri \/ i \notin inst.weak) => HoldsIn(decisionmap, rules[i].w1)
  /\ pc \in Searching \cup Resolving \cup {"unsolvable"} =>
       \A i \in RuleId \ disabled :
         IsAssertion(rules[i]) =>
           HoldsIn(decisionmap, rules[i].w1) /\ LevIn(decisionmap, rules[i].w1) = 1

\* A learnt rule rests on older rules.
WhyOlder == \A j \in 1 .. Len(why) : why[j] \subseteq 1 .. NBase + j - 1

WatchInv == WatchesOK /\ EnabledReasons /\ AssertedOK /\ WhyOlder

-----------------------------------------------------------------------------
(* enabledisablelearntrules *)

\* There is a function that settles the learnt rules from the rules of their
\* proofs, because these are older.
LEMMA StatusExists ==
  ASSUME TypeInv, WhyOlder, NEW d
  PROVE  \E f : f = [i \in 1 .. Len(rules) |->
                       IF i <= NBase THEN i \in d ELSE \E w \in why[i - NBase] : f[w]]
<1> DEFINE Body(f, i) == IF i <= NBase THEN i \in d ELSE \E w \in why[i - NBase] : f[w]
           Good(n) == \E f : f = [i \in 1 .. n |-> Body(f, i)]
           Bad == {n \in 0 .. Len(rules) : ~Good(n)}
<1>1. NBase \in Nat /\ Len(rules) \in Nat /\ Len(rules) = NBase + Len(why) /\ Len(why) \in Nat
  BY TypeFacts DEF TypeRules
<1>2. ASSUME Bad # {} PROVE FALSE
  <2> DEFINE m == Min(Bad)
  <2>1. m \in Bad /\ \A n \in Bad : m <= n
    <3> HIDE DEF Good
    <3>1. Bad \subseteq 0 .. Len(rules)
      OBVIOUS
    <3>2. Bad \subseteq Nat
      BY <1>1, <3>1
    <3> HIDE DEF Bad
    <3>. QED BY <1>2, <3>2, MinIn
  <2> HIDE DEF m
  <2>2. m \in 0 .. Len(rules) /\ ~Good(m) /\ m \in Nat
    <3> HIDE DEF Good
    <3>1. m \in 0 .. Len(rules) /\ ~Good(m)
      BY <2>1
    <3>. QED BY <1>1, <3>1
  <2>3. CASE m = 0
    <3> DEFINE g == [i \in 1 .. 0 |-> TRUE]
    <3>1. g = [i \in 1 .. 0 |-> Body(g, i)]
      OBVIOUS
    <3> HIDE DEF g
    <3>. QED BY <2>2, <2>3, <3>1
  <2>4. CASE m # 0
    <3>1. m - 1 \in 0 .. Len(rules) /\ ~(m <= m - 1)
      BY <1>1, <2>2, <2>4
    <3>2. Good(m - 1)
      BY <2>1, <3>1
    <3>3. PICK f : f = [i \in 1 .. m - 1 |-> Body(f, i)]
      BY <3>2
    <3> DEFINE g == [i \in 1 .. m |-> Body(f, i)]
    <3>4. \A i \in 1 .. m - 1 : g[i] = f[i]
      <4> TAKE i \in 1 .. m - 1
      <4>1. i \in 1 .. m
        BY <2>2
      <4>2. f[i] = Body(f, i)
        BY <3>3
      <4>. QED BY <4>1, <4>2
    <3>5. ASSUME NEW i \in 1 .. m PROVE Body(f, i) = Body(g, i)
      <4>1. CASE i <= NBase
        BY <4>1
      <4>2. CASE ~(i <= NBase)
        <5>1. i - NBase \in 1 .. Len(why) /\ NBase + (i - NBase) - 1 = i - 1
          BY <1>1, <2>2, <4>2
        <5>2. why[i - NBase] \subseteq 1 .. i - 1
          BY <5>1 DEF WhyOlder
        <5>3. \A w \in why[i - NBase] : w \in 1 .. m - 1
          BY <2>2, <5>2
        <5>4. \A w \in why[i - NBase] : g[w] = f[w]
          BY <3>4, <5>3
        <5> HIDE DEF g
        <5>. QED BY <4>2, <5>4, Zenon
      <4>. QED BY <4>1, <4>2
    <3>6. g = [i \in 1 .. m |-> Body(g, i)]
      <4> DEFINE B(i) == Body(f, i)
                 C(i) == Body(g, i)
      <4>1. \A i \in 1 .. m : B(i) = C(i)
        BY <3>5
      <4>2. g = [i \in 1 .. m |-> B(i)]
        OBVIOUS
      <4> HIDE DEF B, C, g
      <4>3. [i \in 1 .. m |-> B(i)] = [i \in 1 .. m |-> C(i)]
        BY <4>1
      <4>4. g = [i \in 1 .. m |-> C(i)]
        BY <4>2, <4>3
      <4>. QED BY <4>4 DEF C
    <3> HIDE DEF g
    <3>7. Good(m)
      BY <3>6
    <3>. QED BY <2>2, <3>7
  <2>. QED BY <2>3, <2>4
<1>3. Len(rules) \in 0 .. Len(rules)
  BY <1>1
<1>4. Good(Len(rules))
  BY <1>2, <1>3
<1>. QED BY <1>4

\* A learnt rule is disabled iff a rule of its proof is; the others keep
\* their status.
LEMMA StatusFacts ==
  ASSUME TypeInv, WhyOlder, NEW d
  PROVE  /\ EnableDisableLearntRules(d) \subseteq RuleId
         /\ \A i \in 1 .. NBase : i \in EnableDisableLearntRules(d) <=> i \in d
         /\ \A i \in RuleId : i > NBase =>
              (i \in EnableDisableLearntRules(d) <=>
                 \E w \in why[i - NBase] : w \in EnableDisableLearntRules(d))
<1> DEFINE Body(f, i) == IF i <= NBase THEN i \in d ELSE \E w \in why[i - NBase] : f[w]
           Settles(f) == f = [i \in 1 .. Len(rules) |-> Body(f, i)]
           off == CHOOSE f : Settles(f)
<1>1. off = [i \in 1 .. Len(rules) |-> Body(off, i)]
  <2>1. \E f : Settles(f)
    BY StatusExists
  <2>2. Settles(off)
    <3> HIDE DEF Settles
    <3>. QED BY <2>1, Zenon
  <2>. QED BY <2>2
<1>2. EnableDisableLearntRules(d) = {i \in 1 .. Len(rules) : off[i]}
  BY Zenon DEF EnableDisableLearntRules
<1> HIDE DEF off
<1>3. NBase \in Nat /\ Len(rules) \in Nat /\ Len(rules) = NBase + Len(why) /\ Len(why) \in Nat
      /\ RuleId = 1 .. Len(rules) /\ 1 .. NBase \subseteq RuleId
  BY TypeFacts DEF TypeRules, RuleId
<1>4. \A i \in RuleId : off[i] = Body(off, i)
  BY <1>1, <1>3
<1>5. ASSUME NEW i \in 1 .. NBase PROVE i \in EnableDisableLearntRules(d) <=> i \in d
  <2>1. i <= NBase /\ i \in RuleId
    BY <1>3
  <2>2. off[i] = (i \in d)
    BY <1>4, <2>1
  <2>. QED BY <1>2, <1>3, <2>1, <2>2
<1>6. ASSUME NEW i \in RuleId, i > NBase
      PROVE  i \in EnableDisableLearntRules(d) <=>
               \E w \in why[i - NBase] : w \in EnableDisableLearntRules(d)
  <2>1. ~(i <= NBase)
    BY <1>3, <1>6
  <2>2. off[i] = (\E w \in why[i - NBase] : off[w])
    BY <1>4, <2>1, Zenon
  <2>3. i - NBase \in 1 .. Len(why)
    BY <1>3, <1>6
  <2>4. why[i - NBase] \subseteq RuleId
    BY <2>3, TypeFacts DEF TypeRules
  <2>. QED BY <1>2, <1>3, <2>2, <2>4
<1>. QED BY <1>2, <1>3, <1>5, <1>6

-----------------------------------------------------------------------------
(* makeruledecisions *)

\* Nothing is settled before propagate has taken the first decision.
LEMMA NothingSettled ==
  ASSUME pc' \notin {"decide", "done"} \cup Resolving, pc' = "propagate" => propagate_index' = 0
  PROVE  WatchesOK'
<1>1. ASSUME NEW i, NEW k \in 1 .. Len(decisionq'), Settled(i, k)' PROVE FALSE
  BY <1>1 DEF Settled
<1>. QED BY <1>1 DEF WatchesOK

\* Learnt rules keep resting on older ones.
LEMMA WhyKept == ASSUME WhyOlder, UNCHANGED <<inst, why>> PROVE WhyOlder'
  BY DEF WhyOlder, NBase

\* The assertions are passed in the order of the rules.
LEMMA NextAssertion ==
  ASSUME TypeInv, NEW i \in RuleAssertions(ri), i = Min(RuleAssertions(ri))
  PROVE  /\ i \in RuleId /\ IsAssertion(rules[i]) /\ ri <= i /\ i \in Nat /\ ri \in Nat
         /\ \A j \in RuleId : IsAssertion(rules[j]) /\ j < i + 1 => j < ri \/ j = i
         /\ rules[i].w1 \in Lit /\ rules[i].lits = {rules[i].w1}
<1>1. ri \in Nat /\ ri >= 1 /\ Len(rules) \in Nat /\ RuleAssertions(ri) \subseteq Nat /\ RuleId = 1 .. Len(rules)
  BY TypeFacts DEF TypeLocals, RuleAssertions, RuleId
<1>2. \A j \in RuleAssertions(ri) : i <= j
  BY <1>1, MinIn
<1>3. i \in RuleId /\ IsAssertion(rules[i]) /\ ri <= i /\ i \in Nat
  BY <1>1 DEF RuleAssertions
<1>4. ASSUME NEW j \in RuleId, IsAssertion(rules[j]), j < i + 1, ~(j < ri) PROVE j = i
  <2>1. j \in RuleAssertions(ri)
    BY <1>1, <1>4 DEF RuleAssertions
  <2>. QED BY <1>1, <1>2, <1>3, <1>4, <2>1
<1>5. rules[i].w1 \in Lit /\ rules[i].lits = {rules[i].w1}
  BY <1>3, TypeFacts DEF IsAssertion, RuleShape
<1>. QED BY <1>1, <1>3, <1>4, <1>5

\* makeruledecisions starts over: only the system solvable is decided.
LEMMA StartOverWatch ==
  ASSUME TypeInv, WatchInv, SystemOnly, ri' = 1, pc' = "assert", UNCHANGED <<inst, why>>
  PROVE  WatchInv'
<1>1. NBase' = NBase /\ NBase \in Nat /\ inst.weak \subseteq 1 .. NBase /\ inst \in Instances
  BY TypeFacts, InstanceFacts DEF NBase, TypeRules
<1>2. ASSUME NEW k \in 1 .. Len(decisionq') PROVE decisionq'[k].why = 0
  BY DEF SystemOnly, Decision
<1>3. WatchesOK'
  BY NothingSettled DEF Resolving
<1>4. EnabledReasons'
  BY <1>2 DEF EnabledReasons
<1>5. AssertedOK'
  <2>1. \A i \in RuleId' : ~(i < ri')
    BY DEF RuleId
  <2>2. \A k \in 1 .. Len(decisionq') : decisionq'[k].why < ri' /\ decisionq'[k].why \notin inst'.weak
    BY <1>1, <1>2
  <2>3. ri' <= NBase' + 1
    BY <1>1
  <2>. QED BY <2>1, <2>2, <2>3 DEF AssertedOK, Searching, Resolving
<1>. QED BY <1>3, <1>4, <1>5, WhyKept DEF WatchInv

\* The assertion i is dealt with.
LEMMA PassAssertion ==
  ASSUME TypeInv, WatchInv, pc = "assert", pc' = "assert",
         UNCHANGED <<inst, rules, why, havedisabled>>,
         NEW i \in RuleAssertions(ri), AtAssertion(i), ri' = i + 1,
         disabled \subseteq disabled',
         i \in disabled' \/ i \in inst.weak \/ HoldsIn(decisionmap', rules[i].w1),
         \A k \in 1 .. Len(decisionq') :
           \/ k \in 1 .. Len(decisionq) /\ decisionq'[k] = decisionq[k]
           \/ decisionq'[k].why = i /\ i \notin inst.weak /\ i \notin disabled',
         \A m \in Lit : HoldsIn(decisionmap, m) => HoldsIn(decisionmap', m),
         \A k \in 1 .. Len(decisionq) : decisionq[k].why # 0 => decisionq[k].why \notin disabled'
  PROVE  WatchInv'
<1>1. /\ i \in RuleId /\ IsAssertion(rules[i]) /\ ri <= i /\ i \in Nat /\ ri \in Nat
      /\ \A j \in RuleId : IsAssertion(rules[j]) /\ j < i + 1 => j < ri \/ j = i
  BY NextAssertion DEF AtAssertion
<1>2. /\ havedisabled => ri <= NBase + 1
      /\ \A k \in 1 .. Len(decisionq) : decisionq[k].why < ri /\ decisionq[k].why \notin inst.weak
      /\ \A j \in RuleId \ disabled :
           IsAssertion(rules[j]) /\ j < ri /\ j \notin inst.weak => HoldsIn(decisionmap, rules[j].w1)
  BY DEF WatchInv, AssertedOK
<1>3. RuleId' = RuleId /\ NBase' = NBase /\ NBase \in Nat
  BY TypeFacts DEF RuleId, NBase
<1>4. WatchesOK'
  BY NothingSettled DEF Resolving
<1>5. EnabledReasons'
  <2> SUFFICES ASSUME NEW k \in 1 .. Len(decisionq'), decisionq'[k].why # 0
               PROVE  decisionq'[k].why \notin disabled'
    BY DEF EnabledReasons
  <2>. QED OBVIOUS
<1>6. havedisabled' => ri' <= NBase' + 1
  BY <1>1, <1>3 DEF AtAssertion
<1>7. ASSUME NEW k \in 1 .. Len(decisionq')
      PROVE  decisionq'[k].why < ri' /\ decisionq'[k].why \notin inst'.weak
  <2>1. CASE k \in 1 .. Len(decisionq) /\ decisionq'[k] = decisionq[k]
    <3>1. decisionq[k].why < ri /\ decisionq[k].why \notin inst.weak /\ decisionq[k].why \in Nat
      BY <1>2, <2>1, TypeFacts
    <3>. QED BY <1>1, <2>1, <3>1
  <2>2. CASE decisionq'[k].why = i /\ i \notin inst.weak
    BY <1>1, <2>2
  <2>. QED BY <2>1, <2>2
<1>8. ASSUME NEW j \in RuleId' \ disabled', IsAssertion(rules'[j]), j < ri', j \notin inst'.weak
      PROVE  HoldsIn(decisionmap', rules'[j].w1)
  <2>1. j \in RuleId \ disabled /\ IsAssertion(rules[j]) /\ (j < ri \/ j = i)
    BY <1>1, <1>3, <1>8
  <2>2. rules[j].w1 \in Lit
    BY <2>1, TypeFacts DEF IsAssertion
  <2>3. CASE j < ri
    BY <1>2, <1>8, <2>1, <2>2, <2>3
  <2>4. CASE j = i
    BY <1>8, <2>4
  <2>. QED BY <2>1, <2>3, <2>4
<1>9. AssertedOK'
  BY <1>6, <1>7, <1>8 DEF AssertedOK, Searching, Resolving
<1>. QED BY <1>4, <1>5, <1>9, WhyKept DEF WatchInv

\* The decisions that were made stay what they were when one is added.
LEMMA PushKeeps ==
  ASSUME TypeInv, NEW l \in Lit, IsUndef(l), NEW w, NEW lev \in Nat, lev >= 1, Push(l, w, lev)
  PROVE  /\ Len(decisionq') = Len(decisionq) + 1 /\ decisionq'[Len(decisionq) + 1] = Decision(l, w)
         /\ \A k \in 1 .. Len(decisionq) : decisionq'[k] = decisionq[k]
         /\ \A k \in 1 .. Len(decisionq') : k \in 1 .. Len(decisionq) \/ k = Len(decisionq) + 1
         /\ decisionmap' \in Map
         /\ HoldsIn(decisionmap', l) /\ LevIn(decisionmap', l) = lev
         /\ \A m \in Lit : HoldsIn(decisionmap, m) =>
              HoldsIn(decisionmap', m) /\ LevIn(decisionmap', m) = LevIn(decisionmap, m)
<1>1. decisionmap \in Map /\ l \in Int /\ l # 0 /\ Pkg(l) \in Solvable /\ decisionmap[Pkg(l)] = 0
  BY TruthFacts, LitFacts
<1>2. decisionmap' = [decisionmap EXCEPT ![Pkg(l)] = Signed(l, lev)] /\ Signed(l, lev) \in Int
  BY <1>1 DEF Push, Signed
<1>3. decisionmap' \in Map /\ decisionmap'[Pkg(l)] = Signed(l, lev)
  BY <1>1, <1>2 DEF Map
<1>4. HoldsIn(decisionmap', l) /\ LevIn(decisionmap', l) = lev
  BY <1>1, <1>3 DEF HoldsIn, LevIn, Signed, Pkg
<1>5. ASSUME NEW m \in Lit, HoldsIn(decisionmap, m)
      PROVE  HoldsIn(decisionmap', m) /\ LevIn(decisionmap', m) = LevIn(decisionmap, m)
  <2>1. m \in Int /\ Pkg(m) \in Solvable /\ Pkg(m) # Pkg(l)
    BY <1>1, <1>5, LitFacts, SignFacts
  <2>2. decisionmap'[Pkg(m)] = decisionmap[Pkg(m)]
    BY <1>1, <1>2, <2>1 DEF Map
  <2>. QED BY <1>5, <2>1, <2>2 DEF HoldsIn, LevIn, Pkg
<1>6. /\ Len(decisionq') = Len(decisionq) + 1 /\ decisionq'[Len(decisionq) + 1] = Decision(l, w)
      /\ \A k \in 1 .. Len(decisionq) : decisionq'[k] = decisionq[k]
      /\ \A k \in 1 .. Len(decisionq') : k \in 1 .. Len(decisionq) \/ k = Len(decisionq) + 1
  <2>1. decisionq \in DecisionSeq /\ decisionq' = Append(decisionq, Decision(l, w))
    BY TruthFacts DEF Push
  <2>2. Len(decisionq) \in Nat
    BY TypeFacts
  <2>. QED BY <2>1, <2>2 DEF DecisionSeq
<1>. QED BY <1>3, <1>4, <1>5, <1>6

\* makeruledecisions ends: every assertion in use is decided, at level 1.
LEMMA AssertionsDone ==
  ASSUME TypeInv, TrailInv, WatchInv, pc \in {"assert", "weakassert"}, pc' = "propagate",
         UNCHANGED <<inst, rules, why, disabled, decisionq, decisionmap, propagate_index>>,
         \A i \in RuleId \ disabled : IsAssertion(rules[i]) => HoldsIn(decisionmap, rules[i].w1)
  PROVE  WatchInv'
<1>1. propagate_index' = 0
  BY TypeFacts DEF LocalsOK
<1>2. WatchesOK'
  BY <1>1, NothingSettled DEF Resolving
<1>3. EnabledReasons'
  BY DEF WatchInv, EnabledReasons
<1>4. ASSUME NEW i \in RuleId \ disabled, IsAssertion(rules[i])
      PROVE  HoldsIn(decisionmap, rules[i].w1) /\ LevIn(decisionmap, rules[i].w1) = 1
  <2>1. HoldsIn(decisionmap, rules[i].w1) /\ rules[i].w1 \in Lit
    BY <1>4, TypeFacts DEF IsAssertion
  <2>2. PICK k \in 1 .. Len(decisionq) : decisionq[k].p = rules[i].w1
    BY <2>1, TrailFacts
  <2>. QED BY <2>1, <2>2, AssertPhaseFacts
<1>5. RuleId' = RuleId
  BY DEF RuleId
<1>6. AssertedOK'
  BY <1>4, <1>5 DEF AssertedOK
<1>. QED BY <1>2, <1>3, <1>6, WhyKept DEF WatchInv

\* A weak assertion is dealt with.
LEMMA PassWeak ==
  ASSUME TypeInv, TrailInv, WatchInv, WeakDecide PROVE WatchInv'
<1> DEFINE i == Min(WeakAssertions(ri))
<1>1. /\ pc = "weakassert" /\ pc' = "weakassert" /\ WeakAssertions(ri) # {} /\ ri' = i + 1
      /\ UNCHANGED <<inst, rules, why, disabled, propagate_index>>
      /\ ~IsFalse(rules[i].w1)
      /\ \/ IsUndef(rules[i].w1) /\ Push(rules[i].w1, i, 1)
         \/ ~IsUndef(rules[i].w1) /\ UNCHANGED <<decisionq, decisionmap>>
  BY DEF WeakDecide, ruleVars
<1>2. /\ WeakAssertions(ri) \subseteq RuleId /\ RuleId \subseteq Nat /\ ri \in Nat /\ RuleId = 1 .. Len(rules)
      /\ Len(rules) \in Nat /\ ri >= 1
  BY <1>1, TypeFacts DEF WeakAssertions, RuleAssertions, RuleId, TypeLocals
<1>3. i \in WeakAssertions(ri) /\ \A j \in WeakAssertions(ri) : i <= j
  BY <1>1, <1>2, MinIn
<1> HIDE DEF i
<1>4. i \in RuleId /\ IsAssertion(rules[i]) /\ i \notin disabled /\ i \in Nat
  BY <1>2, <1>3 DEF WeakAssertions, RuleAssertions
<1>5. rules[i].w1 \in Lit
  BY <1>4, TypeFacts DEF IsAssertion
<1>6. RuleId' = RuleId
  BY <1>1 DEF RuleId
<1>7. WatchesOK'
  BY <1>1, NothingSettled DEF Resolving
<1>8. \A k \in 1 .. Len(decisionq) : decisionq[k].why # 0 => decisionq[k].why \notin disabled
  BY <1>1 DEF WatchInv, EnabledReasons
<1>9. /\ HoldsIn(decisionmap', rules[i].w1)
      /\ \A m \in Lit : HoldsIn(decisionmap, m) => HoldsIn(decisionmap', m)
      /\ \A k \in 1 .. Len(decisionq') : decisionq'[k].why # 0 => decisionq'[k].why \notin disabled
  <2>1. CASE IsUndef(rules[i].w1) /\ Push(rules[i].w1, i, 1)
    <3>1. /\ Len(decisionq') = Len(decisionq) + 1 /\ decisionq'[Len(decisionq) + 1] = Decision(rules[i].w1, i)
          /\ \A k \in 1 .. Len(decisionq) : decisionq'[k] = decisionq[k]
          /\ \A k \in 1 .. Len(decisionq') : k \in 1 .. Len(decisionq) \/ k = Len(decisionq) + 1
          /\ HoldsIn(decisionmap', rules[i].w1)
          /\ \A m \in Lit : HoldsIn(decisionmap, m) => HoldsIn(decisionmap', m)
      BY <1>5, <2>1, PushKeeps
    <3>2. Decision(rules[i].w1, i).why = i
      BY DEF Decision
    <3>. QED BY <1>4, <1>8, <3>1, <3>2
  <2>2. CASE ~IsUndef(rules[i].w1) /\ UNCHANGED <<decisionq, decisionmap>>
    <3>1. HoldsIn(decisionmap, rules[i].w1)
      BY <1>1, <1>5, <2>2, TruthFacts, SignFacts
    <3>. QED BY <1>8, <2>2, <3>1
  <2>. QED BY <1>1, <2>1, <2>2
<1>10. EnabledReasons'
  BY <1>1, <1>9 DEF EnabledReasons
<1>11. ASSUME NEW j \in RuleId \ disabled, IsAssertion(rules[j]), j < i + 1 \/ j \notin inst.weak
       PROVE  HoldsIn(decisionmap', rules[j].w1)
  <2>1. j < ri \/ j \notin inst.weak \/ j = i
    <3>1. CASE ~(j < ri) /\ j \in inst.weak
      <4>1. j \in WeakAssertions(ri)
        BY <1>2, <1>11, <3>1 DEF WeakAssertions, RuleAssertions
      <4>. QED BY <1>2, <1>3, <1>4, <1>11, <4>1
    <3>. QED BY <3>1
  <2>2. rules[j].w1 \in Lit
    BY <1>11, TypeFacts DEF IsAssertion
  <2>3. CASE j < ri \/ j \notin inst.weak
    <3>1. HoldsIn(decisionmap, rules[j].w1)
      BY <1>1, <1>11, <2>3 DEF WatchInv, AssertedOK
    <3>. QED BY <1>9, <2>2, <3>1
  <2>. QED BY <1>9, <2>1, <2>3
<1>12. AssertedOK'
  BY <1>1, <1>6, <1>11 DEF AssertedOK, Searching, Resolving
<1>. QED BY <1>1, <1>7, <1>10, <1>12, WhyKept DEF WatchInv

\* makeruledecisions decides every assertion in use.
LEMMA AssertionsWatch == TypeInv /\ TrailInv /\ WatchInv /\ Assertions => WatchInv'
<1> SUFFICES ASSUME TypeInv, TrailInv, WatchInv, Assertions PROVE WatchInv'
  OBVIOUS
<1>1. pc = "assert" =>
        /\ \A k \in 1 .. Len(decisionq) : decisionq[k].why < ri
        /\ \A k \in 1 .. Len(decisionq) : decisionq[k].why # 0 => decisionq[k].why \notin disabled
  BY DEF WatchInv, AssertedOK, EnabledReasons
<1>2. CASE MakeRuleDecisions
  BY <1>2, StartOverWatch DEF MakeRuleDecisions, ruleVars
<1>3. CASE AssertLearntStatus
  <2>1. /\ pc = "assert" /\ pc' = "assert" /\ havedisabled /\ havedisabled' = FALSE
        /\ UNCHANGED <<inst, rules, why, decisionq, decisionmap, ri>>
        /\ disabled' = EnableDisableLearntRules(disabled)
    BY <1>3 DEF AssertLearntStatus, ruleVars, trailVars
  <2>2. ri <= NBase + 1 /\ ri \in Nat /\ NBase \in Nat /\ RuleId' = RuleId
    BY <2>1, TypeFacts DEF WatchInv, AssertedOK, TypeLocals, RuleId
  <2>3. \A i \in Nat : i # 0 /\ i < ri => (i \in disabled' <=> i \in disabled)
    <3> TAKE i \in Nat
    <3>1. i # 0 /\ i < ri => i \in 1 .. NBase
      BY <2>2
    <3>. QED BY <2>1, <3>1, StatusFacts DEF WatchInv
  <2>4. WatchesOK'
    BY <2>1, NothingSettled DEF Resolving
  <2>5. EnabledReasons'
    <3> SUFFICES ASSUME NEW k \in 1 .. Len(decisionq), decisionq[k].why # 0
                 PROVE  decisionq[k].why \notin disabled'
      BY <2>1 DEF EnabledReasons
    <3>1. decisionq[k].why < ri /\ decisionq[k].why \notin disabled /\ decisionq[k].why \in Nat
      BY <1>1, <2>1, TypeFacts
    <3>. QED BY <2>3, <3>1
  <2>6. ASSUME NEW i \in RuleId \ disabled', IsAssertion(rules[i]), i < ri, i \notin inst.weak
        PROVE  HoldsIn(decisionmap, rules[i].w1)
    <3>1. i \in Nat /\ i # 0
      BY TypeFacts
    <3>2. i \notin disabled
      BY <2>3, <2>6, <3>1
    <3>. QED BY <2>1, <2>6, <3>2 DEF WatchInv, AssertedOK
  <2>7. AssertedOK'
    BY <1>1, <2>1, <2>2, <2>6 DEF AssertedOK, WatchInv, Searching, Resolving
  <2>. QED BY <2>1, <2>4, <2>5, <2>7, WhyKept DEF WatchInv
<1>4. CASE AssertDecide
  <2>1. /\ pc = "assert" /\ pc' = "assert" /\ UNCHANGED <<inst, rules, why, havedisabled, disabled>>
    BY <1>4 DEF AssertDecide, ruleVars
  <2>2. PICK i \in RuleAssertions(ri) : /\ AtAssertion(i) /\ ~Skipped(i) /\ IsUndef(rules[i].w1)
                                        /\ Push(rules[i].w1, i, 1) /\ ri' = i + 1
    BY <1>4 DEF AssertDecide
  <2>3. rules[i].w1 \in Lit
    BY <2>2, NextAssertion DEF AtAssertion
  <2>4. /\ HoldsIn(decisionmap', rules[i].w1)
        /\ \A m \in Lit : HoldsIn(decisionmap, m) => HoldsIn(decisionmap', m)
        /\ \A k \in 1 .. Len(decisionq') : \/ k \in 1 .. Len(decisionq) /\ decisionq'[k] = decisionq[k]
                                           \/ decisionq'[k] = Decision(rules[i].w1, i)
    <3>1. /\ Len(decisionq') = Len(decisionq) + 1 /\ decisionq'[Len(decisionq) + 1] = Decision(rules[i].w1, i)
          /\ \A k \in 1 .. Len(decisionq) : decisionq'[k] = decisionq[k]
          /\ \A k \in 1 .. Len(decisionq') : k \in 1 .. Len(decisionq) \/ k = Len(decisionq) + 1
          /\ HoldsIn(decisionmap', rules[i].w1)
          /\ \A m \in Lit : HoldsIn(decisionmap, m) => HoldsIn(decisionmap', m)
      BY <2>2, <2>3, PushKeeps
    <3>. QED BY <3>1
  <2>5. Decision(rules[i].w1, i).why = i /\ i \notin inst.weak /\ i \notin disabled
    BY <2>2 DEF Decision, Skipped
  <2>. QED BY <1>1, <2>1, <2>2, <2>4, <2>5, PassAssertion
<1>5. CASE AssertSkip
  <2>1. /\ pc = "assert" /\ pc' = "assert"
        /\ UNCHANGED <<inst, rules, why, havedisabled, disabled, decisionq, decisionmap>>
    BY <1>5 DEF AssertSkip, ruleVars, trailVars
  <2>2. PICK i \in RuleAssertions(ri) : /\ AtAssertion(i) /\ ri' = i + 1
                                        /\ Skipped(i) \/ IsTrue(rules[i].w1)
    BY <1>5 DEF AssertSkip
  <2>3. rules[i].w1 \in Lit
    BY <2>2, NextAssertion DEF AtAssertion
  <2>4. i \in disabled' \/ i \in inst.weak \/ HoldsIn(decisionmap', rules[i].w1)
    BY <2>1, <2>2, <2>3, TruthFacts DEF Skipped
  <2>. QED BY <1>1, <2>1, <2>2, <2>4, PassAssertion
<1>6. CASE AssertDropLearnt
  <2>1. /\ pc = "assert" /\ pc' = "assert"
        /\ UNCHANGED <<inst, rules, why, havedisabled, decisionq, decisionmap>>
    BY <1>6 DEF AssertDropLearnt, ruleVars, trailVars
  <2>2. PICK i \in RuleAssertions(ri) : AtAssertion(i) /\ ri' = i + 1 /\ disabled' = disabled \cup {i}
    BY <1>6 DEF AssertDropLearnt
  <2>3. \A k \in 1 .. Len(decisionq) : decisionq[k].why # 0 => decisionq[k].why \notin disabled'
    <3> SUFFICES ASSUME NEW k \in 1 .. Len(decisionq), decisionq[k].why # 0
                 PROVE  decisionq[k].why \notin disabled'
      OBVIOUS
    <3>1. decisionq[k].why < ri /\ decisionq[k].why \notin disabled /\ decisionq[k].why \in Nat
      BY <1>1, <2>1, TypeFacts
    <3>2. ri <= i /\ i \in Nat /\ ri \in Nat
      BY <2>2, NextAssertion DEF AtAssertion
    <3>3. decisionq[k].why # i
      BY <3>1, <3>2
    <3>. QED BY <2>2, <3>1, <3>3
  <2>. QED BY <2>1, <2>2, <2>3, PassAssertion
<1>7. CASE AssertUninstall
  BY <1>7, StartOverWatch DEF AssertUninstall, StartOver, ruleVars
<1>8. CASE AssertConflict
  <2>1. UNCHANGED <<inst, rules, why>>
    BY <1>8 DEF AssertConflict, ruleVars
  <2>2. \/ SystemOnly /\ ri' = 1 /\ pc' = "assert"
        \/ pc' = "failed"
    BY <1>8 DEF AssertConflict, StartOver
  <2>3. ASSUME pc' = "failed" PROVE WatchInv'
    <3>1. WatchesOK'
      BY <2>3, NothingSettled DEF Resolving
    <3>2. EnabledReasons' /\ AssertedOK'
      BY <2>3 DEF EnabledReasons, AssertedOK, Searching, Resolving
    <3>. QED BY <2>1, <3>1, <3>2, WhyKept DEF WatchInv
  <2>. QED BY <2>1, <2>2, <2>3, StartOverWatch
<1>9. CASE AssertEnd
  <2>1. /\ pc = "assert" /\ RuleAssertions(ri) = {}
        /\ UNCHANGED <<inst, rules, why, disabled, decisionq, decisionmap, propagate_index>>
    BY <1>9 DEF AssertEnd, ruleVars, trailVars
  <2>2. \A i \in RuleId : IsAssertion(rules[i]) => i < ri
    <3> SUFFICES ASSUME NEW i \in RuleId, IsAssertion(rules[i]), ~(i < ri) PROVE FALSE
      OBVIOUS
    <3>1. ri \in Nat /\ Len(rules) \in Nat /\ i \in 1 .. Len(rules)
      BY TypeFacts DEF TypeLocals, RuleId
    <3>2. i \in RuleAssertions(ri)
      BY <3>1 DEF RuleAssertions
    <3>. QED BY <2>1, <3>2
  <2>3. \A i \in RuleId \ disabled :
          IsAssertion(rules[i]) /\ i \notin inst.weak => HoldsIn(decisionmap, rules[i].w1)
    BY <2>1, <2>2 DEF WatchInv, AssertedOK
  <2>4. CASE inst.weak = {}
    BY <1>9, <2>1, <2>3, <2>4, AssertionsDone DEF AssertEnd
  <2>5. CASE inst.weak # {}
    <3>1. pc' = "weakassert" /\ ri' = 1
      BY <1>9, <2>5 DEF AssertEnd
    <3>2. WatchesOK'
      BY <3>1, NothingSettled DEF Resolving
    <3>3. EnabledReasons'
      BY <1>1, <2>1 DEF EnabledReasons
    <3>4. \A i \in RuleId' : ~(i < 1)
      BY DEF RuleId
    <3>5. RuleId' = RuleId
      BY <2>1 DEF RuleId
    <3>6. AssertedOK'
      BY <2>1, <2>3, <3>1, <3>4, <3>5 DEF AssertedOK, Searching, Resolving
    <3>. QED BY <2>1, <3>2, <3>3, <3>6, WhyKept DEF WatchInv
  <2>. QED BY <2>4, <2>5
<1>10. CASE WeakDecide
  BY <1>10, PassWeak
<1>11. CASE WeakConflict
  BY <1>11, StartOverWatch DEF WeakConflict, StartOver, ruleVars
<1>12. CASE WeakEnd
  <2>1. /\ pc = "weakassert" /\ pc' = "propagate" /\ WeakAssertions(ri) = {}
        /\ UNCHANGED <<inst, rules, why, disabled, decisionq, decisionmap, propagate_index>>
    BY <1>12 DEF WeakEnd, ruleVars, trailVars
  <2>2. ASSUME NEW i \in RuleId \ disabled, IsAssertion(rules[i]) PROVE i < ri \/ i \notin inst.weak
    <3>1. ri \in Nat /\ Len(rules) \in Nat /\ i \in 1 .. Len(rules)
      BY TypeFacts DEF TypeLocals, RuleId
    <3>2. ~(i < ri) /\ i \in inst.weak => i \in WeakAssertions(ri)
      BY <2>2, <3>1 DEF WeakAssertions, RuleAssertions
    <3>. QED BY <2>1, <3>2
  <2>3. \A i \in RuleId \ disabled : IsAssertion(rules[i]) => HoldsIn(decisionmap, rules[i].w1)
    BY <2>1, <2>2 DEF WatchInv, AssertedOK
  <2>. QED BY <2>1, <2>3, AssertionsDone
<1>. QED BY <1>2, <1>3, <1>4, <1>5, <1>6, <1>7, <1>8, <1>9, <1>10, <1>11, <1>12 DEF Assertions

-----------------------------------------------------------------------------
(* propagate *)

Active == Searching \cup Resolving \cup {"unsolvable"}

\* Before the first call nothing is propagated.
LEMMA InitWatch == Init => WatchInv
<1> SUFFICES ASSUME Init PROVE WatchInv
  OBVIOUS
<1>1. Len(decisionq) = 0 /\ pc = "start" /\ Len(why) = 0
  BY DEF Init
<1>2. WatchesOK /\ WhyOlder
  BY <1>1 DEF WatchesOK, WhyOlder
<1>3. EnabledReasons /\ AssertedOK
  BY <1>1 DEF EnabledReasons, AssertedOK, Searching, Resolving
<1>. QED BY <1>2, <1>3 DEF WatchInv

\* A watch stays guarded while the decisions up to its level stay.
LEMMA GuardKept ==
  ASSUME NEW r \in Rule, NEW p \in Lit, NEW map \in Map, NEW map2 \in Map,
         r.w1 \in Lit, r.w2 \in Lit, Guarded(r, p, map),
         HoldsIn(map, p), NEW n \in Nat, LevIn(map, p) <= n,
         \A m \in Lit : HoldsIn(map, m) /\ LevIn(map, m) <= n =>
           HoldsIn(map2, m) /\ LevIn(map2, m) = LevIn(map, m)
  PROVE  Guarded(r, p, map2)
<1>1. LevIn(map2, p) = LevIn(map, p)
  OBVIOUS
<1>2. ASSUME NEW o \in Lit, HoldsIn(map, o), LevIn(map, o) <= LevIn(map, p)
      PROVE  HoldsIn(map2, o) /\ LevIn(map2, o) <= LevIn(map2, p)
  <2>1. LevIn(map, o) \in Nat /\ LevIn(map, p) \in Nat
    BY SignFacts
  <2>2. LevIn(map, o) <= n
    BY <1>2, <2>1
  <2>. QED BY <1>1, <1>2, <2>2
<1>. QED BY <1>2 DEF Guarded

\* What a step of the search keeps when no rule is disabled and no decision
\* of level 1 is taken back.
LEMMA SearchKeeps ==
  ASSUME TypeInv, TrailInv, WatchInv, pc \in Active, pc' \in Active,
         UNCHANGED <<inst, why, disabled>>, RuleId' = RuleId,
         \A j \in RuleId : IsAssertion(rules'[j]) => rules'[j] = rules[j],
         \A m \in Lit : HoldsIn(decisionmap, m) /\ LevIn(decisionmap, m) = 1 =>
           HoldsIn(decisionmap', m) /\ LevIn(decisionmap', m) = 1,
         \A k \in 1 .. Len(decisionq') :
           decisionq'[k].why # 0 => decisionq'[k].why \notin disabled
  PROVE  EnabledReasons' /\ AssertedOK' /\ WhyOlder'
<1>1. EnabledReasons'
  BY DEF EnabledReasons
<1>2. ASSUME NEW i \in RuleId \ disabled, IsAssertion(rules'[i])
      PROVE  HoldsIn(decisionmap', rules'[i].w1) /\ LevIn(decisionmap', rules'[i].w1) = 1
  <2>1. rules'[i] = rules[i] /\ rules[i].w1 \in Lit
    BY <1>2, TypeFacts DEF IsAssertion
  <2>2. HoldsIn(decisionmap, rules[i].w1) /\ LevIn(decisionmap, rules[i].w1) = 1
    BY <1>2, <2>1 DEF WatchInv, AssertedOK, Active
  <2>. QED BY <2>1, <2>2
<1>3. pc' # "assert" /\ pc' # "weakassert"
  BY DEF Active, Searching, Resolving
<1>4. AssertedOK'
  BY <1>2, <1>3 DEF AssertedOK
<1>. QED BY <1>1, <1>4, WhyKept DEF WatchInv

\* The step leaves rules and decisions alone.
LEMMA SearchStays ==
  ASSUME TypeInv, TrailInv, WatchInv, pc \in Active, pc' \in Active,
         UNCHANGED <<inst, rules, why, disabled, decisionq, decisionmap>>,
         \A i \in RuleId \ disabled : rules[i].w2 # 0 =>
           \A k \in 1 .. Len(decisionq) :
             Settled(i, k)' => Settled(i, k) \/ Guarded(rules[i], decisionq[k].p, decisionmap)
  PROVE  WatchInv'
<1>1. RuleId' = RuleId
  BY DEF RuleId
<1>2. WatchesOK'
  <2> SUFFICES ASSUME NEW i \in RuleId \ disabled, rules[i].w2 # 0, NEW k \in 1 .. Len(decisionq), Settled(i, k)'
               PROVE  Guarded(rules[i], decisionq[k].p, decisionmap)
    BY <1>1 DEF WatchesOK
  <2>. QED BY DEF WatchInv, WatchesOK
<1>3. \A k \in 1 .. Len(decisionq) : decisionq[k].why # 0 => decisionq[k].why \notin disabled
  BY DEF WatchInv, EnabledReasons, Active, Searching, Resolving
<1>. QED BY <1>1, <1>2, <1>3, SearchKeeps DEF WatchInv

\* propagate visits every rule that watches a literal that became false.
LEMMA VisitWatch ==
  ASSUME TypeInv, TrailInv, WatchInv, NEW i \in todo
  PROVE  /\ i \in RuleId /\ pkg \in Lit /\ propagate_index \in 1 .. Len(decisionq)
         /\ decisionq[propagate_index].p \in Lit /\ pkg = -decisionq[propagate_index].p
         /\ ~HoldsIn(decisionmap, pkg) /\ LevIn(decisionmap, decisionq[propagate_index].p) = level
         /\ \A k \in 1 .. Len(decisionq) : k <= propagate_index => Settled(i, k) \/ k = propagate_index
         /\ \A j \in RuleId \ {i} : \A k \in 1 .. Len(decisionq) :
              k <= propagate_index /\ ~(k = propagate_index /\ j \in todo \ {i}) => Settled(j, k)
<1>1. /\ pc = "propagate" /\ pkg \in Lit /\ Falsified(pkg)
      /\ propagate_index \in 1 .. Len(decisionq) /\ pkg = -decisionq[propagate_index].p
      /\ DecisionLev(propagate_index) = level
  BY VisitLevel
<1>2. i \in RuleId
  BY VisitFacts
<1>3. ~HoldsIn(decisionmap, pkg)
  BY <1>1, TrailFacts, SignFacts DEF Falsified
<1>4. decisionq[propagate_index].p \in Lit /\ LevIn(decisionmap, decisionq[propagate_index].p) = level
  BY <1>1, TypeFacts, TrailFacts
<1>5. \A k \in 1 .. Len(decisionq) : k <= propagate_index => Settled(i, k) \/ k = propagate_index
  BY <1>1 DEF Settled
<1>6. \A j \in RuleId \ {i} : \A k \in 1 .. Len(decisionq) :
        k <= propagate_index /\ ~(k = propagate_index /\ j \in todo \ {i}) => Settled(j, k)
  BY <1>1 DEF Settled
<1>. QED BY <1>1, <1>2, <1>3, <1>4, <1>5, <1>6

\* A rule whose other watch holds is skipped, and so is one out of use.
LEMMA SkipWatch == TypeInv /\ TrailInv /\ WatchInv /\ PropagateSkip => WatchInv'
<1> SUFFICES ASSUME TypeInv, TrailInv, WatchInv, PropagateSkip PROVE WatchInv'
  OBVIOUS
<1>1. PICK i \in todo : todo' = todo \ {i} /\ SkipRule(i)
  BY DEF PropagateSkip, Visit
<1>2. /\ pc = "propagate" /\ pc' = "propagate"
      /\ UNCHANGED <<inst, rules, why, disabled, decisionq, decisionmap, propagate_index, pkg>>
  BY DEF PropagateSkip, Visit, ruleVars, trailVars
<1>3. ASSUME NEW j \in RuleId \ disabled, rules[j].w2 # 0, NEW k \in 1 .. Len(decisionq), Settled(j, k)'
      PROVE  Settled(j, k) \/ Guarded(rules[j], decisionq[k].p, decisionmap)
  <2>1. k <= propagate_index /\ ~(k = propagate_index /\ j \in todo \ {i})
    BY <1>1, <1>2, <1>3 DEF Settled, Resolving
  <2>2. CASE j # i
    BY <2>1, <2>2, VisitWatch
  <2>3. CASE j = i
    <3>1. Settled(i, k) \/ k = propagate_index
      BY <2>1, VisitWatch
    <3>2. CASE k = propagate_index
      <4>1. OtherWatch(i) \in Lit /\ IsTrue(OtherWatch(i)) /\ {OtherWatch(i), pkg} = {rules[i].w1, rules[i].w2}
            /\ OtherWatch(i) # pkg
        BY <1>1, <1>3, <2>3, VisitLevel DEF SkipRule
      <4>2. HoldsIn(decisionmap, OtherWatch(i)) /\ LevIn(decisionmap, OtherWatch(i)) <= level
        BY <1>2, <4>1, TruthFacts, SearchFacts DEF Searching
      <4>3. decisionq[k].p \in Lit /\ pkg = -decisionq[k].p /\ LevIn(decisionmap, decisionq[k].p) = level
        BY <3>2, VisitWatch
      <4>4. decisionq[k].p = -rules[i].w1 => rules[i].w2 = OtherWatch(i)
        BY <4>1, <4>3, PkgFacts, TypeFacts, VisitWatch
      <4>5. decisionq[k].p = -rules[i].w2 => rules[i].w1 = OtherWatch(i)
        BY <4>1, <4>3, PkgFacts, TypeFacts, VisitWatch
      <4>. QED BY <2>3, <4>2, <4>3, <4>4, <4>5 DEF Guarded
    <3>. QED BY <2>3, <3>1, <3>2
  <2>. QED BY <2>2, <2>3
<1>4. pc \in Active /\ pc' \in Active
  BY <1>2 DEF Active, Searching
<1>. QED BY <1>2, <1>3, <1>4, SearchStays

\* The watch on the literal that became false moves to one that is not false.
LEMMA MoveWatchOK == TypeInv /\ TrailInv /\ WatchInv /\ PropagateMove => WatchInv'
<1> SUFFICES ASSUME TypeInv, TrailInv, WatchInv, PropagateMove PROVE WatchInv'
  OBVIOUS
<1>1. PICK i \in todo : /\ todo' = todo \ {i} /\ ~SkipRule(i)
                        /\ \E l \in FreeLits(i) : rules' = [rules EXCEPT ![i] = MoveWatch(rules[i], l)]
  BY DEF PropagateMove, Visit
<1>2. PICK l \in FreeLits(i) : rules' = [rules EXCEPT ![i] = MoveWatch(rules[i], l)]
  BY <1>1
<1>3. /\ pc = "propagate" /\ pc' = "propagate"
      /\ UNCHANGED <<inst, why, disabled, decisionq, decisionmap, propagate_index, pkg>>
  BY DEF PropagateMove, Visit, trailVars
<1>4. /\ rules \in Seq(Rule) /\ i \in RuleId /\ RuleId = 1 .. Len(rules)
      /\ l \in Lit /\ l # 0 /\ l # OtherWatch(i) /\ OtherWatch(i) # 0 /\ rules[i] \in Rule
      /\ ~IsFalse(l) /\ OtherWatch(i) \in Lit /\ i \notin disabled /\ ~IsTrue(OtherWatch(i))
  BY <1>1, VisitFacts, VisitLevel, TypeFacts, LitFacts DEF TypeRules, FreeLits, RuleId, SkipRule
<1>5. /\ MoveWatch(rules[i], l) \in Rule
      /\ {MoveWatch(rules[i], l).w1, MoveWatch(rules[i], l).w2} = {l, OtherWatch(i)}
      /\ MoveWatch(rules[i], l).w2 # 0
  BY <1>4, VisitFacts, LitFacts DEF MoveWatch, OtherWatch, Rule
<1>6. RuleId' = RuleId
  BY <1>2, <1>4, <1>5, ExceptSeq DEF RuleId
<1>7. \A j \in RuleId : rules'[j] = IF j = i THEN MoveWatch(rules[i], l) ELSE rules[j]
  BY <1>2, <1>4
<1>8. WatchesOK'
  <2> SUFFICES ASSUME NEW j \in RuleId \ disabled, rules'[j].w2 # 0,
                      NEW k \in 1 .. Len(decisionq), Settled(j, k)'
               PROVE  Guarded(rules'[j], decisionq[k].p, decisionmap)
    BY <1>3, <1>6 DEF WatchesOK
  <2>1. k <= propagate_index /\ ~(k = propagate_index /\ j \in todo \ {i})
    BY <1>1, <1>3 DEF Settled, Resolving
  <2>2. CASE j # i
    <3>1. Settled(j, k) /\ rules'[j] = rules[j]
      BY <1>7, <2>1, <2>2, VisitWatch
    <3>. QED BY <3>1 DEF WatchInv, WatchesOK
  <2>3. CASE j = i
    <3>1. decisionq[k].p \in Lit /\ HoldsIn(decisionmap, decisionq[k].p)
      BY TypeFacts, TrailFacts
    <3>2. decisionq[k].p # -l
      <4>1. ~HoldsIn(decisionmap, -l)
        BY <1>4, TruthFacts
      <4>. QED BY <3>1, <4>1
    <3>3. decisionq[k].p # -OtherWatch(i)
      <4> SUFFICES ASSUME decisionq[k].p = -OtherWatch(i) PROVE FALSE
        OBVIOUS
      <4>1. OtherWatch(i) # pkg /\ {OtherWatch(i), pkg} = {rules[i].w1, rules[i].w2} /\ rules[i].w2 # 0
        BY VisitLevel, VisitFacts, LitFacts
      <4>2. k # propagate_index
        <5>1. k = propagate_index => pkg = -decisionq[k].p
          BY VisitWatch
        <5>. QED BY <1>4, <4>1, <5>1, PkgFacts
      <4>3. Settled(i, k)
        BY <2>1, <4>2, VisitWatch
      <4>4. Guarded(rules[i], decisionq[k].p, decisionmap)
        BY <1>4, <4>1, <4>3 DEF WatchInv, WatchesOK
      <4>5. HoldsIn(decisionmap, pkg)
        <5>1. CASE OtherWatch(i) = rules[i].w1
          <6>1. pkg = rules[i].w2 /\ decisionq[k].p = -rules[i].w1
            BY <4>1, <5>1
          <6>. QED BY <4>4, <6>1 DEF Guarded
        <5>2. CASE OtherWatch(i) = rules[i].w2
          <6>1. pkg = rules[i].w1 /\ decisionq[k].p = -rules[i].w2
            BY <4>1, <5>2
          <6>. QED BY <4>4, <6>1 DEF Guarded
        <5>. QED BY <4>1, <5>1, <5>2
      <4>. QED BY <4>5, VisitWatch
    <3>4. rules'[i] = MoveWatch(rules[i], l)
      BY <1>4, <1>7
    <3>5. rules'[i].w1 \in {l, OtherWatch(i)} /\ rules'[i].w2 \in {l, OtherWatch(i)}
      BY <1>5, <3>4
    <3>. QED BY <2>3, <3>2, <3>3, <3>5 DEF Guarded
  <2>. QED BY <2>2, <2>3
<1>9. \A j \in RuleId : IsAssertion(rules'[j]) => rules'[j] = rules[j]
  BY <1>5, <1>7 DEF IsAssertion
<1>10. \A k \in 1 .. Len(decisionq) : decisionq[k].why # 0 => decisionq[k].why \notin disabled
  BY <1>3 DEF WatchInv, EnabledReasons
<1>11. pc \in Active /\ pc' \in Active
  BY <1>3 DEF Active, Searching
<1>. QED BY <1>3, <1>6, <1>8, <1>9, <1>10, <1>11, SearchKeeps DEF WatchInv

\* The last literal of a rule is decided at the level of the one that became false.
LEMMA UnitWatch == TypeInv /\ TrailInv /\ WatchInv /\ PropagateUnit => WatchInv'
<1> SUFFICES ASSUME TypeInv, TrailInv, WatchInv, PropagateUnit PROVE WatchInv'
  OBVIOUS
<1>1. PICK i \in todo : /\ todo' = todo \ {i} /\ ~SkipRule(i) /\ ~IsFalse(OtherWatch(i))
                        /\ Push(OtherWatch(i), i, level)
  BY DEF PropagateUnit, Visit
<1>2. /\ pc = "propagate" /\ pc' = "propagate"
      /\ UNCHANGED <<inst, rules, why, disabled, propagate_index, pkg, level>>
  BY DEF PropagateUnit, Visit, ruleVars
<1> DEFINE l == OtherWatch(i)
<1>3. /\ l \in Lit /\ i \in RuleId /\ i \notin disabled /\ l # pkg /\ {l, pkg} = {rules[i].w1, rules[i].w2}
  BY <1>1, VisitLevel, VisitFacts DEF SkipRule
<1>4. IsUndef(l)
  <2>1. ~IsTrue(l)
    BY <1>1 DEF SkipRule
  <2>2. ~HoldsIn(decisionmap, l) /\ ~HoldsIn(decisionmap, -l)
    BY <1>1, <1>3, <2>1, TruthFacts
  <2>. QED BY <1>3, <2>2, TruthFacts, SignFacts
<1>5. Push(l, i, level) /\ level \in Nat /\ level >= 1
  BY <1>1, <1>2, SearchFacts DEF Searching
<1> HIDE DEF l
<1>6. /\ Len(decisionq') = Len(decisionq) + 1 /\ decisionq'[Len(decisionq) + 1] = Decision(l, i)
      /\ \A k \in 1 .. Len(decisionq) : decisionq'[k] = decisionq[k]
      /\ \A k \in 1 .. Len(decisionq') : k \in 1 .. Len(decisionq) \/ k = Len(decisionq) + 1
      /\ decisionmap' \in Map
      /\ HoldsIn(decisionmap', l) /\ LevIn(decisionmap', l) = level
      /\ \A m \in Lit : HoldsIn(decisionmap, m) =>
           HoldsIn(decisionmap', m) /\ LevIn(decisionmap', m) = LevIn(decisionmap, m)
  BY <1>3, <1>4, <1>5, PushKeeps
<1>7. RuleId' = RuleId
  BY <1>2 DEF RuleId
<1>8. WatchesOK'
  <2> SUFFICES ASSUME NEW j \in RuleId \ disabled, rules[j].w2 # 0,
                      NEW k \in 1 .. Len(decisionq'), Settled(j, k)'
               PROVE  Guarded(rules[j], decisionq'[k].p, decisionmap')
    BY <1>2, <1>7 DEF WatchesOK
  <2>1. k <= propagate_index /\ ~(k = propagate_index /\ j \in todo \ {i})
    BY <1>1, <1>2 DEF Settled, Resolving
  <2>2. propagate_index \in 1 .. Len(decisionq)
    BY VisitWatch
  <2>3. k \in 1 .. Len(decisionq)
    BY <1>6, <2>1, <2>2
  <2>4. decisionq'[k] = decisionq[k] /\ decisionq[k].p \in Lit /\ HoldsIn(decisionmap, decisionq[k].p)
        /\ LevIn(decisionmap, decisionq[k].p) \in Nat
    BY <1>6, <2>3, TypeFacts, TrailFacts
  <2>5. ASSUME Settled(j, k) PROVE Guarded(rules[j], decisionq'[k].p, decisionmap')
    <3>1. Guarded(rules[j], decisionq[k].p, decisionmap)
      BY <2>3, <2>5 DEF WatchInv, WatchesOK
    <3>2. rules[j] \in Rule /\ rules[j].w2 \in Lit /\ rules[j].w1 \in Lit
      BY TypeFacts, TrailFacts DEF WatchShape
    <3>3. ASSUME NEW n \in Nat, n = LevIn(decisionmap, decisionq[k].p)
          PROVE  Guarded(rules[j], decisionq[k].p, decisionmap')
      <4>1. LevIn(decisionmap, decisionq[k].p) <= n
        BY <3>3
      <4>2. \A m \in Lit : HoldsIn(decisionmap, m) /\ LevIn(decisionmap, m) <= n =>
              HoldsIn(decisionmap', m) /\ LevIn(decisionmap', m) = LevIn(decisionmap, m)
        BY <1>6
      <4>. QED BY <1>6, <2>4, <3>1, <3>2, <4>1, <4>2, TrailFacts, GuardKept
    <3>. QED BY <2>4, <3>3
  <2>6. CASE j # i
    <3>1. Settled(j, k)
      BY <2>1, <2>3, <2>6, VisitWatch
    <3>. QED BY <2>5, <3>1
  <2>7. CASE j = i
    <3>1. Settled(i, k) \/ k = propagate_index
      BY <2>1, <2>3, VisitWatch
    <3>2. CASE k = propagate_index
      <4>1. pkg = -decisionq[k].p /\ LevIn(decisionmap, decisionq[k].p) = level
        BY <3>2, VisitWatch
      <4>2. LevIn(decisionmap', decisionq[k].p) = level
        BY <1>6, <2>4, <4>1
      <4>3. LevIn(decisionmap', l) <= LevIn(decisionmap', decisionq[k].p)
        BY <1>5, <1>6, <4>2
      <4>4. rules[i].w1 \in Lit /\ rules[i].w2 \in Lit
        BY VisitFacts
      <4>5. decisionq[k].p = -rules[i].w1 => rules[i].w2 = l
        BY <1>3, <4>1, <4>4, PkgFacts
      <4>6. decisionq[k].p = -rules[i].w2 => rules[i].w1 = l
        BY <1>3, <4>1, <4>4, PkgFacts
      <4>. QED BY <1>6, <2>4, <2>7, <4>3, <4>5, <4>6 DEF Guarded
    <3>. QED BY <2>5, <2>7, <3>1, <3>2
  <2>. QED BY <2>6, <2>7
<1>9. \A k \in 1 .. Len(decisionq') : decisionq'[k].why # 0 => decisionq'[k].why \notin disabled
  <2> TAKE k \in 1 .. Len(decisionq')
  <2>1. CASE k \in 1 .. Len(decisionq)
    BY <1>2, <1>6, <2>1 DEF WatchInv, EnabledReasons
  <2>2. CASE k = Len(decisionq) + 1
    BY <1>3, <1>6, <2>2 DEF Decision
  <2>. QED BY <1>6, <2>1, <2>2
<1>10. pc \in Active /\ pc' \in Active
  BY <1>2 DEF Active, Searching
<1>. QED BY <1>2, <1>6, <1>7, <1>8, <1>9, <1>10, SearchKeeps DEF WatchInv

\* What was decided below the level of a conflict has been propagated.
LEMMA ConflictWatch == TypeInv /\ TrailInv /\ WatchInv /\ PropagateConflict => WatchInv'
<1> SUFFICES ASSUME TypeInv, TrailInv, WatchInv, PropagateConflict PROVE WatchInv'
  OBVIOUS
<1>1. PICK i \in todo : pc = "propagate" /\ confl' = i
  BY DEF PropagateConflict
<1>2. /\ pc' \in {"unsolvable", "analyze"}
      /\ UNCHANGED <<inst, rules, why, disabled, decisionq, decisionmap, level>>
  BY DEF PropagateConflict, ruleVars, trailVars
<1>3. /\ propagate_index \in 1 .. Len(decisionq) /\ level \in Nat
      /\ DecisionLev(propagate_index) = level
  BY <1>1, VisitLevel, SearchFacts DEF Searching
<1>4. ASSUME NEW j \in RuleId \ disabled, NEW k \in 1 .. Len(decisionq), Settled(j, k)'
      PROVE  Settled(j, k)
  <2>1. DecisionLev(k) < level
    BY <1>2, <1>4 DEF Settled, DecisionLev, Lev
  <2>2. ~(propagate_index < k)
    <3>1. propagate_index < k => DecisionLev(propagate_index) <= DecisionLev(k)
      BY <1>3, TrailFacts DEF TrailFull, Trail
    <3>2. DecisionLev(k) \in Nat
      BY TrailFacts
    <3>. QED BY <1>3, <2>1, <3>1, <3>2
  <2>3. k # propagate_index
    BY <1>3, <2>1
  <2>. QED BY <1>1, <1>3, <2>2, <2>3 DEF Settled
<1>5. pc \in Active /\ pc' \in Active
  BY <1>1, <1>2 DEF Active, Searching, Resolving
<1>. QED BY <1>2, <1>4, <1>5, SearchStays

\* propagate keeps every rule in use watched.
LEMMA PropagateWatch == TypeInv /\ TrailInv /\ WatchInv /\ Propagate => WatchInv'
<1> SUFFICES ASSUME TypeInv, TrailInv, WatchInv, Propagate PROVE WatchInv'
  OBVIOUS
<1>1. CASE PropagateNext
  <2>1. /\ pc = "propagate" /\ pc' = "propagate" /\ pkg = 0 /\ propagate_index < Len(decisionq)
        /\ UNCHANGED <<inst, rules, why, disabled, decisionq, decisionmap>>
        /\ pkg' = -decisionq[propagate_index + 1].p /\ todo' = Watching(pkg')
        /\ propagate_index' = propagate_index + 1
    BY <1>1 DEF PropagateNext, ruleVars
  <2>2. todo = {} /\ propagate_index \in Nat
    BY <2>1, TypeFacts DEF LocalsOK, TypeTrail
  <2>3. ASSUME NEW j \in RuleId \ disabled, rules[j].w2 # 0, NEW k \in 1 .. Len(decisionq), Settled(j, k)'
        PROVE  Settled(j, k) \/ Guarded(rules[j], decisionq[k].p, decisionmap)
    <3>1. k <= propagate_index + 1 /\ ~(k = propagate_index + 1 /\ j \in todo')
      BY <2>1, <2>3 DEF Settled, Resolving
    <3>2. CASE k <= propagate_index
      BY <2>1, <2>2, <3>2 DEF Settled
    <3>3. CASE ~(k <= propagate_index)
      <4>1. k = propagate_index + 1 /\ j \notin Watching(pkg')
        BY <2>1, <2>2, <3>1, <3>3
      <4>2. pkg' = -decisionq[k].p /\ j \in 1 .. Len(rules)
        BY <2>1, <4>1 DEF RuleId
      <4>3. pkg' # rules[j].w1 /\ pkg' # rules[j].w2
        BY <2>1, <2>3, <4>1, <4>2 DEF Watching
      <4>4. rules[j].w1 \in Lit /\ rules[j].w2 \in Lit
        BY <2>3, TypeFacts, TrailFacts DEF WatchShape
      <4>5. decisionq[k].p # -rules[j].w1 /\ decisionq[k].p # -rules[j].w2
        BY <4>2, <4>3, <4>4, PkgFacts
      <4>. QED BY <4>5 DEF Guarded
    <3>. QED BY <3>2, <3>3
  <2>4. pc \in Active /\ pc' \in Active
    BY <2>1 DEF Active, Searching
  <2>. QED BY <2>1, <2>3, <2>4, SearchStays
<1>2. CASE PropagateDecisionDone
  <2>1. /\ pc = "propagate" /\ pc' = "propagate"
        /\ UNCHANGED <<inst, rules, why, disabled, decisionq, decisionmap, propagate_index, todo>>
    BY <1>2 DEF PropagateDecisionDone, ruleVars, trailVars
  <2>2. \A j : \A k : Settled(j, k)' => Settled(j, k)
    BY <2>1 DEF Settled, Resolving
  <2>3. pc \in Active /\ pc' \in Active
    BY <2>1 DEF Active, Searching
  <2>. QED BY <2>1, <2>2, <2>3, SearchStays
<1>3. CASE PropagateEnd
  <2>1. /\ pc = "propagate" /\ pc' = "decide" /\ pkg = 0 /\ propagate_index = Len(decisionq)
        /\ UNCHANGED <<inst, rules, why, disabled, decisionq, decisionmap>>
    BY <1>3 DEF PropagateEnd, ruleVars, trailVars
  <2>2. todo = {} /\ Len(decisionq) \in Nat
    BY <2>1, TypeFacts DEF LocalsOK
  <2>3. \A j : \A k \in 1 .. Len(decisionq) : Settled(j, k)
    BY <2>1, <2>2 DEF Settled
  <2>4. pc \in Active /\ pc' \in Active
    BY <2>1 DEF Active, Searching
  <2>. QED BY <2>1, <2>3, <2>4, SearchStays
<1>. QED BY <1>1, <1>2, <1>3, SkipWatch, MoveWatchOK, UnitWatch, ConflictWatch DEF Propagate

-----------------------------------------------------------------------------
(* analyze, solver_reset and the decisions *)

\* analyze and analyze_unsolvable look at the decisions and change none.
LEMMA AnalyzeWatch ==
  ASSUME TypeInv, TrailInv, WatchInv,
         pc \in Resolving \cup {"unsolvable"}, pc' \in Resolving \cup {"unsolvable"},
         pc = "unsolvable" <=> pc' = "unsolvable",
         UNCHANGED <<inst, rules, why, disabled, decisionq, decisionmap, level>>
  PROVE  WatchInv'
<1>1. \A j : \A k : Settled(j, k)' => Settled(j, k)
  BY DEF Settled, Resolving, DecisionLev, Lev
<1>2. pc \in Active /\ pc' \in Active
  BY DEF Active
<1>. QED BY <1>1, <1>2, SearchStays

\* Decisions above a level are taken back and a literal is decided.
LEMMA RevertWatch ==
  ASSUME TypeInv, TrailInv, WatchInv, NEW n \in Nat, NEW l \in Nat,
         n < Len(decisionq) + 1, Len(decisionq') = n + 1,
         \A k \in 1 .. n : decisionq'[k] = decisionq[k] /\ LevIn(decisionmap, decisionq[k].p) <= l,
         \A m \in Lit : HoldsIn(decisionmap, m) /\ LevIn(decisionmap, m) <= l =>
           HoldsIn(decisionmap', m) /\ LevIn(decisionmap', m) = LevIn(decisionmap, m),
         decisionmap' \in Map,
         NEW i \in RuleId \ disabled, rules[i].w2 # 0,
         NEW k \in 1 .. n, Settled(i, k)
  PROVE  Guarded(rules[i], decisionq'[k].p, decisionmap')
<1>1. k \in 1 .. Len(decisionq)
  BY TypeFacts
<1>2. Guarded(rules[i], decisionq[k].p, decisionmap)
  BY <1>1 DEF WatchInv, WatchesOK
<1>3. decisionq[k].p \in Lit /\ HoldsIn(decisionmap, decisionq[k].p)
  BY <1>1, TypeFacts, TrailFacts
<1>4. rules[i] \in Rule /\ rules[i].w1 \in Lit /\ rules[i].w2 \in Lit
  BY TypeFacts, TrailFacts DEF WatchShape
<1>. QED BY <1>2, <1>3, <1>4, TrailFacts, GuardKept

\* The learnt rule watches the literal it decides and one of its level.
LEMMA LearnWatch == TypeInv /\ TrailInv /\ WatchInv /\ Learn => WatchInv'
<1> SUFFICES ASSUME TypeInv, TrailInv, WatchInv, Learn PROVE WatchInv'
  OBVIOUS
<1> DEFINE n == KeepLen(rlevel)
           new == Len(rules) + 1
<1>1. /\ pc = "learn" /\ pc' = "propagate" /\ UNCHANGED <<inst, disabled, pkg>>
      /\ RuleId' = RuleId \cup {new} /\ new \notin RuleId /\ new \in Nat
      /\ \A i \in RuleId : rules'[i] = rules[i]
      /\ rules'[new].w1 = uip
      /\ IF q = {} THEN rules'[new].w2 = 0
         ELSE rules'[new].w2 \in q /\ LevIn(decisionmap, rules'[new].w2) = rlevel
      /\ uip \in Lit /\ \A m \in q : m \in Lit
      /\ rlevel \in Nat /\ 1 <= rlevel /\ rlevel < level
  BY LearnFacts
<1>2. /\ n \in 1 .. Len(decisionq) - 1
      /\ \A k \in 1 .. Len(decisionq) : k <= n <=> DecisionLev(k) <= rlevel
      /\ TrailFull(decisionq', decisionmap', rules')
      /\ Len(decisionq') = n + 1 /\ decisionq'[n + 1] = Decision(uip, new)
      /\ \A k \in 1 .. n : decisionq'[k] = decisionq[k] /\ DecisionLev(k)' = DecisionLev(k)
      /\ propagate_index' = n
      /\ \A m \in Lit : HoldsIn(decisionmap, m) /\ LevIn(decisionmap, m) <= rlevel =>
           HoldsIn(decisionmap', m) /\ LevIn(decisionmap', m) = LevIn(decisionmap, m)
      /\ HoldsIn(decisionmap', uip) /\ LevIn(decisionmap', uip) = rlevel
  BY LearnRevert
<1>3. q = {} => rlevel = 1
  BY <1>1, AnalyzeFacts DEF Resolving
<1> HIDE DEF n, new
<1>4. decisionmap' \in Map /\ TypeInv'
  <2>1. TypeInv'
    BY NextType DEF Next, Analyze
  <2>2. decisionmap' \in [Solvable -> Int]
    BY <2>1 DEF TypeInv, TypeOK, TypeTrail
  <2>. QED BY <2>1, <2>2 DEF Map
<1>5. todo' = {}
  <2>1. pkg = 0
    BY <1>1, TrailFacts DEF QueueOK
  <2>. QED BY <1>1, <1>4, <2>1 DEF TypeInv, LocalsOK
<1>6. n \in Nat /\ Len(decisionq) \in Nat /\ n < Len(decisionq) + 1
  BY <1>2, TypeFacts
<1>7. \A k \in 1 .. n : /\ decisionq'[k] = decisionq[k] /\ k \in 1 .. Len(decisionq)
                        /\ decisionq[k].p \in Lit
                        /\ LevIn(decisionmap, decisionq[k].p) <= rlevel
                        /\ DecisionLev(k) < level
  <2> TAKE k \in 1 .. n
  <2>1. k \in 1 .. Len(decisionq) /\ k <= n
    BY <1>2, <1>6
  <2>2. DecisionLev(k) <= rlevel /\ DecisionLev(k) \in Nat /\ DecisionLev(k) = LevIn(decisionmap, decisionq[k].p)
    BY <1>2, <2>1, TrailFacts
  <2>3. DecisionLev(k) < level
    BY <1>1, <2>2, AnalyzeFacts DEF Resolving
  <2>. QED BY <1>2, <2>1, <2>2, <2>3, TypeFacts
<1>8. WatchesOK'
  <2> SUFFICES ASSUME NEW i \in RuleId' \ disabled, rules'[i].w2 # 0,
                      NEW k \in 1 .. Len(decisionq'), Settled(i, k)'
               PROVE  Guarded(rules'[i], decisionq'[k].p, decisionmap')
    BY <1>1 DEF WatchesOK
  <2>1. k \in 1 .. n
    BY <1>1, <1>2, <1>6 DEF Settled, Resolving
  <2>2. CASE i \in RuleId
    <3>1. Settled(i, k)
      BY <1>1, <1>7, <2>1 DEF Settled, Resolving
    <3>2. rules'[i] = rules[i] /\ i \in RuleId \ disabled
      BY <1>1, <2>2
    <3>3. \A j \in 1 .. n : decisionq'[j] = decisionq[j] /\ LevIn(decisionmap, decisionq[j].p) <= rlevel
      BY <1>7
    <3>4. Guarded(rules[i], decisionq'[k].p, decisionmap')
      BY <1>1, <1>2, <1>4, <1>6, <2>1, <3>1, <3>2, <3>3, RevertWatch
    <3>. QED BY <3>2, <3>4
  <2>3. CASE i = new
    <3> DEFINE w2 == rules'[new].w2
    <3>1. w2 \in q /\ w2 \in Lit /\ LevIn(decisionmap, w2) = rlevel /\ rules'[i].w1 = uip /\ rules'[i].w2 = w2
      BY <1>1, <2>3
    <3> HIDE DEF w2
    <3>2. decisionq'[k].p # -uip
      <4>1. HoldsIn(decisionmap', decisionq'[k].p)
        BY <1>2, <1>6, <2>1 DEF TrailFull, Trail
      <4>2. ~HoldsIn(decisionmap', -uip)
        BY <1>1, <1>2, <1>4, SignFacts
      <4>. QED BY <4>1, <4>2
    <3>3. decisionq'[k].p = -w2 => LevIn(decisionmap', decisionq'[k].p) = rlevel
      <4>1. LevIn(decisionmap', decisionq[k].p) = LevIn(decisionmap, decisionq[k].p)
        BY <1>2, <1>7, <2>1, TrailFacts
      <4>2. LevIn(decisionmap, -w2) = rlevel
        BY <3>1, SignFacts, TrailFacts
      <4>. QED BY <1>7, <2>1, <4>1, <4>2
    <3>. QED BY <1>1, <1>2, <3>1, <3>2, <3>3 DEF Guarded
  <2>. QED BY <1>1, <2>2, <2>3
<1>9. EnabledReasons'
  <2> SUFFICES ASSUME NEW k \in 1 .. Len(decisionq'), decisionq'[k].why # 0
               PROVE  decisionq'[k].why \notin disabled
    BY <1>1 DEF EnabledReasons
  <2>1. CASE k \in 1 .. n
    BY <1>1, <1>7, <2>1 DEF WatchInv, EnabledReasons
  <2>2. CASE k = n + 1
    <3>1. new \notin disabled
      BY <1>1, TypeFacts DEF TypeRules
    <3>. QED BY <1>2, <2>2, <3>1 DEF Decision
  <2>. QED BY <1>2, <1>6, <2>1, <2>2
<1>10. AssertedOK'
  <2> SUFFICES ASSUME NEW i \in RuleId' \ disabled, IsAssertion(rules'[i])
               PROVE  HoldsIn(decisionmap', rules'[i].w1) /\ LevIn(decisionmap', rules'[i].w1) = 1
    BY <1>1 DEF AssertedOK
  <2>1. CASE i \in RuleId
    <3>1. rules'[i] = rules[i] /\ IsAssertion(rules[i]) /\ i \in RuleId \ disabled /\ rules[i].w1 \in Lit
      BY <1>1, <2>1, TypeFacts DEF IsAssertion
    <3>2. HoldsIn(decisionmap, rules[i].w1) /\ LevIn(decisionmap, rules[i].w1) = 1
      BY <1>1, <3>1 DEF WatchInv, AssertedOK, Resolving
    <3>. QED BY <1>1, <1>2, <3>1, <3>2
  <2>2. CASE i = new
    <3>1. q = {}
      <4>1. rules'[new].w2 = 0
        BY <2>2 DEF IsAssertion
      <4>. QED BY <1>1, <4>1, LitFacts
    <3>2. rlevel = 1
      BY <1>3, <3>1
    <3>. QED BY <1>1, <1>2, <2>2, <3>2
  <2>. QED BY <1>1, <2>1, <2>2
<1>11. WhyOlder'
  <2>1. why' = Append(why, proof) /\ NBase' = NBase
    BY <1>1 DEF Learn, NBase
  <2>2. why \in Seq(SUBSET RuleId) /\ proof \subseteq RuleId /\ RuleId = 1 .. NBase + Len(why) /\ Len(why) \in Nat
        /\ NBase \in Nat
    BY TypeFacts DEF TypeRules, TypeAnalysis, RuleId
  <2>3. Len(why') = Len(why) + 1 /\ why'[Len(why) + 1] = proof /\ \A j \in 1 .. Len(why) : why'[j] = why[j]
    BY <2>1, <2>2, AppendProperties
  <2> SUFFICES ASSUME NEW j \in 1 .. Len(why') PROVE why'[j] \subseteq 1 .. NBase + j - 1
    BY <2>1 DEF WhyOlder
  <2>4. CASE j \in 1 .. Len(why)
    BY <2>3, <2>4 DEF WatchInv, WhyOlder
  <2>5. CASE j = Len(why) + 1
    <3>1. NBase + j - 1 = NBase + Len(why)
      BY <2>2, <2>5
    <3>. QED BY <2>2, <2>3, <2>5, <3>1
  <2>. QED BY <2>2, <2>3, <2>4, <2>5
<1>. QED BY <1>8, <1>9, <1>10, <1>11 DEF WatchInv

\* solver_reset forgets every decision.
LEMMA ResetWatch ==
  ASSUME TypeInv, TrailInv, WatchInv, NEW d, Reset(d), UNCHANGED <<inst, why>> PROVE WatchInv'
<1>1. Len(decisionq') = 0 /\ pc' = "start"
  BY DEF Reset
<1>2. WatchesOK'
  BY <1>1 DEF WatchesOK
<1>3. EnabledReasons' /\ AssertedOK'
  BY <1>1 DEF EnabledReasons, AssertedOK, Searching, Resolving
<1>. QED BY <1>2, <1>3, WhyKept DEF WatchInv

\* Every step of analyze_unsolvable keeps WatchInv.
LEMMA AnalyzeUnsolvableWatch == TypeInv /\ TrailInv /\ WatchInv /\ AnalyzeUnsolvable => WatchInv'
<1> SUFFICES ASSUME TypeInv, TrailInv, WatchInv, AnalyzeUnsolvable PROVE WatchInv'
  OBVIOUS
<1>1. CASE UnsolvableWalk
  <2>1. /\ pc = "unsolvable" /\ pc' = "unsolvable"
        /\ UNCHANGED <<inst, rules, why, disabled, decisionq, decisionmap, level>>
    BY <1>1 DEF UnsolvableWalk, ruleVars, trailVars
  <2>. QED BY <2>1, AnalyzeWatch
<1>2. CASE UnsolvableWeak
  BY <1>2, ResetWatch DEF UnsolvableWeak, ruleVars
<1>3. CASE UnsolvableUninstall
  BY <1>3, ResetWatch DEF UnsolvableUninstall, ruleVars
<1>4. CASE UnsolvableDisable
  BY <1>4, ResetWatch DEF UnsolvableDisable, ruleVars
<1>5. CASE UnsolvableFail
  <2>1. pc' = "failed" /\ UNCHANGED <<inst, why>>
    BY <1>5 DEF UnsolvableFail, ruleVars
  <2>2. WatchesOK'
    BY <2>1, NothingSettled DEF Resolving
  <2>3. EnabledReasons' /\ AssertedOK'
    BY <2>1 DEF EnabledReasons, AssertedOK, Searching, Resolving
  <2>. QED BY <2>1, <2>2, <2>3, WhyKept DEF WatchInv
<1>. QED BY <1>1, <1>2, <1>3, <1>4, <1>5 DEF AnalyzeUnsolvable

\* A free decision: everything before it has been propagated.
LEMMA FreeWatch ==
  ASSUME TypeInv, TrailInv, WatchInv, pc = "decide", NEW p \in Lit, NEW flag, SetPropagateLearn(p, flag),
         IsUndef(p)
  PROVE  WatchInv'
<1>1. /\ pc' = "propagate" /\ UNCHANGED <<inst, rules, why, disabled, propagate_index>>
  BY DEF SetPropagateLearn, ruleVars
<1>2. level \in Nat /\ propagate_index = Len(decisionq) /\ Len(decisionq) \in Nat
  BY SearchFacts, TrailFacts, TypeFacts DEF Searching, QueueOK
<1>3. ASSUME NEW lev \in Nat, lev >= 1, NEW w, w = 0, Push(p, w, lev)
      PROVE  /\ Len(decisionq') = Len(decisionq) + 1 /\ decisionq'[Len(decisionq) + 1].why = 0
             /\ \A k \in 1 .. Len(decisionq) : decisionq'[k] = decisionq[k]
             /\ decisionmap' \in Map
             /\ \A m \in Lit : HoldsIn(decisionmap, m) =>
                  HoldsIn(decisionmap', m) /\ LevIn(decisionmap', m) = LevIn(decisionmap, m)
  <2>1. Decision(p, w).why = 0
    BY <1>3 DEF Decision
  <2>. QED BY <1>3, <2>1, PushKeeps
<1>4. /\ Len(decisionq') = Len(decisionq) + 1 /\ decisionq'[Len(decisionq) + 1].why = 0
      /\ \A k \in 1 .. Len(decisionq) : decisionq'[k] = decisionq[k]
      /\ decisionmap' \in Map
      /\ \A m \in Lit : HoldsIn(decisionmap, m) =>
           HoldsIn(decisionmap', m) /\ LevIn(decisionmap', m) = LevIn(decisionmap, m)
  <2>1. level + 1 \in Nat /\ level + 1 >= 1 /\ Push(p, 0, level + 1)
    BY <1>2 DEF SetPropagateLearn
  <2>. QED BY <1>3, <2>1
<1>5. RuleId' = RuleId
  BY <1>1 DEF RuleId
<1>6. WatchesOK'
  <2> SUFFICES ASSUME NEW i \in RuleId \ disabled, rules[i].w2 # 0,
                      NEW k \in 1 .. Len(decisionq'), Settled(i, k)'
               PROVE  Guarded(rules[i], decisionq'[k].p, decisionmap')
    BY <1>1, <1>5 DEF WatchesOK
  <2>1. k \in 1 .. Len(decisionq)
    BY <1>1, <1>2 DEF Settled, Resolving
  <2>2. \A j \in 1 .. Len(decisionq) : LevIn(decisionmap, decisionq[j].p) <= level
    BY SearchFacts, TrailFacts DEF Searching
  <2>3. Settled(i, k)
    BY DEF Settled
  <2>4. Len(decisionq) < Len(decisionq) + 1
    BY <1>2
  <2>. QED BY <1>2, <1>4, <2>1, <2>2, <2>3, <2>4, RevertWatch
<1>7. \A k \in 1 .. Len(decisionq') : decisionq'[k].why # 0 => decisionq'[k].why \notin disabled
  <2> TAKE k \in 1 .. Len(decisionq')
  <2>1. CASE k \in 1 .. Len(decisionq)
    BY <1>4, <2>1 DEF WatchInv, EnabledReasons
  <2>2. CASE k = Len(decisionq) + 1
    BY <1>4, <2>2
  <2>. QED BY <1>2, <1>4, <2>1, <2>2
<1>8. pc \in Active /\ pc' \in Active
  BY <1>1 DEF Active, Searching
<1>. QED BY <1>1, <1>4, <1>5, <1>6, <1>7, <1>8, SearchKeeps DEF WatchInv

\* So does the choice of what to decide next.
LEMMA SelectionWatch ==
  ASSUME TypeInv, TrailInv, WatchInv, pc = "decide", NEW S, S \subseteq Lit, NEW dq \in Selections(S), NEW flag,
         SelectAndInstall(dq, flag)
  PROVE  WatchInv'
<1>1. PICK n \in 1 .. MaxChoices : dq \in [1 .. n -> UndecidedOf(S)]
  BY DEF Selections
<1>2. dq[1] \in UndecidedOf(S)
  BY <1>1, MaxChoicesAssumption
<1>3. dq[1] \in Lit /\ IsUndef(dq[1])
  BY <1>2 DEF UndecidedOf
<1>4. SetPropagateLearn(dq[1], flag)
  BY DEF SelectAndInstall
<1>. QED BY <1>3, <1>4, FreeWatch

\* takebranch goes back to decisions that were propagated.
LEMMA TakeBranchWatch == TypeInv /\ TrailInv /\ WatchInv /\ TakeBranch => WatchInv'
<1> SUFFICES ASSUME TypeInv, TrailInv, WatchInv, TakeBranch PROVE WatchInv'
  OBVIOUS
<1>a. PICK b \in 1 .. Len(branches) : \E j \in DOMAIN branches[b].cands : TakeBranchTo(b, j)
  BY DEF TakeBranch
<1>1. PICK j \in DOMAIN branches[b].cands : TakeBranchTo(b, j)
  BY <1>a
<1>2. pc = "decide"
  BY DEF TakeBranch
<1> DEFINE l == branches[b].level
           p == branches[b].cands[j]
<1>3. /\ l >= 1 /\ l < level /\ p \in Lit /\ l \in Nat
      /\ CandidatesOpen(branches[b], decisionmap)
  BY <1>1, <1>2, TakeBranchFacts DEF BranchRec
<1>4. LevIn(decisionmap, p) = 0 \/ LevIn(decisionmap, p) > l
  BY <1>1, <1>3 DEF CandidatesOpen
<1>5. /\ RevertAndPush(l, p, 0, l + 1) /\ pc' = "propagate"
      /\ UNCHANGED <<inst, rules, why, disabled, pkg, todo>>
  BY <1>1 DEF TakeBranchTo, ruleVars, propVars
<1> HIDE DEF l, p
<1>6. ASSUME NEW w \in Nat, w = 0, NEW lev \in Nat, lev = l + 1
      PROVE  /\ KeepLen(l) \in 1 .. Len(decisionq) - 1
             /\ \A k \in 1 .. Len(decisionq) : k <= KeepLen(l) <=> DecisionLev(k) <= l
             /\ Len(decisionq') = KeepLen(l) + 1
             /\ decisionq'[KeepLen(l) + 1].why = 0
             /\ \A k \in 1 .. KeepLen(l) : decisionq'[k] = decisionq[k]
             /\ propagate_index' = KeepLen(l)
             /\ \A m \in Lit : HoldsIn(decisionmap, m) /\ LevIn(decisionmap, m) <= l =>
                  HoldsIn(decisionmap', m) /\ LevIn(decisionmap', m) = LevIn(decisionmap, m)
  <2>1. RevertAndPush(l, p, w, lev) /\ lev >= l
        /\ IF w = 0 THEN l < lev ELSE lev = l /\ \E k \in 1 .. Len(decisionq) : DecisionLev(k) = l
    BY <1>3, <1>5, <1>6
  <2>2. w # 0 => /\ p \in rules[w].lits
                 /\ \A m \in rules[w].lits \ {p} : m \in Lit /\ Falsified(m) /\ LevIn(decisionmap, m) <= l
    BY <1>6
  <2>3. Reasons(decisionq, rules)
    BY TrailFacts DEF TrailFull
  <2>4. pc \in Searching \cup Resolving
    BY <1>2 DEF Searching
  <2>5. Decision(p, w).why = 0
    BY <1>6 DEF Decision
  <2>. QED BY <1>3, <1>4, <2>1, <2>2, <2>3, <2>4, <2>5, RevertPush
<1> DEFINE n == KeepLen(l)
<1>7. /\ n \in 1 .. Len(decisionq) - 1 /\ n \in Nat /\ n < Len(decisionq) + 1
      /\ \A k \in 1 .. Len(decisionq) : k <= n <=> DecisionLev(k) <= l
      /\ Len(decisionq') = n + 1 /\ decisionq'[n + 1].why = 0
      /\ \A k \in 1 .. n : decisionq'[k] = decisionq[k]
      /\ propagate_index' = n
      /\ \A m \in Lit : HoldsIn(decisionmap, m) /\ LevIn(decisionmap, m) <= l =>
           HoldsIn(decisionmap', m) /\ LevIn(decisionmap', m) = LevIn(decisionmap, m)
  <2>1. l + 1 \in Nat /\ 0 \in Nat
    BY <1>3
  <2>. QED BY <1>6, <2>1, TypeFacts
<1> HIDE DEF n
<1>8. decisionmap' \in Map
  <2>1. TypeInv'
    BY NextType DEF Next, Decide
  <2>2. decisionmap' \in [Solvable -> Int]
    BY <2>1 DEF TypeInv, TypeOK, TypeTrail
  <2>. QED BY <2>2 DEF Map
<1>9. \A k \in 1 .. n : /\ decisionq'[k] = decisionq[k] /\ k \in 1 .. Len(decisionq)
                        /\ LevIn(decisionmap, decisionq[k].p) <= l
  <2> TAKE k \in 1 .. n
  <2>1. k \in 1 .. Len(decisionq) /\ k <= n
    BY <1>7, TypeFacts
  <2>. QED BY <1>7, <2>1, TrailFacts
<1>10. RuleId' = RuleId
  BY <1>5 DEF RuleId
<1>11. WatchesOK'
  <2> SUFFICES ASSUME NEW i \in RuleId \ disabled, rules[i].w2 # 0,
                      NEW k \in 1 .. Len(decisionq'), Settled(i, k)'
               PROVE  Guarded(rules[i], decisionq'[k].p, decisionmap')
    BY <1>5, <1>10 DEF WatchesOK
  <2>1. k \in 1 .. n
    BY <1>5, <1>7 DEF Settled, Resolving
  <2>2. Settled(i, k)
    BY <1>2 DEF Settled
  <2>3. \A i2 \in 1 .. n : decisionq'[i2] = decisionq[i2] /\ LevIn(decisionmap, decisionq[i2].p) <= l
    BY <1>9
  <2>. QED BY <1>3, <1>7, <1>8, <2>1, <2>2, <2>3, RevertWatch
<1>12. \A k \in 1 .. Len(decisionq') : decisionq'[k].why # 0 => decisionq'[k].why \notin disabled
  <2> TAKE k \in 1 .. Len(decisionq')
  <2>1. CASE k \in 1 .. n
    BY <1>2, <1>9, <2>1 DEF WatchInv, EnabledReasons
  <2>2. CASE k = n + 1
    BY <1>7, <2>2
  <2>. QED BY <1>7, <2>1, <2>2
<1>13. pc \in Active /\ pc' \in Active
  BY <1>2, <1>5 DEF Active, Searching
<1>14. \A m \in Lit : HoldsIn(decisionmap, m) /\ LevIn(decisionmap, m) = 1 =>
         HoldsIn(decisionmap', m) /\ LevIn(decisionmap', m) = 1
  BY <1>3, <1>7
<1>. QED BY <1>5, <1>10, <1>11, <1>12, <1>13, <1>14, SearchKeeps DEF WatchInv

\* The decisions of the phases of solver_run_sat.
LEMMA DecideWatch == TypeInv /\ TrailInv /\ WatchInv /\ Decide => WatchInv'
<1> SUFFICES ASSUME TypeInv, TrailInv, WatchInv, Decide PROVE WatchInv'
  OBVIOUS
<1>1. CASE DecideRule
  <2>1. PICK i \in Unfulfilled : \E dq \in Selections(rules[i].lits) : SelectAndInstall(dq, inst.disablerules)
    BY <1>1 DEF DecideRule
  <2>2. rules[i].lits \subseteq Lit
    BY TypeFacts DEF Unfulfilled, RuleId
  <2>. QED BY <1>1, <2>1, <2>2, SelectionWatch DEF DecideRule
<1>2. CASE DecideInstalled
  <2>1. PICK p \in DOMAIN inst.installed :
          \E dq \in Selections({p}) \cup Selections(inst.installed[p]) : SelectAndInstall(dq, inst.disablerules)
    BY <1>2 DEF DecideInstalled
  <2>2. {p} \subseteq Lit /\ inst.installed[p] \subseteq Lit
    BY InstanceFacts, LitFacts, TypeFacts DEF TypeRules
  <2>3. pc = "decide"
    BY <1>2 DEF DecideInstalled
  <2>. QED BY <2>1, <2>2, <2>3, SelectionWatch
<1>3. CASE DecideExtra
  <2>1. inst.extras \subseteq Lit
    BY InstanceFacts, LitFacts, TypeFacts DEF TypeRules
  <2>. QED BY <1>3, <2>1, SelectionWatch DEF DecideExtra
<1>4. CASE DecideErase
  <2>1. PICK p \in UndecidedOf(DOMAIN inst.installed) : SetPropagateLearn(-p, FALSE)
    BY <1>4 DEF DecideErase
  <2>2. p \in Lit /\ -p \in Lit /\ Pkg(-p) = Pkg(p)
    BY <2>1, InstanceFacts, LitFacts, TypeFacts DEF TypeRules, UndecidedOf
  <2>3. IsUndef(-p)
    BY <2>1, <2>2 DEF UndecidedOf, IsUndef
  <2>4. pc = "decide"
    BY <1>4 DEF DecideErase
  <2>. QED BY <2>1, <2>2, <2>3, <2>4, FreeWatch
<1>5. CASE DropChoiceRules
  <2>1. UNCHANGED <<inst, why>> /\ Reset(CheckUnneededChoiceRules(disabled))
    BY <1>5 DEF DropChoiceRules, ruleVars
  <2>. QED BY <2>1, ResetWatch
<1>6. CASE Finish
  <2>1. /\ UNCHANGED <<inst, rules, why, disabled, decisionq, decisionmap>>
        /\ pc = "decide" /\ pc' = "done"
    BY <1>6 DEF Finish, ruleVars, trailVars
  <2>2. \A i : \A k : Settled(i, k)
    BY <2>1 DEF Settled
  <2>3. pc \in Active /\ pc' \in Active
    BY <2>1 DEF Active, Searching
  <2>. QED BY <2>1, <2>2, <2>3, SearchStays
<1>. QED BY <1>1, <1>2, <1>3, <1>4, <1>5, <1>6, TakeBranchWatch DEF Decide

\* A step that changes nothing.
LEMMA StutterWatch == TypeInv /\ TrailInv /\ WatchInv /\ UNCHANGED vars => WatchInv'
<1> SUFFICES ASSUME TypeInv, TrailInv, WatchInv, UNCHANGED vars PROVE WatchInv'
  OBVIOUS
<1>1. UNCHANGED <<inst, rules, why, disabled, decisionq, decisionmap, level, pkg, todo, propagate_index, pc,
                  ri, havedisabled>>
  BY DEF vars, ruleVars, trailVars, propVars, assertVars
<1>2. RuleId' = RuleId /\ NBase' = NBase /\ \A i : \A k : Settled(i, k)' <=> Settled(i, k)
  BY <1>1 DEF RuleId, NBase, Settled, DecisionLev, Lev
<1>3. WatchesOK'
  BY <1>1, <1>2 DEF WatchInv, WatchesOK
<1>4. EnabledReasons' /\ AssertedOK' /\ WhyOlder'
  BY <1>1, <1>2 DEF WatchInv, EnabledReasons, AssertedOK, WhyOlder
<1>. QED BY <1>3, <1>4 DEF WatchInv

\* Every step keeps the watches.
LEMMA NextWatch == TypeInv /\ TrailInv /\ WatchInv /\ [Next]_vars => WatchInv'
<1>1. ASSUME TypeInv, TrailInv, WatchInv, Analyze PROVE WatchInv'
  <2>1. CASE AnalyzeRule \/ AnalyzeDone \/ AnalyzeUip \/ AnalyzeResolve
    <3>1. /\ pc \in Resolving /\ pc' \in Resolving
          /\ UNCHANGED <<inst, rules, why, disabled, decisionq, decisionmap, level>>
      BY <2>1 DEF AnalyzeRule, AnalyzeDone, AnalyzeUip, AnalyzeResolve, Resolving, ruleVars, trailVars
    <3>. QED BY <1>1, <3>1, AnalyzeWatch DEF Resolving
  <2>. QED BY <1>1, <2>1, LearnWatch DEF Analyze
<1>. QED BY <1>1, AssertionsWatch, PropagateWatch, AnalyzeUnsolvableWatch, DecideWatch, StutterWatch
         DEF Next, Terminated

\* The invariant of the watches is inductive on top of the one of the decisions.
THEOREM WatchesInvariant == Spec => [](TypeInv /\ TrailInv /\ WatchInv)
<1>1. Init => WatchInv
  BY InitWatch
<1>2. TypeInv /\ TrailInv /\ WatchInv /\ [Next]_vars => WatchInv'
  BY NextWatch
<1>. QED BY <1>1, <1>2, DecisionsInvariant, PTL DEF Spec

\* After propagation a rule in use has a true literal or two undecided ones.
LEMMA WatchGives == TypeInv /\ TrailInv /\ WatchInv => PropagationComplete
<1> SUFFICES ASSUME TypeInv, TrailInv, WatchInv, pc = "decide",
                    NEW i \in RuleId \ disabled, rules[i].w1 # 0,
                    ~ \E l \in rules[i].lits : IsTrue(l)
             PROVE  \E l, m \in rules[i].lits : l # m /\ IsUndef(l) /\ IsUndef(m)
  BY DEF PropagationComplete
<1>1. rules[i].w1 \in Lit /\ rules[i].w1 \in rules[i].lits
  BY TypeFacts DEF RuleShape
<1>2. ~HoldsIn(decisionmap, rules[i].w1)
  BY <1>1, TruthFacts
<1>3. rules[i].w2 # 0
  BY <1>2 DEF WatchInv, AssertedOK, IsAssertion, Searching
<1>4. rules[i].w2 \in Lit /\ rules[i].w2 \in rules[i].lits /\ rules[i].w1 # rules[i].w2
  BY <1>3, TypeFacts, TrailFacts DEF RuleShape, WatchShape
<1>5. ~HoldsIn(decisionmap, rules[i].w2)
  BY <1>4, TruthFacts
<1>6. ASSUME NEW k \in 1 .. Len(decisionq) PROVE Guarded(rules[i], decisionq[k].p, decisionmap)
  BY <1>3 DEF WatchInv, WatchesOK, Settled
<1>7. ~HoldsIn(decisionmap, -rules[i].w1) /\ ~HoldsIn(decisionmap, -rules[i].w2)
  <2>1. -rules[i].w1 \in Lit /\ -rules[i].w2 \in Lit
    BY <1>1, <1>4, LitFacts
  <2>. QED BY <1>2, <1>5, <1>6, <2>1, TrailFacts DEF Guarded
<1>8. IsUndef(rules[i].w1) /\ IsUndef(rules[i].w2)
  BY <1>1, <1>2, <1>4, <1>5, <1>7, SignFacts, TrailFacts, TruthFacts
<1>. QED BY <1>1, <1>4, <1>8

\* When propagate ends, no rule in use is false or unit.
THEOREM PropagationIsComplete == Spec => []PropagationComplete
<1>1. TypeInv /\ TrailInv /\ WatchInv => PropagationComplete
  BY WatchGives
<1>. QED BY <1>1, WatchesInvariant, PTL

=============================================================================
