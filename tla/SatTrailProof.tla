--------------------------- MODULE SatTrailProof ---------------------------
(***************************************************************************)
(* Type correctness of the SAT engine, for every set of instances, and     *)
(* that its decisions are right on every rule set: what                    *)
(* TrailInvariant, AnalyzeAsserts and LearntIsUnit of Sat say is proved    *)
(* for all constants from one inductive invariant, TrailInv.               *)
(*                                                                         *)
(* Alone none of them is inductive.  That a forced decision keeps its      *)
(* reason needs the other literals of the rule to be false already when    *)
(* propagate decides, which needs the watches to be two different literals *)
(* (WatchShape) and what is left in the queue to be of the current level   *)
(* (QueueOK); that learning goes back to a decided level needs the counts  *)
(* of analyze to be those of the marked decisions (AnalyzeOK); and that    *)
(* every level starts with a free decision needs the engine's level to be  *)
(* that of the last decision (LevelOK).  The trail itself is described by  *)
(* operators of a queue and a map (TrailFull), so that one lemma about     *)
(* adding a decision (ExtendTrail) and one about taking decisions back     *)
(* (RevertTrail) serve every action.                                       *)
(***************************************************************************)
EXTENDS Sat, FiniteInduction

\* The shape of the rules: the watches of a rule are literals of it, and a
\* rule with one watch is an assertion.
RuleShape ==
  \A i \in RuleId :
    /\ rules[i].w2 # 0 => rules[i].w1 \in rules[i].lits /\ rules[i].w2 \in rules[i].lits
    /\ rules[i].w2 = 0 /\ rules[i].w1 # 0 => rules[i].lits = {rules[i].w1}
    /\ rules[i].w1 = 0 => rules[i].w2 = 0 /\ rules[i].lits = {}

Analyzing == {"analyze", "next", "learn", "unsolvable"}

\* What the locals are between two calls, and what propagate visits.
LocalsOK ==
  /\ pc \notin Analyzing => idx = 0
  /\ pc = "analyze" => confl # 0
  /\ pc # "failed" => level \in Nat
  /\ pc \in {"start", "assert", "weakassert"} => propagate_index = 0
  /\ todo # {} => pc = "propagate" /\ pkg # 0
  /\ \A i \in todo : rules[i].w2 # 0 /\ pkg \in {rules[i].w1, rules[i].w2}

TypeInv == TypeOK /\ RuleShape /\ LocalsOK

-----------------------------------------------------------------------------
LEMMA LitFacts ==
  /\ 0 \notin Lit /\ Lit \subseteq Int /\ Solvable \subseteq Lit /\ Solvable \subseteq Nat
  /\ 0 \notin Solvable /\ SYSTEMSOLVABLE \in Solvable
  /\ \A l \in Lit : -l \in Lit /\ Pkg(l) \in Solvable /\ Pkg(-l) = Pkg(l) /\ (l > 0 => l \in Solvable)
  BY NSolvablesAssumption DEF Lit, Solvable, Pkg, SYSTEMSOLVABLE

LEMMA InstanceFacts ==
  ASSUME inst \in Instances
  PROVE  /\ inst.rules \in Seq(Rule) /\ NBase \in Nat
         /\ inst.weak \subseteq 1 .. NBase
         /\ inst.disabled \subseteq 1 .. NBase
         /\ inst.problem \in [1 .. NBase -> Int \ {0}]
         /\ inst.disablerules \in BOOLEAN
         /\ inst.pkgend \in 1 .. NBase + 1
         /\ DOMAIN inst.choice \subseteq 1 .. NBase
         /\ \A p \in DOMAIN inst.installed : p \in Solvable /\ inst.installed[p] \subseteq Solvable
         /\ inst.extras \subseteq Solvable
         /\ \A i \in 1 .. NBase :
              LET r == inst.rules[i] IN
              \/ r.lits = {} /\ r.w1 = 0 /\ r.w2 = 0
              \/ r.lits = {r.w1} /\ r.w2 = 0
              \/ {r.w1, r.w2} \subseteq r.lits /\ r.w1 # r.w2
  BY InstancesAssumption DEF Instance, NBase

LEMMA InitType == Init => TypeInv
<1> SUFFICES ASSUME Init PROVE TypeInv
  OBVIOUS
<1>1. inst \in Instances /\ rules = inst.rules
  BY DEF Init
<1>2. NBase \in Nat /\ rules \in Seq(Rule) /\ Len(rules) = NBase /\ inst.disabled \subseteq RuleId
      /\ inst.disablerules \in BOOLEAN
  BY <1>1, InstanceFacts DEF NBase, RuleId
<1>3. RuleShape
  <2> SUFFICES ASSUME NEW i \in RuleId
               PROVE  /\ rules[i].w2 # 0 => rules[i].w1 \in rules[i].lits /\ rules[i].w2 \in rules[i].lits
                      /\ rules[i].w2 = 0 /\ rules[i].w1 # 0 => rules[i].lits = {rules[i].w1}
                      /\ rules[i].w1 = 0 => rules[i].w2 = 0 /\ rules[i].lits = {}
    BY DEF RuleShape
  <2>1. rules[i] \in Rule
    BY <1>2 DEF RuleId
  <2>2. \A l \in rules[i].lits : l # 0
    BY <2>1, LitFacts DEF Rule
  <2>. QED BY <1>1, <1>2, <2>2, InstanceFacts DEF RuleId
<1>4. ClearMap \in [Solvable -> Int]
  BY DEF ClearMap
<1>5. TypeRules /\ TypeTrail /\ TypeSearch /\ TypeLocals /\ TypeAnalysis
  <2>1. disablerules \in BOOLEAN /\ havedisabled \in BOOLEAN
    BY <1>2 DEF Init
  <2>2. why \in Seq(SUBSET RuleId) /\ Len(why) = 0 /\ decisionq \in Seq(DecisionRec)
    BY DEF Init
  <2>3. problems \in Seq(ProblemRec)
        /\ branches \in Seq(BranchRec)
    BY DEF Init
  <2>4. TypeRules /\ TypeTrail
    BY <1>1, <1>2, <1>4, <2>2 DEF Init, TypeRules, TypeTrail
  <2>5. TypeSearch
    BY <2>1, <2>3 DEF Init, TypeSearch, PcValues
  <2>6. TypeLocals /\ TypeAnalysis
    BY <1>2, <2>1 DEF Init, TypeLocals, TypeAnalysis
  <2>. QED BY <2>4, <2>5, <2>6
<1>6. LocalsOK
  BY DEF Init, LocalsOK, Analyzing
<1>. QED BY <1>3, <1>5, <1>6 DEF TypeInv, TypeOK

\* What the type invariant says of the parts.
LEMMA TypeFacts ==
  ASSUME TypeInv
  PROVE  /\ TypeRules /\ TypeTrail /\ TypeSearch /\ TypeLocals /\ TypeAnalysis
         /\ RuleShape /\ LocalsOK
         /\ NBase \in Nat /\ Len(rules) \in Nat /\ Len(why) \in Nat /\ NBase <= Len(rules)
         /\ 1 .. NBase \subseteq RuleId /\ RuleId \subseteq Nat /\ 0 \notin RuleId
         /\ \A i \in RuleId : /\ rules[i] \in Rule /\ rules[i].lits \subseteq Lit
                              /\ rules[i].w1 \in Lit \cup {0} /\ rules[i].w2 \in Lit \cup {0}
         /\ Len(decisionq) \in Nat
         /\ \A k \in 1 .. Len(decisionq) : decisionq[k].p \in Lit /\ decisionq[k].why \in RuleId \cup {0}
         /\ \A v \in Solvable : decisionmap[v] \in Int
         /\ \A l \in Lit : Lev(l) \in Nat
<1>1. TypeRules /\ TypeTrail /\ TypeSearch /\ TypeLocals /\ TypeAnalysis /\ RuleShape /\ LocalsOK
  BY DEF TypeInv, TypeOK
<1>2. NBase \in Nat
  BY <1>1, InstanceFacts DEF TypeRules
<1>3. Len(rules) \in Nat /\ Len(why) \in Nat /\ Len(rules) = NBase + Len(why)
  BY <1>1 DEF TypeRules
<1>4. /\ NBase <= Len(rules)
      /\ 1 .. NBase \subseteq RuleId /\ RuleId \subseteq Nat /\ 0 \notin RuleId
  <2>1. NBase <= Len(rules)
    BY <1>2, <1>3
  <2>. QED BY <1>2, <1>3, <2>1 DEF RuleId
<1>5. ASSUME NEW i \in RuleId
      PROVE  /\ rules[i] \in Rule /\ rules[i].lits \subseteq Lit
             /\ rules[i].w1 \in Lit \cup {0} /\ rules[i].w2 \in Lit \cup {0}
  <2>1. rules[i] \in Rule
    <3>1. rules \in Seq(Rule) /\ i \in 1 .. Len(rules)
      BY <1>1 DEF TypeRules, RuleId
    <3>. QED BY <3>1
  <2>. QED BY <2>1 DEF Rule
<1>6. /\ Len(decisionq) \in Nat
      /\ \A k \in 1 .. Len(decisionq) : decisionq[k].p \in Lit /\ decisionq[k].why \in RuleId \cup {0}
  <2>1. decisionq \in Seq(DecisionRec)
    BY <1>1 DEF TypeTrail
  <2>2. ASSUME NEW k \in 1 .. Len(decisionq)
        PROVE  decisionq[k].p \in Lit /\ decisionq[k].why \in RuleId \cup {0}
    <3>1. decisionq[k] \in DecisionRec
      BY <2>1, ElementOfSeq
    <3>. QED BY <3>1 DEF DecisionRec
  <2>. QED BY <2>1, <2>2
<1>7. \A v \in Solvable : decisionmap[v] \in Int
  BY <1>1 DEF TypeTrail
<1>8. \A l \in Lit : Lev(l) \in Nat
  <2> TAKE l \in Lit
  <2>1. decisionmap[Pkg(l)] \in Int
    BY <1>7, LitFacts
  <2>. QED BY <2>1 DEF Lev, LevIn
<1>. QED BY <1>1, <1>2, <1>3, <1>4, <1>5, <1>6, <1>7, <1>8

\* Most actions leave most of the state alone.
LEMMA Frame ==
  ASSUME TypeInv, UNCHANGED ruleVars
  PROVE  /\ RuleId' = RuleId /\ NBase' = NBase /\ RuleShape'
         /\ DecisionRec' = DecisionRec /\ ProblemRec' = ProblemRec
         /\ disabled' \subseteq RuleId => TypeRules'
         /\ UNCHANGED trailVars => TypeTrail'
         /\ (UNCHANGED <<branches, problems, disablerules>> /\ level' \in Nat \cup {-1} /\ pc' \in PcValues)
              => TypeSearch'
         /\ ri' \in 1 .. Len(rules) + 1 /\ havedisabled' \in BOOLEAN /\ UNCHANGED propVars => TypeLocals'
         /\ ri' \in 1 .. Len(rules) + 1 /\ UNCHANGED <<havedisabled, propVars>> => TypeLocals'
         /\ UNCHANGED analyzeVars /\ idx <= Len(decisionq') => TypeAnalysis'
         /\ UNCHANGED trailVars /\ UNCHANGED analyzeVars => TypeAnalysis'
<1>1. RuleId' = RuleId /\ NBase' = NBase /\ DecisionRec' = DecisionRec /\ ProblemRec' = ProblemRec
  BY DEF ruleVars, RuleId, NBase, DecisionRec, ProblemRec
<1>2. RuleShape'
  <2>1. rules' = rules /\ RuleShape
    BY DEF TypeInv, ruleVars
  <2>. QED BY <2>1 DEF RuleShape, RuleId
<1>3. disabled' \subseteq RuleId => TypeRules'
  BY <1>1 DEF TypeInv, TypeOK, TypeRules, ruleVars
<1>4. UNCHANGED trailVars => TypeTrail'
  BY <1>1 DEF TypeInv, TypeOK, TypeTrail, trailVars
<1>5. (UNCHANGED <<branches, problems, disablerules>> /\ level' \in Nat \cup {-1} /\ pc' \in PcValues)
        => TypeSearch'
  BY <1>1 DEF TypeInv, TypeOK, TypeSearch, PcValues
<1>6. ri' \in 1 .. Len(rules) + 1 /\ havedisabled' \in BOOLEAN /\ UNCHANGED propVars => TypeLocals'
  BY <1>1 DEF TypeInv, TypeOK, TypeLocals, propVars, ruleVars
<1>7. UNCHANGED analyzeVars /\ idx <= Len(decisionq') => TypeAnalysis'
  BY <1>1 DEF TypeInv, TypeOK, TypeAnalysis, analyzeVars
<1>8. ri' \in 1 .. Len(rules) + 1 /\ UNCHANGED <<havedisabled, propVars>> => TypeLocals'
  <2>1. havedisabled \in BOOLEAN
    BY DEF TypeInv, TypeOK, TypeLocals
  <2>. QED BY <1>6, <2>1
<1>9. UNCHANGED trailVars /\ UNCHANGED analyzeVars => TypeAnalysis'
  BY <1>1 DEF TypeInv, TypeOK, TypeAnalysis, analyzeVars, trailVars
<1>. QED BY <1>1, <1>2, <1>3, <1>4, <1>5, <1>6, <1>7, <1>8, <1>9

\* What the helpers of the actions return.
LEMMA HelperTypes ==
  ASSUME TypeInv
  PROVE  /\ \A v : Group(v) \subseteq RuleId
         /\ \A i : FixProblem(i, disabled) \subseteq RuleId
         /\ \A d : EnableDisableLearntRules(d) \subseteq RuleId
         /\ \A R : ProblemOf(R) \subseteq Int
<1>1. \A v : Group(v) \subseteq RuleId
  BY TypeFacts DEF Group
<1>2. \A i : FixProblem(i, disabled) \subseteq RuleId
  BY <1>1, TypeFacts DEF FixProblem, ReenablePolicyRules, TypeRules
<1>3. \A d : EnableDisableLearntRules(d) \subseteq RuleId
  BY DEF EnableDisableLearntRules, RuleId
<1>4. \A R : ProblemOf(R) \subseteq Int
  BY TypeFacts, InstanceFacts DEF ProblemOf, TypeRules
<1>. QED BY <1>1, <1>2, <1>3, <1>4

\* A literal is pushed: the queue and the map keep their types.
LEMMA PushType ==
  ASSUME TypeInv, NEW l \in Lit, NEW w \in RuleId \cup {0}, NEW lev \in Nat, Push(l, w, lev)
  PROVE  /\ decisionq' \in Seq(DecisionRec) /\ Len(decisionq') = Len(decisionq) + 1
         /\ decisionmap' \in [Solvable -> Int]
<1>1. Decision(l, w) \in DecisionRec
  BY DEF Decision, DecisionRec
<1>2. Signed(l, lev) \in Int
  BY LitFacts DEF Signed
<1>3. decisionq \in Seq(DecisionRec) /\ decisionmap \in [Solvable -> Int]
  BY TypeFacts DEF TypeTrail
<1>4. decisionmap' \in [Solvable -> Int]
  BY <1>2, <1>3, LitFacts DEF Push
<1>. QED BY <1>1, <1>3, <1>4 DEF Push

LEMMA SystemOnlyType ==
  ASSUME TypeInv, SystemOnly
  PROVE  /\ decisionq' \in Seq(DecisionRec) /\ Len(decisionq') = 1
         /\ decisionmap' \in [Solvable -> Int]
<1>1. Decision(SYSTEMSOLVABLE, 0) \in DecisionRec
  BY LitFacts DEF Decision, DecisionRec
<1>2. decisionmap' \in [Solvable -> Int]
  BY LitFacts DEF SystemOnly, ClearMap
<1>. QED BY <1>1, <1>2 DEF SystemOnly

-----------------------------------------------------------------------------
(* makeruledecisions *)

\* The decisions start over with the system solvable and other rules disabled.
LEMMA StartOverType ==
  ASSUME TypeInv, pc \in {"assert", "weakassert"}, NEW d, d \subseteq RuleId, StartOver(d),
         UNCHANGED <<ruleVars, propagate_index, level, branches, disablerules, propVars, analyzeVars>>,
         problems' \in Seq(ProblemRec)
  PROVE  TypeInv'
<1>1. /\ TypeRules' /\ RuleShape'
      /\ DecisionRec' = DecisionRec /\ ProblemRec' = ProblemRec
  BY Frame DEF StartOver
<1>2. TypeTrail'
  BY <1>1, SystemOnlyType, TypeFacts DEF StartOver, TypeTrail, LocalsOK
<1>3. TypeSearch'
  BY <1>1, TypeFacts DEF StartOver, TypeSearch, PcValues
<1>4. TypeLocals'
  <2>1. ri' \in 1 .. Len(rules) + 1 /\ havedisabled' \in BOOLEAN
    BY TypeFacts DEF StartOver
  <2>. QED BY <2>1, Frame
<1>5. TypeAnalysis'
  BY Frame, SystemOnlyType, TypeFacts DEF StartOver, LocalsOK, Analyzing
<1>6. LocalsOK'
  BY TypeFacts DEF LocalsOK, Analyzing, StartOver, ruleVars, propVars, analyzeVars
<1>. QED BY <1>1, <1>2, <1>3, <1>4, <1>5, <1>6 DEF TypeInv, TypeOK

LEMMA AssertionsType == TypeInv /\ Assertions => TypeInv'
<1> SUFFICES ASSUME TypeInv, Assertions PROVE TypeInv'
  OBVIOUS
<1> USE TypeFacts
<1> USE DEF PcValues
<1>1. RuleAssertions(ri) \subseteq RuleId
  BY DEF RuleAssertions, TypeLocals, RuleId
<1>2. ASSUME NEW i \in RuleId, IsAssertion(rules[i]) PROVE rules[i].w1 \in Lit
  BY <1>2 DEF IsAssertion
<1>3. CASE MakeRuleDecisions
  <2>1. disablerules' \in BOOLEAN /\ havedisabled' \in BOOLEAN
    BY <1>3, InstanceFacts DEF MakeRuleDecisions, TypeRules
  <2>2. TypeRules' /\ RuleShape' /\ TypeLocals'
    BY <1>3, <2>1, Frame DEF MakeRuleDecisions, TypeRules
  <2>3. TypeTrail' /\ TypeAnalysis'
    BY <1>3, SystemOnlyType, Frame DEF MakeRuleDecisions, TypeTrail, LocalsOK, Analyzing
  <2>4. TypeSearch'
    BY <1>3, <2>1, Frame DEF MakeRuleDecisions, TypeSearch
  <2>5. LocalsOK'
    BY <1>3 DEF LocalsOK, Analyzing, MakeRuleDecisions, ruleVars, propVars, analyzeVars
  <2>. QED BY <2>2, <2>3, <2>4, <2>5 DEF TypeInv, TypeOK
<1>4. CASE AssertLearntStatus
  <2>1. TypeRules' /\ RuleShape' /\ TypeTrail' /\ TypeLocals' /\ TypeAnalysis' /\ TypeSearch'
    <3>1. TypeRules' /\ RuleShape' /\ TypeTrail' /\ TypeAnalysis'
      BY <1>4, Frame, HelperTypes
       DEF AssertLearntStatus
    <3>2. TypeSearch'
      BY <1>4, Frame, HelperTypes
       DEF AssertLearntStatus, TypeSearch
    <3>3. TypeLocals'
      BY <1>4, Frame, HelperTypes
       DEF AssertLearntStatus, TypeLocals
    <3>. QED BY <3>1, <3>2, <3>3
  <2>2. LocalsOK'
    BY <1>4 DEF LocalsOK, Analyzing, AssertLearntStatus, ruleVars, trailVars, propVars, analyzeVars
  <2>. QED BY <2>1, <2>2 DEF TypeInv, TypeOK
<1>5. CASE AssertDecide
  <2>1. PICK i \in RuleAssertions(ri) : Push(rules[i].w1, i, 1) /\ ri' = i + 1
    BY <1>5 DEF AssertDecide
  <2>2. i \in RuleId /\ rules[i].w1 \in Lit
    BY <1>1, <1>2, <2>1 DEF RuleAssertions
  <2>3. TypeRules' /\ RuleShape' /\ TypeLocals' /\ TypeSearch'
    <3>1. TypeRules' /\ RuleShape'
      BY <1>5, Frame DEF AssertDecide, TypeRules
    <3>2. ri' \in 1 .. Len(rules) + 1 /\ UNCHANGED <<ruleVars, havedisabled, propVars>>
      BY <1>5, <2>1, <2>2 DEF AssertDecide, RuleId
    <3>3. TypeLocals'
      BY <3>2, Frame
    <3>4. TypeSearch'
      BY <1>5, Frame DEF AssertDecide, TypeSearch
    <3>. QED BY <3>1, <3>3, <3>4
  <2>4. TypeTrail' /\ TypeAnalysis'
    BY <1>5, <2>1, <2>2, PushType, Frame DEF AssertDecide, TypeTrail, LocalsOK, Analyzing
  <2>5. LocalsOK'
    BY <1>5 DEF LocalsOK, Analyzing, AssertDecide, ruleVars, propVars, analyzeVars
  <2>. QED BY <2>3, <2>4, <2>5 DEF TypeInv, TypeOK
<1>6. CASE AssertSkip
  <2>1. PICK i \in RuleAssertions(ri) : ri' = i + 1
    BY <1>6 DEF AssertSkip
  <2>2. TypeRules' /\ RuleShape' /\ TypeTrail' /\ TypeLocals' /\ TypeAnalysis' /\ TypeSearch'
    <3>1. TypeRules' /\ RuleShape' /\ TypeTrail' /\ TypeAnalysis'
      BY <1>1, <1>6, <2>1, Frame DEF AssertSkip, TypeRules, RuleId
    <3>2. TypeSearch'
      BY <1>1, <1>6, <2>1, Frame DEF AssertSkip, TypeSearch, RuleId
    <3>3. TypeLocals'
      BY <1>1, <1>6, <2>1, Frame DEF AssertSkip, TypeLocals, RuleId
    <3>. QED BY <3>1, <3>2, <3>3
  <2>3. LocalsOK'
    BY <1>6 DEF LocalsOK, Analyzing, AssertSkip, ruleVars, trailVars, propVars, analyzeVars
  <2>. QED BY <2>2, <2>3 DEF TypeInv, TypeOK
<1>7. CASE AssertDropLearnt
  <2>1. PICK i \in RuleAssertions(ri) : ri' = i + 1 /\ disabled' = disabled \cup {i}
    BY <1>7 DEF AssertDropLearnt
  <2>2. TypeRules' /\ RuleShape' /\ TypeTrail' /\ TypeLocals' /\ TypeAnalysis' /\ TypeSearch'
    <3>1. TypeRules' /\ RuleShape' /\ TypeTrail' /\ TypeAnalysis'
      BY <1>1, <1>7, <2>1, Frame DEF AssertDropLearnt, TypeRules, RuleId
    <3>2. TypeSearch'
      BY <1>1, <1>7, <2>1, Frame DEF AssertDropLearnt, TypeSearch, RuleId
    <3>3. TypeLocals'
      BY <1>1, <1>7, <2>1, Frame DEF AssertDropLearnt, TypeLocals, RuleId
    <3>. QED BY <3>1, <3>2, <3>3
  <2>3. LocalsOK'
    BY <1>7 DEF LocalsOK, Analyzing, AssertDropLearnt, ruleVars, trailVars, propVars, analyzeVars
  <2>. QED BY <2>2, <2>3 DEF TypeInv, TypeOK
<1>8. CASE AssertUninstall
  <2>1. PICK i \in 1 .. NBase, k \in 1 .. Len(decisionq) :
          /\ InConflict(i, k)
          /\ \E v \in AutoUninstall(ConflictElems(i, k)) : StartOver(disabled \cup Group(v))
    BY <1>8 DEF AssertUninstall
  <2>2. PICK v : StartOver(disabled \cup Group(v))
    BY <2>1
  <2>3. pc = "assert" /\ disabled \cup Group(v) \subseteq RuleId
    BY <2>1, HelperTypes DEF InConflict, TypeRules
  <2>4. problems' \in Seq(ProblemRec)
    BY <1>8 DEF AssertUninstall, TypeSearch
  <2>. QED BY <1>8, <2>2, <2>3, <2>4, StartOverType DEF AssertUninstall
<1>9. CASE AssertConflict
  <2>1. PICK i \in 1 .. NBase, k \in 1 .. Len(decisionq) :
          /\ InConflict(i, k)
          /\ problems' = Append(problems, Problem(ConflictProof(i, k), ConflictElems(i, k)))
          /\ \/ /\ StartOver(disabled \cup UNION {Group(v) : v \in ConflictElems(i, k)})
                /\ level' = level
             \/ /\ pc' = "failed" /\ level' = -1
                /\ UNCHANGED <<disabled, decisionq, decisionmap, assertVars>>
    BY <1>9 DEF AssertConflict
  <2> DEFINE d == disabled \cup UNION {Group(v) : v \in ConflictElems(i, k)}
  <2>2. pc = "assert" /\ d \subseteq RuleId
    BY <2>1, HelperTypes DEF InConflict, TypeRules
  <2>3. Problem(ConflictProof(i, k), ConflictElems(i, k)) \in ProblemRec
    BY <2>1, HelperTypes DEF Problem, ConflictProof, ConflictElems, ProblemRec
  <2>4. problems' \in Seq(ProblemRec)
    BY <2>1, <2>3 DEF TypeSearch
  <2> HIDE DEF d
  <2>5. CASE StartOver(d) /\ level' = level
    BY <1>9, <2>2, <2>4, <2>5, StartOverType DEF AssertConflict
  <2>6. CASE pc' = "failed" /\ level' = -1 /\ UNCHANGED <<disabled, decisionq, decisionmap, assertVars>>
    <3>1. TypeRules' /\ RuleShape' /\ TypeTrail' /\ TypeLocals' /\ TypeAnalysis'
      BY <1>9, <2>6, Frame
         DEF AssertConflict, TypeRules, TypeLocals, TypeAnalysis, trailVars, assertVars
    <3>2. TypeSearch'
      BY <1>9, <2>4, <2>6, Frame DEF AssertConflict, TypeSearch
    <3>3. LocalsOK'
      BY <1>9, <2>2, <2>6 DEF LocalsOK, Analyzing, AssertConflict, ruleVars, propVars, analyzeVars
    <3>. QED BY <3>1, <3>2, <3>3 DEF TypeInv, TypeOK
  <2>. QED BY <2>1, <2>5, <2>6 DEF d
<1>10. CASE AssertEnd
  <2>1. TypeRules' /\ RuleShape' /\ TypeTrail' /\ TypeLocals' /\ TypeAnalysis' /\ TypeSearch'
    <3>1. TypeRules' /\ RuleShape' /\ TypeTrail' /\ TypeAnalysis'
      BY <1>10, Frame DEF AssertEnd, TypeRules
    <3>2. TypeSearch'
      BY <1>10, Frame DEF AssertEnd, TypeSearch
    <3>3. TypeLocals'
      BY <1>10, Frame DEF AssertEnd, TypeLocals
    <3>. QED BY <3>1, <3>2, <3>3
  <2>2. LocalsOK'
    BY <1>10 DEF LocalsOK, Analyzing, AssertEnd, ruleVars, trailVars, propVars, analyzeVars
  <2>. QED BY <2>1, <2>2 DEF TypeInv, TypeOK
<1>11. CASE WeakDecide
  <2> DEFINE i == Min(WeakAssertions(ri))
  <2>1. i \in WeakAssertions(ri)
    <3>1. WeakAssertions(ri) \subseteq Nat /\ WeakAssertions(ri) # {}
      BY <1>1, <1>11 DEF WeakAssertions, WeakDecide
    <3>. QED BY <3>1, MinIn
  <2>2. i \in RuleId /\ rules[i].w1 \in Lit
    BY <1>1, <1>2, <2>1 DEF WeakAssertions, RuleAssertions
  <2>3. ri' = i + 1 /\ (Push(rules[i].w1, i, 1) \/ UNCHANGED <<decisionq, decisionmap>>)
    BY <1>11 DEF WeakDecide
  <2> HIDE DEF i
  <2>4. TypeRules' /\ RuleShape' /\ TypeLocals' /\ TypeSearch'
    <3>1. TypeRules' /\ RuleShape'
      BY <1>11, Frame DEF WeakDecide, TypeRules
    <3>2. ri' \in 1 .. Len(rules) + 1 /\ UNCHANGED <<ruleVars, havedisabled, propVars>>
      BY <1>11, <2>2, <2>3 DEF WeakDecide, RuleId
    <3>3. TypeLocals'
      BY <3>2, Frame
    <3>4. TypeSearch'
      BY <1>11, Frame DEF WeakDecide, TypeSearch
    <3>. QED BY <3>1, <3>3, <3>4
  <2>5. TypeTrail' /\ TypeAnalysis'
    BY <1>11, <2>2, <2>3, PushType, Frame DEF WeakDecide, TypeTrail, LocalsOK, Analyzing
  <2>6. LocalsOK'
    BY <1>11 DEF LocalsOK, Analyzing, WeakDecide, ruleVars, propVars, analyzeVars
  <2>. QED BY <2>4, <2>5, <2>6 DEF TypeInv, TypeOK
<1>12. CASE WeakConflict
  <2>1. PICK i : StartOver(FixProblem(i, disabled))
    BY <1>12 DEF WeakConflict
  <2>2. problems' \in Seq(ProblemRec) /\ pc = "weakassert"
    BY <1>12 DEF WeakConflict, TypeSearch
  <2>. QED BY <1>12, <2>1, <2>2, HelperTypes, StartOverType DEF WeakConflict
<1>13. CASE WeakEnd
  <2>1. TypeRules' /\ RuleShape' /\ TypeTrail' /\ TypeLocals' /\ TypeAnalysis' /\ TypeSearch'
    <3>1. TypeRules' /\ RuleShape' /\ TypeTrail' /\ TypeAnalysis'
      BY <1>13, Frame DEF WeakEnd, TypeRules, assertVars
    <3>2. TypeSearch'
      BY <1>13, Frame DEF WeakEnd, TypeSearch, assertVars
    <3>3. TypeLocals'
      BY <1>13, Frame DEF WeakEnd, TypeLocals, assertVars
    <3>. QED BY <3>1, <3>2, <3>3
  <2>2. LocalsOK'
    BY <1>13 DEF LocalsOK, Analyzing, WeakEnd, ruleVars, trailVars, propVars, analyzeVars
  <2>. QED BY <2>1, <2>2 DEF TypeInv, TypeOK
<1>. QED BY <1>3, <1>4, <1>5, <1>6, <1>7, <1>8, <1>9, <1>10, <1>11, <1>12, <1>13 DEF Assertions

-----------------------------------------------------------------------------
(* propagate *)

\* A rule that is visited watches pkg; its other watch is a literal of it.
LEMMA VisitFacts ==
  ASSUME TypeInv, NEW i \in todo
  PROVE  /\ i \in RuleId /\ rules[i].w1 \in Lit /\ rules[i].w2 \in Lit
         /\ rules[i].w1 \in rules[i].lits /\ rules[i].w2 \in rules[i].lits
         /\ pkg \in {rules[i].w1, rules[i].w2} /\ OtherWatch(i) \in {rules[i].w1, rules[i].w2}
<1>1. i \in RuleId /\ rules[i].w2 # 0 /\ pkg \in {rules[i].w1, rules[i].w2}
  BY TypeFacts DEF TypeLocals, LocalsOK
<1>2. rules[i].w1 \in rules[i].lits /\ rules[i].w2 \in rules[i].lits
  BY <1>1, TypeFacts DEF RuleShape
<1>3. rules[i].w1 \in Lit /\ rules[i].w2 \in Lit
  BY <1>1, <1>2, TypeFacts
<1>. QED BY <1>1, <1>2, <1>3 DEF OtherWatch

LEMMA PropagateType == TypeInv /\ Propagate => TypeInv'
<1> SUFFICES ASSUME TypeInv, Propagate PROVE TypeInv'
  OBVIOUS
<1> USE TypeFacts
<1> USE DEF PcValues
<1>1. disablerules \in BOOLEAN /\ havedisabled \in BOOLEAN
  BY DEF TypeSearch, TypeLocals
<1>2. CASE PropagateNext
  <2> DEFINE d == decisionq[propagate_index + 1]
  <2>1. d.p \in Lit /\ -d.p \in Lit
    <3>1. propagate_index + 1 \in 1 .. Len(decisionq)
      BY <1>2 DEF PropagateNext, TypeTrail
    <3>. QED BY <3>1, LitFacts
  <2>2. TypeRules' /\ RuleShape' /\ TypeAnalysis'
    <3>1. idx <= Len(decisionq') /\ disabled' \subseteq RuleId
      BY <1>2 DEF PropagateNext, TypeRules, TypeAnalysis
    <3>. QED BY <1>2, <3>1, Frame DEF PropagateNext
  <2>3. TypeTrail'
    BY <1>2, Frame DEF PropagateNext, TypeTrail
  <2>4. TypeSearch'
    BY <1>2, Frame DEF PropagateNext, TypeSearch
  <2>5. pkg' \in Lit /\ todo' \subseteq RuleId
    BY <1>2, <2>1 DEF PropagateNext, Watching, RuleId, ruleVars
  <2>6. TypeLocals'
    BY <1>1, <1>2, <2>5, Frame DEF PropagateNext, TypeLocals, assertVars, ruleVars
  <2>7. LocalsOK'
    BY <1>2, <2>5, LitFacts DEF LocalsOK, Analyzing, PropagateNext, Watching, ruleVars, analyzeVars
  <2>. QED BY <2>2, <2>3, <2>4, <2>6, <2>7 DEF TypeInv, TypeOK
<1>3. CASE PropagateDecisionDone
  <2>1. TypeRules' /\ RuleShape' /\ TypeTrail' /\ TypeAnalysis'
    BY <1>3, Frame DEF PropagateDecisionDone, TypeRules
  <2>2. TypeSearch'
    BY <1>3, Frame DEF PropagateDecisionDone, TypeSearch
  <2>3. TypeLocals'
    BY <1>1, <1>3, Frame DEF PropagateDecisionDone, TypeLocals, assertVars, ruleVars
  <2>4. LocalsOK'
    BY <1>3 DEF LocalsOK, Analyzing, PropagateDecisionDone, ruleVars, trailVars, analyzeVars
  <2>. QED BY <2>1, <2>2, <2>3, <2>4 DEF TypeInv, TypeOK
<1>4. CASE PropagateSkip
  <2>1. TypeRules' /\ RuleShape' /\ TypeTrail' /\ TypeAnalysis'
    BY <1>4, Frame DEF PropagateSkip, TypeRules
  <2>2. TypeSearch'
    BY <1>4, Frame DEF PropagateSkip, TypeSearch
  <2>3. TypeLocals'
    BY <1>1, <1>4, Frame DEF PropagateSkip, Visit, TypeLocals, assertVars, ruleVars
  <2>4. LocalsOK'
    BY <1>4 DEF LocalsOK, Analyzing, PropagateSkip, Visit, ruleVars, trailVars, analyzeVars
  <2>. QED BY <2>1, <2>2, <2>3, <2>4 DEF TypeInv, TypeOK
<1>5. CASE PropagateMove
  <2>0. PICK i \in todo :
          /\ pc = "propagate" /\ todo' = todo \ {i}
          /\ \E l \in FreeLits(i) : rules' = [rules EXCEPT ![i] = MoveWatch(rules[i], l)]
    BY <1>5 DEF PropagateMove, Visit
  <2>1. PICK l \in FreeLits(i) : rules' = [rules EXCEPT ![i] = MoveWatch(rules[i], l)]
    BY <2>0
  <2>2. l \in rules[i].lits /\ l \in Lit /\ l # 0
    BY VisitFacts, LitFacts DEF FreeLits
  <2>3. /\ MoveWatch(rules[i], l) \in Rule
        /\ MoveWatch(rules[i], l).lits = rules[i].lits
        /\ MoveWatch(rules[i], l).w1 \in rules[i].lits
        /\ MoveWatch(rules[i], l).w2 \in rules[i].lits
    BY <2>2, VisitFacts DEF MoveWatch, Rule
  <2>4. rules' \in Seq(Rule) /\ Len(rules') = Len(rules)
    <3>1. rules \in Seq(Rule) /\ i \in 1 .. Len(rules)
      BY VisitFacts DEF TypeRules, RuleId
    <3>. QED BY <2>1, <2>3, <3>1, ExceptSeq
  <2>5. RuleId' = RuleId /\ NBase' = NBase /\ DecisionRec' = DecisionRec /\ ProblemRec' = ProblemRec
    BY <1>5, <2>4 DEF RuleId, NBase, DecisionRec, ProblemRec, PropagateMove
  <2>6. \A j \in RuleId : rules'[j] = IF j = i THEN MoveWatch(rules[i], l) ELSE rules[j]
    BY <2>1, VisitFacts DEF TypeRules, RuleId
  <2>7. TypeRules'
    BY <1>5, <2>4, <2>5 DEF PropagateMove, TypeRules
  <2>8. TypeTrail' /\ TypeAnalysis'
    BY <1>5, <2>5 DEF PropagateMove, TypeTrail, TypeAnalysis, trailVars, analyzeVars
  <2>9. TypeSearch' /\ TypeLocals'
    <3>1. TypeSearch'
      BY <1>1, <1>5, <2>5 DEF PropagateMove, TypeSearch
    <3>2. ri' = ri /\ havedisabled' = havedisabled /\ pkg' = pkg /\ todo' \subseteq todo
      BY <1>5, <2>0 DEF PropagateMove, assertVars
    <3>. QED BY <1>1, <2>4, <2>5, <3>1, <3>2 DEF TypeLocals
  <2>10. RuleShape'
    <3>1. SUFFICES ASSUME NEW j \in RuleId
          PROVE  /\ rules'[j].w2 # 0 => rules'[j].w1 \in rules'[j].lits /\ rules'[j].w2 \in rules'[j].lits
                 /\ rules'[j].w2 = 0 /\ rules'[j].w1 # 0 => rules'[j].lits = {rules'[j].w1}
                 /\ rules'[j].w1 = 0 => rules'[j].w2 = 0 /\ rules'[j].lits = {}
      BY <2>5 DEF RuleShape
    <3>2. CASE j = i
      <4>1. /\ rules'[j].lits = rules[i].lits
            /\ rules'[j].w1 \in rules[i].lits /\ rules'[j].w2 \in rules[i].lits
        BY <2>3, <2>6, <3>2
      <4>2. 0 \notin rules[i].lits
        BY VisitFacts, LitFacts
      <4>. QED BY <4>1, <4>2
    <3>3. CASE j # i
      BY <2>6, <3>3 DEF RuleShape
    <3>. QED BY <3>2, <3>3
  <2>11. LocalsOK'
    BY <1>5, <2>0, <2>6 DEF LocalsOK, Analyzing, TypeLocals, PropagateMove, trailVars, analyzeVars
  <2>. QED BY <2>7, <2>8, <2>9, <2>10, <2>11 DEF TypeInv, TypeOK
<1>6. CASE PropagateUnit
  <2>1. PICK i \in todo : pc = "propagate" /\ todo' = todo \ {i} /\ Push(OtherWatch(i), i, level)
    BY <1>6 DEF PropagateUnit, Visit
  <2>2. OtherWatch(i) \in Lit /\ i \in RuleId /\ level \in Nat
    BY <2>1, VisitFacts DEF LocalsOK
  <2>3. TypeTrail' /\ TypeAnalysis'
    BY <1>6, <2>1, <2>2, PushType, Frame DEF PropagateUnit, TypeTrail, LocalsOK, Analyzing
  <2>4. TypeRules' /\ RuleShape'
    BY <1>6, Frame DEF PropagateUnit, TypeRules
  <2>5. TypeSearch'
    BY <1>6, Frame DEF PropagateUnit, TypeSearch
  <2>6. TypeLocals'
    BY <1>1, <1>6, <2>1, Frame DEF PropagateUnit, TypeLocals, assertVars, ruleVars
  <2>7. LocalsOK'
    BY <1>6, <2>1 DEF LocalsOK, Analyzing, PropagateUnit, ruleVars, analyzeVars
  <2>. QED BY <2>3, <2>4, <2>5, <2>6, <2>7 DEF TypeInv, TypeOK
<1>7. CASE PropagateConflict
  <2>1. PICK i \in todo :
          /\ pc = "propagate" /\ confl' = i
          /\ \/ /\ pc' = "unsolvable"
                /\ seen' = {Pkg(l) : l \in rules[i].lits} /\ proof' = {i}
             \/ pc' = "analyze" /\ seen' = {} /\ proof' = {}
    BY <1>7 DEF PropagateConflict
  <2>2. i \in RuleId /\ seen' \subseteq Solvable /\ proof' \subseteq RuleId
    <3>1. i \in RuleId /\ rules[i].lits \subseteq Lit
      BY VisitFacts
    <3>2. {Pkg(l) : l \in rules[i].lits} \subseteq Solvable
      BY <3>1, LitFacts, Zenon
    <3>. QED BY <2>1, <3>1, <3>2
  <2>3. TypeRules' /\ RuleShape' /\ TypeTrail'
    <3>1. UNCHANGED ruleVars /\ UNCHANGED trailVars /\ disabled' = disabled
      BY <1>7 DEF PropagateConflict
    <3>2. disabled \subseteq RuleId
      BY DEF TypeRules
    <3>. QED BY <3>1, <3>2, Frame
  <2>4. TypeSearch'
    BY <1>7, <2>1, Frame DEF PropagateConflict, TypeSearch
  <2>5. TypeLocals'
    BY <1>1, <1>7, Frame DEF PropagateConflict, TypeLocals, assertVars, ruleVars
  <2>6. TypeAnalysis'
    BY <1>7, <2>1, <2>2, Frame DEF PropagateConflict, TypeAnalysis, trailVars
  <2>7. LocalsOK'
    BY <1>7, <2>1, <2>2 DEF LocalsOK, Analyzing, PropagateConflict
  <2>. QED BY <2>3, <2>4, <2>5, <2>6, <2>7 DEF TypeInv, TypeOK
<1>8. CASE PropagateEnd
  <2>1. TypeRules' /\ RuleShape' /\ TypeTrail' /\ TypeAnalysis'
    BY <1>8, Frame DEF PropagateEnd, TypeRules
  <2>2. TypeSearch'
    BY <1>8, Frame DEF PropagateEnd, TypeSearch
  <2>3. TypeLocals'
    BY <1>1, <1>8, Frame DEF PropagateEnd, TypeLocals, assertVars, ruleVars
  <2>4. LocalsOK'
    BY <1>8 DEF LocalsOK, Analyzing, PropagateEnd, ruleVars, trailVars, propVars, analyzeVars
  <2>. QED BY <2>1, <2>2, <2>3, <2>4 DEF TypeInv, TypeOK
<1>. QED BY <1>2, <1>3, <1>4, <1>5, <1>6, <1>7, <1>8 DEF Propagate

-----------------------------------------------------------------------------
(* revert *)

LEMMA PrefixSeq ==
  ASSUME NEW S, NEW s \in Seq(S), NEW n \in 0 .. Len(s)
  PROVE  /\ Prefix(s, n) \in Seq(S) /\ Len(Prefix(s, n)) = n
         /\ \A k \in 1 .. n : Prefix(s, n)[k] = s[k]
<1>1. \A k \in 1 .. n : s[k] \in S
  BY ElementOfSeq
<1>2. /\ SubSeq(s, 1, n) \in Seq(S)
      /\ Len(SubSeq(s, 1, n)) = IF 1 <= n THEN n - 1 + 1 ELSE 0
      /\ \A k \in 1 .. n - 1 + 1 : SubSeq(s, 1, n)[k] = s[1 + k - 1]
  BY <1>1, SubSeqProperties
<1>. QED BY <1>2 DEF Prefix

LEMMA KeepLenType ==
  ASSUME TypeInv, NEW l
  PROVE  KeepLen(l) \in 0 .. Len(decisionq)
<1> DEFINE stop == {k \in 1 .. Len(decisionq) : Lev(decisionq[k].p) <= l}
<1>1. CASE stop = {}
  BY <1>1, TypeFacts DEF KeepLen
<1>2. CASE stop # {}
  <2>1. stop \subseteq 0 .. Len(decisionq) /\ Len(decisionq) \in Nat
    BY TypeFacts
  <2>2. Max(stop) \in stop
    BY <1>2, <2>1, MaxIn
  <2>. QED BY <1>2, <2>1, <2>2 DEF KeepLen
<1>. QED BY <1>1, <1>2

LEMMA PopBranchesType ==
  ASSUME NEW bs \in Seq(BranchRec), NEW l
  PROVE  PopBranches(bs, l) \in Seq(BranchRec)
<1> DEFINE stop == {k \in 1 .. Len(bs) : bs[k].level < l}
<1>1. CASE stop = {}
  BY <1>1, PrefixSeq DEF PopBranches
<1>2. CASE stop # {}
  <2>1. stop \subseteq 0 .. Len(bs) /\ Len(bs) \in Nat
    OBVIOUS
  <2>2. Max(stop) \in stop
    BY <1>2, <2>1, MaxIn
  <2>3. Max(stop) \in 0 .. Len(bs)
    BY <2>1, <2>2
  <2>. QED BY <1>2, <2>3, PrefixSeq DEF PopBranches
<1>. QED BY <1>1, <1>2

\* Decisions are taken back and a literal is decided by the rule w, which
\* may be one that is added in the same step.
LEMMA RevertAndPushType ==
  ASSUME TypeInv, NEW l, NEW p \in Lit, NEW lev \in Nat, NEW w \in RuleId' \cup {0},
         RuleId \subseteq RuleId', RevertAndPush(l, p, w, lev)
  PROVE  TypeTrail'
<1>1. KeepLen(l) \in 0 .. Len(decisionq)
  BY KeepLenType
<1>2. decisionq \in Seq(DecisionRec) /\ Decision(p, w) \in DecisionRec' /\ DecisionRec \subseteq DecisionRec'
  BY TypeFacts DEF TypeTrail, Decision, DecisionRec
<1>3. Prefix(decisionq, KeepLen(l)) \in Seq(DecisionRec) /\ Len(Prefix(decisionq, KeepLen(l))) = KeepLen(l)
  BY <1>1, <1>2, PrefixSeq
<1>4. Prefix(decisionq, KeepLen(l)) \in Seq(DecisionRec')
  BY <1>2, <1>3, SeqMonotonic
<1>5. decisionq' \in Seq(DecisionRec') /\ Len(decisionq') = KeepLen(l) + 1
  <2> DEFINE s == Prefix(decisionq, KeepLen(l))
  <2>1. decisionq' = Append(s, Decision(p, w))
    BY DEF RevertAndPush
  <2>2. s \in Seq(DecisionRec') /\ Len(s) = KeepLen(l) /\ Decision(p, w) \in DecisionRec'
    BY <1>2, <1>3, <1>4
  <2> HIDE DEF s
  <2>. QED BY <2>1, <2>2, AppendProperties
<1>6. RevertedMap(l) \in [Solvable -> Int] /\ Signed(p, lev) \in Int
  BY TypeFacts, LitFacts DEF RevertedMap, Signed, TypeTrail
<1>7. decisionmap' \in [Solvable -> Int]
  BY <1>6, LitFacts DEF RevertAndPush
<1>8. propagate_index' \in 0 .. KeepLen(l) + 1
  <2>1. CASE Reverted(l) = {}
    <3>1. KeepLen(l) = Len(decisionq)
      <4>1. SUFFICES ASSUME KeepLen(l) + 1 \in KeepLen(l) + 1 .. Len(decisionq) PROVE FALSE
        BY <1>1, TypeFacts
      <4>2. Pkg(decisionq[KeepLen(l) + 1].p) \in Reverted(l)
        BY <4>1 DEF Reverted
      <4>. QED BY <2>1, <4>2
    <3>. QED BY <2>1, <3>1, TypeFacts DEF RevertAndPush, RevertedIndex, TypeTrail
  <2>2. CASE Reverted(l) # {}
    BY <1>1, <2>2, TypeFacts DEF RevertAndPush, RevertedIndex
  <2>. QED BY <2>1, <2>2
<1>. QED BY <1>1, <1>5, <1>7, <1>8, TypeFacts DEF TypeTrail

-----------------------------------------------------------------------------
(* analyze *)

LEMMA LitFinite == IsFiniteSet(Lit)
<1>1. Lit \in SUBSET ((-NSolvables) .. NSolvables) /\ -NSolvables \in Int /\ NSolvables \in Int
  BY NSolvablesAssumption DEF Lit, Solvable
<1>2. IsFiniteSet((-NSolvables) .. NSolvables)
  BY <1>1, FS_Interval
<1>. QED BY <1>1, <1>2, FS_Subset

LEMMA LastMarkedType ==
  ASSUME TypeInv, Marked # {}
  PROVE  /\ LastMarked \in Marked /\ LastMarked \in 1 .. idx /\ LastMarked \in 1 .. Len(decisionq)
         /\ \A k \in Marked : k <= LastMarked
<1>1. Marked \subseteq 0 .. idx /\ idx \in Nat
  BY TypeFacts DEF Marked, TypeAnalysis
<1>2. LastMarked \in Marked /\ \A k \in Marked : LastMarked >= k
  BY <1>1, MaxIn DEF LastMarked
<1>. QED BY <1>1, <1>2, TypeFacts DEF Marked, TypeAnalysis

LEMMA AnalyzeType == TypeInv /\ Analyze => TypeInv'
<1> SUFFICES ASSUME TypeInv, Analyze PROVE TypeInv'
  OBVIOUS
<1> USE TypeFacts
<1> USE DEF PcValues
<1>1. disablerules \in BOOLEAN /\ havedisabled \in BOOLEAN
  BY DEF TypeSearch, TypeLocals
<1>2. CASE AnalyzeRule
  <2>1. NewLits \subseteq Lit
    BY <1>2 DEF NewLits, AnalyzeRule, LocalsOK, TypeAnalysis
  <2>2. \A lev : Cardinality(LitsAt(lev)) \in Nat
    <3> TAKE lev
    <3>1. LitsAt(lev) \subseteq Lit
      BY <2>1 DEF LitsAt
    <3>. QED BY <3>1, LitFinite, FS_Subset, FS_CardinalityType
  <2>3. {Pkg(l) : l \in NewLits} \subseteq Solvable /\ LowerLits \subseteq Lit
    BY <2>1, LitFacts DEF LowerLits
  <2>4. BackLevel \subseteq Nat
    BY <2>3 DEF BackLevel, TypeAnalysis
  <2>5. confl \in RuleId
    BY <1>2 DEF AnalyzeRule, LocalsOK, TypeAnalysis
  <2>6. TypeAnalysis'
    <3>1. confl' \in RuleId' \cup {0} /\ idx' \in 0 .. Len(decisionq') /\ uip' \in Lit \cup {0}
      BY <1>2, Frame DEF AnalyzeRule, TypeAnalysis, trailVars
    <3>2. seen' \subseteq Solvable /\ q' \subseteq Lit /\ proof' \subseteq RuleId'
      <4>1. seen \subseteq Solvable /\ q \subseteq Lit /\ proof \subseteq RuleId
        BY DEF TypeAnalysis
      <4>2. /\ seen' = seen \cup {Pkg(l) : l \in NewLits} /\ q' = q \cup LowerLits
            /\ proof' = proof \cup {confl} /\ RuleId' = RuleId
        BY <1>2, Frame DEF AnalyzeRule
      <4>. QED BY <2>3, <2>5, <4>1, <4>2
    <3>3. num' \in Int /\ l1num' \in Int /\ rlevel' \in Nat
      BY <1>2, <2>2, <2>4 DEF AnalyzeRule, TypeAnalysis
    <3>. QED BY <3>1, <3>2, <3>3 DEF TypeAnalysis
  <2>7. TypeRules' /\ RuleShape' /\ TypeTrail'
    BY <1>2, Frame DEF AnalyzeRule, TypeRules
  <2>8. TypeSearch'
    BY <1>2, Frame DEF AnalyzeRule, TypeSearch
  <2>9. TypeLocals'
    BY <1>1, <1>2, Frame DEF AnalyzeRule, TypeLocals, assertVars
  <2>10. LocalsOK'
    BY <1>2 DEF LocalsOK, Analyzing, AnalyzeRule, ruleVars, trailVars, propVars
  <2>. QED BY <2>6, <2>7, <2>8, <2>9, <2>10 DEF TypeInv, TypeOK
<1>3. CASE AnalyzeDone
  <2>1. TypeRules' /\ RuleShape' /\ TypeTrail'
    BY <1>3, Frame DEF AnalyzeDone, TypeRules
  <2>2. TypeSearch'
    BY <1>3, Frame DEF AnalyzeDone, TypeSearch
  <2>3. TypeLocals'
    BY <1>1, <1>3, Frame DEF AnalyzeDone, TypeLocals, assertVars
  <2>4. TypeAnalysis'
    BY <1>3, Frame DEF AnalyzeDone, TypeAnalysis, trailVars
  <2>5. LocalsOK'
    BY <1>3 DEF LocalsOK, Analyzing, AnalyzeDone, ruleVars, trailVars, propVars
  <2>. QED BY <2>1, <2>2, <2>3, <2>4, <2>5 DEF TypeInv, TypeOK
<1>4. CASE AnalyzeUip
  <2>1. LastMarked \in 1 .. Len(decisionq) /\ LastMarked - 1 \in 0 .. Len(decisionq)
    BY <1>4, LastMarkedType DEF AnalyzeUip
  <2>2. -decisionq[LastMarked].p \in Lit
    BY <2>1, LitFacts
  <2>3. TypeRules' /\ RuleShape' /\ TypeTrail'
    BY <1>4, Frame DEF AnalyzeUip, TypeRules
  <2>4. TypeSearch'
    BY <1>4, Frame DEF AnalyzeUip, TypeSearch
  <2>5. TypeLocals'
    BY <1>1, <1>4, Frame DEF AnalyzeUip, TypeLocals, assertVars
  <2>6. TypeAnalysis'
    <3>1. decisionq' = decisionq /\ RuleId' = RuleId /\ seen' \subseteq seen /\ idx' = LastMarked - 1
      BY <1>4, Frame DEF AnalyzeUip, Unmark, trailVars
    <3>2. /\ confl' = confl /\ q' = q /\ num' = 0 /\ l1num' \in {l1num, l1num + 1}
          /\ uip' \in Lit /\ rlevel' = rlevel /\ proof' = proof
      BY <1>4, <2>2 DEF AnalyzeUip
    <3>. QED BY <2>1, <3>1, <3>2 DEF TypeAnalysis
  <2>7. LocalsOK'
    BY <1>4 DEF LocalsOK, Analyzing, AnalyzeUip, ruleVars, trailVars, propVars
  <2>. QED BY <2>3, <2>4, <2>5, <2>6, <2>7 DEF TypeInv, TypeOK
<1>5. CASE AnalyzeResolve
  <2>1. LastMarked \in 1 .. Len(decisionq) /\ LastMarked - 1 \in 0 .. Len(decisionq)
    BY <1>5, LastMarkedType DEF AnalyzeResolve
  <2>2. confl' \in RuleId \cup {0} /\ (pc' = "next" \/ (pc' = "analyze" /\ confl' \in RuleId))
    <3>1. decisionq[LastMarked].why \in RuleId \cup {0} /\ confl \in RuleId \cup {0} /\ ~(0 > 0)
      BY <2>1 DEF TypeAnalysis
    <3>2. CASE decisionq[LastMarked].why > 0
      BY <1>5, <3>1, <3>2 DEF AnalyzeResolve
    <3>3. CASE ~(decisionq[LastMarked].why > 0)
      <4>1. pc = "next" /\ confl' = confl /\ pc' = pc
        BY <1>5, <3>3, Zenon DEF AnalyzeResolve
      <4>. QED BY <3>1, <4>1
    <3>. QED BY <3>2, <3>3
  <2>3. TypeRules' /\ RuleShape' /\ TypeTrail'
    BY <1>5, Frame DEF AnalyzeResolve, TypeRules
  <2>4. TypeSearch'
    BY <1>5, <2>2, Frame DEF AnalyzeResolve, TypeSearch
  <2>5. TypeLocals'
    BY <1>1, <1>5, Frame DEF AnalyzeResolve, TypeLocals, assertVars
  <2>6. TypeAnalysis'
    <3>1. decisionq' = decisionq /\ RuleId' = RuleId /\ seen' \subseteq seen /\ idx' = LastMarked - 1
      BY <1>5, Frame DEF AnalyzeResolve, Unmark, trailVars
    <3>2. /\ num' \in {num, num - 1} /\ l1num' \in {l1num, l1num - 1}
          /\ q' = q /\ uip' = uip /\ rlevel' = rlevel /\ proof' = proof
      BY <1>5 DEF AnalyzeResolve
    <3>. QED BY <2>1, <2>2, <3>1, <3>2 DEF TypeAnalysis
  <2>7. LocalsOK'
    BY <1>5, <2>2 DEF LocalsOK, Analyzing, AnalyzeResolve, ruleVars, trailVars, propVars
  <2>. QED BY <2>3, <2>4, <2>5, <2>6, <2>7 DEF TypeInv, TypeOK
<1>6. CASE Learn
  <2>1. PICK w2 \in IF q = {} THEN {0} ELSE Highest(RevertedMap(rlevel), q) :
          rules' = Append(rules, [lits |-> {uip} \cup q, w1 |-> uip, w2 |-> w2])
    BY <1>6 DEF Learn
  <2> DEFINE r == [lits |-> {uip} \cup q, w1 |-> uip, w2 |-> w2]
  <2>2. uip \in Lit /\ q \subseteq Lit /\ rlevel \in Nat /\ (w2 \in q \/ (q = {} /\ w2 = 0))
    <3>1. uip \in Lit /\ q \subseteq Lit /\ rlevel \in Nat
      BY <1>6 DEF Learn, TypeAnalysis
    <3>2. \A m : Highest(m, q) \subseteq q
      BY DEF Highest
    <3>3. w2 \in q \/ (q = {} /\ w2 = 0)
      BY <2>1, <3>2, Zenon
    <3>. QED BY <3>1, <3>3
  <2>3. r \in Rule /\ rules \in Seq(Rule)
    BY <2>2 DEF Rule, TypeRules
  <2>4. /\ rules' \in Seq(Rule) /\ Len(rules') = Len(rules) + 1 /\ rules'[Len(rules) + 1] = r
        /\ \A i \in 1 .. Len(rules) : rules'[i] = rules[i]
    BY <2>1, <2>3
  <2>5. RuleId \subseteq RuleId' /\ Len(rules) + 1 \in RuleId' /\ NBase' = NBase /\ inst' = inst
        /\ RuleId' = RuleId \cup {Len(rules) + 1}
    BY <1>6, <2>4 DEF RuleId, NBase, Learn
  <2>6. TypeRules'
    <3>1. why \in Seq(SUBSET RuleId') /\ proof \in SUBSET RuleId'
      BY <2>5, SeqMonotonic DEF TypeRules, TypeAnalysis
    <3>2. why' \in Seq(SUBSET RuleId') /\ Len(why') = Len(why) + 1
      BY <1>6, <3>1 DEF Learn
    <3>. QED BY <1>6, <2>4, <2>5, <3>2 DEF TypeRules, Learn
  <2>7. TypeTrail'
    BY <1>6, <2>2, <2>5, RevertAndPushType DEF Learn
  <2>8. TypeSearch'
    <3>1. branches' \in Seq(BranchRec)
      BY <1>6, PopBranchesType DEF Learn, TypeSearch
    <3>2. ProblemRec \subseteq ProblemRec'
      BY <2>5 DEF ProblemRec
    <3>3. problems' \in Seq(ProblemRec')
      BY <1>6, <3>2, SeqMonotonic DEF Learn, TypeSearch
    <3>. QED BY <1>1, <1>6, <2>2, <3>1, <3>3 DEF Learn, TypeSearch
  <2>9. TypeLocals'
    BY <1>1, <1>6, <2>4, <2>5 DEF Learn, TypeLocals, assertVars, propVars
  <2>10. TypeAnalysis'
    BY <1>6, <2>7 DEF Learn, ForgetAnalysis, TypeAnalysis, TypeTrail
  <2>11. RuleShape'
    <3> SUFFICES ASSUME NEW i \in RuleId'
                 PROVE  /\ rules'[i].w2 # 0 => rules'[i].w1 \in rules'[i].lits /\ rules'[i].w2 \in rules'[i].lits
                        /\ rules'[i].w2 = 0 /\ rules'[i].w1 # 0 => rules'[i].lits = {rules'[i].w1}
                        /\ rules'[i].w1 = 0 => rules'[i].w2 = 0 /\ rules'[i].lits = {}
      BY DEF RuleShape
    <3>1. CASE i \in RuleId
      BY <2>4, <3>1 DEF RuleShape, RuleId
    <3>2. CASE i = Len(rules) + 1
      <4>1. rules'[i].lits = {uip} \cup q /\ rules'[i].w1 = uip /\ rules'[i].w2 = w2
        BY <2>4, <3>2
      <4>2. uip # 0 /\ 0 \notin q
        BY <2>2, LitFacts
      <4>. QED BY <2>2, <4>1, <4>2
    <3>. QED BY <2>5, <3>1, <3>2
  <2>12. LocalsOK'
    BY <1>6, <2>2 DEF LocalsOK, Analyzing, Learn, ForgetAnalysis, propVars
  <2>. QED BY <2>6, <2>7, <2>8, <2>9, <2>10, <2>11, <2>12 DEF TypeInv, TypeOK
<1>. QED BY <1>2, <1>3, <1>4, <1>5, <1>6 DEF Analyze

-----------------------------------------------------------------------------
(* analyze_unsolvable *)

LEMMA ResetType ==
  ASSUME TypeInv, NEW d, Reset(d), UNCHANGED <<ruleVars, disablerules, assertVars, propVars>>,
         pc # "propagate", problems' \in Seq(ProblemRec), ForgetAnalysis \/ UNCHANGED analyzeVars, idx' = 0
  PROVE  TypeInv'
<1> USE TypeFacts
<1>1. disablerules \in BOOLEAN /\ havedisabled \in BOOLEAN
  BY DEF TypeSearch, TypeLocals
<1>2. TypeRules' /\ RuleShape' /\ RuleId' = RuleId /\ ProblemRec' = ProblemRec
  BY Frame, HelperTypes DEF Reset
<1>3. TypeTrail'
  <2>1. decisionq' \in Seq(DecisionRec') /\ Len(decisionq') = 0
    BY DEF Reset
  <2>. QED BY <2>1 DEF Reset, ClearMap, TypeTrail
<1>4. TypeSearch'
  BY <1>1, <1>2 DEF Reset, TypeSearch, PcValues
<1>5. TypeLocals'
  BY <1>1, Frame DEF TypeLocals, assertVars
<1>6. TypeAnalysis'
  <2>1. Len(decisionq') \in Nat
    BY <1>3 DEF TypeTrail
  <2>2. CASE ForgetAnalysis
    BY <2>1, <2>2 DEF ForgetAnalysis, TypeAnalysis
  <2>3. CASE UNCHANGED analyzeVars
    BY <1>2, <2>1, <2>3 DEF TypeAnalysis, analyzeVars
  <2>. QED BY <2>2, <2>3
<1>7. LocalsOK'
  BY DEF LocalsOK, Analyzing, Reset, propVars, ruleVars
<1>. QED BY <1>2, <1>3, <1>4, <1>5, <1>6, <1>7 DEF TypeInv, TypeOK

LEMMA AnalyzeUnsolvableType == TypeInv /\ AnalyzeUnsolvable => TypeInv'
<1> SUFFICES ASSUME TypeInv, AnalyzeUnsolvable PROVE TypeInv'
  OBVIOUS
<1> USE TypeFacts
<1> USE DEF PcValues
<1>1. disablerules \in BOOLEAN /\ havedisabled \in BOOLEAN
  BY DEF TypeSearch, TypeLocals
<1>2. ForgetAnalysis => idx' = 0
  BY DEF ForgetAnalysis
<1>3. UNCHANGED problems => problems' \in Seq(ProblemRec)
  BY DEF TypeSearch
<1>4. ASSUME RecordProblem PROVE problems' \in Seq(ProblemRec)
  <2>1. Problem(proof, ElemsOfProof) \in ProblemRec
    BY HelperTypes DEF Problem, ElemsOfProof, ProblemRec, TypeAnalysis
  <2>. QED BY <1>4, <2>1 DEF RecordProblem, TypeSearch
<1>5. CASE UnsolvableWalk
  <2> DEFINE k == Max(Involved)
             r == decisionq[k].why
  <2>1. k \in 1 .. idx /\ k \in 1 .. Len(decisionq) /\ k - 1 \in 0 .. Len(decisionq)
    <3>0. idx \in Nat /\ Involved # {}
      BY <1>5 DEF UnsolvableWalk, TypeAnalysis
    <3>1. Involved \subseteq 0 .. idx
      BY <3>0 DEF Involved
    <3>2. k \in Involved
      BY <3>0, <3>1, MaxIn
    <3>. QED BY <3>2 DEF Involved, TypeAnalysis
  <2>2. /\ pc = "unsolvable" /\ r > 0 /\ idx' = k - 1 /\ proof' = proof \cup {r}
        /\ seen' = seen \cup {Pkg(l) : l \in {m \in rules[r].lits : ~IsTrue(m)}}
    BY <1>5 DEF UnsolvableWalk
  <2>3. r \in RuleId
    BY <2>1, <2>2
  <2> HIDE DEF k, r
  <2>4. seen' \subseteq Solvable /\ proof' \subseteq RuleId
    BY <2>2, <2>3, LitFacts DEF TypeAnalysis
  <2>5. TypeRules' /\ RuleShape' /\ TypeTrail'
    BY <1>5, Frame DEF UnsolvableWalk, TypeRules
  <2>6. TypeSearch'
    BY <1>5, Frame DEF UnsolvableWalk, TypeSearch
  <2>7. TypeLocals'
    BY <1>1, <1>5, Frame DEF UnsolvableWalk, TypeLocals, assertVars
  <2>8. TypeAnalysis'
    BY <1>5, <2>1, <2>2, <2>4, Frame DEF UnsolvableWalk, TypeAnalysis, trailVars
  <2>9. LocalsOK'
    BY <1>5, <2>2 DEF LocalsOK, Analyzing, UnsolvableWalk, ruleVars, trailVars, propVars
  <2>. QED BY <2>5, <2>6, <2>7, <2>8, <2>9 DEF TypeInv, TypeOK
<1>6. CASE UnsolvableWeak
  BY <1>2, <1>3, <1>6, ResetType DEF UnsolvableWeak, Proved
<1>7. CASE UnsolvableUninstall
  <2>1. PICK v : Reset(disabled \cup Group(v))
    BY <1>7 DEF UnsolvableUninstall
  <2>. QED BY <1>2, <1>3, <1>7, <2>1, ResetType DEF UnsolvableUninstall, Proved
<1>8. CASE UnsolvableDisable
  BY <1>2, <1>4, <1>8, ResetType DEF UnsolvableDisable, RecordProblem, Proved
<1>9. CASE UnsolvableFail
  <2>1. problems' \in Seq(ProblemRec) /\ pc = "unsolvable"
    BY <1>4, <1>9 DEF UnsolvableFail, RecordProblem, Proved
  <2>2. TypeRules' /\ RuleShape' /\ TypeTrail'
    BY <1>9, Frame DEF UnsolvableFail, TypeRules
  <2>3. TypeSearch'
    BY <1>1, <1>9, <2>1, Frame DEF UnsolvableFail, TypeSearch
  <2>4. TypeLocals'
    BY <1>1, <1>9, Frame DEF UnsolvableFail, TypeLocals, assertVars
  <2>5. TypeAnalysis'
    BY <1>9, <2>2 DEF UnsolvableFail, ForgetAnalysis, TypeAnalysis, TypeTrail
  <2>6. LocalsOK'
    BY <1>9, <2>1 DEF LocalsOK, Analyzing, UnsolvableFail, ForgetAnalysis, ruleVars, trailVars, propVars
  <2>. QED BY <2>2, <2>3, <2>4, <2>5, <2>6 DEF TypeInv, TypeOK
<1>. QED BY <1>5, <1>6, <1>7, <1>8, <1>9 DEF AnalyzeUnsolvable

-----------------------------------------------------------------------------
(* The decisions *)

LEMMA SetPropagateLearnType ==
  ASSUME TypeInv, pc = "decide", NEW p \in Lit, NEW flag \in BOOLEAN, SetPropagateLearn(p, flag),
         branches' \in Seq(BranchRec)
  PROVE  TypeInv'
<1> USE TypeFacts
<1> USE DEF PcValues
<1>1. level \in Nat /\ havedisabled \in BOOLEAN
  BY DEF LocalsOK, TypeLocals
<1>2. TypeRules' /\ RuleShape' /\ ProblemRec' = ProblemRec
  BY Frame DEF SetPropagateLearn, TypeRules
<1>3. TypeTrail' /\ TypeAnalysis'
  BY <1>1, PushType, Frame DEF SetPropagateLearn, TypeTrail, LocalsOK, Analyzing
<1>4. TypeSearch'
  BY <1>1, <1>2 DEF SetPropagateLearn, TypeSearch
<1>5. TypeLocals'
  BY <1>1, Frame DEF SetPropagateLearn, TypeLocals, assertVars
<1>6. LocalsOK'
  BY <1>1 DEF LocalsOK, Analyzing, SetPropagateLearn, ruleVars, propVars, analyzeVars
<1>. QED BY <1>2, <1>3, <1>4, <1>5, <1>6 DEF TypeInv, TypeOK

LEMMA SelectionsType ==
  ASSUME NEW S, S \subseteq Lit, NEW dq \in Selections(S)
  PROVE  dq \in Seq(Solvable) /\ dq[1] \in Lit /\ 1 \in DOMAIN dq
<1>1. PICK n \in 1 .. MaxChoices : dq \in [1 .. n -> UndecidedOf(S)]
  BY DEF Selections
<1>2. UndecidedOf(S) \subseteq Solvable
  BY LitFacts DEF UndecidedOf
<1>3. dq \in [1 .. n -> Solvable] /\ n \in Nat /\ 1 \in 1 .. n
  BY <1>1, <1>2, MaxChoicesAssumption
<1>4. dq \in Seq(Solvable) /\ DOMAIN dq = 1 .. n
  BY <1>3
<1>. QED BY <1>3, <1>4, LitFacts

LEMMA SelectAndInstallType ==
  ASSUME TypeInv, pc = "decide", NEW S, S \subseteq Lit, NEW dq \in Selections(S), NEW flag \in BOOLEAN,
         SelectAndInstall(dq, flag)
  PROVE  TypeInv'
<1>1. dq \in Seq(Solvable) /\ dq[1] \in Lit
  BY SelectionsType
<1>2. level \in Nat /\ branches \in Seq(BranchRec)
  BY TypeFacts DEF LocalsOK, TypeSearch
<1>3. Branch(dq, level) \in BranchRec
  BY <1>1, <1>2 DEF Branch, BranchRec
<1>4. branches' \in Seq(BranchRec)
  BY <1>2, <1>3 DEF SelectAndInstall
<1>. QED BY <1>1, <1>4, SetPropagateLearnType DEF SelectAndInstall

LEMMA TakeBranchType == TypeInv /\ TakeBranch => TypeInv'
<1> SUFFICES ASSUME TypeInv, TakeBranch PROVE TypeInv'
  OBVIOUS
<1> USE TypeFacts
<1> USE DEF PcValues
<1>1. PICK b \in 1 .. Len(branches) : \E j \in DOMAIN branches[b].cands \ branches[b].tried :
          LET lev    == branches[b].level
              hidden == [branches EXCEPT ![b] = [Tried(@, j) EXCEPT !.level = 0]]
          IN  /\ RevertAndPush(lev, branches[b].cands[j], 0, lev + 1)
              /\ branches' = [PopBranches(hidden, lev) EXCEPT ![b].level = lev]
              /\ level' = lev + 1
  BY DEF TakeBranch, TakeBranchTo
<1>2. PICK j \in DOMAIN branches[b].cands \ branches[b].tried :
          LET lev    == branches[b].level
              hidden == [branches EXCEPT ![b] = [Tried(@, j) EXCEPT !.level = 0]]
          IN  /\ RevertAndPush(lev, branches[b].cands[j], 0, lev + 1)
              /\ branches' = [PopBranches(hidden, lev) EXCEPT ![b].level = lev]
              /\ level' = lev + 1
  BY <1>1
<1> DEFINE lev == branches[b].level
           br  == [Tried(branches[b], j) EXCEPT !.level = 0]
           hidden == [branches EXCEPT ![b] = br]
<1>3. branches \in Seq(BranchRec) /\ branches[b] \in BranchRec
  BY ElementOfSeq DEF TypeSearch
<1>4. lev \in Nat /\ branches[b].cands \in Seq(Solvable) /\ j \in Nat
  BY <1>3 DEF BranchRec
<1>5. br \in BranchRec
  BY <1>3, <1>4 DEF Tried, BranchRec
<1>6. hidden \in Seq(BranchRec)
  BY <1>3, <1>5, ExceptSeq
<1>7. branches[b].cands[j] \in Lit
  BY <1>2, <1>4, LitFacts
<1>8. /\ RevertAndPush(lev, branches[b].cands[j], 0, lev + 1)
      /\ branches' = [PopBranches(hidden, lev) EXCEPT ![b].level = lev]
      /\ level' = lev + 1
  BY <1>2
<1> HIDE DEF lev, hidden, br
<1>9. branches' \in Seq(BranchRec)
  <2> DEFINE bs == PopBranches(hidden, lev)
  <2>1. bs \in Seq(BranchRec)
    BY <1>6, PopBranchesType
  <2>2. CASE b \in 1 .. Len(bs)
    <3>1. bs[b] \in BranchRec
      BY <2>1, <2>2, ElementOfSeq
    <3>2. [bs[b] EXCEPT !.level = lev] \in BranchRec
      BY <1>4, <3>1 DEF BranchRec
    <3>. QED BY <1>8, <2>1, <2>2, <3>2, ExceptSeq
  <2>3. CASE b \notin 1 .. Len(bs)
    <3>1. branches' = bs
      BY <1>8, <2>1, <2>3
    <3>. QED BY <2>1, <3>1
  <2>. QED BY <2>2, <2>3
<1>10. RuleId' = RuleId /\ TypeRules' /\ RuleShape' /\ ProblemRec' = ProblemRec
  BY Frame DEF TakeBranch, TakeBranchTo, TypeRules
<1>11. TypeTrail'
  <2>1. lev + 1 \in Nat /\ 0 \in RuleId' \cup {0} /\ RuleId \subseteq RuleId'
    BY <1>4, <1>10
  <2>. QED BY <1>7, <1>8, <2>1, RevertAndPushType
<1>12. TypeAnalysis'
  BY <1>11, Frame DEF TakeBranch, TakeBranchTo, TypeTrail, LocalsOK, Analyzing
<1>13. inst.disablerules \in BOOLEAN /\ havedisabled \in BOOLEAN
  BY InstanceFacts DEF TypeRules, TypeLocals
<1>14. TypeSearch'
  <2>1. level' \in Nat
    BY <1>4, <1>8
  <2>2. problems' = problems /\ problems \in Seq(ProblemRec) /\ disablerules' = inst.disablerules
        /\ pc' = "propagate"
    BY DEF TakeBranch, TakeBranchTo, TypeSearch
  <2>. QED BY <1>9, <1>10, <1>13, <2>1, <2>2 DEF TypeSearch
<1>15. TypeLocals'
  <2>1. ri' \in 1 .. Len(rules) + 1 /\ UNCHANGED ruleVars /\ UNCHANGED <<havedisabled, propVars>>
    BY DEF TakeBranch, TakeBranchTo, TypeLocals, assertVars
  <2>. QED BY <2>1, Frame
<1>16. LocalsOK'
  <2>1. /\ idx' = idx /\ todo' = todo /\ pkg' = pkg /\ rules' = rules
        /\ pc = "decide" /\ pc' = "propagate" /\ level' \in Nat
    BY <1>4, <1>8 DEF TakeBranch, TakeBranchTo, ruleVars, propVars, analyzeVars
  <2>. QED BY <2>1 DEF LocalsOK, Analyzing
<1>. QED BY <1>10, <1>11, <1>12, <1>14, <1>15, <1>16 DEF TypeInv, TypeOK

LEMMA DecideType == TypeInv /\ Decide => TypeInv'
<1> SUFFICES ASSUME TypeInv, Decide PROVE TypeInv'
  OBVIOUS
<1> USE TypeFacts
<1> USE DEF PcValues
<1>1. inst.disablerules \in BOOLEAN /\ havedisabled \in BOOLEAN
  BY InstanceFacts DEF TypeRules, TypeLocals
<1>2. CASE DecideRule
  <2>1. PICK i \in Unfulfilled : \E dq \in Selections(rules[i].lits) : SelectAndInstall(dq, inst.disablerules)
    BY <1>2 DEF DecideRule
  <2>2. rules[i].lits \subseteq Lit
    BY DEF Unfulfilled, RuleId
  <2>. QED BY <1>1, <1>2, <2>1, <2>2, SelectAndInstallType DEF DecideRule
<1>3. CASE DecideInstalled
  <2>1. PICK p \in DOMAIN inst.installed :
          \E dq \in Selections({p}) \cup Selections(inst.installed[p]) : SelectAndInstall(dq, inst.disablerules)
    BY <1>3 DEF DecideInstalled
  <2>2. {p} \subseteq Lit /\ inst.installed[p] \subseteq Lit
    BY InstanceFacts, LitFacts DEF TypeRules
  <2>3. PICK dq \in Selections({p}) \cup Selections(inst.installed[p]) : SelectAndInstall(dq, inst.disablerules)
    BY <2>1
  <2>4. pc = "decide"
    BY <1>3 DEF DecideInstalled
  <2>. QED BY <1>1, <2>2, <2>3, <2>4, SelectAndInstallType
<1>4. CASE DecideExtra
  <2>1. inst.extras \subseteq Lit
    BY InstanceFacts, LitFacts DEF TypeRules
  <2>. QED BY <1>4, <2>1, SelectAndInstallType DEF DecideExtra
<1>5. CASE DecideErase
  <2>1. PICK p \in UndecidedOf(DOMAIN inst.installed) : SetPropagateLearn(-p, FALSE)
    BY <1>5 DEF DecideErase
  <2>2. -p \in Lit
    BY InstanceFacts, LitFacts DEF TypeRules, UndecidedOf
  <2>3. branches' \in Seq(BranchRec)
    BY <1>5 DEF DecideErase, TypeSearch
  <2>. QED BY <1>5, <2>1, <2>2, <2>3, SetPropagateLearnType DEF DecideErase
<1>6. CASE DropChoiceRules
  <2>1. idx' = 0 /\ problems' \in Seq(ProblemRec) /\ pc = "decide"
    BY <1>6 DEF DropChoiceRules, LocalsOK, Analyzing, analyzeVars, TypeSearch
  <2>. QED BY <1>6, <2>1, ResetType DEF DropChoiceRules
<1>7. CASE Finish
  <2>1. TypeRules' /\ RuleShape' /\ TypeTrail' /\ TypeAnalysis'
    BY <1>7, Frame DEF Finish, TypeRules
  <2>2. TypeSearch'
    BY <1>7, Frame DEF Finish, TypeSearch
  <2>3. TypeLocals'
    BY <1>1, <1>7, Frame DEF Finish, TypeLocals, assertVars
  <2>4. LocalsOK'
    BY <1>7 DEF LocalsOK, Analyzing, Finish, ruleVars, trailVars, propVars, analyzeVars
  <2>. QED BY <2>1, <2>2, <2>3, <2>4 DEF TypeInv, TypeOK
<1>. QED BY <1>2, <1>3, <1>4, <1>5, <1>6, <1>7, TakeBranchType DEF Decide

-----------------------------------------------------------------------------
LEMMA StutterType == TypeInv /\ UNCHANGED vars => TypeInv'
<1> SUFFICES ASSUME TypeInv, UNCHANGED vars PROVE TypeInv'
  OBVIOUS
<1> USE TypeFacts
<1>1. UNCHANGED ruleVars /\ UNCHANGED trailVars /\ UNCHANGED assertVars /\ UNCHANGED propVars
      /\ UNCHANGED analyzeVars /\ UNCHANGED <<disabled, level, branches, problems, disablerules, pc>>
  BY DEF vars
<1>2. TypeRules' /\ RuleShape' /\ TypeTrail' /\ TypeAnalysis'
  BY <1>1, Frame DEF TypeRules
<1>3. TypeSearch'
  BY <1>1, Frame DEF TypeSearch
<1>4. TypeLocals'
  BY <1>1, Frame DEF TypeLocals, assertVars
<1>5. LocalsOK'
  BY <1>1 DEF LocalsOK, Analyzing, ruleVars, trailVars, propVars, analyzeVars
<1>. QED BY <1>2, <1>3, <1>4, <1>5 DEF TypeInv, TypeOK

LEMMA NextType == TypeInv /\ [Next]_vars => TypeInv'
  BY AssertionsType, PropagateType, AnalyzeType, AnalyzeUnsolvableType, DecideType, StutterType
     DEF Next, Terminated

\* The invariant of type correctness is inductive.
THEOREM TypeInvariant == Spec => []TypeInv
<1>1. Init => TypeInv
  BY InitType
<1>2. TypeInv /\ [Next]_vars => TypeInv'
  BY NextType
<1>. QED BY <1>1, <1>2, PTL DEF Spec

\* On every rule set and with any number of packages, all that the engine
\* refers to exists: queues, proofs, watches, branches and problems hold
\* packages of the pool and rules that were added before, and propagate
\* never runs ahead of the decision queue.
THEOREM TypeCorrect == Spec => []TypeOK
<1>1. TypeInv => TypeOK
  BY DEF TypeInv
<1>. QED BY <1>1, TypeInvariant, PTL

(***************************************************************************)
(* The decisions.                                                          *)
(***************************************************************************)
\* The literal l holds in a decision map.
HoldsIn(map, l) == IF l > 0 THEN map[l] > 0 ELSE map[-l] < 0

\* A queue of decisions and a map that describe the same decisions, with
\* levels that never go down along the queue.
Trail(dq, map) ==
  /\ \A k \in 1 .. Len(dq) : HoldsIn(map, dq[k].p)
  /\ \A j, k \in 1 .. Len(dq) : j # k => Pkg(dq[j].p) # Pkg(dq[k].p)
  /\ \A v \in Solvable : map[v] # 0 => \E k \in 1 .. Len(dq) : Pkg(dq[k].p) = v
  /\ \A j, k \in 1 .. Len(dq) : j < k => LevIn(map, dq[j].p) <= LevIn(map, dq[k].p)

Reasons(dq, rs) ==
  \A k \in 1 .. Len(dq) :
    LET w == dq[k].why IN
    w # 0 => /\ dq[k].p \in rs[w].lits
             /\ \A l \in rs[w].lits \ {dq[k].p} : \E j \in 1 .. k - 1 : dq[j].p = -l

FreeFirst(dq, map) ==
  \A k \in 1 .. Len(dq) :
    dq[k].why = 0 <=> (k = 1 \/ LevIn(map, dq[k - 1].p) < LevIn(map, dq[k].p))

TrailFull(dq, map, rs) == Trail(dq, map) /\ Reasons(dq, rs) /\ FreeFirst(dq, map)

DecisionSeq == Seq([p : Lit, why : Nat])
Map == [Solvable -> Int]

-----------------------------------------------------------------------------
\* A decision map tells a literal from its negation, and a level of 0 is an
\* undecided package.
LEMMA SignFacts ==
  ASSUME NEW map \in Map
  PROVE  /\ \A l \in Lit : LevIn(map, l) \in Nat /\ LevIn(map, -l) = LevIn(map, l)
                           /\ (LevIn(map, l) = 0 <=> map[Pkg(l)] = 0)
         /\ \A l \in Lit : HoldsIn(map, l) => ~HoldsIn(map, -l) /\ map[Pkg(l)] # 0
         /\ \A l \in Lit : map[Pkg(l)] # 0 => HoldsIn(map, l) \/ HoldsIn(map, -l)
<1>1. ASSUME NEW l \in Lit
      PROVE  /\ LevIn(map, l) \in Nat /\ LevIn(map, -l) = LevIn(map, l)
             /\ (LevIn(map, l) = 0 <=> map[Pkg(l)] = 0)
             /\ HoldsIn(map, l) => ~HoldsIn(map, -l) /\ map[Pkg(l)] # 0
             /\ map[Pkg(l)] # 0 => HoldsIn(map, l) \/ HoldsIn(map, -l)
  <2>1. l \in Int /\ l # 0 /\ -l \in Lit /\ Pkg(l) \in Solvable /\ Pkg(-l) = Pkg(l)
    BY LitFacts
  <2>2. map[Pkg(l)] \in Int
    BY <2>1 DEF Map
  <2>3. Pkg(l) = IF l > 0 THEN l ELSE -l
    BY DEF Pkg
  <2>. QED BY <2>1, <2>2, <2>3 DEF LevIn, HoldsIn
<1>. QED BY <1>1

\* Two literals of one package are equal or each other's negation.
LEMMA PkgFacts ==
  /\ \A l, m \in Lit : Pkg(l) = Pkg(m) => m = l \/ m = -l
  /\ \A v \in Solvable : Pkg(v) = v
  /\ \A l \in Lit : l # -l /\ -(-l) = l
  BY NSolvablesAssumption DEF Pkg, Lit, Solvable

\* IsTrue, IsFalse, IsUndef and Lev say the same of the current map.
LEMMA TruthFacts ==
  ASSUME TypeInv
  PROVE  /\ decisionmap \in Map
         /\ decisionq \in DecisionSeq
         /\ \A l \in Lit : /\ IsTrue(l) <=> HoldsIn(decisionmap, l)
                           /\ IsFalse(l) <=> HoldsIn(decisionmap, -l)
                           /\ IsUndef(l) <=> decisionmap[Pkg(l)] = 0
                           /\ Lev(l) = LevIn(decisionmap, l)
<1>1. decisionmap \in Map
  BY TypeFacts DEF TypeTrail, Map
<1>2. decisionq \in DecisionSeq
  <2>1. decisionq \in Seq(DecisionRec)
    BY TypeFacts DEF TypeTrail
  <2>2. DecisionRec \subseteq [p : Lit, why : Nat]
    BY TypeFacts DEF DecisionRec
  <2>. QED BY <2>1, <2>2, SeqMonotonic DEF DecisionSeq
<1>3. ASSUME NEW l \in Lit
      PROVE  /\ IsTrue(l) <=> HoldsIn(decisionmap, l)
             /\ IsFalse(l) <=> HoldsIn(decisionmap, -l)
             /\ IsUndef(l) <=> decisionmap[Pkg(l)] = 0
             /\ Lev(l) = LevIn(decisionmap, l)
  <2>1. l \in Int /\ l # 0 /\ -(-l) = l
    BY LitFacts
  <2>. QED BY <2>1 DEF IsTrue, IsFalse, IsUndef, Lev, HoldsIn
<1>. QED BY <1>1, <1>2, <1>3

\* dq2 and map2 are dq and map with one more decision.
Pushed(dq, map, l, w, lev, dq2, map2) ==
  /\ dq2 = Append(dq, Decision(l, w))
  /\ map2 = [map EXCEPT ![Pkg(l)] = Signed(l, lev)]

\* A decision is added to the queue and the map.
LEMMA ExtendTrail ==
  ASSUME NEW dq \in DecisionSeq, NEW map \in Map, NEW rs, TrailFull(dq, map, rs),
         NEW l \in Lit, map[Pkg(l)] = 0,
         NEW lev \in Nat, lev >= 1, \A k \in 1 .. Len(dq) : LevIn(map, dq[k].p) <= lev,
         NEW w \in Nat,
         w = 0 <=> (Len(dq) = 0 \/ LevIn(map, dq[Len(dq)].p) < lev),
         w # 0 => /\ l \in rs[w].lits
                  /\ \A m \in rs[w].lits \ {l} : \E j \in 1 .. Len(dq) : dq[j].p = -m,
         NEW dq2, NEW map2, Pushed(dq, map, l, w, lev, dq2, map2)
  PROVE  /\ TrailFull(dq2, map2, rs)
         /\ dq2 \in DecisionSeq /\ map2 \in Map
         /\ Len(dq2) = Len(dq) + 1 /\ dq2[Len(dq) + 1] = Decision(l, w)
         /\ \A k \in 1 .. Len(dq) : dq2[k] = dq[k] /\ LevIn(map2, dq[k].p) = LevIn(map, dq[k].p)
         /\ LevIn(map2, l) = lev
         /\ \A m \in Lit : map[Pkg(m)] # 0 => map2[Pkg(m)] = map[Pkg(m)]
         /\ \A m \in Lit : map[Pkg(m)] # 0 =>
              LevIn(map2, m) = LevIn(map, m) /\ (HoldsIn(map2, m) <=> HoldsIn(map, m))
         /\ \A m \in Lit : Pkg(m) # Pkg(l) => map2[Pkg(m)] = map[Pkg(m)]
         /\ HoldsIn(map2, l)
<1>1. /\ l \in Int /\ l # 0 /\ Pkg(l) \in Solvable
      /\ Decision(l, w) \in [p : Lit, why : Nat] /\ Decision(l, w).p = l /\ Decision(l, w).why = w
  BY LitFacts DEF Decision
<1>2. /\ dq2 \in DecisionSeq /\ Len(dq2) = Len(dq) + 1 /\ dq2[Len(dq) + 1] = Decision(l, w)
      /\ dq2[Len(dq) + 1].p = l /\ dq2[Len(dq) + 1].why = w
      /\ Len(dq) \in Nat
      /\ \A k \in 1 .. Len(dq) : dq2[k] = dq[k]
      /\ \A k \in 1 .. Len(dq2) : k \in 1 .. Len(dq) \/ k = Len(dq) + 1
  BY <1>1 DEF DecisionSeq, Pushed
<1>3. \A k \in 1 .. Len(dq) : dq[k].p \in Lit /\ dq[k].why \in Nat
  <2> TAKE k \in 1 .. Len(dq)
  <2>1. dq[k] \in [p : Lit, why : Nat]
    BY ElementOfSeq DEF DecisionSeq
  <2>. QED BY <2>1
<1>4. map2 \in Map /\ map2[Pkg(l)] = Signed(l, lev) /\ \A v \in Solvable : v # Pkg(l) => map2[v] = map[v]
  <2>1. Signed(l, lev) \in Int
    BY <1>1 DEF Signed
  <2>. QED BY <1>1, <2>1 DEF Map, Pushed
<1>5. HoldsIn(map2, l) /\ LevIn(map2, l) = lev
  BY <1>1, <1>4 DEF HoldsIn, LevIn, Signed, Pkg
<1>6. ASSUME NEW m \in Lit, Pkg(m) # Pkg(l)
      PROVE  /\ map2[Pkg(m)] = map[Pkg(m)] /\ LevIn(map2, m) = LevIn(map, m)
             /\ (HoldsIn(map2, m) <=> HoldsIn(map, m))
  <2>1. Pkg(m) \in Solvable /\ m \in Int
    BY LitFacts
  <2>2. map2[Pkg(m)] = map[Pkg(m)]
    BY <1>4, <1>6, <2>1
  <2>. QED BY <2>1, <2>2 DEF HoldsIn, LevIn, Pkg
<1>7. \A m \in Lit : map[Pkg(m)] # 0 => Pkg(m) # Pkg(l)
  OBVIOUS
<1>8. \A k \in 1 .. Len(dq) : HoldsIn(map, dq[k].p) /\ Pkg(dq[k].p) # Pkg(l)
  BY <1>3, SignFacts DEF TrailFull, Trail
<1>9. \A k \in 1 .. Len(dq) : /\ dq2[k] = dq[k] /\ HoldsIn(map2, dq[k].p)
                                /\ LevIn(map2, dq[k].p) = LevIn(map, dq[k].p)
                                /\ LevIn(map2, dq2[k].p) = LevIn(map, dq[k].p)
  BY <1>2, <1>3, <1>6, <1>8
<1>10. Trail(dq2, map2)
  <2>1. \A k \in 1 .. Len(dq2) : HoldsIn(map2, dq2[k].p)
    BY <1>2, <1>5, <1>9
  <2>2. \A j, k \in 1 .. Len(dq2) : j # k => Pkg(dq2[j].p) # Pkg(dq2[k].p)
    BY <1>1, <1>2, <1>8 DEF TrailFull, Trail
  <2>3. ASSUME NEW v \in Solvable, map2[v] # 0
        PROVE  \E k \in 1 .. Len(dq2) : Pkg(dq2[k].p) = v
    BY <1>1, <1>2, <1>4, <2>3 DEF TrailFull, Trail
  <2>4. ASSUME NEW j \in 1 .. Len(dq2), NEW k \in 1 .. Len(dq2), j < k
        PROVE  LevIn(map2, dq2[j].p) <= LevIn(map2, dq2[k].p)
    <3>1. j \in 1 .. Len(dq) /\ LevIn(map2, dq2[j].p) = LevIn(map, dq[j].p)
      <4>1. j \in 1 .. Len(dq)
        BY <1>2, <2>4
      <4>. QED BY <1>9, <4>1
    <3>2. CASE k \in 1 .. Len(dq)
      <4>1. LevIn(map, dq[j].p) <= LevIn(map, dq[k].p)
        BY <2>4, <3>1, <3>2 DEF TrailFull, Trail
      <4>2. LevIn(map2, dq2[k].p) = LevIn(map, dq[k].p)
        BY <1>9, <3>2
      <4>. QED BY <3>1, <4>1, <4>2
    <3>3. CASE k = Len(dq) + 1
      <4>1. LevIn(map2, dq2[k].p) = lev
        BY <1>2, <1>5, <3>3
      <4>2. LevIn(map, dq[j].p) <= lev
        BY <3>1
      <4>. QED BY <3>1, <4>1, <4>2
    <3>. QED BY <1>2, <3>2, <3>3
  <2>. QED BY <2>1, <2>2, <2>3, <2>4 DEF Trail
<1>11. Reasons(dq2, rs)
  <2> SUFFICES ASSUME NEW k \in 1 .. Len(dq2), dq2[k].why # 0
               PROVE  /\ dq2[k].p \in rs[dq2[k].why].lits
                      /\ \A m \in rs[dq2[k].why].lits \ {dq2[k].p} : \E j \in 1 .. k - 1 : dq2[j].p = -m
    BY DEF Reasons
  <2>1. CASE k = Len(dq) + 1
    BY <1>1, <1>2, <2>1
  <2>2. CASE k # Len(dq) + 1
    <3>1. k \in 1 .. Len(dq) /\ dq2[k] = dq[k]
      BY <1>2, <2>2
    <3>2. /\ dq[k].p \in rs[dq[k].why].lits
          /\ \A m \in rs[dq[k].why].lits \ {dq[k].p} : \E j \in 1 .. k - 1 : dq[j].p = -m
      BY <3>1 DEF TrailFull, Reasons
    <3>. QED BY <1>2, <3>1, <3>2
  <2>. QED BY <2>1, <2>2
<1>12. FreeFirst(dq2, map2)
  <2> SUFFICES ASSUME NEW k \in 1 .. Len(dq2)
               PROVE  dq2[k].why = 0 <=> (k = 1 \/ LevIn(map2, dq2[k - 1].p) < LevIn(map2, dq2[k].p))
    BY DEF FreeFirst
  <2>1. CASE k = Len(dq) + 1
    <3>1. dq2[k].why = w /\ LevIn(map2, dq2[k].p) = lev
      BY <1>2, <1>5, <2>1
    <3>2. CASE Len(dq) = 0
      BY <1>2, <2>1, <3>1, <3>2
    <3>3. CASE Len(dq) # 0
      <4>1. k - 1 = Len(dq) /\ k # 1 /\ Len(dq) \in 1 .. Len(dq)
        BY <1>2, <2>1, <3>3
      <4>2. LevIn(map2, dq2[k - 1].p) = LevIn(map, dq[Len(dq)].p)
        BY <1>9, <4>1
      <4>. QED BY <3>1, <3>3, <4>1, <4>2
    <3>. QED BY <3>2, <3>3
  <2>2. CASE k # Len(dq) + 1
    <3>1. k \in 1 .. Len(dq) /\ (k # 1 => k - 1 \in 1 .. Len(dq))
      BY <1>2, <2>2
    <3>. QED BY <1>2, <1>9, <3>1 DEF TrailFull, FreeFirst
  <2>. QED BY <2>1, <2>2
<1>. QED BY <1>2, <1>4, <1>5, <1>6, <1>7, <1>9, <1>10, <1>11, <1>12 DEF TrailFull

\* dq2 and map2 are what is left of dq and map when only n decisions are kept.
TakenBack(dq, map, n, dq2, map2) ==
  /\ dq2 = Prefix(dq, n)
  /\ map2 = [v \in Solvable |-> IF v \in {Pkg(dq[k].p) : k \in n + 1 .. Len(dq)} THEN 0 ELSE map[v]]

\* A prefix of the decisions is a trail again, and taking the others out of
\* the map undecides exactly the packages above the level l.
LEMMA RevertTrail ==
  ASSUME NEW dq \in DecisionSeq, NEW map \in Map, NEW rs, TrailFull(dq, map, rs),
         NEW l \in Nat, NEW n \in 0 .. Len(dq),
         \A k \in 1 .. Len(dq) : k <= n <=> LevIn(map, dq[k].p) <= l,
         NEW dq2, NEW map2, TakenBack(dq, map, n, dq2, map2)
  PROVE  /\ TrailFull(dq2, map2, rs)
         /\ dq2 \in DecisionSeq /\ map2 \in Map
         /\ Len(dq2) = n
         /\ \A k \in 1 .. n : /\ dq2[k] = dq[k] /\ LevIn(map2, dq[k].p) = LevIn(map, dq[k].p)
                              /\ LevIn(map2, dq2[k].p) = LevIn(map, dq[k].p)
         /\ \A m \in Lit : LevIn(map, m) > l => map2[Pkg(m)] = 0
         /\ \A m \in Lit : LevIn(map, m) <= l => map2[Pkg(m)] = map[Pkg(m)]
         /\ \A m \in Lit : LevIn(map, m) <= l => LevIn(map2, m) = LevIn(map, m)
         /\ \A m \in Lit : LevIn(map, m) <= l => (HoldsIn(map2, m) <=> HoldsIn(map, m))
         /\ \A m \in Lit : LevIn(map2, m) = 0 \/ LevIn(map2, m) = LevIn(map, m)
<1> DEFINE gone == {Pkg(dq[k].p) : k \in n + 1 .. Len(dq)}
<1>1. /\ dq2 \in DecisionSeq /\ Len(dq2) = n /\ \A k \in 1 .. n : dq2[k] = dq[k]
      /\ Len(dq) \in Nat /\ n \in Nat /\ \A k \in 1 .. n : k \in 1 .. Len(dq)
      /\ \A k \in 1 .. n : LevIn(map, dq[k].p) <= l
  <2>1. dq2 \in DecisionSeq /\ Len(dq2) = n /\ \A k \in 1 .. n : dq2[k] = dq[k]
    BY PrefixSeq DEF DecisionSeq, TakenBack
  <2>2. Len(dq) \in Nat /\ n \in Nat
    BY DEF DecisionSeq
  <2>. QED BY <2>1, <2>2
<1>2. \A k \in 1 .. Len(dq) : dq[k].p \in Lit /\ dq[k].why \in Nat /\ Pkg(dq[k].p) \in Solvable
  <2> TAKE k \in 1 .. Len(dq)
  <2>1. dq[k] \in [p : Lit, why : Nat]
    BY ElementOfSeq DEF DecisionSeq
  <2>. QED BY <2>1, LitFacts
<1>3. map2 \in Map /\ \A v \in Solvable : map2[v] = IF v \in gone THEN 0 ELSE map[v]
  BY DEF Map, TakenBack
<1>4. \A m \in Lit : Pkg(m) \in Solvable /\ m \in Int /\ LevIn(map, m) \in Nat
                     /\ (LevIn(map, m) = 0 <=> map[Pkg(m)] = 0)
  BY LitFacts, SignFacts
<1>5. \A j, k \in 1 .. Len(dq) : Pkg(dq[j].p) = Pkg(dq[k].p) => j = k
  BY DEF TrailFull, Trail
<1>6. ASSUME NEW m \in Lit, LevIn(map, m) <= l
      PROVE  Pkg(m) \notin gone
  <2> SUFFICES ASSUME NEW k \in n + 1 .. Len(dq), Pkg(m) = Pkg(dq[k].p) PROVE FALSE
    OBVIOUS
  <2>1. k \in 1 .. Len(dq) /\ ~(k <= n)
    BY <1>1
  <2>2. LevIn(map, m) = LevIn(map, dq[k].p)
    BY DEF LevIn
  <2>. QED BY <1>6, <2>1, <2>2
<1>7. ASSUME NEW m \in Lit, LevIn(map, m) <= l
      PROVE  /\ map2[Pkg(m)] = map[Pkg(m)] /\ LevIn(map2, m) = LevIn(map, m)
             /\ (HoldsIn(map2, m) <=> HoldsIn(map, m))
  <2>1. map2[Pkg(m)] = map[Pkg(m)]
    BY <1>3, <1>4, <1>6, <1>7
  <2>. QED BY <1>4, <2>1 DEF HoldsIn, LevIn, Pkg
<1>8. ASSUME NEW m \in Lit, LevIn(map, m) > l
      PROVE  map2[Pkg(m)] = 0
  <2>1. map[Pkg(m)] # 0
    BY <1>4, <1>8
  <2>2. PICK k \in 1 .. Len(dq) : Pkg(dq[k].p) = Pkg(m)
    BY <1>4, <2>1 DEF TrailFull, Trail
  <2>3. LevIn(map, dq[k].p) = LevIn(map, m) /\ LevIn(map, m) \in Nat
    BY <1>4, <2>2 DEF LevIn
  <2>4. ~(k <= n)
    BY <1>8, <2>2, <2>3
  <2>5. k \in n + 1 .. Len(dq)
    BY <1>1, <2>4
  <2>6. Pkg(m) \in gone
    BY <2>2, <2>5
  <2>. QED BY <1>3, <1>4, <2>6
<1>9. \A m \in Lit : LevIn(map2, m) = 0 \/ LevIn(map2, m) = LevIn(map, m)
  <2> TAKE m \in Lit
  <2>1. CASE LevIn(map, m) <= l
    BY <1>7, <2>1
  <2>2. CASE LevIn(map, m) > l
    BY <1>8, <2>2 DEF LevIn
  <2>. QED BY <1>4, <2>1, <2>2
<1>10. \A k \in 1 .. n : /\ HoldsIn(map2, dq2[k].p) /\ dq2[k] = dq[k]
                         /\ LevIn(map2, dq2[k].p) = LevIn(map, dq[k].p)
                         /\ LevIn(map2, dq[k].p) = LevIn(map, dq[k].p)
  BY <1>1, <1>2, <1>7 DEF TrailFull, Trail
<1>11. Trail(dq2, map2)
  <2>1. \A k \in 1 .. Len(dq2) : HoldsIn(map2, dq2[k].p)
    BY <1>1, <1>10
  <2>2. \A j, k \in 1 .. Len(dq2) : j # k => Pkg(dq2[j].p) # Pkg(dq2[k].p)
    BY <1>1, <1>5
  <2>3. ASSUME NEW v \in Solvable, map2[v] # 0
        PROVE  \E k \in 1 .. Len(dq2) : Pkg(dq2[k].p) = v
    <3>1. v \notin gone /\ map[v] # 0
      BY <1>3, <2>3
    <3>2. PICK k \in 1 .. Len(dq) : Pkg(dq[k].p) = v
      BY <3>1 DEF TrailFull, Trail
    <3>3. k \in 1 .. n
      <4>1. ~(k \in n + 1 .. Len(dq))
        BY <3>1, <3>2
      <4>. QED BY <1>1, <4>1
    <3>. QED BY <1>1, <3>2, <3>3
  <2>4. \A j, k \in 1 .. Len(dq2) : j < k => LevIn(map2, dq2[j].p) <= LevIn(map2, dq2[k].p)
    BY <1>1, <1>10 DEF TrailFull, Trail
  <2>. QED BY <2>1, <2>2, <2>3, <2>4 DEF Trail
<1>12. Reasons(dq2, rs)
  <2> SUFFICES ASSUME NEW k \in 1 .. Len(dq2), dq2[k].why # 0
               PROVE  /\ dq2[k].p \in rs[dq2[k].why].lits
                      /\ \A m \in rs[dq2[k].why].lits \ {dq2[k].p} : \E j \in 1 .. k - 1 : dq2[j].p = -m
    BY DEF Reasons
  <2>1. dq2[k] = dq[k] /\ k \in 1 .. Len(dq) /\ \A j \in 1 .. k - 1 : dq2[j] = dq[j]
    BY <1>1
  <2>. QED BY <2>1 DEF TrailFull, Reasons
<1>13. FreeFirst(dq2, map2)
  <2> SUFFICES ASSUME NEW k \in 1 .. Len(dq2)
               PROVE  dq2[k].why = 0 <=> (k = 1 \/ LevIn(map2, dq2[k - 1].p) < LevIn(map2, dq2[k].p))
    BY DEF FreeFirst
  <2>1. dq2[k] = dq[k] /\ k \in 1 .. Len(dq) /\ k \in 1 .. n /\ (k # 1 => k - 1 \in 1 .. n)
    BY <1>1
  <2>. QED BY <1>10, <2>1 DEF TrailFull, FreeFirst
<1>. QED BY <1>1, <1>3, <1>7, <1>8, <1>9, <1>10, <1>11, <1>12, <1>13 DEF TrailFull

\* revert keeps exactly the decisions up to the level l.
LEMMA KeepLenFacts ==
  ASSUME TypeInv, TrailFull(decisionq, decisionmap, rules), NEW l \in Nat
  PROVE  /\ KeepLen(l) \in 0 .. Len(decisionq)
         /\ \A k \in 1 .. Len(decisionq) : k <= KeepLen(l) <=> LevIn(decisionmap, decisionq[k].p) <= l
<1> DEFINE stop == {k \in 1 .. Len(decisionq) : LevIn(decisionmap, decisionq[k].p) <= l}
<1>1. KeepLen(l) = IF stop = {} THEN 0 ELSE Max(stop)
  BY DEF KeepLen, Lev
<1>2. Len(decisionq) \in Nat /\ KeepLen(l) \in 0 .. Len(decisionq)
  BY TypeFacts, KeepLenType
<1>3. \A k \in 1 .. Len(decisionq) : LevIn(decisionmap, decisionq[k].p) \in Nat
  BY TypeFacts, SignFacts, TruthFacts
<1>4. ASSUME NEW k \in 1 .. Len(decisionq)
      PROVE  k <= KeepLen(l) <=> LevIn(decisionmap, decisionq[k].p) <= l
  <2>1. CASE stop = {}
    <3>1. KeepLen(l) = 0 /\ k \notin stop
      BY <1>1, <2>1
    <3>. QED BY <3>1
  <2>2. CASE stop # {}
    <3>1. stop \subseteq 0 .. Len(decisionq)
      OBVIOUS
    <3>2. KeepLen(l) \in stop /\ \A y \in stop : KeepLen(l) >= y
      BY <1>1, <1>2, <2>2, <3>1, MaxIn
    <3>3. CASE LevIn(decisionmap, decisionq[k].p) <= l
      BY <1>2, <3>2, <3>3
    <3>4. CASE ~(LevIn(decisionmap, decisionq[k].p) <= l)
      <4>1. k # KeepLen(l)
        BY <3>2, <3>4
      <4>2. k < KeepLen(l) => LevIn(decisionmap, decisionq[k].p) <= LevIn(decisionmap, decisionq[KeepLen(l)].p)
        BY <3>2 DEF TrailFull, Trail
      <4>. QED BY <1>2, <1>3, <3>2, <3>4, <4>1, <4>2
    <3>. QED BY <3>3, <3>4
  <2>. QED BY <2>1, <2>2
<1>. QED BY <1>2, <1>4

-----------------------------------------------------------------------------
(* The invariant. *)

Searching == {"propagate", "decide", "done"}
Resolving == {"analyze", "next", "learn"}

\* A rule with two watches watches two different literals.
WatchShape ==
  \A i \in RuleId : rules[i].w2 # 0 => rules[i].w1 # rules[i].w2 /\ rules[i].w1 # 0

\* The level at which the engine works is the level of the last decision, and
\* the first decision is always the system solvable.
LevelOK ==
  /\ pc = "start" => level = 0 /\ branches = <<>>
  /\ pc \in {"assert", "weakassert"} =>
       level = 0 /\ branches = <<>> /\ \A k \in 1 .. Len(decisionq) : DecisionLev(k) = 1
  /\ pc \in Searching \cup Resolving \cup {"unsolvable"} =>
       level >= 1 /\ DecisionLev(Len(decisionq)) = level
  /\ pc \in Resolving => level > 1
  /\ pc = "unsolvable" => level = 1
  /\ pc = "failed" => level = -1
  /\ IF pc = "start" THEN decisionq = <<>>
     ELSE Len(decisionq) >= 1 /\ decisionq[1] = Decision(SYSTEMSOLVABLE, 0) /\ DecisionLev(1) = 1

\* The candidates of the branch br are undecided below its level.
CandidatesOpen(br, map) ==
  \A j \in DOMAIN br.cands : LevIn(map, br.cands[j]) = 0 \/ LevIn(map, br.cands[j]) > br.level

BranchesOK ==
  pc # "failed" =>
    /\ \A b \in 1 .. Len(branches) : branches[b].level >= 1 /\ branches[b].level < level
    /\ \A a, b \in 1 .. Len(branches) : a < b => branches[a].level < branches[b].level
    /\ \A b \in 1 .. Len(branches) : CandidatesOpen(branches[b], decisionmap)

\* What is left to propagate was decided at the current level.
QueueOK ==
  /\ pc = "propagate" => \A k \in propagate_index + 1 .. Len(decisionq) : DecisionLev(k) = level
  /\ pc = "propagate" /\ pkg # 0 =>
       /\ propagate_index >= 1 /\ pkg = -decisionq[propagate_index].p
       /\ DecisionLev(propagate_index) = level
  /\ pc \in {"decide", "done"} => propagate_index = Len(decisionq)
  /\ pc # "propagate" => pkg = 0

Falsified(l) == HoldsIn(decisionmap, -l)

\* The marked packages that were decided at a level.
SeenAt(lev) == {v \in seen : LevIn(decisionmap, v) = lev}

\* The literals of the rule analyze looks at: all false at that point, but
\* for the one the rule decided.
ResolvedLit(l) ==
  \/ \E k \in 1 .. idx : decisionq[k].p = -l
  \/ idx < Len(decisionq) /\ l = decisionq[idx + 1].p

\* The clause analyze builds: the literals below this level are in q, the
\* marked ones of this level and of level 1 are counted by num and l1num, and
\* after the last literal of this level only the level 1 literals are left.
AnalyzeOK ==
  pc \in Resolving =>
    /\ \A l \in q : Falsified(l) /\ 1 < LevIn(decisionmap, l) /\ LevIn(decisionmap, l) <= rlevel
    /\ 1 <= rlevel /\ rlevel < level
    /\ q = {} => rlevel = 1
    /\ q # {} => \E l \in q : LevIn(decisionmap, l) = rlevel
    /\ pc # "learn" => \A v \in seen : \E k \in 1 .. idx : Pkg(decisionq[k].p) = v
    /\ pc = "analyze" => \A l \in rules[confl].lits : ResolvedLit(l)
    /\ uip = 0 =>
         /\ pc # "learn"
         /\ num = Cardinality(SeenAt(level)) /\ l1num = Cardinality(SeenAt(1))
         /\ \A v \in seen : LevIn(decisionmap, v) \in {1, level} \/ \E l \in q : Pkg(l) = v
         /\ pc = "next" => num >= 1
         /\ pc = "analyze" =>
              \/ num >= 1
              \/ \E l \in rules[confl].lits :
                   Falsified(l) /\ LevIn(decisionmap, l) = level /\ Pkg(l) \notin seen
    /\ uip # 0 =>
         /\ Falsified(uip) /\ LevIn(decisionmap, uip) = level /\ num = 0
         /\ pc # "learn" => /\ \A v \in seen : LevIn(decisionmap, v) = 1
                            /\ l1num = 1 + Cardinality(seen)
         /\ pc = "analyze" => idx < Len(decisionq) /\ DecisionLev(idx + 1) = 1

TrailInv ==
  /\ WatchShape
  /\ TrailFull(decisionq, decisionmap, rules)
  /\ LevelOK
  /\ BranchesOK
  /\ QueueOK
  /\ AnalyzeOK

-----------------------------------------------------------------------------
\* Before the first call nothing is decided.
LEMMA InitTrail == Init => TrailInv
<1> SUFFICES ASSUME Init PROVE TrailInv
  OBVIOUS
<1>1. inst \in Instances /\ rules = inst.rules /\ RuleId = 1 .. NBase
  BY DEF Init, RuleId, NBase
<1>2. WatchShape
  <2> SUFFICES ASSUME NEW i \in RuleId, rules[i].w2 # 0
               PROVE  rules[i].w1 # rules[i].w2 /\ rules[i].w1 # 0
    BY DEF WatchShape
  <2>1. {rules[i].w1, rules[i].w2} \subseteq rules[i].lits /\ rules[i].w1 # rules[i].w2
    BY <1>1, InstanceFacts
  <2>2. rules[i] \in Rule
    BY <1>1, InstanceFacts, ElementOfSeq DEF NBase
  <2>. QED BY <2>1, <2>2, LitFacts DEF Rule
<1>3. Len(decisionq) = 0 /\ Len(branches) = 0 /\ pc = "start" /\ level = 0 /\ pkg = 0
  BY DEF Init
<1>4. TrailFull(decisionq, decisionmap, rules)
  BY <1>3 DEF Init, TrailFull, Trail, Reasons, FreeFirst, ClearMap
<1>5. LevelOK
  BY <1>3 DEF Init, LevelOK, Searching, Resolving
<1>6. BranchesOK /\ QueueOK /\ AnalyzeOK
  BY <1>3 DEF BranchesOK, QueueOK, AnalyzeOK, Resolving
<1>. QED BY <1>2, <1>4, <1>5, <1>6 DEF TrailInv

\* What the invariant says of the parts, with every decision at level 1 or above.
LEMMA TrailFacts ==
  ASSUME TypeInv, TrailInv
  PROVE  /\ decisionmap \in Map /\ decisionq \in DecisionSeq
         /\ WatchShape /\ TrailFull(decisionq, decisionmap, rules)
         /\ LevelOK /\ BranchesOK /\ QueueOK /\ AnalyzeOK
         /\ \A k \in 1 .. Len(decisionq) :
              /\ DecisionLev(k) \in Nat /\ DecisionLev(k) >= 1
              /\ DecisionLev(k) = LevIn(decisionmap, decisionq[k].p)
              /\ DecisionLev(k) <= DecisionLev(Len(decisionq))
              /\ HoldsIn(decisionmap, decisionq[k].p)
         /\ \A l \in Lit : HoldsIn(decisionmap, l) =>
              \E k \in 1 .. Len(decisionq) : decisionq[k].p = l
         /\ \A l \in Lit : LevIn(decisionmap, l) # 0 =>
              \E k \in 1 .. Len(decisionq) : Pkg(decisionq[k].p) = Pkg(l) /\ DecisionLev(k) = LevIn(decisionmap, l)
<1>1. decisionmap \in Map /\ decisionq \in DecisionSeq /\ Len(decisionq) \in Nat
  BY TruthFacts, TypeFacts
<1>2. /\ WatchShape /\ TrailFull(decisionq, decisionmap, rules)
      /\ LevelOK /\ BranchesOK /\ QueueOK /\ AnalyzeOK
  BY DEF TrailInv
<1>3. ASSUME NEW k \in 1 .. Len(decisionq)
      PROVE  /\ DecisionLev(k) \in Nat /\ DecisionLev(k) >= 1
             /\ DecisionLev(k) = LevIn(decisionmap, decisionq[k].p)
             /\ DecisionLev(k) <= DecisionLev(Len(decisionq))
             /\ HoldsIn(decisionmap, decisionq[k].p)
             /\ decisionq[k].p \in Lit
  <2>1. decisionq[k].p \in Lit /\ HoldsIn(decisionmap, decisionq[k].p)
    BY <1>2, TypeFacts DEF TrailFull, Trail
  <2>2. DecisionLev(k) = LevIn(decisionmap, decisionq[k].p)
    BY DEF DecisionLev, Lev
  <2>3. LevIn(decisionmap, decisionq[k].p) \in Nat /\ LevIn(decisionmap, decisionq[k].p) # 0
    BY <1>1, <2>1, SignFacts
  <2>4. DecisionLev(k) <= DecisionLev(Len(decisionq))
    <3>1. k < Len(decisionq) => LevIn(decisionmap, decisionq[k].p) <= LevIn(decisionmap, decisionq[Len(decisionq)].p)
      BY <1>1, <1>2 DEF TrailFull, Trail
    <3>2. DecisionLev(Len(decisionq)) = LevIn(decisionmap, decisionq[Len(decisionq)].p)
      BY DEF DecisionLev, Lev
    <3>3. k = Len(decisionq) \/ k < Len(decisionq)
      BY <1>1
    <3>. QED BY <2>2, <2>3, <3>1, <3>2, <3>3
  <2>. QED BY <2>1, <2>2, <2>3, <2>4
<1>4. ASSUME NEW l \in Lit, decisionmap[Pkg(l)] # 0
      PROVE  \E k \in 1 .. Len(decisionq) :
               /\ Pkg(decisionq[k].p) = Pkg(l) /\ DecisionLev(k) = LevIn(decisionmap, l)
               /\ HoldsIn(decisionmap, l) => decisionq[k].p = l
  <2>1. Pkg(l) \in Solvable
    BY LitFacts
  <2>2. PICK k \in 1 .. Len(decisionq) : Pkg(decisionq[k].p) = Pkg(l)
    BY <1>2, <1>4, <2>1 DEF TrailFull, Trail
  <2>3. LevIn(decisionmap, decisionq[k].p) = LevIn(decisionmap, l)
    BY <2>2 DEF LevIn
  <2>4. decisionq[k].p = l \/ l = -decisionq[k].p
    BY <1>3, <2>2, PkgFacts
  <2>5. HoldsIn(decisionmap, l) => decisionq[k].p = l
    BY <1>1, <1>3, <2>4, SignFacts
  <2>. QED BY <1>3, <2>2, <2>3, <2>5
<1>5. \A l \in Lit : HoldsIn(decisionmap, l) => decisionmap[Pkg(l)] # 0
  BY <1>1, SignFacts
<1>6. \A l \in Lit : LevIn(decisionmap, l) # 0 => decisionmap[Pkg(l)] # 0
  BY <1>1, SignFacts
<1>. QED BY <1>1, <1>2, <1>3, <1>4, <1>5, <1>6

-----------------------------------------------------------------------------
(* makeruledecisions *)

\* Only the system solvable is decided, at level 1.
LEMMA SystemOnlyTrail ==
  ASSUME SystemOnly, NEW rs
  PROVE  /\ TrailFull(decisionq', decisionmap', rs)
         /\ Len(decisionq') = 1 /\ decisionq'[1] = Decision(SYSTEMSOLVABLE, 0)
         /\ LevIn(decisionmap', decisionq'[1].p) = 1
<1> DEFINE none == <<>>
           sys == SYSTEMSOLVABLE
<1>1. /\ none \in DecisionSeq /\ Len(none) = 0 /\ ClearMap \in Map /\ sys \in Lit
      /\ Pkg(sys) = sys /\ Signed(sys, 1) = 1
  BY LitFacts DEF DecisionSeq, ClearMap, Map, Pkg, Signed, SYSTEMSOLVABLE
<1>2. ClearMap[Pkg(sys)] = 0
  BY <1>1, LitFacts DEF ClearMap
<1>3. TrailFull(none, ClearMap, rs)
  BY <1>1 DEF TrailFull, Trail, Reasons, FreeFirst, ClearMap
<1>4. Append(none, Decision(sys, 0)) = <<Decision(sys, 0)>>
  OBVIOUS
<1>5. Pushed(none, ClearMap, sys, 0, 1, decisionq', decisionmap')
  BY <1>1, <1>4 DEF SystemOnly, Pushed
<1>6. /\ \A k \in 1 .. Len(none) : LevIn(ClearMap, none[k].p) <= 1
      /\ 0 = 0 <=> (Len(none) = 0 \/ LevIn(ClearMap, none[Len(none)].p) < 1)
  BY <1>1
<1> HIDE DEF none, sys
<1>7. ASSUME NEW w \in Nat, w = 0, NEW lev \in Nat, lev = 1
      PROVE  /\ TrailFull(decisionq', decisionmap', rs)
             /\ Len(decisionq') = Len(none) + 1 /\ decisionq'[Len(none) + 1] = Decision(sys, w)
             /\ LevIn(decisionmap', sys) = lev
  <2>1. Pushed(none, ClearMap, sys, w, lev, decisionq', decisionmap')
    BY <1>5, <1>7
  <2>2. /\ \A k \in 1 .. Len(none) : LevIn(ClearMap, none[k].p) <= lev
        /\ w = 0 <=> (Len(none) = 0 \/ LevIn(ClearMap, none[Len(none)].p) < lev)
        /\ lev >= 1
    BY <1>6, <1>7
  <2>3. w # 0 => /\ sys \in rs[w].lits
                 /\ \A m \in rs[w].lits \ {sys} : \E j \in 1 .. Len(none) : none[j].p = -m
    BY <1>7
  <2>4. none \in DecisionSeq /\ ClearMap \in Map /\ sys \in Lit
    BY <1>1
  <2>. QED BY <1>2, <1>3, <2>1, <2>2, <2>3, <2>4, ExtendTrail
<1>. QED BY <1>1, <1>7 DEF Decision, sys

\* The decisions of makeruledecisions are all at level 1.
LEMMA AssertPhase ==
  ASSUME TypeInv, TrailInv, pc' \in {"assert", "weakassert"}, UNCHANGED rules,
         level' = 0, branches' = <<>>, pkg' = 0,
         TrailFull(decisionq', decisionmap', rules'),
         Len(decisionq') >= 1, decisionq'[1] = Decision(SYSTEMSOLVABLE, 0),
         \A k \in 1 .. Len(decisionq') : LevIn(decisionmap', decisionq'[k].p) = 1,
         Len(decisionq') \in Nat
  PROVE  TrailInv'
<1>1. WatchShape'
  BY TrailFacts DEF WatchShape, RuleId
<1>2. \A k \in 1 .. Len(decisionq') : DecisionLev(k)' = 1
  BY DEF DecisionLev, Lev
<1>3. LevelOK'
  <2>1. 1 \in 1 .. Len(decisionq')
    OBVIOUS
  <2>2. DecisionLev(1)' = 1
    BY <1>2, <2>1
  <2>. QED BY <1>2, <2>2 DEF LevelOK, Searching, Resolving
<1>4. BranchesOK' /\ QueueOK' /\ AnalyzeOK'
  BY DEF BranchesOK, QueueOK, AnalyzeOK, Resolving
<1>. QED BY <1>1, <1>3, <1>4 DEF TrailInv

\* What holds while makeruledecisions runs.
LEMMA AssertPhaseFacts ==
  ASSUME TypeInv, TrailInv, pc \in {"assert", "weakassert"}
  PROVE  /\ level = 0 /\ branches = <<>> /\ pkg = 0
         /\ TrailFull(decisionq, decisionmap, rules)
         /\ Len(decisionq) \in Nat /\ Len(decisionq) >= 1
         /\ decisionq[1] = Decision(SYSTEMSOLVABLE, 0)
         /\ \A k \in 1 .. Len(decisionq) : LevIn(decisionmap, decisionq[k].p) = 1
  BY TrailFacts, TypeFacts DEF LevelOK, QueueOK, DecisionLev, Lev

\* An assertion is decided at level 1.
LEMMA PushAssertion ==
  ASSUME TypeInv, TrailInv, pc \in {"assert", "weakassert"},
         NEW i \in RuleId, IsAssertion(rules[i]), IsUndef(rules[i].w1), Push(rules[i].w1, i, 1)
  PROVE  /\ TrailFull(decisionq', decisionmap', rules)
         /\ Len(decisionq') \in Nat /\ Len(decisionq') >= 1
         /\ decisionq'[1] = Decision(SYSTEMSOLVABLE, 0)
         /\ \A k \in 1 .. Len(decisionq') : LevIn(decisionmap', decisionq'[k].p) = 1
<1> DEFINE l == rules[i].w1
<1>1. l \in Lit /\ rules[i].lits = {l} /\ i \in Nat /\ i # 0
  BY TypeFacts, LitFacts DEF IsAssertion, RuleShape
<1>2. decisionmap[Pkg(l)] = 0
  BY DEF IsUndef
<1>3. \A k \in 1 .. Len(decisionq) : LevIn(decisionmap, decisionq[k].p) = 1
  BY AssertPhaseFacts
<1>4. Len(decisionq) \in Nat /\ Len(decisionq) >= 1 /\ Len(decisionq) \in 1 .. Len(decisionq)
  BY AssertPhaseFacts
<1>5. ~(Len(decisionq) = 0 \/ LevIn(decisionmap, decisionq[Len(decisionq)].p) < 1)
  BY <1>3, <1>4
<1>6. Pushed(decisionq, decisionmap, l, i, 1, decisionq', decisionmap')
  BY DEF Push, Pushed
<1>7. \A k \in 1 .. Len(decisionq) : LevIn(decisionmap, decisionq[k].p) <= 1
  BY <1>3
<1>8. l \in rules[i].lits /\ \A m \in rules[i].lits \ {l} : \E j \in 1 .. Len(decisionq) : decisionq[j].p = -m
  BY <1>1
<1> HIDE DEF l
<1>9. /\ TrailFull(decisionq', decisionmap', rules)
      /\ Len(decisionq') = Len(decisionq) + 1 /\ decisionq'[Len(decisionq) + 1] = Decision(l, i)
      /\ \A k \in 1 .. Len(decisionq) : decisionq'[k] = decisionq[k]
           /\ LevIn(decisionmap', decisionq[k].p) = LevIn(decisionmap, decisionq[k].p)
      /\ LevIn(decisionmap', l) = 1
  BY <1>1, <1>2, <1>5, <1>6, <1>7, <1>8, TrailFacts, ExtendTrail
<1>10. ASSUME NEW k \in 1 .. Len(decisionq')
       PROVE  LevIn(decisionmap', decisionq'[k].p) = 1
  <2>1. k \in 1 .. Len(decisionq) \/ k = Len(decisionq) + 1
    BY <1>4, <1>9
  <2>2. CASE k \in 1 .. Len(decisionq)
    BY <1>3, <1>9, <2>2
  <2>3. CASE k = Len(decisionq) + 1
    BY <1>9, <2>3 DEF Decision
  <2>. QED BY <2>1, <2>2, <2>3
<1>. QED BY <1>4, <1>9, <1>10, AssertPhaseFacts

\* makeruledecisions decides at level 1, each decision by its assertion.
LEMMA AssertionsTrail == TypeInv /\ TrailInv /\ Assertions => TrailInv'
<1> SUFFICES ASSUME TypeInv, TrailInv, Assertions PROVE TrailInv'
  OBVIOUS
<1> DEFINE Kept == UNCHANGED <<decisionq, decisionmap, rules, level, branches, pkg>>
<1>1. ASSUME Kept, pc \in {"assert", "weakassert"}, pc' \in {"assert", "weakassert"}
      PROVE  TrailInv'
  BY <1>1, AssertPhase, AssertPhaseFacts
<1>2. ASSUME SystemOnly, pc' = "assert", UNCHANGED <<rules, branches, pkg>>,
             pc \in {"start", "assert", "weakassert"}, level' = level
      PROVE  TrailInv'
  <2>1. level = 0 /\ branches = <<>> /\ pkg = 0
    BY <1>2, TrailFacts DEF LevelOK, QueueOK
  <2>2. /\ TrailFull(decisionq', decisionmap', rules')
        /\ Len(decisionq') = 1 /\ decisionq'[1] = Decision(SYSTEMSOLVABLE, 0)
        /\ LevIn(decisionmap', decisionq'[1].p) = 1
    BY <1>2, SystemOnlyTrail
  <2>3. \A k \in 1 .. Len(decisionq') : LevIn(decisionmap', decisionq'[k].p) = 1
    BY <2>2
  <2>. QED BY <1>2, <2>1, <2>2, <2>3, AssertPhase
<1>4. ASSUME NEW i \in RuleId, IsAssertion(rules[i]), IsUndef(rules[i].w1), Push(rules[i].w1, i, 1),
             pc \in {"assert", "weakassert"}, pc' = pc, UNCHANGED <<rules, level, branches, pkg>>
      PROVE  TrailInv'
  BY <1>4, AssertPhase, AssertPhaseFacts, PushAssertion
<1>5. ASSUME UNCHANGED <<decisionq, decisionmap, rules, branches, pkg, propagate_index>>,
             pc \in {"assert", "weakassert"}, pc' = "propagate", level' = 1
      PROVE  TrailInv'
  <2>1. WatchShape' /\ TrailFull(decisionq, decisionmap, rules)'
    BY <1>5, TrailFacts DEF WatchShape, RuleId
  <2>2. /\ \A k \in 1 .. Len(decisionq) : DecisionLev(k)' = 1
        /\ propagate_index = 0 /\ pkg = 0 /\ Len(decisionq) \in 1 .. Len(decisionq)
        /\ Len(decisionq) \in Nat
    BY <1>5, AssertPhaseFacts, TypeFacts DEF DecisionLev, Lev, LocalsOK
  <2>3. LevelOK'
    <3>1. DecisionLev(Len(decisionq))' = 1 /\ DecisionLev(1)' = 1
      BY <1>5, <2>2
    <3>. QED BY <1>5, <3>1, AssertPhaseFacts DEF LevelOK, Searching, Resolving
  <2>4. BranchesOK' /\ AnalyzeOK'
    BY <1>5, AssertPhaseFacts DEF BranchesOK, AnalyzeOK, Resolving
  <2>5. QueueOK'
    BY <1>5, <2>2 DEF QueueOK
  <2>. QED BY <2>1, <2>3, <2>4, <2>5 DEF TrailInv
<1>6. CASE MakeRuleDecisions
  BY <1>2, <1>6 DEF MakeRuleDecisions, ruleVars, propVars
<1>7. CASE AssertLearntStatus
  BY <1>1, <1>7 DEF AssertLearntStatus, ruleVars, trailVars, propVars
<1>8. CASE AssertDecide
  <2>1. PICK i \in RuleAssertions(ri) : IsUndef(rules[i].w1) /\ Push(rules[i].w1, i, 1)
    BY <1>8 DEF AssertDecide
  <2>2. i \in RuleId /\ IsAssertion(rules[i])
    BY TypeFacts DEF RuleAssertions, RuleId, TypeLocals
  <2>. QED BY <1>4, <1>8, <2>1, <2>2 DEF AssertDecide, ruleVars, propVars
<1>9. CASE AssertSkip
  BY <1>1, <1>9 DEF AssertSkip, ruleVars, trailVars, propVars
<1>10. CASE AssertDropLearnt
  BY <1>1, <1>10 DEF AssertDropLearnt, ruleVars, trailVars, propVars
<1>11. CASE AssertUninstall
  BY <1>2, <1>11 DEF AssertUninstall, InConflict, StartOver, ruleVars, propVars
<1>12. CASE AssertConflict
  <2>1. pc = "assert" /\ UNCHANGED <<rules, branches, pkg, propagate_index>>
    BY <1>12 DEF AssertConflict, InConflict, ruleVars, propVars
  <2>2. \/ SystemOnly /\ pc' = "assert" /\ level' = level
        \/ pc' = "failed" /\ level' = -1 /\ UNCHANGED <<decisionq, decisionmap>>
    BY <1>12 DEF AssertConflict, StartOver
  <2>3. CASE pc' = "failed" /\ level' = -1 /\ UNCHANGED <<decisionq, decisionmap>>
    <3>1. WatchShape' /\ TrailFull(decisionq, decisionmap, rules)'
      BY <2>1, <2>3, TrailFacts DEF WatchShape, RuleId
    <3>2. LevelOK'
      BY <2>1, <2>3, TrailFacts DEF LevelOK, Searching, Resolving, DecisionLev, Lev
    <3>3. BranchesOK' /\ QueueOK' /\ AnalyzeOK'
      BY <2>1, <2>3, AssertPhaseFacts DEF BranchesOK, QueueOK, AnalyzeOK, Resolving
    <3>. QED BY <3>1, <3>2, <3>3 DEF TrailInv
  <2>. QED BY <1>2, <2>1, <2>2, <2>3
<1>13. CASE AssertEnd
  BY <1>1, <1>5, <1>13 DEF AssertEnd, ruleVars, trailVars, propVars
<1>14. CASE WeakDecide
  <2> DEFINE i == Min(WeakAssertions(ri))
  <2>1. pc = "weakassert" /\ pc' = pc /\ UNCHANGED <<rules, level, branches, pkg>>
    BY <1>14 DEF WeakDecide, ruleVars, propVars
  <2>2. (IsUndef(rules[i].w1) /\ Push(rules[i].w1, i, 1)) \/ UNCHANGED <<decisionq, decisionmap>>
    BY <1>14 DEF WeakDecide
  <2>3. i \in RuleId /\ IsAssertion(rules[i])
    <3>1. WeakAssertions(ri) # {} /\ WeakAssertions(ri) \subseteq RuleId /\ RuleId \subseteq Nat
      BY <1>14, TypeFacts DEF WeakDecide, WeakAssertions, RuleAssertions, RuleId, TypeLocals
    <3>2. i \in WeakAssertions(ri)
      BY <3>1, MinIn
    <3>. QED BY <3>1, <3>2 DEF WeakAssertions, RuleAssertions
  <2> HIDE DEF i
  <2>. QED BY <1>1, <1>4, <2>1, <2>2, <2>3
<1>15. CASE WeakConflict
  BY <1>2, <1>15 DEF WeakConflict, StartOver, ruleVars, propVars
<1>16. CASE WeakEnd
  BY <1>5, <1>16 DEF WeakEnd, ruleVars, trailVars, propVars
<1>. QED BY <1>6, <1>7, <1>8, <1>9, <1>10, <1>11, <1>12, <1>13, <1>14, <1>15, <1>16 DEF Assertions

-----------------------------------------------------------------------------
(* propagate *)

\* A step that leaves the decisions, the literals of the rules and the
\* branches alone.
LEMMA TrailKept ==
  ASSUME TypeInv, TrailInv, UNCHANGED <<rules, decisionq, decisionmap>>
  PROVE  /\ WatchShape' /\ TrailFull(decisionq, decisionmap, rules)'
         /\ \A k : DecisionLev(k)' = DecisionLev(k)
         /\ DecisionLev(Len(decisionq))' = DecisionLev(Len(decisionq))
         /\ UNCHANGED <<level, branches>> /\ pc # "failed" => BranchesOK'
<1>1. WatchShape' /\ TrailFull(decisionq, decisionmap, rules)'
  BY TrailFacts DEF WatchShape, RuleId
<1>2. \A k : DecisionLev(k)' = DecisionLev(k)
  BY DEF DecisionLev, Lev
<1>3. DecisionLev(Len(decisionq))' = DecisionLev(Len(decisionq))
  BY DEF DecisionLev, Lev
<1>4. UNCHANGED <<level, branches>> /\ pc # "failed" => BranchesOK'
  BY TrailFacts DEF BranchesOK
<1>. QED BY <1>1, <1>2, <1>3, <1>4

\* The rest of the invariant while the engine searches.
LEMMA SearchPhase ==
  ASSUME WatchShape', TrailFull(decisionq, decisionmap, rules)', BranchesOK', QueueOK',
         pc' \in Searching, level' >= 1, DecisionLev(Len(decisionq))' = level',
         Len(decisionq') >= 1, decisionq'[1] = Decision(SYSTEMSOLVABLE, 0), DecisionLev(1)' = 1
  PROVE  TrailInv'
<1>1. LevelOK'
  BY DEF LevelOK, Searching, Resolving
<1>2. AnalyzeOK'
  BY DEF AnalyzeOK, Searching, Resolving
<1>. QED BY <1>1, <1>2 DEF TrailInv

\* What holds while the engine has decisions to work on.
LEMMA SearchFacts ==
  ASSUME TypeInv, TrailInv, pc \in Searching \cup Resolving \cup {"unsolvable"}
  PROVE  /\ level \in Nat /\ level >= 1
         /\ Len(decisionq) \in Nat /\ Len(decisionq) >= 1 /\ Len(decisionq) \in 1 .. Len(decisionq)
         /\ DecisionLev(Len(decisionq)) = level
         /\ \A k \in 1 .. Len(decisionq) : DecisionLev(k) <= level
         /\ decisionq[1] = Decision(SYSTEMSOLVABLE, 0) /\ DecisionLev(1) = 1
         /\ \A l \in Lit : LevIn(decisionmap, l) \in Nat /\ LevIn(decisionmap, l) <= level
         /\ \A b \in 1 .. Len(branches) : /\ branches[b].level >= 1 /\ branches[b].level < level
                                          /\ CandidatesOpen(branches[b], decisionmap)
<1>1. pc # "start" /\ pc # "failed"
  BY DEF Searching, Resolving
<1>2. level \in Nat /\ level >= 1 /\ DecisionLev(Len(decisionq)) = level
      /\ Len(decisionq) >= 1 /\ decisionq[1] = Decision(SYSTEMSOLVABLE, 0) /\ DecisionLev(1) = 1
  BY <1>1, TypeFacts, TrailFacts DEF LevelOK, LocalsOK
<1>3. Len(decisionq) \in Nat /\ Len(decisionq) \in 1 .. Len(decisionq)
  BY <1>2, TypeFacts
<1>4. \A k \in 1 .. Len(decisionq) : DecisionLev(k) <= level
  BY <1>2, TrailFacts
<1>5. \A l \in Lit : LevIn(decisionmap, l) \in Nat /\ LevIn(decisionmap, l) <= level
  <2> TAKE l \in Lit
  <2>1. LevIn(decisionmap, l) \in Nat
    BY TrailFacts, SignFacts
  <2>2. LevIn(decisionmap, l) # 0 => LevIn(decisionmap, l) <= level
    BY <1>4, TrailFacts
  <2>. QED BY <1>2, <2>1, <2>2
<1>6. \A b \in 1 .. Len(branches) : /\ branches[b].level >= 1 /\ branches[b].level < level
                                    /\ CandidatesOpen(branches[b], decisionmap)
  BY <1>1, TrailFacts DEF BranchesOK
<1>. QED BY <1>2, <1>3, <1>4, <1>5, <1>6

\* A literal is decided at the current level or the next one.
LEMMA PushSearch ==
  ASSUME TypeInv, TrailInv, pc \in Searching,
         NEW l \in Lit, IsUndef(l), NEW w \in Nat, NEW lev \in Nat, lev >= level,
         w = 0 <=> level < lev,
         w # 0 => /\ l \in rules[w].lits
                  /\ \A m \in rules[w].lits \ {l} : Falsified(m),
         w # 0 => w \in RuleId,
         Push(l, w, lev)
  PROVE  /\ TrailFull(decisionq', decisionmap', rules)
         /\ Len(decisionq') = Len(decisionq) + 1
         /\ decisionq'[Len(decisionq) + 1] = Decision(l, w)
         /\ \A k \in 1 .. Len(decisionq) :
              decisionq'[k] = decisionq[k] /\ DecisionLev(k)' = DecisionLev(k)
         /\ DecisionLev(Len(decisionq))' = lev
         /\ DecisionLev(1)' = 1
         /\ \A b \in 1 .. Len(branches) : CandidatesOpen(branches[b], decisionmap')
<1>1. /\ level \in Nat /\ level >= 1
      /\ Len(decisionq) \in Nat /\ Len(decisionq) >= 1 /\ Len(decisionq) \in 1 .. Len(decisionq)
      /\ LevIn(decisionmap, decisionq[Len(decisionq)].p) = level
      /\ \A k \in 1 .. Len(decisionq) : LevIn(decisionmap, decisionq[k].p) <= level
  BY SearchFacts, TrailFacts
<1>2. decisionmap[Pkg(l)] = 0
  BY DEF IsUndef
<1>3. \A k \in 1 .. Len(decisionq) : LevIn(decisionmap, decisionq[k].p) <= lev
  <2> TAKE k \in 1 .. Len(decisionq)
  <2>1. LevIn(decisionmap, decisionq[k].p) \in Nat
    BY TypeFacts, TrailFacts
  <2>. QED BY <1>1, <2>1
<1>4. w = 0 <=> (Len(decisionq) = 0 \/ LevIn(decisionmap, decisionq[Len(decisionq)].p) < lev)
  BY <1>1
<1>5. w # 0 => /\ l \in rules[w].lits
               /\ \A m \in rules[w].lits \ {l} : \E j \in 1 .. Len(decisionq) : decisionq[j].p = -m
  <2> SUFFICES ASSUME w # 0, NEW m \in rules[w].lits \ {l}
               PROVE  \E j \in 1 .. Len(decisionq) : decisionq[j].p = -m
    OBVIOUS
  <2>1. m \in Lit /\ -m \in Lit /\ HoldsIn(decisionmap, -m)
    BY TypeFacts, LitFacts DEF Falsified
  <2>. QED BY <2>1, TrailFacts
<1>6. Pushed(decisionq, decisionmap, l, w, lev, decisionq', decisionmap')
  BY DEF Push, Pushed
<1>7. lev >= 1 /\ decisionmap \in Map /\ decisionq \in DecisionSeq /\ TrailFull(decisionq, decisionmap, rules)
  BY <1>1, TrailFacts
<1>8. /\ TrailFull(decisionq', decisionmap', rules)
      /\ Len(decisionq') = Len(decisionq) + 1 /\ decisionq'[Len(decisionq) + 1] = Decision(l, w)
      /\ \A k \in 1 .. Len(decisionq) : /\ decisionq'[k] = decisionq[k]
                                        /\ LevIn(decisionmap', decisionq[k].p) = LevIn(decisionmap, decisionq[k].p)
      /\ LevIn(decisionmap', l) = lev
      /\ \A m \in Lit : decisionmap[Pkg(m)] # 0 => LevIn(decisionmap', m) = LevIn(decisionmap, m)
      /\ \A m \in Lit : Pkg(m) # Pkg(l) => decisionmap'[Pkg(m)] = decisionmap[Pkg(m)]
  BY <1>2, <1>3, <1>4, <1>5, <1>6, <1>7, ExtendTrail
<1>9. \A k \in 1 .. Len(decisionq) : decisionq'[k] = decisionq[k] /\ DecisionLev(k)' = DecisionLev(k)
  BY <1>8 DEF DecisionLev, Lev
<1>10. DecisionLev(Len(decisionq))' = lev /\ DecisionLev(1)' = 1
  <2>1. decisionq'[Len(decisionq')].p = l
    BY <1>8 DEF Decision
  <2>2. 1 \in 1 .. Len(decisionq) /\ DecisionLev(1) = 1
    BY <1>1, SearchFacts
  <2>. QED BY <1>8, <1>9, <2>1, <2>2 DEF DecisionLev, Lev
<1>11. ASSUME NEW b \in 1 .. Len(branches)
       PROVE  CandidatesOpen(branches[b], decisionmap')
  <2> SUFFICES ASSUME NEW j \in DOMAIN branches[b].cands
               PROVE  LET c == branches[b].cands[j]
                      IN  LevIn(decisionmap', c) = 0 \/ LevIn(decisionmap', c) > branches[b].level
    BY DEF CandidatesOpen
  <2> DEFINE c == branches[b].cands[j]
  <2>1. branches[b].level \in Nat /\ c \in Lit
    <3>1. branches[b] \in BranchRec
      BY TypeFacts, ElementOfSeq DEF TypeSearch
    <3>2. branches[b].cands \in Seq(Solvable) /\ branches[b].level \in Nat
      BY <3>1 DEF BranchRec
    <3>3. c \in Solvable
      BY <3>2
    <3>. QED BY <3>2, <3>3, LitFacts
  <2>2. branches[b].level < level /\ (LevIn(decisionmap, c) = 0 \/ LevIn(decisionmap, c) > branches[b].level)
    BY SearchFacts DEF CandidatesOpen
  <2> HIDE DEF c
  <2>3. CASE Pkg(c) = Pkg(l)
    <3>1. LevIn(decisionmap', c) = lev
      BY <1>8, <2>3 DEF LevIn
    <3>. QED BY <1>1, <2>1, <2>2, <3>1 DEF c
  <2>4. CASE Pkg(c) # Pkg(l)
    <3>1. LevIn(decisionmap', c) = LevIn(decisionmap, c)
      BY <1>8, <2>1, <2>4 DEF LevIn
    <3>. QED BY <2>2, <3>1 DEF c
  <2>. QED BY <2>3, <2>4
<1>. QED BY <1>8, <1>9, <1>10, <1>11

\* The literal a rule is visited for is false at the current level, and the
\* other watch is another literal.
LEMMA VisitLevel ==
  ASSUME TypeInv, TrailInv, NEW i \in todo
  PROVE  /\ pc = "propagate" /\ pkg \in Lit /\ Falsified(pkg) /\ LevIn(decisionmap, pkg) = level
         /\ OtherWatch(i) # pkg /\ OtherWatch(i) \in Lit /\ OtherWatch(i) \in rules[i].lits
         /\ pkg \in rules[i].lits
         /\ {OtherWatch(i), pkg} = {rules[i].w1, rules[i].w2}
         /\ propagate_index \in 1 .. Len(decisionq) /\ pkg = -decisionq[propagate_index].p
         /\ DecisionLev(propagate_index) = level
<1>1. /\ i \in RuleId /\ rules[i].w1 \in Lit /\ rules[i].w2 \in Lit
      /\ rules[i].w1 \in rules[i].lits /\ rules[i].w2 \in rules[i].lits
      /\ pkg \in {rules[i].w1, rules[i].w2}
  BY VisitFacts
<1>2. rules[i].w1 # rules[i].w2
  BY <1>1, TrailFacts, LitFacts DEF WatchShape
<1>3. pc = "propagate" /\ pkg # 0
  BY TypeFacts DEF LocalsOK
<1>4. propagate_index >= 1 /\ pkg = -decisionq[propagate_index].p /\ DecisionLev(propagate_index) = level
  BY <1>3, TrailFacts DEF QueueOK
<1>5. propagate_index \in 1 .. Len(decisionq)
  BY <1>4, TypeFacts DEF TypeTrail
<1>6. decisionq[propagate_index].p \in Lit /\ pkg \in Lit /\ -pkg = decisionq[propagate_index].p
  BY <1>1, <1>4, <1>5, TypeFacts, PkgFacts
<1>7. HoldsIn(decisionmap, -pkg) /\ LevIn(decisionmap, pkg) = level
  BY <1>4, <1>5, <1>6, TrailFacts, SignFacts
<1>. QED BY <1>1, <1>2, <1>3, <1>4, <1>5, <1>6, <1>7 DEF OtherWatch, Falsified

\* A rule with no literal for its watch is unit or false.
LEMMA NoFreeLit ==
  ASSUME TypeInv, TrailInv, NEW i \in todo, FreeLits(i) = {}
  PROVE  \A m \in rules[i].lits \ {OtherWatch(i)} : Falsified(m)
<1> SUFFICES ASSUME NEW m \in rules[i].lits \ {OtherWatch(i)} PROVE Falsified(m)
  OBVIOUS
<1>1. m \in Lit
  BY VisitFacts, TypeFacts
<1>2. IsFalse(m)
  BY DEF FreeLits
<1>. QED BY <1>1, <1>2, TruthFacts DEF Falsified

\* propagate decides the last literal of a rule whose others are false.
LEMMA PropagateTrail == TypeInv /\ TrailInv /\ Propagate => TrailInv'
<1> SUFFICES ASSUME TypeInv, TrailInv, Propagate PROVE TrailInv'
  OBVIOUS
<1>1. pc = "propagate" /\ pc # "failed" /\ pc \in Searching
  BY DEF Propagate, PropagateNext, PropagateDecisionDone, PropagateSkip, Visit, PropagateMove,
         PropagateUnit, PropagateConflict, PropagateEnd, Searching
<1>2. /\ level \in Nat /\ level >= 1 /\ Len(decisionq) \in Nat
      /\ Len(decisionq) >= 1 /\ decisionq[1] = Decision(SYSTEMSOLVABLE, 0)
      /\ DecisionLev(1) = 1 /\ DecisionLev(Len(decisionq)) = level
      /\ propagate_index \in 0 .. Len(decisionq)
  BY <1>1, SearchFacts, TypeFacts DEF TypeTrail
<1>3. ASSUME UNCHANGED <<rules, decisionq, decisionmap, level, branches>>, QueueOK', pc' \in Searching
      PROVE  TrailInv'
  <2>1. /\ WatchShape' /\ TrailFull(decisionq, decisionmap, rules)' /\ BranchesOK'
        /\ DecisionLev(1)' = DecisionLev(1) /\ DecisionLev(Len(decisionq))' = DecisionLev(Len(decisionq))
    BY <1>1, <1>3, TrailKept
  <2>. QED BY <1>2, <1>3, <2>1, SearchPhase
<1>4. UNCHANGED <<decisionq, decisionmap>> => \A k : DecisionLev(k)' = DecisionLev(k)
  BY DEF DecisionLev, Lev
<1>5. UNCHANGED <<decisionq, decisionmap, level, pkg, propagate_index, pc>> => QueueOK'
  BY <1>1, <1>4, TrailFacts DEF QueueOK
<1>6. CASE PropagateNext
  <2>1. /\ UNCHANGED <<rules, decisionq, decisionmap, level, branches, pc>>
        /\ propagate_index < Len(decisionq) /\ propagate_index' = propagate_index + 1
        /\ pkg' = -decisionq[propagate_index + 1].p
    BY <1>6 DEF PropagateNext, ruleVars
  <2>2. \A k \in propagate_index + 1 .. Len(decisionq) : DecisionLev(k) = level
    BY <1>1, TrailFacts DEF QueueOK
  <2>3. DecisionLev(propagate_index + 1) = level
    BY <1>2, <2>1, <2>2
  <2>4. QueueOK'
    BY <1>1, <1>2, <1>4, <2>1, <2>2, <2>3 DEF QueueOK
  <2>. QED BY <1>1, <1>3, <2>1, <2>4
<1>7. CASE PropagateDecisionDone
  <2>1. /\ UNCHANGED <<rules, decisionq, decisionmap, level, branches, pc, propagate_index>> /\ pkg' = 0
    BY <1>7 DEF PropagateDecisionDone, ruleVars, trailVars
  <2>2. QueueOK'
    BY <1>1, <1>4, <2>1, TrailFacts DEF QueueOK
  <2>. QED BY <1>1, <1>3, <2>1, <2>2
<1>8. CASE PropagateSkip
  BY <1>1, <1>3, <1>5, <1>8 DEF PropagateSkip, ruleVars, trailVars
<1>9. CASE PropagateMove
  <2>1. PICK i \in todo : \E l \in FreeLits(i) : rules' = [rules EXCEPT ![i] = MoveWatch(rules[i], l)]
    BY <1>9 DEF PropagateMove, Visit
  <2>2. PICK l \in FreeLits(i) : rules' = [rules EXCEPT ![i] = MoveWatch(rules[i], l)]
    BY <2>1
  <2>3. UNCHANGED <<decisionq, decisionmap, level, branches, pkg, propagate_index, pc>>
    BY <1>9 DEF PropagateMove, trailVars
  <2>4. /\ rules \in Seq(Rule) /\ i \in RuleId /\ RuleId = 1 .. Len(rules)
        /\ l \in Lit /\ l # 0 /\ l # OtherWatch(i) /\ OtherWatch(i) # 0 /\ rules[i] \in Rule
    BY VisitFacts, VisitLevel, TypeFacts, LitFacts DEF TypeRules, FreeLits, RuleId
  <2>5. /\ MoveWatch(rules[i], l) \in Rule
        /\ MoveWatch(rules[i], l).lits = rules[i].lits
        /\ MoveWatch(rules[i], l).w1 # MoveWatch(rules[i], l).w2
        /\ MoveWatch(rules[i], l).w1 # 0
    BY <2>4, VisitFacts, LitFacts DEF MoveWatch, OtherWatch, Rule
  <2>6. RuleId' = RuleId
    BY <2>2, <2>4, <2>5, ExceptSeq DEF RuleId
  <2>7. \A j \in RuleId : rules'[j] = IF j = i THEN MoveWatch(rules[i], l) ELSE rules[j]
    BY <2>2, <2>4
  <2>8. WatchShape'
    BY <2>5, <2>6, <2>7, TrailFacts DEF WatchShape
  <2>9. \A j \in RuleId : rules'[j].lits = rules[j].lits
    BY <2>5, <2>7
  <2>10. Reasons(decisionq, rules')
    <3> SUFFICES ASSUME NEW k \in 1 .. Len(decisionq), decisionq[k].why # 0
                 PROVE  LET w == decisionq[k].why
                        IN  /\ decisionq[k].p \in rules'[w].lits
                            /\ \A m \in rules'[w].lits \ {decisionq[k].p} :
                                 \E j \in 1 .. k - 1 : decisionq[j].p = -m
      BY DEF Reasons
    <3>1. decisionq[k].why \in RuleId
      BY TypeFacts
    <3>2. rules'[decisionq[k].why].lits = rules[decisionq[k].why].lits
      BY <2>9, <3>1
    <3>. QED BY <3>2, TrailFacts DEF TrailFull, Reasons
  <2>11. TrailFull(decisionq, decisionmap, rules)'
    BY <2>3, <2>10, TrailFacts DEF TrailFull
  <2>12. BranchesOK'
    BY <1>1, <2>3, TrailFacts DEF BranchesOK
  <2>13. DecisionLev(1)' = 1 /\ DecisionLev(Len(decisionq))' = level'
    BY <1>2, <2>3 DEF DecisionLev, Lev
  <2>. QED BY <1>1, <1>2, <1>5, <2>3, <2>8, <2>11, <2>12, <2>13, SearchPhase
<1>10. CASE PropagateUnit
  <2>1. PICK i \in todo : /\ ~SkipRule(i) /\ FreeLits(i) = {} /\ ~IsFalse(OtherWatch(i))
                          /\ Push(OtherWatch(i), i, level)
    BY <1>10 DEF PropagateUnit
  <2>2. UNCHANGED <<rules, level, branches, pkg, propagate_index, pc>>
    BY <1>10 DEF PropagateUnit, ruleVars
  <2>3. i \in RuleId /\ i \in Nat /\ i # 0
    BY VisitFacts, TypeFacts
  <2> DEFINE l == OtherWatch(i)
  <2>4. l \in Lit /\ l \in rules[i].lits
    BY VisitLevel
  <2>5. IsUndef(l)
    <3>1. ~IsTrue(l)
      BY <2>1 DEF SkipRule
    <3>2. ~HoldsIn(decisionmap, l) /\ ~HoldsIn(decisionmap, -l)
      BY <2>1, <2>4, <3>1, TruthFacts
    <3>. QED BY <2>4, <3>2, TruthFacts, SignFacts
  <2>6. \A m \in rules[i].lits \ {l} : Falsified(m)
    BY <2>1, NoFreeLit
  <2>7. Push(l, i, level)
    BY <2>1
  <2> HIDE DEF l
  <2>8. /\ TrailFull(decisionq', decisionmap', rules)
        /\ Len(decisionq') = Len(decisionq) + 1
        /\ decisionq'[Len(decisionq) + 1] = Decision(l, i)
        /\ \A k \in 1 .. Len(decisionq) :
             decisionq'[k] = decisionq[k] /\ DecisionLev(k)' = DecisionLev(k)
        /\ DecisionLev(Len(decisionq))' = level
        /\ DecisionLev(1)' = 1
        /\ \A b \in 1 .. Len(branches) : CandidatesOpen(branches[b], decisionmap')
    BY <1>1, <1>2, <2>3, <2>4, <2>5, <2>6, <2>7, PushSearch
  <2>9. WatchShape' /\ TrailFull(decisionq, decisionmap, rules)'
    BY <2>2, <2>8, TrailFacts DEF WatchShape, RuleId
  <2>10. BranchesOK'
    BY <1>1, <2>2, <2>8, TrailFacts DEF BranchesOK
  <2>11. QueueOK'
    <3>1. ASSUME NEW k \in propagate_index + 1 .. Len(decisionq')
          PROVE  DecisionLev(k)' = level
      <4>1. k \in propagate_index + 1 .. Len(decisionq) \/ k = Len(decisionq')
        BY <1>2, <2>8
      <4>2. CASE k \in propagate_index + 1 .. Len(decisionq)
        <5>1. k \in 1 .. Len(decisionq) /\ DecisionLev(k) = level
          BY <1>1, <1>2, <4>2, TrailFacts DEF QueueOK
        <5>. QED BY <2>8, <5>1
      <4>3. CASE k = Len(decisionq')
        BY <2>8, <4>3
      <4>. QED BY <4>1, <4>2, <4>3
    <3>2. propagate_index \in 1 .. Len(decisionq) /\ pkg = -decisionq[propagate_index].p
          /\ DecisionLev(propagate_index) = level
      BY VisitLevel
    <3>3. decisionq'[propagate_index] = decisionq[propagate_index] /\ DecisionLev(propagate_index)' = level
      BY <2>2, <2>8, <3>2
    <3>. QED BY <1>1, <2>2, <3>1, <3>2, <3>3 DEF QueueOK
  <2>12. Len(decisionq') >= 1 /\ decisionq'[1] = Decision(SYSTEMSOLVABLE, 0)
    BY <1>2, <2>8
  <2>. QED BY <1>1, <1>2, <2>2, <2>8, <2>9, <2>10, <2>11, <2>12, SearchPhase
<1>11. CASE PropagateConflict
  <2>1. PICK i \in todo :
          /\ FreeLits(i) = {} /\ IsFalse(OtherWatch(i)) /\ confl' = i
          /\ IF level = 1 THEN pc' = "unsolvable" ELSE pc' = "analyze" /\ seen' = {}
    BY <1>11 DEF PropagateConflict
  <2>2. /\ UNCHANGED <<rules, decisionq, decisionmap, level, branches>>
        /\ pkg' = 0 /\ idx' = Len(decisionq) /\ q' = {} /\ num' = 0 /\ l1num' = 0
        /\ uip' = 0 /\ rlevel' = 1
    BY <1>11 DEF PropagateConflict, ruleVars, trailVars
  <2>3. /\ WatchShape' /\ TrailFull(decisionq, decisionmap, rules)' /\ BranchesOK'
        /\ DecisionLev(1)' = DecisionLev(1) /\ DecisionLev(Len(decisionq))' = DecisionLev(Len(decisionq))
    BY <1>1, <2>2, TrailKept
  <2>4. LevelOK'
    BY <1>2, <2>1, <2>2, <2>3 DEF LevelOK, Searching, Resolving
  <2>5. QueueOK'
    BY <2>1, <2>2 DEF QueueOK
  <2>6. \A m \in rules[i].lits : Falsified(m)
    <3>1. OtherWatch(i) \in Lit
      BY VisitLevel
    <3>2. Falsified(OtherWatch(i))
      BY <2>1, <3>1, TruthFacts DEF Falsified
    <3>. QED BY <2>1, <3>2, NoFreeLit
  <2>7. ASSUME pc' = "analyze", seen' = {}, level # 1
        PROVE  AnalyzeOK'
    <3>1. \A m \in rules[i].lits : ResolvedLit(m)'
      <4> TAKE m \in rules[i].lits
      <4>1. m \in Lit /\ -m \in Lit
        BY VisitFacts, TypeFacts, LitFacts
      <4>2. PICK k \in 1 .. Len(decisionq) : decisionq[k].p = -m
        BY <2>6, <4>1, TrailFacts DEF Falsified
      <4>. QED BY <2>2, <4>2 DEF ResolvedLit
    <3>2. SeenAt(level)' = {} /\ SeenAt(1)' = {} /\ Cardinality({}) = 0
      BY <2>7, FS_EmptySet DEF SeenAt
    <3>3. pkg \in rules[i].lits /\ HoldsIn(decisionmap', -pkg) /\ LevIn(decisionmap', pkg) = level
      BY <2>2, VisitLevel DEF Falsified
    <3>4. level' > 1 /\ confl' = i /\ rules' = rules /\ level' = level
      BY <1>2, <2>1, <2>2, <2>7
    <3>5. \E l \in rules[i].lits : Falsified(l)' /\ LevIn(decisionmap', l) = level' /\ Pkg(l) \notin seen'
      BY <2>7, <3>3, <3>4 DEF Falsified
    <3>6. /\ pc' = "analyze" /\ q' = {} /\ uip' = 0 /\ rlevel' = 1 /\ num' = 0 /\ l1num' = 0
          /\ seen' = {} /\ 1 < level'
      BY <2>2, <2>7, <3>4
    <3>7. \A m \in rules'[confl'].lits : ResolvedLit(m)'
      BY <3>1, <3>4
    <3>8. num' = Cardinality(SeenAt(level)') /\ l1num' = Cardinality(SeenAt(1)')
      BY <3>2, <3>6
    <3>9. \E l \in rules'[confl'].lits :
            Falsified(l)' /\ LevIn(decisionmap', l) = level' /\ Pkg(l) \notin seen'
      BY <3>4, <3>5
    <3>. QED BY <3>6, <3>7, <3>8, <3>9 DEF AnalyzeOK, Resolving
  <2>8. AnalyzeOK'
    BY <2>1, <2>7 DEF AnalyzeOK, Resolving
  <2>. QED BY <2>3, <2>4, <2>5, <2>8 DEF TrailInv
<1>12. CASE PropagateEnd
  <2>1. /\ UNCHANGED <<rules, decisionq, decisionmap, level, branches, pkg, propagate_index>>
        /\ pkg = 0 /\ propagate_index = Len(decisionq) /\ pc' = "decide"
    BY <1>12 DEF PropagateEnd, ruleVars, trailVars, propVars
  <2>2. QueueOK' /\ pc' \in Searching
    BY <2>1 DEF QueueOK, Searching
  <2>. QED BY <1>3, <2>1, <2>2
<1>. QED BY <1>6, <1>7, <1>8, <1>9, <1>10, <1>11, <1>12 DEF Propagate

-----------------------------------------------------------------------------
(* revert *)

\* The decisions above level l are taken back and the literal p is decided
\* by the rule w of the rules rs at level lev.
LEMMA RevertPush ==
  ASSUME TypeInv, TrailInv, pc \in Searching \cup Resolving,
         NEW l \in Nat, l >= 1, l < level,
         NEW p \in Lit, LevIn(decisionmap, p) = 0 \/ LevIn(decisionmap, p) > l,
         NEW w \in Nat, NEW lev \in Nat, lev >= l,
         IF w = 0 THEN l < lev
                  ELSE lev = l /\ \E k \in 1 .. Len(decisionq) : DecisionLev(k) = l,
         NEW rs, Reasons(decisionq, rs),
         w # 0 => /\ p \in rs[w].lits
                  /\ \A m \in rs[w].lits \ {p} :
                       m \in Lit /\ Falsified(m) /\ LevIn(decisionmap, m) <= l,
         RevertAndPush(l, p, w, lev)
  PROVE  /\ KeepLen(l) \in 1 .. Len(decisionq) - 1
         /\ \A k \in 1 .. Len(decisionq) : k <= KeepLen(l) <=> DecisionLev(k) <= l
         /\ TrailFull(decisionq', decisionmap', rs)
         /\ Len(decisionq') = KeepLen(l) + 1
         /\ decisionq'[KeepLen(l) + 1] = Decision(p, w)
         /\ \A k \in 1 .. KeepLen(l) : decisionq'[k] = decisionq[k] /\ DecisionLev(k)' = DecisionLev(k)
         /\ DecisionLev(Len(decisionq))' = lev /\ DecisionLev(1)' = 1
         /\ decisionq'[1] = Decision(SYSTEMSOLVABLE, 0)
         /\ propagate_index' = KeepLen(l)
         /\ \A m \in Lit : HoldsIn(decisionmap, m) /\ LevIn(decisionmap, m) <= l =>
              HoldsIn(decisionmap', m) /\ LevIn(decisionmap', m) = LevIn(decisionmap, m)
         /\ \A m \in Lit : Pkg(m) # Pkg(p) => LevIn(decisionmap', m) = 0 \/ LevIn(decisionmap', m) = LevIn(decisionmap, m)
         /\ HoldsIn(decisionmap', p) /\ LevIn(decisionmap', p) = lev
<1> DEFINE n == KeepLen(l)
           dqn == Prefix(decisionq, n)
           mapn == RevertedMap(l)
<1>1. /\ level \in Nat /\ level >= 1 /\ Len(decisionq) \in Nat /\ Len(decisionq) >= 1
      /\ DecisionLev(Len(decisionq)) = level
      /\ decisionq[1] = Decision(SYSTEMSOLVABLE, 0) /\ DecisionLev(1) = 1
  BY SearchFacts
<1>2. /\ decisionmap \in Map /\ decisionq \in DecisionSeq /\ TrailFull(decisionq, decisionmap, rules)
      /\ \A k \in 1 .. Len(decisionq) : /\ DecisionLev(k) = LevIn(decisionmap, decisionq[k].p)
                                        /\ DecisionLev(k) \in Nat
  BY TrailFacts
<1>3. /\ n \in 0 .. Len(decisionq)
      /\ \A k \in 1 .. Len(decisionq) : k <= n <=> LevIn(decisionmap, decisionq[k].p) <= l
  BY <1>2, KeepLenFacts
<1>4. n \in 1 .. Len(decisionq) - 1 /\ n \in Nat
  <2>1. 1 \in 1 .. Len(decisionq) /\ Len(decisionq) \in 1 .. Len(decisionq)
    BY <1>1
  <2>2. 1 <= n /\ ~(Len(decisionq) <= n)
    BY <1>1, <1>2, <1>3, <2>1
  <2>. QED BY <1>1, <1>3, <2>2
<1>5. TrailFull(decisionq, decisionmap, rs)
  BY <1>2 DEF TrailFull
<1>6. TakenBack(decisionq, decisionmap, n, dqn, mapn)
  BY DEF RevertedMap, Reverted, TakenBack
<1> HIDE DEF n, mapn, dqn
<1>7. /\ TrailFull(dqn, mapn, rs) /\ dqn \in DecisionSeq /\ mapn \in Map /\ Len(dqn) = n
      /\ \A k \in 1 .. n : /\ dqn[k] = decisionq[k]
                           /\ LevIn(mapn, decisionq[k].p) = LevIn(decisionmap, decisionq[k].p)
                           /\ LevIn(mapn, dqn[k].p) = LevIn(decisionmap, decisionq[k].p)
      /\ \A m \in Lit : LevIn(decisionmap, m) > l => mapn[Pkg(m)] = 0
      /\ \A m \in Lit : LevIn(decisionmap, m) <= l => mapn[Pkg(m)] = decisionmap[Pkg(m)]
      /\ \A m \in Lit : LevIn(decisionmap, m) <= l => LevIn(mapn, m) = LevIn(decisionmap, m)
      /\ \A m \in Lit : LevIn(decisionmap, m) <= l => (HoldsIn(mapn, m) <=> HoldsIn(decisionmap, m))
      /\ \A m \in Lit : LevIn(mapn, m) = 0 \/ LevIn(mapn, m) = LevIn(decisionmap, m)
  <2>1. decisionmap \in Map /\ decisionq \in DecisionSeq
    BY <1>2
  <2>2. /\ n \in 0 .. Len(decisionq)
        /\ \A k \in 1 .. Len(decisionq) : k <= n <=> LevIn(decisionmap, decisionq[k].p) <= l
    BY <1>3
  <2>. QED BY <1>5, <1>6, <2>1, <2>2, RevertTrail
<1>8. mapn[Pkg(p)] = 0
  <2>1. LevIn(decisionmap, p) = 0 => decisionmap[Pkg(p)] = 0 /\ LevIn(decisionmap, p) <= l
    BY <1>2, SignFacts
  <2>. QED BY <1>7, <2>1
<1>9. \A k \in 1 .. Len(dqn) : LevIn(mapn, dqn[k].p) <= lev
  <2> SUFFICES ASSUME NEW k \in 1 .. n PROVE LevIn(mapn, dqn[k].p) <= lev
    BY <1>7
  <2>1. k \in 1 .. Len(decisionq) /\ k <= n
    BY <1>1, <1>4
  <2>2. LevIn(decisionmap, decisionq[k].p) <= l /\ LevIn(decisionmap, decisionq[k].p) \in Nat
    BY <1>2, <1>3, <2>1
  <2>. QED BY <1>7, <2>2
<1>10. w = 0 <=> (Len(dqn) = 0 \/ LevIn(mapn, dqn[Len(dqn)].p) < lev)
  <2>1. Len(dqn) = n /\ n # 0 /\ n \in 1 .. n /\ n \in 1 .. Len(decisionq)
    BY <1>1, <1>4, <1>7
  <2>2. LevIn(mapn, dqn[Len(dqn)].p) = DecisionLev(n) /\ DecisionLev(n) \in Nat
    BY <1>2, <1>7, <2>1
  <2>3. DecisionLev(n) <= l
    BY <1>2, <1>3, <2>1
  <2>4. CASE w = 0
    BY <2>1, <2>2, <2>3, <2>4
  <2>5. CASE w # 0
    <3>1. PICK k \in 1 .. Len(decisionq) : DecisionLev(k) = l
      BY <2>5
    <3>2. k <= n
      BY <1>2, <1>3, <3>1
    <3>3. l <= DecisionLev(n)
      <4>1. CASE k = n
        BY <3>1, <4>1
      <4>2. CASE k < n
        BY <1>2, <2>1, <3>1, <4>2 DEF TrailFull, Trail
      <4>. QED BY <3>2, <4>1, <4>2, <2>1
    <3>. QED BY <2>1, <2>2, <2>3, <2>5, <3>3
  <2>. QED BY <2>4, <2>5
<1>11. w # 0 => /\ p \in rs[w].lits
                /\ \A m \in rs[w].lits \ {p} : \E j \in 1 .. Len(dqn) : dqn[j].p = -m
  <2> SUFFICES ASSUME w # 0, NEW m \in rs[w].lits \ {p}
               PROVE  \E j \in 1 .. Len(dqn) : dqn[j].p = -m
    OBVIOUS
  <2>1. m \in Lit /\ HoldsIn(decisionmap, -m) /\ LevIn(decisionmap, m) <= l /\ -m \in Lit
    BY LitFacts DEF Falsified
  <2>2. PICK j \in 1 .. Len(decisionq) : decisionq[j].p = -m
    BY <2>1, TrailFacts
  <2>3. LevIn(decisionmap, decisionq[j].p) <= l
    BY <1>2, <2>1, <2>2, SignFacts
  <2>4. j \in 1 .. n
    BY <1>3, <1>4, <2>3
  <2>. QED BY <1>7, <2>2, <2>4
<1>12. Pushed(dqn, mapn, p, w, lev, decisionq', decisionmap')
  BY DEF RevertAndPush, Pushed, dqn, n, mapn
<1>13. lev >= 1
  OBVIOUS
<1>13a. TrailFull(dqn, mapn, rs) /\ dqn \in DecisionSeq /\ mapn \in Map
  BY <1>7
<1>14. /\ TrailFull(decisionq', decisionmap', rs)
       /\ Len(decisionq') = Len(dqn) + 1 /\ decisionq'[Len(dqn) + 1] = Decision(p, w)
       /\ \A k \in 1 .. Len(dqn) : /\ decisionq'[k] = dqn[k]
                                   /\ LevIn(decisionmap', dqn[k].p) = LevIn(mapn, dqn[k].p)
       /\ LevIn(decisionmap', p) = lev
       /\ \A m \in Lit : mapn[Pkg(m)] # 0 =>
            LevIn(decisionmap', m) = LevIn(mapn, m) /\ (HoldsIn(decisionmap', m) <=> HoldsIn(mapn, m))
       /\ \A m \in Lit : Pkg(m) # Pkg(p) => decisionmap'[Pkg(m)] = mapn[Pkg(m)]
       /\ HoldsIn(decisionmap', p)
  BY <1>8, <1>9, <1>10, <1>11, <1>12, <1>13, <1>13a, ExtendTrail
<1>15. \A k \in 1 .. n : decisionq'[k] = decisionq[k] /\ DecisionLev(k)' = DecisionLev(k)
  <2> TAKE k \in 1 .. n
  <2>1. k \in 1 .. Len(decisionq)
    BY <1>1, <1>4
  <2>. QED BY <1>2, <1>7, <1>14, <2>1 DEF DecisionLev, Lev
<1>16. DecisionLev(Len(decisionq))' = lev
  BY <1>7, <1>14 DEF DecisionLev, Lev, Decision
<1>17. 1 \in 1 .. n
  BY <1>4
<1>18. decisionq'[1] = Decision(SYSTEMSOLVABLE, 0) /\ DecisionLev(1)' = 1
  BY <1>1, <1>15, <1>17
<1>19. propagate_index' = n
  <2>1. Len(decisionq) \in n + 1 .. Len(decisionq)
    BY <1>1, <1>4
  <2>2. Reverted(l) # {}
    BY <2>1 DEF Reverted, n
  <2>. QED BY <2>2 DEF RevertAndPush, RevertedIndex, n
<1>20. ASSUME NEW m \in Lit, HoldsIn(decisionmap, m), LevIn(decisionmap, m) <= l
       PROVE  HoldsIn(decisionmap', m) /\ LevIn(decisionmap', m) = LevIn(decisionmap, m)
  <2>1. decisionmap[Pkg(m)] # 0
    BY <1>2, <1>20, SignFacts
  <2>. QED BY <1>7, <1>14, <1>20, <2>1
<1>21. ASSUME NEW m \in Lit, Pkg(m) # Pkg(p)
       PROVE  LevIn(decisionmap', m) = 0 \/ LevIn(decisionmap', m) = LevIn(decisionmap, m)
  <2>1. LevIn(decisionmap', m) = LevIn(mapn, m)
    BY <1>14, <1>21 DEF LevIn
  <2>. QED BY <1>7, <2>1
<1>22. \A k \in 1 .. Len(decisionq) : k <= n <=> DecisionLev(k) <= l
  BY <1>2, <1>3
<1>. QED BY <1>4, <1>7, <1>14, <1>15, <1>16, <1>18, <1>19, <1>20, <1>21, <1>22 DEF n

\* A branch stays open when its candidates are decided above its level only.
LEMMA StaysOpen ==
  ASSUME NEW map, NEW map2, NEW br \in BranchRec, CandidatesOpen(br, map), NEW p \in Lit,
         LevIn(map2, p) > br.level,
         \A m \in Lit : Pkg(m) # Pkg(p) => LevIn(map2, m) = 0 \/ LevIn(map2, m) = LevIn(map, m)
  PROVE  CandidatesOpen(br, map2)
<1> SUFFICES ASSUME NEW j \in DOMAIN br.cands
             PROVE  LevIn(map2, br.cands[j]) = 0 \/ LevIn(map2, br.cands[j]) > br.level
  BY DEF CandidatesOpen
<1>1. br.cands \in Seq(Solvable)
  BY DEF BranchRec
<1>2. br.cands[j] \in Solvable /\ br.cands[j] \in Lit
  <2>1. br.cands[j] \in Solvable
    BY <1>1
  <2>. QED BY <2>1, LitFacts
<1>3. LevIn(map, br.cands[j]) = 0 \/ LevIn(map, br.cands[j]) > br.level
  BY DEF CandidatesOpen
<1>4. CASE Pkg(br.cands[j]) = Pkg(p)
  BY <1>4 DEF LevIn
<1>5. CASE Pkg(br.cands[j]) # Pkg(p)
  BY <1>2, <1>3, <1>5
<1>. QED BY <1>4, <1>5

-----------------------------------------------------------------------------
(* analyze *)

\* A set of literals without a literal and its negation has as many packages.
LEMMA PkgCount ==
  ASSUME NEW S, S \subseteq Lit, \A l \in S : -l \notin S
  PROVE  /\ IsFiniteSet(S) /\ IsFiniteSet({Pkg(l) : l \in S})
         /\ Cardinality({Pkg(l) : l \in S}) = Cardinality(S)
<1> DEFINE T == {Pkg(l) : l \in S}
           f == [l \in S |-> Pkg(l)]
<1>1. IsFiniteSet(S)
  BY LitFinite, FS_Subset
<1>2. f \in Injection(S, T)
  BY PkgFacts DEF Injection, IsInjective
<1>3. f \in Surjection(S, T)
  BY DEF Surjection
<1>4. ExistsBijection(S, T)
  BY <1>2, <1>3 DEF ExistsBijection, Bijection
<1>. QED BY <1>1, <1>4, FS_Bijection

\* A step of analyze leaves the decisions alone.
LEMMA AnalyzeFrame ==
  ASSUME TypeInv, TrailInv, pc \in Resolving, pc' \in Resolving,
         UNCHANGED <<rules, decisionq, decisionmap, level, branches, pkg>>, AnalyzeOK'
  PROVE  TrailInv'
<1>1. pc # "failed" /\ pc # "propagate"
  BY DEF Resolving
<1>2. /\ WatchShape' /\ TrailFull(decisionq, decisionmap, rules)' /\ BranchesOK'
      /\ DecisionLev(1)' = DecisionLev(1) /\ DecisionLev(Len(decisionq))' = DecisionLev(Len(decisionq))
  BY <1>1, TrailKept
<1>3. /\ level >= 1 /\ level > 1 /\ Len(decisionq) >= 1 /\ DecisionLev(Len(decisionq)) = level
      /\ decisionq[1] = Decision(SYSTEMSOLVABLE, 0) /\ DecisionLev(1) = 1
  BY SearchFacts, TrailFacts DEF LevelOK
<1>4. LevelOK'
  BY <1>2, <1>3 DEF LevelOK, Searching, Resolving
<1>5. QueueOK'
  BY <1>1, TrailFacts DEF QueueOK, Resolving
<1>. QED BY <1>2, <1>4, <1>5 DEF TrailInv

\* What analyze knows while it resolves the conflict.
LEMMA AnalyzeFacts ==
  ASSUME TypeInv, TrailInv, pc \in Resolving
  PROVE  /\ level \in Nat /\ level > 1 /\ rlevel \in Nat /\ 1 <= rlevel /\ rlevel < level
         /\ seen \subseteq Solvable /\ seen \subseteq Lit /\ IsFiniteSet(seen) /\ q \subseteq Lit
         /\ idx \in 0 .. Len(decisionq) /\ Len(decisionq) \in Nat
         /\ \A l \in q : Falsified(l) /\ 1 < LevIn(decisionmap, l) /\ LevIn(decisionmap, l) <= rlevel
         /\ q = {} => rlevel = 1
         /\ q # {} => \E l \in q : LevIn(decisionmap, l) = rlevel
         /\ pc # "learn" => \A v \in seen : \E k \in 1 .. idx : Pkg(decisionq[k].p) = v
         /\ \A v \in seen : /\ LevIn(decisionmap, v) \in Nat /\ Pkg(v) = v
         /\ \A lev : SeenAt(lev) \subseteq seen /\ IsFiniteSet(SeenAt(lev)) /\ Cardinality(SeenAt(lev)) \in Nat
         /\ Cardinality(seen) \in Nat
         /\ uip = 0 => /\ pc # "learn" /\ num = Cardinality(SeenAt(level)) /\ l1num = Cardinality(SeenAt(1))
                       /\ \A v \in seen : LevIn(decisionmap, v) \in {1, level} \/ \E l \in q : Pkg(l) = v
                       /\ pc = "next" => num >= 1
         /\ uip # 0 => /\ uip \in Lit /\ Falsified(uip) /\ LevIn(decisionmap, uip) = level /\ num = 0
                       /\ pc # "learn" => /\ \A v \in seen : LevIn(decisionmap, v) = 1
                                          /\ l1num = 1 + Cardinality(seen)
<1>1. level \in Nat /\ level > 1 /\ rlevel \in Nat /\ 1 <= rlevel /\ rlevel < level
  BY SearchFacts, TrailFacts, TypeFacts DEF AnalyzeOK, LevelOK, TypeAnalysis
<1>2. /\ seen \subseteq Solvable /\ seen \subseteq Lit /\ q \subseteq Lit
      /\ idx \in 0 .. Len(decisionq) /\ Len(decisionq) \in Nat /\ uip \in Lit \cup {0}
  BY TypeFacts, LitFacts DEF TypeAnalysis
<1>3. IsFiniteSet(seen) /\ Cardinality(seen) \in Nat
  BY <1>2, LitFinite, FS_Subset, FS_CardinalityType
<1>4. \A lev : SeenAt(lev) \subseteq seen /\ IsFiniteSet(SeenAt(lev)) /\ Cardinality(SeenAt(lev)) \in Nat
  <2> TAKE lev
  <2>1. SeenAt(lev) \subseteq seen
    BY DEF SeenAt
  <2>. QED BY <1>3, <2>1, FS_Subset, FS_CardinalityType
<1>5. \A v \in seen : LevIn(decisionmap, v) \in Nat /\ Pkg(v) = v
  BY <1>2, TrailFacts, SignFacts, PkgFacts
<1>6. /\ \A l \in q : Falsified(l) /\ 1 < LevIn(decisionmap, l) /\ LevIn(decisionmap, l) <= rlevel
      /\ q = {} => rlevel = 1
      /\ q # {} => \E l \in q : LevIn(decisionmap, l) = rlevel
      /\ pc # "learn" => \A v \in seen : \E k \in 1 .. idx : Pkg(decisionq[k].p) = v
      /\ uip = 0 => /\ pc # "learn" /\ num = Cardinality(SeenAt(level)) /\ l1num = Cardinality(SeenAt(1))
                    /\ \A v \in seen : LevIn(decisionmap, v) \in {1, level} \/ \E l \in q : Pkg(l) = v
                    /\ pc = "next" => num >= 1
      /\ uip # 0 => /\ Falsified(uip) /\ LevIn(decisionmap, uip) = level /\ num = 0
                    /\ pc # "learn" => /\ \A v \in seen : LevIn(decisionmap, v) = 1
                                       /\ l1num = 1 + Cardinality(seen)
  BY TrailFacts DEF AnalyzeOK
<1>. QED BY <1>1, <1>2, <1>3, <1>4, <1>5, <1>6

\* Sizes of sets that have nothing in common add up.
LEMMA DisjointCount ==
  ASSUME NEW S, NEW T, IsFiniteSet(S), IsFiniteSet(T), S \cap T = {}
  PROVE  Cardinality(S \cup T) = Cardinality(S) + Cardinality(T)
<1>1. Cardinality(S \cup T) = Cardinality(S) + Cardinality(T) - Cardinality(S \cap T)
  BY FS_Union
<1>2. Cardinality(S \cap T) = 0
  BY FS_EmptySet
<1>3. Cardinality(S) \in Nat /\ Cardinality(T) \in Nat
  BY FS_CardinalityType
<1>. QED BY <1>1, <1>2, <1>3

\* The literals analyze marks are false, decided before and not counted yet.
LEMMA NewLitsFacts ==
  ASSUME TypeInv, TrailInv, pc = "analyze"
  PROVE  /\ confl \in RuleId /\ NewLits \subseteq Lit
         /\ \A l \in NewLits : /\ Falsified(l) /\ Pkg(l) \notin seen
                               /\ \E k \in 1 .. idx : decisionq[k].p = -l
                               /\ LevIn(decisionmap, l) \in 1 .. level
                               /\ LevIn(decisionmap, Pkg(l)) = LevIn(decisionmap, l)
         /\ \A lev : /\ IsFiniteSet(LitsAt(lev)) /\ Cardinality(LitsAt(lev)) \in Nat
                     /\ Cardinality(SeenAt(lev) \cup {Pkg(l) : l \in LitsAt(lev)})
                          = Cardinality(SeenAt(lev)) + Cardinality(LitsAt(lev))
                     /\ Cardinality(seen \cup {Pkg(l) : l \in LitsAt(lev)})
                          = Cardinality(seen) + Cardinality(LitsAt(lev))
<1>1. confl \in RuleId /\ NewLits \subseteq Lit
  BY TypeFacts DEF LocalsOK, TypeAnalysis, NewLits
<1>2. /\ level \in Nat /\ idx \in 0 .. Len(decisionq) /\ Len(decisionq) \in Nat
      /\ decisionmap \in Map
  BY AnalyzeFacts, TrailFacts DEF Resolving
<1>3. ASSUME NEW l \in NewLits
      PROVE  /\ Falsified(l) /\ Pkg(l) \notin seen
             /\ \E k \in 1 .. idx : decisionq[k].p = -l
             /\ LevIn(decisionmap, l) \in 1 .. level
             /\ LevIn(decisionmap, Pkg(l)) = LevIn(decisionmap, l)
  <2>1. l \in Lit /\ -l \in Lit /\ ~IsTrue(l) /\ Pkg(l) \notin seen /\ l \in rules[confl].lits
        /\ Pkg(l) \in Solvable
    BY <1>1, LitFacts DEF NewLits
  <2>2. ~HoldsIn(decisionmap, l)
    BY <2>1, TruthFacts
  <2>3. ResolvedLit(l)
    BY <2>1, TrailFacts DEF AnalyzeOK, Resolving
  <2>4. PICK k \in 1 .. idx : decisionq[k].p = -l
    <3>1. idx < Len(decisionq) => idx + 1 \in 1 .. Len(decisionq)
      BY <1>2
    <3>2. idx < Len(decisionq) => l # decisionq[idx + 1].p
      BY <2>2, <3>1, TrailFacts
    <3>. QED BY <2>3, <3>2 DEF ResolvedLit
  <2>5. k \in 1 .. Len(decisionq)
    BY <1>2
  <2>6. Falsified(l) /\ LevIn(decisionmap, l) = DecisionLev(k)
    BY <1>2, <2>1, <2>4, <2>5, TrailFacts, SignFacts DEF Falsified
  <2>7. DecisionLev(k) \in 1 .. level
    BY <2>5, SearchFacts, TrailFacts DEF Resolving
  <2>8. LevIn(decisionmap, Pkg(l)) = LevIn(decisionmap, l)
    BY <2>1, PkgFacts DEF LevIn
  <2>. QED BY <2>1, <2>4, <2>6, <2>7, <2>8
<1>4. ASSUME NEW lev
      PROVE  /\ IsFiniteSet(LitsAt(lev)) /\ Cardinality(LitsAt(lev)) \in Nat
             /\ Cardinality(SeenAt(lev) \cup {Pkg(l) : l \in LitsAt(lev)})
                  = Cardinality(SeenAt(lev)) + Cardinality(LitsAt(lev))
             /\ Cardinality(seen \cup {Pkg(l) : l \in LitsAt(lev)})
                  = Cardinality(seen) + Cardinality(LitsAt(lev))
  <2> DEFINE new == {Pkg(l) : l \in LitsAt(lev)}
  <2>1. LitsAt(lev) \subseteq NewLits /\ LitsAt(lev) \subseteq Lit
    BY <1>1 DEF LitsAt
  <2>2. \A l \in LitsAt(lev) : -l \notin LitsAt(lev)
    <3> SUFFICES ASSUME NEW l \in LitsAt(lev), -l \in LitsAt(lev) PROVE FALSE
      OBVIOUS
    <3>1. Falsified(l) /\ Falsified(-l) /\ l \in Lit /\ -l \in Lit
      BY <1>3, <2>1
    <3>2. HoldsIn(decisionmap, -l) /\ HoldsIn(decisionmap, l)
      BY <3>1, PkgFacts DEF Falsified
    <3>. QED BY <1>2, <3>1, <3>2, SignFacts
  <2>3. IsFiniteSet(LitsAt(lev)) /\ IsFiniteSet(new) /\ Cardinality(new) = Cardinality(LitsAt(lev))
    BY <2>1, <2>2, PkgCount
  <2>4. Cardinality(LitsAt(lev)) \in Nat
    BY <2>3, FS_CardinalityType
  <2>5. IsFiniteSet(seen) /\ IsFiniteSet(SeenAt(lev)) /\ SeenAt(lev) \subseteq seen
        /\ Cardinality(seen) \in Nat /\ Cardinality(SeenAt(lev)) \in Nat
    BY AnalyzeFacts DEF Resolving
  <2>6. seen \cap new = {} /\ SeenAt(lev) \cap new = {}
    BY <1>3, <2>1, <2>5
  <2> HIDE DEF new
  <2>8. Cardinality(SeenAt(lev) \cup new) = Cardinality(SeenAt(lev)) + Cardinality(LitsAt(lev))
    BY <2>3, <2>5, <2>6, DisjointCount
  <2>9. Cardinality(seen \cup new) = Cardinality(seen) + Cardinality(LitsAt(lev))
    BY <2>3, <2>5, <2>6, DisjointCount
  <2>. QED BY <2>3, <2>4, <2>8, <2>9 DEF new
<1>. QED BY <1>1, <1>3, <1>4

\* Marking the literals of a rule: each is counted once, where it belongs.
LEMMA AnalyzeRuleTrail == TypeInv /\ TrailInv /\ AnalyzeRule => TrailInv'
<1> SUFFICES ASSUME TypeInv, TrailInv, AnalyzeRule PROVE TrailInv'
  OBVIOUS
<1>1. /\ pc = "analyze" /\ pc' = "next" /\ pc \in Resolving /\ pc' \in Resolving
      /\ UNCHANGED <<rules, decisionq, decisionmap, level, branches, pkg, idx, uip>>
      /\ seen' = seen \cup {Pkg(l) : l \in NewLits}
      /\ l1num' = l1num + Cardinality(LitsAt(1)) /\ num' = num + Cardinality(LitsAt(level))
      /\ q' = q \cup LowerLits /\ rlevel' \in BackLevel
  BY DEF AnalyzeRule, ruleVars, trailVars, propVars, Resolving
<1>2. /\ level \in Nat /\ level > 1 /\ rlevel \in Nat /\ 1 <= rlevel /\ rlevel < level
      /\ \A l \in q : Falsified(l) /\ 1 < LevIn(decisionmap, l) /\ LevIn(decisionmap, l) <= rlevel
      /\ q = {} => rlevel = 1
      /\ q # {} => \E l \in q : LevIn(decisionmap, l) = rlevel
      /\ \A v \in seen : \E k \in 1 .. idx : Pkg(decisionq[k].p) = v
      /\ q \subseteq Lit
  BY <1>1, AnalyzeFacts
<1>3. /\ confl \in RuleId /\ NewLits \subseteq Lit
      /\ \A l \in NewLits : /\ Falsified(l) /\ Pkg(l) \notin seen
                            /\ \E k \in 1 .. idx : decisionq[k].p = -l
                            /\ LevIn(decisionmap, l) \in 1 .. level
                            /\ LevIn(decisionmap, Pkg(l)) = LevIn(decisionmap, l)
  BY <1>1, NewLitsFacts
<1>4. /\ LowerLits = {l \in NewLits : LevIn(decisionmap, l) # 1 /\ LevIn(decisionmap, l) # level}
      /\ \A lev : LitsAt(lev) = {l \in NewLits : LevIn(decisionmap, l) = lev}
  BY DEF LowerLits, LitsAt, Lev
<1>5. \A l \in LowerLits : /\ Falsified(l) /\ 1 < LevIn(decisionmap, l) /\ LevIn(decisionmap, l) < level
                           /\ LevIn(decisionmap, l) \in Nat /\ l \in NewLits
  BY <1>2, <1>3, <1>4
<1>6. /\ rlevel' = rlevel \/ \E l \in LowerLits : rlevel' = LevIn(decisionmap, l)
      /\ rlevel <= rlevel' /\ \A l \in LowerLits : LevIn(decisionmap, l) <= rlevel'
  BY <1>1 DEF BackLevel, Lev
<1>7. rlevel' \in Nat /\ 1 <= rlevel' /\ rlevel' < level
  BY <1>2, <1>5, <1>6
<1>8. \A l \in q' : HoldsIn(decisionmap, -l) /\ 1 < LevIn(decisionmap, l) /\ LevIn(decisionmap, l) <= rlevel'
  <2>1. ASSUME NEW l \in q
        PROVE  HoldsIn(decisionmap, -l) /\ 1 < LevIn(decisionmap, l) /\ LevIn(decisionmap, l) <= rlevel'
    <3>1. LevIn(decisionmap, l) \in Nat
      BY <1>2, TrailFacts, SignFacts
    <3>. QED BY <1>2, <1>6, <1>7, <3>1 DEF Falsified
  <2>2. ASSUME NEW l \in LowerLits
        PROVE  HoldsIn(decisionmap, -l) /\ 1 < LevIn(decisionmap, l) /\ LevIn(decisionmap, l) <= rlevel'
    BY <1>5, <1>6 DEF Falsified
  <2>. QED BY <1>1, <2>1, <2>2
<1>9. q' = {} => rlevel' = 1
  BY <1>1, <1>2, <1>6
<1>10. q' # {} => \E l \in q' : LevIn(decisionmap, l) = rlevel'
  <2>1. CASE rlevel' = rlevel
    <3>1. q = {} => LowerLits = {}
      BY <1>2, <1>5, <1>6, <2>1
    <3>. QED BY <1>1, <1>2, <2>1, <3>1
  <2>2. CASE \E l \in LowerLits : rlevel' = LevIn(decisionmap, l)
    BY <1>1, <2>2
  <2>. QED BY <1>6, <2>1, <2>2
<1>11. \A v \in seen' : \E k \in 1 .. idx : Pkg(decisionq[k].p) = v
  <2>1. ASSUME NEW l \in NewLits PROVE \E k \in 1 .. idx : Pkg(decisionq[k].p) = Pkg(l)
    <3>1. PICK k \in 1 .. idx : decisionq[k].p = -l
      BY <1>3
    <3>. QED BY <1>3, <3>1, LitFacts
  <2>. QED BY <1>1, <1>2, <2>1
<1>12. ASSUME NEW lev
       PROVE  {v \in seen' : LevIn(decisionmap, v) = lev} = SeenAt(lev) \cup {Pkg(l) : l \in LitsAt(lev)}
  BY <1>1, <1>3, <1>4 DEF SeenAt
<1>13. ASSUME NEW lev
       PROVE  /\ Cardinality(LitsAt(lev)) \in Nat /\ IsFiniteSet(LitsAt(lev))
              /\ Cardinality({v \in seen' : LevIn(decisionmap, v) = lev})
                   = Cardinality(SeenAt(lev)) + Cardinality(LitsAt(lev))
              /\ Cardinality(seen \cup {Pkg(l) : l \in LitsAt(lev)})
                   = Cardinality(seen) + Cardinality(LitsAt(lev))
  BY <1>1, <1>12, NewLitsFacts
<1>14. CASE uip = 0
  <2>1. /\ num = Cardinality(SeenAt(level)) /\ l1num = Cardinality(SeenAt(1))
        /\ \A v \in seen : LevIn(decisionmap, v) \in {1, level} \/ \E l \in q : Pkg(l) = v
        /\ Cardinality(SeenAt(level)) \in Nat
        /\ \/ num >= 1
           \/ \E l \in rules[confl].lits :
                Falsified(l) /\ LevIn(decisionmap, l) = level /\ Pkg(l) \notin seen
    BY <1>1, <1>14, AnalyzeFacts, TrailFacts DEF AnalyzeOK
  <2>2. /\ num' = Cardinality({v \in seen' : LevIn(decisionmap, v) = level})
        /\ l1num' = Cardinality({v \in seen' : LevIn(decisionmap, v) = 1})
    BY <1>1, <1>13, <2>1
  <2>3. \A v \in seen' : LevIn(decisionmap, v) \in {1, level} \/ \E l \in q' : Pkg(l) = v
    <3>1. ASSUME NEW l \in NewLits
          PROVE  LevIn(decisionmap, Pkg(l)) \in {1, level} \/ \E m \in q' : Pkg(m) = Pkg(l)
      BY <1>1, <1>3, <1>4
    <3>. QED BY <1>1, <2>1, <3>1
  <2>4. num' >= 1
    <3>1. num \in Nat /\ Cardinality(LitsAt(level)) \in Nat /\ IsFiniteSet(LitsAt(level))
      BY <1>13, <2>1
    <3>2. ASSUME NEW l \in rules[confl].lits, Falsified(l), LevIn(decisionmap, l) = level, Pkg(l) \notin seen
          PROVE  Cardinality(LitsAt(level)) # 0
      <4>1. l \in Lit
        BY <1>3, TypeFacts
      <4>2. ~HoldsIn(decisionmap, l)
        BY <3>2, <4>1, TrailFacts, SignFacts DEF Falsified
      <4>3. l \in NewLits
        BY <3>2, <4>1, <4>2, TruthFacts DEF NewLits
      <4>4. LitsAt(level) # {}
        BY <1>4, <3>2, <4>3
      <4>. QED BY <3>1, <4>4, FS_EmptySet
    <3>. QED BY <1>1, <2>1, <3>1, <3>2
  <2>5. AnalyzeOK'
    BY <1>1, <1>2, <1>7, <1>8, <1>9, <1>10, <1>11, <1>14, <2>2, <2>3, <2>4
    DEF AnalyzeOK, SeenAt, Falsified
  <2>. QED BY <1>1, <2>5, AnalyzeFrame
<1>15. CASE uip # 0
  <2>1. /\ Falsified(uip) /\ LevIn(decisionmap, uip) = level /\ num = 0
        /\ \A v \in seen : LevIn(decisionmap, v) = 1
        /\ l1num = 1 + Cardinality(seen) /\ Cardinality(seen) \in Nat
        /\ idx < Len(decisionq) /\ DecisionLev(idx + 1) = 1
    BY <1>1, <1>15, AnalyzeFacts, TrailFacts DEF AnalyzeOK
  <2>2. ASSUME NEW l \in NewLits PROVE LevIn(decisionmap, l) = 1
    <3>1. PICK k \in 1 .. idx : decisionq[k].p = -l
      BY <1>3
    <3>2. k \in 1 .. Len(decisionq) /\ idx + 1 \in 1 .. Len(decisionq) /\ k < idx + 1
      BY <1>1, <2>1, AnalyzeFacts
    <3>3. DecisionLev(k) <= DecisionLev(idx + 1)
      BY <3>2, TrailFacts DEF TrailFull, Trail
    <3>4. DecisionLev(k) = LevIn(decisionmap, l)
      BY <1>3, <3>1, <3>2, TrailFacts, SignFacts
    <3>. QED BY <1>3, <2>1, <3>3, <3>4
  <2>3. LitsAt(level) = {} /\ LowerLits = {} /\ LitsAt(1) = NewLits
    <3>1. LitsAt(level) = {}
      BY <1>2, <1>4, <2>2
    <3>2. LowerLits = {}
      BY <1>4, <2>2
    <3>3. LitsAt(1) = NewLits
      BY <1>4, <2>2
    <3>. QED BY <3>1, <3>2, <3>3
  <2>4. Cardinality(LitsAt(level)) = 0
    BY <2>3, FS_EmptySet
  <2>5. num' = 0 /\ rlevel' = rlevel
    BY <1>1, <1>6, <2>1, <2>3, <2>4
  <2>6. \A v \in seen' : LevIn(decisionmap, v) = 1
    BY <1>1, <1>3, <2>1, <2>2
  <2>7. l1num' = 1 + Cardinality(seen')
    <3>1. Cardinality(seen \cup {Pkg(l) : l \in LitsAt(1)}) = Cardinality(seen) + Cardinality(LitsAt(1))
          /\ Cardinality(LitsAt(1)) \in Nat
      BY <1>13
    <3>2. seen' = seen \cup {Pkg(l) : l \in LitsAt(1)}
      BY <1>1, <2>3
    <3>3. Cardinality(seen') = Cardinality(seen) + Cardinality(LitsAt(1))
      BY <3>1, <3>2
    <3>4. l1num' = l1num + Cardinality(LitsAt(1))
      BY <1>1
    <3>. QED BY <2>1, <3>1, <3>3, <3>4
  <2>8. AnalyzeOK'
    BY <1>1, <1>2, <1>7, <1>8, <1>9, <1>10, <1>11, <1>15, <2>1, <2>5, <2>6, <2>7
    DEF AnalyzeOK, SeenAt, Falsified
  <2>. QED BY <1>1, <2>8, AnalyzeFrame
<1>. QED BY <1>14, <1>15

\* The last marked decision: every other marked one was made before it.
LEMMA MarkedFacts ==
  ASSUME TypeInv, TrailInv, pc = "next", Marked # {}
  PROVE  LET k == LastMarked
             v == Pkg(decisionq[k].p)
         IN  /\ k \in 1 .. idx /\ k \in 1 .. Len(decisionq) /\ v \in seen /\ decisionq[k].p \in Lit
             /\ \A u \in seen \ {v} : \E j \in 1 .. k - 1 : Pkg(decisionq[j].p) = u
             /\ LevIn(decisionmap, v) = DecisionLev(k) /\ DecisionLev(k) \in Nat
             /\ \A u \in seen : LevIn(decisionmap, u) <= DecisionLev(k)
             /\ DecisionLev(k) <= level
<1> DEFINE k == LastMarked
           v == Pkg(decisionq[k].p)
<1>1. k \in Marked /\ k \in 1 .. idx /\ k \in 1 .. Len(decisionq) /\ \A j \in Marked : j <= k
  BY LastMarkedType
<1>2. v \in seen /\ decisionq[k].p \in Lit /\ idx \in 0 .. Len(decisionq) /\ Len(decisionq) \in Nat
  BY <1>1, TypeFacts DEF Marked, TypeAnalysis
<1>3. /\ \A u \in seen : \E j \in 1 .. idx : Pkg(decisionq[j].p) = u
      /\ \A u \in seen : Pkg(u) = u
  BY AnalyzeFacts DEF Resolving
<1> HIDE DEF k
<1>4. LevIn(decisionmap, v) = DecisionLev(k) /\ DecisionLev(k) \in Nat
  <2>1. Pkg(v) = v
    BY <1>2, <1>3
  <2>2. LevIn(decisionmap, v) = LevIn(decisionmap, decisionq[k].p)
    BY <2>1 DEF LevIn
  <2>. QED BY <1>1, <2>2, TrailFacts
<1>5. ASSUME NEW u \in seen
      PROVE  /\ LevIn(decisionmap, u) <= DecisionLev(k)
             /\ u # v => \E j \in 1 .. k - 1 : Pkg(decisionq[j].p) = u
  <2>1. PICK j \in 1 .. idx : Pkg(decisionq[j].p) = u
    BY <1>3
  <2>2. j \in Marked /\ j \in 1 .. Len(decisionq) /\ j <= k
    BY <1>1, <1>2, <2>1 DEF Marked
  <2>3. LevIn(decisionmap, u) = DecisionLev(j)
    <3>1. LevIn(decisionmap, u) = LevIn(decisionmap, decisionq[j].p)
      BY <1>3, <2>1 DEF LevIn
    <3>. QED BY <2>2, <3>1, TrailFacts
  <2>4. DecisionLev(j) <= DecisionLev(k)
    <3>1. CASE j = k
      BY <1>4, <3>1
    <3>2. CASE j < k
      BY <1>1, <2>2, <3>2, TrailFacts DEF TrailFull, Trail
    <3>. QED BY <1>1, <2>2, <3>1, <3>2
  <2>5. u # v => j \in 1 .. k - 1
    BY <1>1, <2>1, <2>2
  <2>. QED BY <2>1, <2>3, <2>4, <2>5
<1>6. DecisionLev(k) <= level
  BY <1>1, SearchFacts DEF Resolving
<1>. QED BY <1>1, <1>2, <1>4, <1>5, <1>6 DEF k

\* Before the last literal of the level is found the marked decision is at it.
LEMMA MarkedLevel ==
  ASSUME TypeInv, TrailInv, pc = "next", Marked # {}, uip = 0
  PROVE  DecisionLev(LastMarked) = level
<1>1. num = Cardinality(SeenAt(level)) /\ num >= 1 /\ level \in Nat /\ IsFiniteSet(SeenAt(level))
  BY AnalyzeFacts DEF Resolving
<1>2. SeenAt(level) # {}
  BY <1>1, FS_EmptySet
<1>3. PICK u \in seen : LevIn(decisionmap, u) = level
  BY <1>2 DEF SeenAt
<1>. QED BY <1>1, <1>3, MarkedFacts

\* The walk ends when only the literal to learn is counted.
LEMMA AnalyzeDoneTrail == TypeInv /\ TrailInv /\ AnalyzeDone => TrailInv'
<1> SUFFICES ASSUME TypeInv, TrailInv, AnalyzeDone PROVE TrailInv'
  OBVIOUS
<1>1. /\ pc = "next" /\ num = 0 /\ pc' = "learn" /\ pc \in Resolving /\ pc' \in Resolving
      /\ UNCHANGED <<rules, decisionq, decisionmap, level, branches, pkg, q, rlevel, uip, num, idx>>
  BY DEF AnalyzeDone, ruleVars, trailVars, propVars, Resolving
<1>2. uip # 0
  BY <1>1, AnalyzeFacts
<1>3. AnalyzeOK'
  BY <1>1, <1>2, TrailFacts DEF AnalyzeOK, Falsified
<1>. QED BY <1>1, <1>3, AnalyzeFrame

\* The last literal of the level is found; only level 1 is left to walk.
LEMMA AnalyzeUipTrail == TypeInv /\ TrailInv /\ AnalyzeUip => TrailInv'
<1> SUFFICES ASSUME TypeInv, TrailInv, AnalyzeUip PROVE TrailInv'
  OBVIOUS
<1> DEFINE k == LastMarked
           v == Pkg(decisionq[k].p)
<1>1. /\ pc = "next" /\ num = 1 /\ Marked # {} /\ pc \in Resolving /\ pc' \in Resolving
      /\ UNCHANGED <<rules, decisionq, decisionmap, level, branches, pkg, q, rlevel>>
      /\ uip' = -decisionq[k].p /\ idx' = k - 1 /\ num' = 0
      /\ \/ /\ pc' = "next" /\ seen' = (seen \ {v}) \ {Pkg(l) : l \in q} /\ l1num' = l1num + 1
         \/ pc' = "learn"
  BY DEF AnalyzeUip, ruleVars, trailVars, propVars, Resolving, Unmark
<1>2. /\ level \in Nat /\ level > 1 /\ rlevel \in Nat /\ 1 <= rlevel /\ rlevel < level
      /\ \A l \in q : Falsified(l) /\ 1 < LevIn(decisionmap, l) /\ LevIn(decisionmap, l) <= rlevel
      /\ q = {} => rlevel = 1
      /\ q # {} => \E l \in q : LevIn(decisionmap, l) = rlevel
      /\ q \subseteq Lit
  BY <1>1, AnalyzeFacts
<1>3. uip = 0
  BY <1>1, AnalyzeFacts
<1>4. /\ num = Cardinality(SeenAt(level)) /\ l1num = Cardinality(SeenAt(1))
      /\ \A u \in seen : LevIn(decisionmap, u) \in {1, level} \/ \E l \in q : Pkg(l) = u
      /\ \A u \in seen : Pkg(u) = u
      /\ Cardinality(SeenAt(1)) \in Nat /\ IsFiniteSet(SeenAt(level))
  BY <1>1, <1>3, AnalyzeFacts
<1>5. /\ k \in 1 .. idx /\ k \in 1 .. Len(decisionq) /\ v \in seen /\ decisionq[k].p \in Lit
      /\ \A u \in seen \ {v} : \E j \in 1 .. k - 1 : Pkg(decisionq[j].p) = u
      /\ LevIn(decisionmap, v) = DecisionLev(k) /\ DecisionLev(k) = level
  BY <1>1, <1>3, MarkedFacts, MarkedLevel
<1>6. SeenAt(level) = {v}
  <2>1. PICK x : SeenAt(level) = {x}
    BY <1>1, <1>4, FS_Singleton
  <2>2. v \in SeenAt(level)
    BY <1>5 DEF SeenAt
  <2>. QED BY <2>1, <2>2
<1> HIDE DEF k
<1>7. uip' # 0 /\ HoldsIn(decisionmap, -uip') /\ LevIn(decisionmap, uip') = level
  <2>1. -uip' = decisionq[k].p /\ uip' # 0 /\ uip' \in Lit
    BY <1>1, <1>5, PkgFacts, LitFacts
  <2>2. HoldsIn(decisionmap, decisionq[k].p) /\ LevIn(decisionmap, decisionq[k].p) = level
    BY <1>5, TrailFacts
  <2>. QED BY <1>1, <1>5, <2>1, <2>2, TrailFacts, SignFacts
<1>8. \A l \in q : LevIn(decisionmap, Pkg(l)) = LevIn(decisionmap, l)
  <2> TAKE l \in q
  <2>1. Pkg(Pkg(l)) = Pkg(l)
    BY <1>2, LitFacts, PkgFacts
  <2>. QED BY <2>1 DEF LevIn
<1>9. CASE pc' = "learn"
  BY <1>1, <1>2, <1>7, <1>9, AnalyzeFrame DEF AnalyzeOK, Falsified
<1>10. CASE pc' = "next" /\ seen' = (seen \ {v}) \ {Pkg(l) : l \in q} /\ l1num' = l1num + 1
  <2>1. \A u \in seen' : LevIn(decisionmap, u) = 1
    <3> TAKE u \in seen'
    <3>1. u \in seen /\ u # v /\ ~\E l \in q : Pkg(l) = u
      BY <1>10
    <3>2. u \notin SeenAt(level)
      BY <1>6, <3>1
    <3>. QED BY <1>4, <3>1, <3>2 DEF SeenAt
  <2>2. seen' = SeenAt(1)
    <3>1. ASSUME NEW u \in SeenAt(1) PROVE u \in seen'
      <4>1. u \in seen /\ LevIn(decisionmap, u) = 1
        BY DEF SeenAt
      <4>2. u # v
        BY <1>2, <1>5, <4>1
      <4>3. ~\E l \in q : Pkg(l) = u
        BY <1>2, <1>8, <4>1
      <4>. QED BY <1>10, <4>1, <4>2, <4>3
    <3>2. seen' \subseteq SeenAt(1)
      BY <1>10, <2>1 DEF SeenAt
    <3>. QED BY <3>1, <3>2
  <2>3. l1num' = 1 + Cardinality(seen')
    <3>1. Cardinality(seen') = Cardinality(SeenAt(1))
      BY <2>2
    <3>. QED BY <1>4, <1>10, <3>1
  <2>4. \A u \in seen' : \E j \in 1 .. k - 1 : Pkg(decisionq[j].p) = u
    BY <1>5, <1>10
  <2>5. AnalyzeOK'
    BY <1>1, <1>2, <1>7, <1>10, <2>1, <2>3, <2>4 DEF AnalyzeOK, Falsified
  <2>. QED BY <1>1, <2>5, AnalyzeFrame
<1>. QED BY <1>1, <1>9, <1>10

\* A marked decision is replaced by the other literals of its rule.
LEMMA AnalyzeResolveTrail == TypeInv /\ TrailInv /\ AnalyzeResolve => TrailInv'
<1> SUFFICES ASSUME TypeInv, TrailInv, AnalyzeResolve PROVE TrailInv'
  OBVIOUS
<1> DEFINE k == LastMarked
           v == Pkg(decisionq[k].p)
           w == decisionq[k].why
<1>1. /\ pc = "next" /\ Marked # {} /\ pc \in Resolving /\ pc' \in Resolving
      /\ UNCHANGED <<rules, decisionq, decisionmap, level, branches, pkg, q, rlevel, uip>>
      /\ \/ num > 1 /\ num' = num - 1 /\ UNCHANGED l1num
         \/ num = 0 /\ l1num # 1 /\ l1num' = l1num - 1 /\ UNCHANGED num
      /\ idx' = k - 1 /\ seen' = seen \ {v}
      /\ IF w > 0 THEN confl' = w /\ pc' = "analyze" ELSE pc' = "next"
  BY DEF AnalyzeResolve, ruleVars, trailVars, propVars, Resolving, Unmark
<1>2. /\ level \in Nat /\ level > 1 /\ rlevel \in Nat /\ 1 <= rlevel /\ rlevel < level
      /\ \A l \in q : Falsified(l) /\ 1 < LevIn(decisionmap, l) /\ LevIn(decisionmap, l) <= rlevel
      /\ q = {} => rlevel = 1
      /\ q # {} => \E l \in q : LevIn(decisionmap, l) = rlevel
      /\ Len(decisionq) \in Nat /\ idx \in 0 .. Len(decisionq)
  BY <1>1, AnalyzeFacts
<1>3. /\ k \in 1 .. idx /\ k \in 1 .. Len(decisionq) /\ v \in seen /\ decisionq[k].p \in Lit
      /\ \A u \in seen \ {v} : \E j \in 1 .. k - 1 : Pkg(decisionq[j].p) = u
      /\ LevIn(decisionmap, v) = DecisionLev(k)
  BY <1>1, MarkedFacts
<1>4. w \in RuleId \cup {0} /\ (w > 0 <=> w # 0)
  BY <1>3, TypeFacts
<1>5. w > 0 => \A l \in rules[w].lits : ResolvedLit(l)'
  <2> SUFFICES ASSUME w > 0, NEW l \in rules[w].lits PROVE ResolvedLit(l)'
    OBVIOUS
  <2>1. CASE l = decisionq[k].p
    <3>1. idx' + 1 = k /\ idx' < Len(decisionq)
      BY <1>1, <1>2, <1>3
    <3>2. idx' < Len(decisionq') /\ l = decisionq'[idx' + 1].p
      BY <1>1, <2>1, <3>1
    <3>. QED BY <3>2 DEF ResolvedLit
  <2>2. CASE l # decisionq[k].p
    <3>1. PICK j \in 1 .. k - 1 : decisionq[j].p = -l
      BY <1>3, <1>4, <2>2, TrailFacts DEF TrailFull, Reasons
    <3>. QED BY <1>1, <3>1 DEF ResolvedLit
  <2>. QED BY <2>1, <2>2
<1>6. \A u \in seen' : \E j \in 1 .. idx' : Pkg(decisionq[j].p) = u
  BY <1>1, <1>3
<1>7. ASSUME NEW lev
      PROVE  {u \in seen' : LevIn(decisionmap, u) = lev} = SeenAt(lev) \ {v}
  BY <1>1 DEF SeenAt
<1> HIDE DEF k, v, w
<1>8. CASE uip = 0
  <2>1. /\ num = Cardinality(SeenAt(level)) /\ l1num = Cardinality(SeenAt(1))
        /\ \A u \in seen : LevIn(decisionmap, u) \in {1, level} \/ \E l \in q : Pkg(l) = u
        /\ num >= 1 /\ IsFiniteSet(SeenAt(level)) /\ num \in Nat
    BY <1>1, <1>8, AnalyzeFacts
  <2>2. num > 1 /\ num' = num - 1 /\ l1num' = l1num
    BY <1>1, <2>1
  <2>3. LevIn(decisionmap, v) = level
    BY <1>1, <1>3, <1>8, MarkedLevel DEF k
  <2>4. num' = Cardinality({u \in seen' : LevIn(decisionmap, u) = level})
    <3>1. v \in SeenAt(level)
      BY <1>3, <2>3 DEF SeenAt
    <3>2. Cardinality(SeenAt(level) \ {v}) = Cardinality(SeenAt(level)) - 1
      BY <2>1, <3>1, FS_RemoveElement
    <3>3. {u \in seen' : LevIn(decisionmap, u) = level} = SeenAt(level) \ {v}
      BY <1>7
    <3>. QED BY <2>1, <2>2, <3>2, <3>3
  <2>5. l1num' = Cardinality({u \in seen' : LevIn(decisionmap, u) = 1})
    <3>1. SeenAt(1) \ {v} = SeenAt(1)
      BY <1>2, <2>3 DEF SeenAt
    <3>2. {u \in seen' : LevIn(decisionmap, u) = 1} = SeenAt(1) \ {v}
      BY <1>7
    <3>. QED BY <2>1, <2>2, <3>1, <3>2
  <2>6. \A u \in seen' : LevIn(decisionmap, u) \in {1, level} \/ \E l \in q : Pkg(l) = u
    BY <1>1, <2>1
  <2>7. num' >= 1
    BY <2>1, <2>2
  <2>8. AnalyzeOK'
    BY <1>1, <1>2, <1>4, <1>5, <1>6, <1>8, <2>4, <2>5, <2>6, <2>7 DEF AnalyzeOK, SeenAt, Falsified
  <2>. QED BY <1>1, <2>8, AnalyzeFrame
<1>9. CASE uip # 0
  <2>1. /\ Falsified(uip) /\ LevIn(decisionmap, uip) = level /\ num = 0
        /\ \A u \in seen : LevIn(decisionmap, u) = 1
        /\ l1num = 1 + Cardinality(seen) /\ IsFiniteSet(seen) /\ Cardinality(seen) \in Nat
    BY <1>1, <1>9, AnalyzeFacts
  <2>2. l1num' = l1num - 1 /\ num' = 0
    BY <1>1, <2>1
  <2>3. l1num' = 1 + Cardinality(seen')
    <3>1. Cardinality(seen \ {v}) = Cardinality(seen) - 1
      BY <1>3, <2>1, FS_RemoveElement
    <3>. QED BY <1>1, <2>1, <2>2, <3>1
  <2>4. idx' < Len(decisionq) /\ DecisionLev(idx + 1)' = 1
    <3>1. idx' < Len(decisionq) /\ idx' + 1 = k
      BY <1>1, <1>2, <1>3
    <3>2. DecisionLev(k) = 1
      BY <1>3, <2>1
    <3>. QED BY <1>1, <3>1, <3>2 DEF DecisionLev, Lev
  <2>5. AnalyzeOK'
    BY <1>1, <1>2, <1>4, <1>5, <1>6, <1>9, <2>1, <2>2, <2>3, <2>4 DEF AnalyzeOK, SeenAt, Falsified
  <2>. QED BY <1>1, <2>5, AnalyzeFrame
<1>. QED BY <1>8, <1>9

\* The branches that are left when those at or above a level are dropped.
LEMMA PopBranchesFacts ==
  ASSUME NEW bs \in Seq(BranchRec), NEW l \in Nat,
         \A a, b \in 1 .. Len(bs) : a < b => bs[a].level < bs[b].level
  PROVE  \E n \in 0 .. Len(bs) : /\ Len(PopBranches(bs, l)) = n
                                 /\ \A k \in 1 .. n : PopBranches(bs, l)[k] = bs[k] /\ bs[k].level < l
                                 /\ \A k \in 1 .. Len(bs) : bs[k].level < l => k <= n
<1> DEFINE stop == {k \in 1 .. Len(bs) : bs[k].level < l}
           n == IF stop = {} THEN 0 ELSE Max(stop)
<1>1. PopBranches(bs, l) = Prefix(bs, n)
  BY DEF PopBranches
<1>2. Len(bs) \in Nat /\ \A k \in 1 .. Len(bs) : bs[k].level \in Nat
  <2> SUFFICES ASSUME NEW k \in 1 .. Len(bs) PROVE bs[k].level \in Nat
    OBVIOUS
  <2>1. bs[k] \in BranchRec
    BY ElementOfSeq
  <2>. QED BY <2>1 DEF BranchRec
<1>3. stop # {} => n \in stop /\ \A k \in stop : n >= k
  <2>1. stop \subseteq 0 .. Len(bs)
    BY <1>2
  <2>. QED BY <1>2, <2>1, MaxIn
<1>4. stop = {} => n = 0
  OBVIOUS
<1> HIDE DEF n
<1>5. n \in 0 .. Len(bs)
  BY <1>2, <1>3, <1>4
<1>6. ASSUME NEW k \in 1 .. n PROVE bs[k].level < l
  <2>1. n \in stop /\ k \in 1 .. Len(bs)
    BY <1>2, <1>3, <1>4, <1>5
  <2>. QED BY <1>2, <2>1
<1>7. \A k \in 1 .. Len(bs) : bs[k].level < l => k <= n
  BY <1>2, <1>3, <1>5
<1>8. Len(Prefix(bs, n)) = n /\ \A k \in 1 .. n : Prefix(bs, n)[k] = bs[k]
  BY <1>5, PrefixSeq
<1>. QED BY <1>1, <1>5, <1>6, <1>7, <1>8

\* What is learnt is a clause over known packages that goes back to a level
\* that was decided.
LEMMA LearnFacts ==
  ASSUME TypeInv, TrailInv, Learn
  PROVE  /\ pc = "learn" /\ pc' = "propagate" /\ level' = rlevel
         /\ UNCHANGED <<inst, disabled, pkg>>
         /\ Len(rules') = Len(rules) + 1 /\ Len(rules) \in Nat
         /\ RuleId' = RuleId \cup {Len(rules) + 1} /\ Len(rules) + 1 \notin RuleId
         /\ \A i \in RuleId : rules'[i] = rules[i]
         /\ rules'[Len(rules) + 1].lits = {uip} \cup q /\ rules'[Len(rules) + 1].w1 = uip
         /\ IF q = {} THEN rules'[Len(rules) + 1].w2 = 0
            ELSE /\ rules'[Len(rules) + 1].w2 \in q
                 /\ LevIn(decisionmap, rules'[Len(rules) + 1].w2) = rlevel
         /\ uip \in Lit /\ uip # 0 /\ uip \notin q /\ Falsified(uip) /\ LevIn(decisionmap, uip) = level
         /\ \A m \in q : m \in Lit /\ Falsified(m) /\ LevIn(decisionmap, m) <= rlevel
         /\ rlevel \in Nat /\ 1 <= rlevel /\ rlevel < level
         /\ \E k \in 1 .. Len(decisionq) : DecisionLev(k) = rlevel
         /\ Reasons(decisionq, rules')
<1>1. /\ pc = "learn" /\ pc' = "propagate" /\ level' = rlevel /\ UNCHANGED <<inst, disabled, pkg>>
      /\ pc \in Resolving
  BY DEF Learn, propVars, Resolving
<1>2. PICK w2 \in IF q = {} THEN {0} ELSE Highest(RevertedMap(rlevel), q) :
        rules' = Append(rules, [lits |-> {uip} \cup q, w1 |-> uip, w2 |-> w2])
  BY DEF Learn
<1>3. /\ level \in Nat /\ rlevel \in Nat /\ 1 <= rlevel /\ rlevel < level /\ q \subseteq Lit
      /\ \A l \in q : Falsified(l) /\ 1 < LevIn(decisionmap, l) /\ LevIn(decisionmap, l) <= rlevel
      /\ q = {} => rlevel = 1
      /\ q # {} => \E l \in q : LevIn(decisionmap, l) = rlevel
      /\ uip # 0 /\ uip \in Lit /\ Falsified(uip) /\ LevIn(decisionmap, uip) = level
  BY <1>1, AnalyzeFacts
<1>4. uip \notin q
  BY <1>3
<1>5. rules \in Seq(Rule) /\ Len(rules) \in Nat /\ RuleId = 1 .. Len(rules)
  BY TypeFacts DEF TypeRules, RuleId
<1>6. /\ Len(rules') = Len(rules) + 1 /\ \A i \in 1 .. Len(rules) : rules'[i] = rules[i]
      /\ rules'[Len(rules) + 1] = [lits |-> {uip} \cup q, w1 |-> uip, w2 |-> w2]
  BY <1>2, <1>5, AppendProperties
<1>7. RuleId' = RuleId \cup {Len(rules) + 1} /\ Len(rules) + 1 \notin RuleId
  BY <1>5, <1>6 DEF RuleId
<1>8. PICK k \in 1 .. Len(decisionq) : DecisionLev(k) = rlevel
  <2>1. CASE q = {}
    BY <1>1, <1>3, <2>1, SearchFacts
  <2>2. CASE q # {}
    BY <1>3, <2>2, TrailFacts
  <2>. QED BY <2>1, <2>2
<1>9. \A l \in q : LevIn(RevertedMap(rlevel), l) = LevIn(decisionmap, l)
  <2> TAKE l \in q
  <2>1. l \in Lit /\ Pkg(l) \in Solvable /\ LevIn(decisionmap, l) <= rlevel
    BY <1>3, LitFacts
  <2>2. Pkg(l) \notin Reverted(rlevel)
    <3> SUFFICES ASSUME NEW j \in KeepLen(rlevel) + 1 .. Len(decisionq), Pkg(decisionq[j].p) = Pkg(l)
                 PROVE  FALSE
      BY DEF Reverted
    <3>1. KeepLen(rlevel) \in 0 .. Len(decisionq)
          /\ \A i \in 1 .. Len(decisionq) : i <= KeepLen(rlevel) <=> LevIn(decisionmap, decisionq[i].p) <= rlevel
      BY <1>3, TrailFacts, KeepLenFacts
    <3>2. j \in 1 .. Len(decisionq) /\ ~(j <= KeepLen(rlevel))
      BY <3>1, TypeFacts
    <3>3. LevIn(decisionmap, decisionq[j].p) = LevIn(decisionmap, l)
      BY DEF LevIn
    <3>. QED BY <2>1, <3>1, <3>2, <3>3
  <2>. QED BY <2>1, <2>2 DEF LevIn, RevertedMap
<1>10. q # {} => w2 \in q /\ LevIn(decisionmap, w2) = rlevel
  <2> SUFFICES ASSUME q # {} PROVE w2 \in q /\ LevIn(decisionmap, w2) = rlevel
    OBVIOUS
  <2>1. w2 \in q /\ \A m \in q : LevIn(RevertedMap(rlevel), m) <= LevIn(RevertedMap(rlevel), w2)
    BY <1>2 DEF Highest
  <2>2. PICK l \in q : LevIn(decisionmap, l) = rlevel
    BY <1>3
  <2>3. LevIn(decisionmap, l) <= LevIn(decisionmap, w2) /\ LevIn(decisionmap, w2) <= rlevel
    BY <1>3, <1>9, <2>1
  <2>4. LevIn(decisionmap, w2) \in Nat
    BY <1>3, <2>1, TrailFacts, SignFacts
  <2>. QED BY <1>3, <2>1, <2>2, <2>3, <2>4
<1>11. Reasons(decisionq, rules')
  <2> SUFFICES ASSUME NEW i \in 1 .. Len(decisionq), decisionq[i].why # 0
               PROVE  LET w == decisionq[i].why
                      IN  /\ decisionq[i].p \in rules'[w].lits
                          /\ \A m \in rules'[w].lits \ {decisionq[i].p} :
                               \E j \in 1 .. i - 1 : decisionq[j].p = -m
    BY DEF Reasons
  <2>1. decisionq[i].why \in RuleId
    BY TypeFacts
  <2>2. rules'[decisionq[i].why] = rules[decisionq[i].why]
    BY <1>5, <1>6, <2>1
  <2>. QED BY <2>2, TrailFacts DEF TrailFull, Reasons
<1>12. q = {} => w2 = 0
  BY <1>2
<1>. QED BY <1>1, <1>3, <1>4, <1>5, <1>6, <1>7, <1>8, <1>10, <1>11, <1>12

\* The decisions after learning, as RevertPush describes them.
LEMMA LearnRevert ==
  ASSUME TypeInv, TrailInv, Learn
  PROVE  /\ KeepLen(rlevel) \in 1 .. Len(decisionq) - 1
         /\ \A k \in 1 .. Len(decisionq) : k <= KeepLen(rlevel) <=> DecisionLev(k) <= rlevel
         /\ TrailFull(decisionq', decisionmap', rules')
         /\ Len(decisionq') = KeepLen(rlevel) + 1
         /\ decisionq'[KeepLen(rlevel) + 1] = Decision(uip, Len(rules) + 1)
         /\ \A k \in 1 .. KeepLen(rlevel) : decisionq'[k] = decisionq[k] /\ DecisionLev(k)' = DecisionLev(k)
         /\ DecisionLev(Len(decisionq))' = rlevel /\ DecisionLev(1)' = 1
         /\ decisionq'[1] = Decision(SYSTEMSOLVABLE, 0)
         /\ propagate_index' = KeepLen(rlevel)
         /\ \A m \in Lit : HoldsIn(decisionmap, m) /\ LevIn(decisionmap, m) <= rlevel =>
              HoldsIn(decisionmap', m) /\ LevIn(decisionmap', m) = LevIn(decisionmap, m)
         /\ \A m \in Lit : Pkg(m) # Pkg(uip) => LevIn(decisionmap', m) = 0 \/ LevIn(decisionmap', m) = LevIn(decisionmap, m)
         /\ HoldsIn(decisionmap', uip) /\ LevIn(decisionmap', uip) = rlevel
<1> DEFINE w == Len(rules) + 1
<1>1. /\ pc \in Searching \cup Resolving /\ rlevel \in Nat /\ rlevel >= 1 /\ rlevel < level
      /\ uip \in Lit /\ LevIn(decisionmap, uip) = level /\ level \in Nat
      /\ w \in Nat /\ w # 0
      /\ \E k \in 1 .. Len(decisionq) : DecisionLev(k) = rlevel
      /\ Reasons(decisionq, rules')
  BY LearnFacts, AnalyzeFacts DEF Resolving
<1>2. LevIn(decisionmap, uip) = 0 \/ LevIn(decisionmap, uip) > rlevel
  BY <1>1
<1>3. /\ uip \in rules'[w].lits
      /\ \A m \in rules'[w].lits \ {uip} : m \in Lit /\ Falsified(m) /\ LevIn(decisionmap, m) <= rlevel
  BY LearnFacts
<1>4. RevertAndPush(rlevel, uip, w, rlevel)
  BY DEF Learn
<1>5. /\ rlevel >= rlevel
      /\ IF w = 0 THEN rlevel < rlevel
                  ELSE rlevel = rlevel /\ \E k \in 1 .. Len(decisionq) : DecisionLev(k) = rlevel
      /\ w # 0 => /\ uip \in rules'[w].lits
                  /\ \A m \in rules'[w].lits \ {uip} :
                       m \in Lit /\ Falsified(m) /\ LevIn(decisionmap, m) <= rlevel
  BY <1>1, <1>3
<1> HIDE DEF w
<1>. QED BY <1>1, <1>2, <1>4, <1>5, RevertPush DEF w

\* After learning the rule that was learnt decides its first literal.
LEMMA LearnTrail == TypeInv /\ TrailInv /\ Learn => TrailInv'
<1> SUFFICES ASSUME TypeInv, TrailInv, Learn PROVE TrailInv'
  OBVIOUS
<1> DEFINE n == KeepLen(rlevel)
<1>1. pc = "learn" /\ pc' = "propagate" /\ level' = rlevel /\ rlevel \in Nat /\ rlevel >= 1 /\ UNCHANGED pkg
      /\ pc # "failed" /\ pc \in Resolving /\ pc' \in Searching
  BY LearnFacts DEF Searching, Resolving
<1>2. /\ n \in 1 .. Len(decisionq) - 1 /\ Len(decisionq') = n + 1 /\ n \in Nat
      /\ TrailFull(decisionq', decisionmap', rules')
      /\ DecisionLev(Len(decisionq))' = rlevel /\ DecisionLev(1)' = 1
      /\ decisionq'[1] = Decision(SYSTEMSOLVABLE, 0) /\ propagate_index' = n
  BY LearnRevert, TypeFacts
<1>3. WatchShape'
  <2> SUFFICES ASSUME NEW i \in RuleId', rules'[i].w2 # 0
               PROVE  rules'[i].w1 # rules'[i].w2 /\ rules'[i].w1 # 0
    BY DEF WatchShape
  <2>1. CASE i \in RuleId
    BY <2>1, LearnFacts, TrailFacts DEF WatchShape
  <2>2. CASE i = Len(rules) + 1
    BY <2>2, LearnFacts
  <2>. QED BY <2>1, <2>2, LearnFacts
<1>4. BranchesOK'
  <2>1. branches' = PopBranches(branches, rlevel)
    BY DEF Learn
  <2>2. /\ branches \in Seq(BranchRec) /\ Len(branches) \in Nat
        /\ \A a, b \in 1 .. Len(branches) : a < b => branches[a].level < branches[b].level
        /\ \A b \in 1 .. Len(branches) : branches[b].level >= 1 /\ CandidatesOpen(branches[b], decisionmap)
    BY <1>1, TypeFacts, TrailFacts DEF TypeSearch, BranchesOK
  <2>3. PICK m \in 0 .. Len(branches) : /\ Len(branches') = m
                                        /\ \A k \in 1 .. m : branches'[k] = branches[k] /\ branches[k].level < rlevel
    BY <1>1, <2>1, <2>2, PopBranchesFacts
  <2>4. ASSUME NEW b \in 1 .. m
        PROVE  branches'[b].level >= 1 /\ branches'[b].level < rlevel /\ CandidatesOpen(branches'[b], decisionmap')
    <3>1. b \in 1 .. Len(branches) /\ branches'[b] = branches[b] /\ branches[b].level < rlevel
      BY <2>2, <2>3
    <3>2. branches[b] \in BranchRec
      BY <2>2, <3>1, ElementOfSeq
    <3>3. /\ uip \in Lit /\ LevIn(decisionmap', uip) = rlevel
          /\ \A l \in Lit : Pkg(l) # Pkg(uip) => LevIn(decisionmap', l) = 0 \/ LevIn(decisionmap', l) = LevIn(decisionmap, l)
      BY LearnFacts, LearnRevert
    <3>4. LevIn(decisionmap', uip) > branches[b].level
      BY <1>1, <3>1, <3>2, <3>3 DEF BranchRec
    <3>5. CandidatesOpen(branches[b], decisionmap')
      BY <2>2, <3>1, <3>2, <3>3, <3>4, StaysOpen
    <3>. QED BY <2>2, <3>1, <3>5
  <2>5. \A a, b \in 1 .. m : a < b => branches'[a].level < branches'[b].level
    BY <2>2, <2>3
  <2>. QED BY <1>1, <2>3, <2>4, <2>5 DEF BranchesOK
<1>5. QueueOK'
  <2>1. pkg' = 0
    BY <1>1, TrailFacts DEF QueueOK
  <2>2. ASSUME NEW k \in propagate_index' + 1 .. Len(decisionq') PROVE DecisionLev(k)' = level'
    <3>1. k = Len(decisionq')
      BY <1>2
    <3>. QED BY <1>1, <1>2, <3>1
  <2>. QED BY <1>1, <2>1, <2>2 DEF QueueOK
<1> HIDE DEF n
<1>6. Len(decisionq') >= 1
  BY <1>2
<1>. QED BY <1>1, <1>2, <1>3, <1>4, <1>5, <1>6, SearchPhase

-----------------------------------------------------------------------------
(* analyze_unsolvable and solver_reset *)

\* solver_reset forgets every decision.
LEMMA ResetTrail ==
  ASSUME TypeInv, TrailInv, NEW d, Reset(d), UNCHANGED <<rules, pkg>>, pc # "propagate"
  PROVE  TrailInv'
<1>1. /\ decisionq' = <<>> /\ decisionmap' = ClearMap /\ branches' = <<>> /\ level' = 0 /\ pc' = "start"
      /\ pkg' = 0
  BY TrailFacts DEF Reset, QueueOK
<1>2. WatchShape'
  BY TrailFacts DEF WatchShape, RuleId
<1>3. TrailFull(decisionq', decisionmap', rules')
  BY <1>1 DEF TrailFull, Trail, Reasons, FreeFirst, ClearMap
<1>4. LevelOK' /\ BranchesOK' /\ QueueOK' /\ AnalyzeOK'
  BY <1>1 DEF LevelOK, BranchesOK, QueueOK, AnalyzeOK, Searching, Resolving
<1>. QED BY <1>2, <1>3, <1>4 DEF TrailInv

\* analyze_unsolvable walks over the decisions and changes none.
LEMMA AnalyzeUnsolvableTrail == TypeInv /\ TrailInv /\ AnalyzeUnsolvable => TrailInv'
<1> SUFFICES ASSUME TypeInv, TrailInv, AnalyzeUnsolvable PROVE TrailInv'
  OBVIOUS
<1>1. pc = "unsolvable" /\ pc # "failed" /\ pc # "propagate"
  BY DEF AnalyzeUnsolvable, UnsolvableWalk, UnsolvableWeak, UnsolvableUninstall, UnsolvableDisable,
         UnsolvableFail, RecordProblem, Proved
<1>2. /\ level = 1 /\ Len(decisionq) >= 1 /\ DecisionLev(Len(decisionq)) = level
      /\ decisionq[1] = Decision(SYSTEMSOLVABLE, 0) /\ DecisionLev(1) = 1
  BY <1>1, SearchFacts, TrailFacts DEF LevelOK
<1>3. UNCHANGED <<rules, decisionq, decisionmap>> =>
        /\ WatchShape' /\ TrailFull(decisionq, decisionmap, rules)'
        /\ DecisionLev(1)' = DecisionLev(1) /\ DecisionLev(Len(decisionq))' = DecisionLev(Len(decisionq))
        /\ UNCHANGED <<level, branches>> => BranchesOK'
  BY <1>1, TrailKept
<1>4. CASE UnsolvableWalk
  <2>1. UNCHANGED <<rules, decisionq, decisionmap, level, branches, pc, pkg>>
    BY <1>4 DEF UnsolvableWalk, ruleVars, trailVars, propVars
  <2>2. LevelOK'
    BY <1>1, <1>2, <1>3, <2>1 DEF LevelOK, Searching, Resolving
  <2>3. QueueOK' /\ AnalyzeOK'
    BY <1>1, <2>1, TrailFacts DEF QueueOK, AnalyzeOK, Resolving
  <2>. QED BY <1>3, <2>1, <2>2, <2>3 DEF TrailInv
<1>5. CASE UnsolvableWeak
  BY <1>1, <1>5, ResetTrail DEF UnsolvableWeak, ruleVars, propVars
<1>6. CASE UnsolvableUninstall
  BY <1>1, <1>6, ResetTrail DEF UnsolvableUninstall, ruleVars, propVars
<1>7. CASE UnsolvableDisable
  BY <1>1, <1>7, ResetTrail DEF UnsolvableDisable, ruleVars, propVars
<1>8. CASE UnsolvableFail
  <2>1. UNCHANGED <<rules, decisionq, decisionmap, pkg>> /\ pc' = "failed" /\ level' = -1
    BY <1>8 DEF UnsolvableFail, RecordProblem, ruleVars, trailVars, propVars
  <2>2. LevelOK'
    BY <1>2, <1>3, <2>1 DEF LevelOK, Searching, Resolving
  <2>3. BranchesOK' /\ QueueOK' /\ AnalyzeOK'
    BY <1>1, <2>1, TrailFacts DEF BranchesOK, QueueOK, AnalyzeOK, Resolving
  <2>. QED BY <1>3, <2>1, <2>2, <2>3 DEF TrailInv
<1>. QED BY <1>4, <1>5, <1>6, <1>7, <1>8 DEF AnalyzeUnsolvable

-----------------------------------------------------------------------------
(* The decisions of solver_run_sat *)

\* A free decision opens the next level; the branch that may be added keeps
\* its candidates for the level before.
LEMMA FreeDecision ==
  ASSUME TypeInv, TrailInv, pc = "decide", NEW p \in Lit, NEW flag, SetPropagateLearn(p, flag), IsUndef(p),
         \/ UNCHANGED branches
         \/ \E dq : /\ dq \in Seq(Solvable) /\ branches' = Append(branches, Branch(dq, level))
                    /\ \A j \in DOMAIN dq : IsUndef(dq[j])
  PROVE  TrailInv'
<1>1. /\ pc \in Searching /\ pc # "failed" /\ level \in Nat /\ level >= 1
      /\ Len(decisionq) \in Nat /\ Len(decisionq) >= 1 /\ 1 \in 1 .. Len(decisionq)
      /\ decisionq[1] = Decision(SYSTEMSOLVABLE, 0)
      /\ propagate_index = Len(decisionq) /\ pkg = 0
      /\ decisionmap \in Map
  BY SearchFacts, TrailFacts DEF Searching, QueueOK
<1>2. /\ level' = level + 1 /\ Push(p, 0, level + 1) /\ pc' = "propagate" /\ pc' \in Searching
      /\ UNCHANGED <<rules, propagate_index, pkg>>
  BY DEF SetPropagateLearn, ruleVars, propVars, Searching
<1>3. ASSUME NEW w \in Nat, w = 0, NEW lev \in Nat, lev = level + 1
      PROVE  /\ TrailFull(decisionq', decisionmap', rules)
             /\ Len(decisionq') = Len(decisionq) + 1
             /\ decisionq'[Len(decisionq) + 1] = Decision(p, w)
             /\ \A k \in 1 .. Len(decisionq) :
                  decisionq'[k] = decisionq[k] /\ DecisionLev(k)' = DecisionLev(k)
             /\ DecisionLev(Len(decisionq))' = lev
             /\ DecisionLev(1)' = 1
             /\ \A b \in 1 .. Len(branches) : CandidatesOpen(branches[b], decisionmap')
  <2>1. Push(p, w, lev) /\ lev >= level /\ (w = 0 <=> level < lev)
    BY <1>1, <1>2, <1>3
  <2>2. w # 0 => /\ p \in rules[w].lits
                 /\ \A m \in rules[w].lits \ {p} : Falsified(m)
    BY <1>3
  <2>3. w # 0 => w \in RuleId
    BY <1>3
  <2>. QED BY <1>1, <2>1, <2>2, <2>3, PushSearch
<1>4. /\ TrailFull(decisionq', decisionmap', rules)
      /\ Len(decisionq') = Len(decisionq) + 1
      /\ \A k \in 1 .. Len(decisionq) :
           decisionq'[k] = decisionq[k] /\ DecisionLev(k)' = DecisionLev(k)
      /\ DecisionLev(Len(decisionq))' = level + 1
      /\ DecisionLev(1)' = 1
      /\ \A b \in 1 .. Len(branches) : CandidatesOpen(branches[b], decisionmap')
  <2>1. level + 1 \in Nat
    BY <1>1
  <2>. QED BY <1>3, <2>1
<1>5. WatchShape' /\ TrailFull(decisionq, decisionmap, rules)'
  BY <1>2, <1>4, TrailFacts DEF WatchShape, RuleId
<1>6. QueueOK'
  <2>1. ASSUME NEW k \in propagate_index' + 1 .. Len(decisionq') PROVE DecisionLev(k)' = level'
    <3>1. k = Len(decisionq')
      BY <1>1, <1>2, <1>4
    <3>. QED BY <1>2, <1>4, <3>1
  <2>. QED BY <1>1, <1>2, <2>1 DEF QueueOK
<1>7. /\ \A b \in 1 .. Len(branches) : branches[b].level >= 1 /\ branches[b].level < level /\ branches[b].level \in Nat
      /\ \A a, b \in 1 .. Len(branches) : a < b => branches[a].level < branches[b].level
      /\ Len(branches) \in Nat /\ branches \in Seq(BranchRec)
  <2>1. branches \in Seq(BranchRec)
    BY TypeFacts DEF TypeSearch
  <2>2. \A b \in 1 .. Len(branches) : branches[b].level \in Nat
    <3> TAKE b \in 1 .. Len(branches)
    <3>1. branches[b] \in BranchRec
      BY <2>1, ElementOfSeq
    <3>. QED BY <3>1 DEF BranchRec
  <2>3. /\ \A b \in 1 .. Len(branches) : branches[b].level >= 1 /\ branches[b].level < level
        /\ \A a, b \in 1 .. Len(branches) : a < b => branches[a].level < branches[b].level
    BY <1>1, TrailFacts DEF BranchesOK
  <2>4. Len(branches) \in Nat
    BY <2>1
  <2>. QED BY <2>1, <2>2, <2>3, <2>4
<1>8. BranchesOK'
  <2>1. CASE UNCHANGED branches
    BY <1>1, <1>2, <1>4, <1>7, <2>1 DEF BranchesOK
  <2>2. CASE ~UNCHANGED branches
    <3>1. PICK dq \in Seq(Solvable) : /\ branches' = Append(branches, Branch(dq, level))
                                      /\ \A j \in DOMAIN dq : IsUndef(dq[j])
      BY <2>2
    <3> DEFINE br == Branch(dq, level)
    <3>2. br \in BranchRec /\ br.level = level /\ br.cands = dq
      BY <1>1 DEF Branch, BranchRec
    <3>3. CandidatesOpen(br, decisionmap)
      <4> SUFFICES ASSUME NEW j \in DOMAIN dq PROVE LevIn(decisionmap, dq[j]) = 0
        BY <3>2 DEF CandidatesOpen
      <4>1. dq[j] \in Solvable /\ IsUndef(dq[j])
        BY <3>1
      <4>2. dq[j] \in Lit
        BY <4>1, LitFacts
      <4>. QED BY <1>1, <4>1, <4>2, SignFacts DEF IsUndef
    <3>4. CandidatesOpen(br, decisionmap')
      <4>1. decisionmap' = [decisionmap EXCEPT ![Pkg(p)] = Signed(p, level + 1)]
        BY <1>2 DEF Push
      <4>2. \A m \in Lit : Pkg(m) # Pkg(p) => LevIn(decisionmap', m) = LevIn(decisionmap, m)
        <5> TAKE m \in Lit
        <5>1. Pkg(m) \in Solvable
          BY LitFacts
        <5>. QED BY <1>1, <4>1, <5>1 DEF LevIn, Map
      <4>3. LevIn(decisionmap', p) = level + 1
        <5>1. p \in Int /\ Pkg(p) \in Solvable
          BY LitFacts
        <5>2. decisionmap'[Pkg(p)] = Signed(p, level + 1)
          BY <1>1, <4>1, <5>1 DEF Map
        <5>. QED BY <1>1, <5>1, <5>2 DEF LevIn, Signed
      <4>4. LevIn(decisionmap', p) > br.level
        BY <1>1, <3>2, <4>3
      <4> HIDE DEF br
      <4>. QED BY <3>2, <3>3, <4>2, <4>4, StaysOpen
    <3> HIDE DEF br
    <3>5. /\ Len(branches') = Len(branches) + 1 /\ branches'[Len(branches) + 1] = br
          /\ \A b \in 1 .. Len(branches) : branches'[b] = branches[b]
      <4>1. branches' = Append(branches, br)
        BY <3>1 DEF br
      <4>. QED BY <1>7, <3>2, <4>1, AppendProperties
    <3>6. ASSUME NEW b \in 1 .. Len(branches')
          PROVE  /\ branches'[b].level >= 1 /\ branches'[b].level < level' /\ CandidatesOpen(branches'[b], decisionmap')
      <4>1. level' = level + 1 /\ level >= 1 /\ level \in Nat
        BY <1>1, <1>2
      <4>2. CASE b \in 1 .. Len(branches)
        <5>1. branches'[b] = branches[b] /\ CandidatesOpen(branches[b], decisionmap')
              /\ branches[b].level >= 1 /\ branches[b].level < level /\ branches[b].level \in Nat
          BY <1>4, <1>7, <3>5, <4>2
        <5>. QED BY <4>1, <5>1
      <4>3. CASE b = Len(branches) + 1
        <5>1. branches'[b] = br
          BY <3>5, <4>3
        <5>. QED BY <3>2, <3>4, <4>1, <5>1
      <4>. QED BY <1>7, <3>5, <4>2, <4>3
    <3>7. ASSUME NEW a \in 1 .. Len(branches'), NEW b \in 1 .. Len(branches'), a < b
          PROVE  branches'[a].level < branches'[b].level
      <4>1. a \in 1 .. Len(branches)
        BY <1>7, <3>5, <3>7
      <4>2. CASE b \in 1 .. Len(branches)
        BY <1>7, <3>5, <3>7, <4>1, <4>2
      <4>3. CASE b = Len(branches) + 1
        BY <1>7, <3>2, <3>5, <4>1, <4>3
      <4>. QED BY <1>7, <3>5, <4>2, <4>3
    <3>. QED BY <1>2, <3>6, <3>7 DEF BranchesOK
  <2>. QED BY <2>1, <2>2
<1>9. Len(decisionq') >= 1 /\ decisionq'[1] = Decision(SYSTEMSOLVABLE, 0) /\ level' >= 1
      /\ DecisionLev(Len(decisionq))' = level'
  BY <1>1, <1>2, <1>4
<1>. QED BY <1>2, <1>4, <1>5, <1>6, <1>8, <1>9, SearchPhase

\* Candidates are different undecided packages of the rule.
LEMMA SelectionsOpen ==
  ASSUME TypeInv, TrailInv, pc = "decide", NEW S, S \subseteq Lit, NEW dq \in Selections(S), NEW flag,
         SelectAndInstall(dq, flag)
  PROVE  TrailInv'
<1>1. PICK n \in 1 .. MaxChoices : dq \in [1 .. n -> UndecidedOf(S)]
  BY DEF Selections
<1>2. dq \in Seq(Solvable) /\ dq[1] \in Lit /\ 1 \in DOMAIN dq
  BY SelectionsType
<1>3. \A j \in DOMAIN dq : IsUndef(dq[j])
  BY <1>1 DEF UndecidedOf
<1>4. \/ UNCHANGED branches
      \/ branches' = Append(branches, Branch(dq, level))
  BY DEF SelectAndInstall
<1>5. SetPropagateLearn(dq[1], flag)
  BY DEF SelectAndInstall
<1>. QED BY <1>2, <1>3, <1>4, <1>5, FreeDecision

\* takebranch: the decisions above the level of the branch are taken back,
\* the branches above it are dropped, and the branch itself stays.
LEMMA TakeBranchFacts ==
  ASSUME TypeInv, TrailInv, pc = "decide", NEW b \in 1 .. Len(branches),
         NEW j \in DOMAIN branches[b].cands, TakeBranchTo(b, j)
  PROVE  /\ branches[b] \in BranchRec /\ branches[b].level >= 1 /\ branches[b].level < level
         /\ branches[b].cands[j] \in Lit
         /\ CandidatesOpen(branches[b], decisionmap)
         /\ Len(branches') = b
         /\ \A k \in 1 .. b - 1 : branches'[k] = branches[k] /\ branches[k].level < branches[b].level
         /\ branches'[b].level = branches[b].level /\ branches'[b].cands = branches[b].cands
<1> DEFINE lev == branches[b].level
           br  == [Tried(branches[b], j) EXCEPT !.level = 0]
           hidden == [branches EXCEPT ![b] = br]
           stop == {k \in 1 .. Len(hidden) : hidden[k].level < lev}
<1>1. branches \in Seq(BranchRec) /\ branches[b] \in BranchRec /\ Len(branches) \in Nat
  BY TypeFacts, ElementOfSeq DEF TypeSearch
<1>2. /\ \A k \in 1 .. Len(branches) : branches[k].level >= 1 /\ branches[k].level < level
      /\ \A a, c \in 1 .. Len(branches) : a < c => branches[a].level < branches[c].level
      /\ \A k \in 1 .. Len(branches) : CandidatesOpen(branches[k], decisionmap)
  BY TrailFacts DEF BranchesOK
<1>3. lev \in Nat /\ lev >= 1 /\ branches[b].cands \in Seq(Solvable) /\ j \in Nat
      /\ branches[b].cands[j] \in Solvable
  BY <1>1, <1>2 DEF BranchRec
<1>4. branches[b].cands[j] \in Lit
  BY <1>3, LitFacts
<1>5. br \in BranchRec /\ br.cands = branches[b].cands /\ br.level = 0
  BY <1>1, <1>3 DEF Tried, BranchRec
<1>6. branches' = [PopBranches(hidden, lev) EXCEPT ![b].level = lev]
  BY DEF TakeBranchTo
<1>7. hidden \in Seq(BranchRec) /\ Len(hidden) = Len(branches) /\ hidden[b] = br
      /\ \A k \in 1 .. Len(branches) : k # b => hidden[k] = branches[k]
  <2> HIDE DEF br
  <2>. QED BY <1>1, <1>5, ExceptSeq
<1> HIDE DEF br, hidden
<1>8. \A k \in 1 .. Len(branches) : branches[k].level \in Nat
  <2> TAKE k \in 1 .. Len(branches)
  <2>1. branches[k] \in BranchRec
    BY <1>1, ElementOfSeq
  <2>. QED BY <2>1 DEF BranchRec
<1>9. stop = 1 .. b
  <2>1. ASSUME NEW k \in 1 .. Len(branches) PROVE hidden[k].level < lev <=> k <= b
    <3>1. CASE k = b
      BY <1>3, <1>5, <1>7, <3>1
    <3>2. CASE k # b
      <4>1. hidden[k].level = branches[k].level
        BY <1>7, <3>2
      <4>2. k < b => branches[k].level < lev
        BY <1>2
      <4>3. b < k => lev < branches[k].level
        BY <1>2
      <4>. QED BY <1>3, <1>8, <3>2, <4>1, <4>2, <4>3
    <3>. QED BY <3>1, <3>2
  <2>. QED BY <1>1, <1>7, <2>1
<1>10. stop # {} /\ Max(stop) = b
  <2>1. b \in stop /\ stop \subseteq 0 .. b /\ b \in Nat /\ stop # {}
    BY <1>9
  <2>2. Max(stop) \in stop /\ \A y \in stop : Max(stop) >= y
    BY <2>1, MaxIn
  <2>. QED BY <1>9, <2>1, <2>2
<1>11. PopBranches(hidden, lev) = Prefix(hidden, b)
  BY <1>10 DEF PopBranches
<1>12. Prefix(hidden, b) \in Seq(BranchRec) /\ Len(Prefix(hidden, b)) = b
       /\ \A k \in 1 .. b : Prefix(hidden, b)[k] = hidden[k]
  <2>1. b \in 0 .. Len(hidden)
    BY <1>1, <1>7
  <2>. QED BY <1>7, <2>1, PrefixSeq
<1>13. Len(branches') = b /\ \A k \in 1 .. b - 1 : branches'[k] = hidden[k]
  BY <1>6, <1>11, <1>12
<1>14. branches'[b].level = lev /\ branches'[b].cands = br.cands
  <2>1. b \in DOMAIN Prefix(hidden, b) /\ Prefix(hidden, b)[b] \in BranchRec /\ Prefix(hidden, b)[b] = br
    BY <1>7, <1>12, <1>5
  <2>2. branches'[b] = [br EXCEPT !.level = lev]
    BY <1>6, <1>11, <2>1
  <2>. QED BY <1>5, <2>2 DEF BranchRec
<1>15. \A k \in 1 .. b - 1 : branches'[k] = branches[k] /\ branches[k].level < lev
  BY <1>1, <1>2, <1>7, <1>13
<1>. QED BY <1>1, <1>2, <1>3, <1>4, <1>5, <1>13, <1>14, <1>15

\* takebranch opens the level of the branch again with another candidate.
LEMMA TakeBranchTrail == TypeInv /\ TrailInv /\ TakeBranch => TrailInv'
<1> SUFFICES ASSUME TypeInv, TrailInv, TakeBranch PROVE TrailInv'
  OBVIOUS
<1>a. PICK b \in 1 .. Len(branches) : \E j \in DOMAIN branches[b].cands : TakeBranchTo(b, j)
  BY DEF TakeBranch
<1>1. PICK j \in DOMAIN branches[b].cands : TakeBranchTo(b, j)
  BY <1>a
<1>2. pc = "decide" /\ pc \in Searching \cup Resolving /\ pc # "failed"
  BY DEF TakeBranch, Searching
<1> DEFINE l == branches[b].level
           p == branches[b].cands[j]
<1>3. /\ branches[b] \in BranchRec /\ l >= 1 /\ l < level /\ p \in Lit /\ l \in Nat
      /\ CandidatesOpen(branches[b], decisionmap)
      /\ Len(branches') = b
      /\ \A k \in 1 .. b - 1 : branches'[k] = branches[k] /\ branches[k].level < l
      /\ branches'[b].level = l /\ branches'[b].cands = branches[b].cands
  BY <1>1, <1>2, TakeBranchFacts DEF BranchRec
<1>4. LevIn(decisionmap, p) = 0 \/ LevIn(decisionmap, p) > l
  BY <1>1, <1>3 DEF CandidatesOpen
<1>5. /\ RevertAndPush(l, p, 0, l + 1) /\ level' = l + 1 /\ pc' = "propagate"
      /\ UNCHANGED <<rules, pkg>>
  BY <1>1 DEF TakeBranchTo, ruleVars, propVars
<1> HIDE DEF l, p
<1>6. ASSUME NEW w \in Nat, w = 0, NEW lev \in Nat, lev = l + 1
      PROVE  /\ KeepLen(l) \in 1 .. Len(decisionq) - 1
             /\ TrailFull(decisionq', decisionmap', rules)
             /\ Len(decisionq') = KeepLen(l) + 1
             /\ DecisionLev(Len(decisionq))' = lev /\ DecisionLev(1)' = 1
             /\ decisionq'[1] = Decision(SYSTEMSOLVABLE, 0)
             /\ propagate_index' = KeepLen(l)
             /\ \A m \in Lit : Pkg(m) # Pkg(p) => LevIn(decisionmap', m) = 0 \/ LevIn(decisionmap', m) = LevIn(decisionmap, m)
             /\ LevIn(decisionmap', p) = lev
  <2>1. RevertAndPush(l, p, w, lev) /\ lev >= l
        /\ IF w = 0 THEN l < lev ELSE lev = l /\ \E k \in 1 .. Len(decisionq) : DecisionLev(k) = l
    BY <1>3, <1>5, <1>6
  <2>2. w # 0 => /\ p \in rules[w].lits
                 /\ \A m \in rules[w].lits \ {p} : m \in Lit /\ Falsified(m) /\ LevIn(decisionmap, m) <= l
    BY <1>6
  <2>3. Reasons(decisionq, rules)
    BY TrailFacts DEF TrailFull
  <2>. QED BY <1>2, <1>3, <1>4, <2>1, <2>2, <2>3, RevertPush
<1>7. /\ KeepLen(l) \in 1 .. Len(decisionq) - 1 /\ KeepLen(l) \in Nat
      /\ TrailFull(decisionq', decisionmap', rules)
      /\ Len(decisionq') = KeepLen(l) + 1
      /\ DecisionLev(Len(decisionq))' = l + 1 /\ DecisionLev(1)' = 1
      /\ decisionq'[1] = Decision(SYSTEMSOLVABLE, 0)
      /\ propagate_index' = KeepLen(l)
      /\ \A m \in Lit : Pkg(m) # Pkg(p) => LevIn(decisionmap', m) = 0 \/ LevIn(decisionmap', m) = LevIn(decisionmap, m)
      /\ LevIn(decisionmap', p) = l + 1
  <2>1. l + 1 \in Nat /\ 0 \in Nat
    BY <1>3
  <2>. QED BY <1>6, <2>1, TypeFacts
<1>8. WatchShape' /\ TrailFull(decisionq, decisionmap, rules)'
  BY <1>5, <1>7, TrailFacts DEF WatchShape, RuleId
<1>9. QueueOK'
  <2>1. pkg' = 0
    BY <1>2, <1>5, TrailFacts DEF QueueOK
  <2>2. ASSUME NEW k \in propagate_index' + 1 .. Len(decisionq') PROVE DecisionLev(k)' = level'
    <3>1. k = Len(decisionq')
      BY <1>7
    <3>. QED BY <1>5, <1>7, <3>1
  <2>. QED BY <1>5, <2>1, <2>2 DEF QueueOK
<1>10. BranchesOK'
  <2>1. /\ branches \in Seq(BranchRec)
        /\ \A k \in 1 .. Len(branches) : branches[k].level >= 1 /\ CandidatesOpen(branches[k], decisionmap)
        /\ \A a, c \in 1 .. Len(branches) : a < c => branches[a].level < branches[c].level
    BY <1>2, TypeFacts, TrailFacts DEF TypeSearch, BranchesOK
  <2>2. ASSUME NEW k \in 1 .. b
        PROVE  /\ branches'[k].level = branches[k].level /\ branches'[k].cands = branches[k].cands
               /\ branches[k].level <= l /\ branches[k].level \in Nat /\ k \in 1 .. Len(branches)
    <3>1. k \in 1 .. Len(branches) /\ branches[k] \in BranchRec
      BY <2>1, ElementOfSeq
    <3>2. branches[k].level \in Nat
      BY <3>1 DEF BranchRec
    <3>3. CASE k = b
      BY <1>3, <3>1, <3>2, <3>3 DEF l
    <3>4. CASE k # b
      <4>1. k \in 1 .. b - 1
        BY <3>4
      <4>. QED BY <1>3, <3>1, <3>2, <4>1
    <3>. QED BY <3>3, <3>4
  <2>3. ASSUME NEW k \in 1 .. b
        PROVE  /\ branches'[k].level >= 1 /\ branches'[k].level < level'
               /\ CandidatesOpen(branches'[k], decisionmap')
    <3>1. k \in 1 .. Len(branches) /\ branches[k] \in BranchRec
      BY <2>1, <2>2, ElementOfSeq
    <3>2. LevIn(decisionmap', p) > branches[k].level
      BY <1>3, <1>7, <2>2
    <3>3. CandidatesOpen(branches[k], decisionmap')
      BY <1>3, <1>7, <2>1, <3>1, <3>2, StaysOpen
    <3>4. CandidatesOpen(branches'[k], decisionmap')
      BY <2>2, <3>3 DEF CandidatesOpen
    <3>5. branches'[k].level >= 1 /\ branches'[k].level < level'
      <4>1. branches[k].level >= 1
        BY <2>1, <3>1
      <4>. QED BY <1>3, <1>5, <2>2, <4>1
    <3>. QED BY <3>4, <3>5
  <2>4. ASSUME NEW a \in 1 .. b, NEW c \in 1 .. b, a < c PROVE branches'[a].level < branches'[c].level
    <3>1. branches[a].level < branches[c].level
      BY <2>1, <2>2, <2>4
    <3>. QED BY <2>2, <3>1
  <2>. QED BY <1>3, <2>3, <2>4 DEF BranchesOK
<1>11. Len(decisionq') >= 1 /\ level' >= 1 /\ DecisionLev(Len(decisionq))' = level' /\ pc' \in Searching
  BY <1>3, <1>5, <1>7 DEF Searching
<1>. QED BY <1>7, <1>8, <1>9, <1>10, <1>11, SearchPhase

\* The phases of solver_run_sat decide undecided packages only.
LEMMA DecideTrail == TypeInv /\ TrailInv /\ Decide => TrailInv'
<1> SUFFICES ASSUME TypeInv, TrailInv, Decide PROVE TrailInv'
  OBVIOUS
<1>1. CASE DecideRule
  <2>1. PICK i \in Unfulfilled : \E dq \in Selections(rules[i].lits) : SelectAndInstall(dq, inst.disablerules)
    BY <1>1 DEF DecideRule
  <2>2. rules[i].lits \subseteq Lit
    BY TypeFacts DEF Unfulfilled, RuleId
  <2>. QED BY <1>1, <2>1, <2>2, SelectionsOpen DEF DecideRule
<1>2. CASE DecideInstalled
  <2>1. PICK p \in DOMAIN inst.installed :
          \E dq \in Selections({p}) \cup Selections(inst.installed[p]) : SelectAndInstall(dq, inst.disablerules)
    BY <1>2 DEF DecideInstalled
  <2>2. {p} \subseteq Lit /\ inst.installed[p] \subseteq Lit
    BY InstanceFacts, LitFacts, TypeFacts DEF TypeRules
  <2>3. pc = "decide"
    BY <1>2 DEF DecideInstalled
  <2>. QED BY <2>1, <2>2, <2>3, SelectionsOpen
<1>3. CASE DecideExtra
  <2>1. inst.extras \subseteq Lit
    BY InstanceFacts, LitFacts, TypeFacts DEF TypeRules
  <2>. QED BY <1>3, <2>1, SelectionsOpen DEF DecideExtra
<1>4. CASE DecideErase
  <2>1. PICK p \in UndecidedOf(DOMAIN inst.installed) : SetPropagateLearn(-p, FALSE)
    BY <1>4 DEF DecideErase
  <2>2. p \in Lit /\ -p \in Lit /\ Pkg(-p) = Pkg(p)
    BY <2>1, InstanceFacts, LitFacts, TypeFacts DEF TypeRules, UndecidedOf
  <2>3. IsUndef(-p)
    BY <2>1, <2>2 DEF UndecidedOf, IsUndef
  <2>4. pc = "decide" /\ UNCHANGED branches
    BY <1>4 DEF DecideErase
  <2>. QED BY <2>1, <2>2, <2>3, <2>4, FreeDecision
<1>5. CASE DropChoiceRules
  <2>1. /\ pc # "propagate" /\ UNCHANGED <<rules, pkg>>
        /\ Reset(CheckUnneededChoiceRules(disabled))
    BY <1>5 DEF DropChoiceRules, ruleVars, propVars
  <2>. QED BY <2>1, ResetTrail
<1>6. CASE Finish
  <2>1. /\ UNCHANGED <<rules, decisionq, decisionmap, level, branches, pkg, propagate_index>>
        /\ pc = "decide" /\ pc' = "done"
    BY <1>6 DEF Finish, ruleVars, trailVars, propVars
  <2>2. pc \in Searching /\ pc' \in Searching /\ pc # "failed"
    BY <2>1 DEF Searching
  <2>3. QueueOK'
    BY <2>1, TrailFacts DEF QueueOK
  <2>4. /\ WatchShape' /\ TrailFull(decisionq, decisionmap, rules)' /\ BranchesOK'
        /\ DecisionLev(Len(decisionq))' = level' /\ DecisionLev(1)' = 1
    BY <2>1, <2>2, TrailKept, SearchFacts
  <2>5. level' >= 1 /\ Len(decisionq') >= 1 /\ decisionq'[1] = Decision(SYSTEMSOLVABLE, 0)
    BY <2>1, <2>2, SearchFacts
  <2>. QED BY <2>2, <2>3, <2>4, <2>5, SearchPhase
<1>. QED BY <1>1, <1>2, <1>3, <1>4, <1>5, <1>6, TakeBranchTrail DEF Decide

\* A step that changes nothing.
LEMMA StutterTrail == TypeInv /\ TrailInv /\ UNCHANGED vars => TrailInv'
<1> SUFFICES ASSUME TypeInv, TrailInv, UNCHANGED vars PROVE TrailInv'
  OBVIOUS
<1>1. UNCHANGED <<inst, rules, decisionq, decisionmap, level, branches, pkg, propagate_index, pc,
                  confl, idx, seen, q, num, l1num, uip, rlevel>>
  BY DEF vars, ruleVars, trailVars, propVars, analyzeVars
<1>2. WatchShape' /\ TrailFull(decisionq, decisionmap, rules)'
      /\ (\A k : DecisionLev(k)' = DecisionLev(k)) /\ DecisionLev(Len(decisionq))' = DecisionLev(Len(decisionq))
  BY <1>1, TrailKept
<1>3. DecisionLev(1)' = DecisionLev(1) /\ DecisionLev(idx + 1)' = DecisionLev(idx + 1)
      /\ DecisionLev(propagate_index)' = DecisionLev(propagate_index)
  BY <1>1 DEF DecisionLev, Lev
<1>4. LevelOK'
  BY <1>1, <1>2, <1>3, TrailFacts DEF LevelOK
<1>5. BranchesOK' /\ QueueOK'
  BY <1>1, <1>2, <1>3, TrailFacts DEF BranchesOK, QueueOK
<1>6. AnalyzeOK'
  BY <1>1, <1>3, TrailFacts DEF AnalyzeOK, Falsified, SeenAt, ResolvedLit
<1>. QED BY <1>2, <1>4, <1>5, <1>6 DEF TrailInv

\* Every step keeps the invariant.
LEMMA NextTrail == TypeInv /\ TrailInv /\ [Next]_vars => TrailInv'
<1>1. TypeInv /\ TrailInv /\ Analyze => TrailInv'
  BY AnalyzeRuleTrail, AnalyzeDoneTrail, AnalyzeUipTrail, AnalyzeResolveTrail, LearnTrail DEF Analyze
<1>. QED BY <1>1, AssertionsTrail, PropagateTrail, AnalyzeUnsolvableTrail, DecideTrail, StutterTrail
         DEF Next, Terminated

\* The invariant of the decisions is inductive.
THEOREM DecisionsInvariant == Spec => [](TypeInv /\ TrailInv)
<1>1. Init => TypeInv /\ TrailInv
  BY InitType, InitTrail
<1>2. TypeInv /\ TrailInv /\ [Next]_vars => TypeInv' /\ TrailInv'
  BY NextType, NextTrail
<1>. QED BY <1>1, <1>2, PTL DEF Spec

-----------------------------------------------------------------------------
(* What the invariant gives. *)

\* The invariant implies what the runs check of the decisions.
LEMMA TrailGives == TypeInv /\ TrailInv => TrailInvariant
<1> SUFFICES ASSUME TypeInv, TrailInv PROVE TrailInvariant
  OBVIOUS
<1>1. /\ TrailFull(decisionq, decisionmap, rules)
      /\ \A k \in 1 .. Len(decisionq) : decisionq[k].p \in Lit /\ decisionq[k].p # 0
  <2>1. \A k \in 1 .. Len(decisionq) : decisionq[k].p \in Lit
    BY TypeFacts
  <2>. QED BY <2>1, TrailFacts, LitFacts
<1>2. Trail(decisionq, decisionmap) /\ Reasons(decisionq, rules) /\ FreeFirst(decisionq, decisionmap)
  BY <1>1 DEF TrailFull
<1>3. TrailOK
  <2>1. \A k \in 1 .. Len(decisionq) : IsTrue(decisionq[k].p)
    BY <1>1, <1>2, TruthFacts DEF Trail
  <2>2. ASSUME level > 0, NEW k \in 1 .. Len(decisionq) PROVE DecisionLev(k) <= level
    <3>1. pc \in Searching \cup Resolving \cup {"unsolvable"}
      <4>1. pc \in PcValues /\ level # 0 /\ level # -1
        BY <2>2, TypeFacts DEF TypeSearch
      <4>. QED BY <4>1, TrailFacts DEF LevelOK, PcValues, Searching, Resolving
    <3>. QED BY <3>1, SearchFacts
  <2>3. \A j, k \in 1 .. Len(decisionq) : j < k => DecisionLev(j) <= DecisionLev(k)
    BY <1>2 DEF Trail, DecisionLev, Lev
  <2>. QED BY <1>2, <2>1, <2>2, <2>3 DEF TrailOK, Trail
<1>4. ReasonOK
  BY <1>2 DEF ReasonOK, Reasons
<1>5. LevelsStartFree
  BY <1>2 DEF LevelsStartFree, FreeFirst, DecisionLev, Lev
<1>6. BranchOK
  <2> SUFFICES ASSUME pc \in {"propagate", "decide", "done"}
               PROVE  /\ \A b \in 1 .. Len(branches) : branches[b].level < level
                      /\ \A a, b \in 1 .. Len(branches) : a < b => branches[a].level < branches[b].level
                      /\ \A b \in 1 .. Len(branches) : \A j \in DOMAIN branches[b].cands :
                           LET p == branches[b].cands[j]
                           IN  IsUndef(p) \/ Lev(p) > branches[b].level
    BY DEF BranchOK
  <2>1. /\ \A b \in 1 .. Len(branches) : branches[b].level < level
        /\ \A a, b \in 1 .. Len(branches) : a < b => branches[a].level < branches[b].level
        /\ \A b \in 1 .. Len(branches) : CandidatesOpen(branches[b], decisionmap)
    BY TrailFacts DEF BranchesOK
  <2>2. ASSUME NEW b \in 1 .. Len(branches), NEW j \in DOMAIN branches[b].cands
        PROVE  IsUndef(branches[b].cands[j]) \/ Lev(branches[b].cands[j]) > branches[b].level
    <3>1. branches[b] \in BranchRec
      BY TypeFacts, ElementOfSeq DEF TypeSearch
    <3>2. branches[b].cands[j] \in Solvable
      BY <3>1 DEF BranchRec
    <3>3. branches[b].cands[j] \in Lit
      BY <3>2, LitFacts
    <3>4. LevIn(decisionmap, branches[b].cands[j]) = 0 \/ LevIn(decisionmap, branches[b].cands[j]) > branches[b].level
      BY <2>1 DEF CandidatesOpen
    <3>. QED BY <3>3, <3>4, TruthFacts, SignFacts
  <2>. QED BY <2>1, <2>2
<1>. QED BY <1>3, <1>4, <1>5, <1>6 DEF TrailInvariant

\* The invariant implies what the runs check of analyze.
LEMMA AnalyzeGives == TypeInv /\ TrailInv => AnalyzeAsserts /\ LearntIsUnit
<1> SUFFICES ASSUME TypeInv, TrailInv PROVE AnalyzeAsserts /\ LearntIsUnit
  OBVIOUS
<1>1. ASSUME pc = "next", ~(num = 0 /\ l1num = 1) PROVE Marked # {}
  <2>1. seen # {}
    <3>1. CASE uip = 0
      <4>1. num = Cardinality(SeenAt(level)) /\ num >= 1 /\ SeenAt(level) \subseteq seen
        BY <1>1, <3>1, AnalyzeFacts DEF Resolving
      <4>2. SeenAt(level) # {}
        BY <4>1, FS_EmptySet
      <4>. QED BY <4>1, <4>2
    <3>2. CASE uip # 0
      <4>1. num = 0 /\ l1num = 1 + Cardinality(seen)
        BY <1>1, <3>2, AnalyzeFacts DEF Resolving
      <4>2. Cardinality({}) = 0
        BY FS_EmptySet
      <4>. QED BY <1>1, <4>1, <4>2
    <3>. QED BY <3>1, <3>2
  <2>2. \A v \in seen : \E k \in 1 .. idx : Pkg(decisionq[k].p) = v
    BY <1>1, AnalyzeFacts DEF Resolving
  <2>. QED BY <2>1, <2>2 DEF Marked
<1>2. ASSUME pc = "learn"
      PROVE  /\ uip # 0 /\ rlevel > 0 /\ rlevel < level /\ Lev(uip) > rlevel
             /\ \A l \in q : IsFalse(l) /\ Lev(l) <= rlevel
             /\ q = {} => rlevel = 1
  <2>1. /\ uip # 0 /\ uip \in Lit /\ rlevel \in Nat /\ level \in Nat /\ 1 <= rlevel /\ rlevel < level
        /\ LevIn(decisionmap, uip) = level
        /\ q \subseteq Lit
        /\ q = {} => rlevel = 1
        /\ \A l \in q : Falsified(l) /\ LevIn(decisionmap, l) <= rlevel
    BY <1>2, AnalyzeFacts DEF Resolving
  <2>2. Lev(uip) = level
    BY <2>1, TruthFacts
  <2>3. \A l \in q : IsFalse(l) /\ Lev(l) <= rlevel
    <3> TAKE l \in q
    <3>1. l \in Lit
      BY <2>1
    <3>2. HoldsIn(decisionmap, -l) /\ LevIn(decisionmap, l) <= rlevel
      BY <2>1 DEF Falsified
    <3>. QED BY <3>1, <3>2, TruthFacts
  <2>. QED BY <2>1, <2>2, <2>3
<1>. QED BY <1>1, <1>2 DEF AnalyzeAsserts, LearntIsUnit

\* The decision takebranch goes back to and the ones analyze_unsolvable walks
\* over are what the assertions there say.
AssertionsPass ==
  /\ pc = "decide" => \A b \in 1 .. Len(branches) :
       LET k == KeepLen(branches[b].level) + 1
       IN  k \in 1 .. Len(decisionq) /\ decisionq[k].why = 0
  /\ pc = "unsolvable" => \A k \in Involved : decisionq[k].why > 0

\* The invariant implies the assertions of takebranch and analyze_unsolvable.
LEMMA AssertionsGiven == TypeInv /\ TrailInv => AssertionsPass
<1> SUFFICES ASSUME TypeInv, TrailInv PROVE AssertionsPass
  OBVIOUS
<1>1. FreeFirst(decisionq, decisionmap) /\ TrailFull(decisionq, decisionmap, rules)
  BY TrailFacts DEF TrailFull
<1>2. ASSUME pc = "decide", NEW b \in 1 .. Len(branches)
      PROVE  KeepLen(branches[b].level) + 1 \in 1 .. Len(decisionq)
             /\ decisionq[KeepLen(branches[b].level) + 1].why = 0
  <2> DEFINE l == branches[b].level
             n == KeepLen(l)
  <2>1. branches[b] \in BranchRec
    BY TypeFacts, ElementOfSeq DEF TypeSearch
  <2>2. l \in Nat /\ l >= 1 /\ l < level
    BY <1>2, <2>1, SearchFacts DEF BranchRec, Searching
  <2> HIDE DEF l
  <2>3. n \in 0 .. Len(decisionq)
        /\ \A k \in 1 .. Len(decisionq) : k <= n <=> LevIn(decisionmap, decisionq[k].p) <= l
    BY <1>1, <2>2, KeepLenFacts
  <2>4. /\ Len(decisionq) \in Nat /\ Len(decisionq) \in 1 .. Len(decisionq) /\ level \in Nat
        /\ LevIn(decisionmap, decisionq[Len(decisionq)].p) = level
    BY <1>2, SearchFacts DEF Searching, DecisionLev, Lev
  <2> HIDE DEF n
  <2>5. n # Len(decisionq)
    BY <2>2, <2>3, <2>4
  <2>6. n + 1 \in 1 .. Len(decisionq) /\ ~(n + 1 <= n) /\ n \in Nat
    BY <2>3, <2>4, <2>5
  <2>7. LevIn(decisionmap, decisionq[n + 1].p) \in Nat /\ LevIn(decisionmap, decisionq[n + 1].p) > l
    <3>1. LevIn(decisionmap, decisionq[n + 1].p) \in Nat
      BY <2>6, TrailFacts
    <3>. QED BY <2>2, <2>3, <2>6, <3>1
  <2>8. decisionq[n + 1].why = 0
    <3>1. CASE n = 0
      BY <1>1, <2>6, <3>1 DEF FreeFirst
    <3>2. CASE n # 0
      <4>1. n \in 1 .. Len(decisionq) /\ (n + 1) - 1 = n
        BY <2>6, <3>2
      <4>2. LevIn(decisionmap, decisionq[n].p) <= l /\ LevIn(decisionmap, decisionq[n].p) \in Nat
        <5>1. LevIn(decisionmap, decisionq[n].p) \in Nat
          BY <4>1, TrailFacts
        <5>. QED BY <2>3, <2>6, <4>1, <5>1
      <4>3. LevIn(decisionmap, decisionq[(n + 1) - 1].p) < LevIn(decisionmap, decisionq[n + 1].p)
        BY <2>2, <2>7, <4>1, <4>2
      <4>. QED BY <1>1, <2>6, <4>3 DEF FreeFirst
    <3>. QED BY <3>1, <3>2
  <2>. QED BY <2>6, <2>8 DEF n, l
<1>3. ASSUME pc = "unsolvable", NEW k \in Involved PROVE decisionq[k].why > 0
  <2>1. k \in 1 .. idx /\ Pkg(decisionq[k].p) # SYSTEMSOLVABLE
    BY DEF Involved
  <2>2. /\ k \in 1 .. Len(decisionq) /\ decisionq[k].why \in Nat /\ Len(decisionq) \in Nat
    <3>1. k \in 1 .. Len(decisionq) /\ Len(decisionq) \in Nat
      BY <2>1, TypeFacts DEF TypeAnalysis
    <3>2. decisionq[k].why \in Nat
      BY <3>1, TypeFacts
    <3>. QED BY <3>1, <3>2
  <2>3. level = 1 /\ decisionq[1].p = SYSTEMSOLVABLE
    BY <1>3, SearchFacts, TrailFacts DEF LevelOK, Decision
  <2>4. k # 1
    BY <2>1, <2>3 DEF Pkg, SYSTEMSOLVABLE
  <2>5. k - 1 \in 1 .. Len(decisionq)
    BY <2>2, <2>4
  <2>6. \A j \in 1 .. Len(decisionq) : DecisionLev(j) = 1
    BY <1>3, <2>3, SearchFacts, TrailFacts
  <2>7. LevIn(decisionmap, decisionq[k].p) = 1 /\ LevIn(decisionmap, decisionq[k - 1].p) = 1
    BY <2>2, <2>5, <2>6 DEF DecisionLev, Lev
  <2>8. decisionq[k].why # 0
    BY <1>1, <2>2, <2>4, <2>7 DEF FreeFirst
  <2>. QED BY <2>2, <2>8
<1>. QED BY <1>2, <1>3 DEF AssertionsPass

-----------------------------------------------------------------------------
(* The theorems. *)

\* On every rule set, after every sequence of decisions, conflicts, learnt
\* rules, branches and restarts: decisionq and decisionmap tell the same
\* story with levels that never go down, every forced decision has a rule
\* that forced it, every level above 1 starts with a free decision and an
\* alternative of a branch is undecided again when its level is taken back.
THEOREM DecisionsRight == Spec => []TrailInvariant
  BY DecisionsInvariant, TrailGives, PTL

\* The assertions of analyze hold on every rule set: walking back it always
\* finds the next marked decision, so the counters num and l1num count
\* exactly what is marked, and the learnt rule has a literal of this level
\* and a lower level to go back to.
THEOREM AnalyzeNeverFails == Spec => []AnalyzeAsserts
  BY DecisionsInvariant, AnalyzeGives, PTL

\* What analyze learns is unit at the level it goes back to: this is what
\* makes the decision after learning a forced one and the search advance.
THEOREM LearntRuleIsUnit == Spec => []LearntIsUnit
  BY DecisionsInvariant, AnalyzeGives, PTL

\* assert(why >= 0) in takebranch and assert(why > 0) in analyze_unsolvable
\* never fail: a branch always has a free decision above its level to take
\* back, and at level 1 only the system solvable was decided freely.
THEOREM AssertionsNeverFail == Spec => []AssertionsPass
  BY DecisionsInvariant, AssertionsGiven, PTL
=============================================================================
