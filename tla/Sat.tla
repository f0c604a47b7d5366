-------------------------------- MODULE Sat ---------------------------------
(***************************************************************************)
(* The SAT engine of src/src/solver.c: makeruledecisions, propagate,       *)
(* analyze, revert, analyze_unsolvable, setpropagatelearn, takebranch and  *)
(* solver_reset.  Which packages are tried is left open here: any caller   *)
(* of setpropagatelearn is an instance of Decide.  SolverRun adds the      *)
(* phases of solver_run_sat that make the choice.                          *)
(*                                                                         *)
(* One behaviour is one call of solver_run_sat on one rule set.  The order *)
(* of the literals in a rule and of the rules in a watch chain is left     *)
(* open, as solver.c says it "just changes the order of decisions".        *)
(***************************************************************************)
EXTENDS Literals, FiniteSets, FiniteSetsExt

CONSTANTS Instances,    \* the rule sets solver_run_sat is started on
          MaxChoices    \* bound on the number of candidates of one decision

(***************************************************************************)
(* An instance is the state solver_solve leaves for solver_run_sat.        *)
(*   rules        the rules 1..learntrules-1                               *)
(*   pkgend       pkgrules_end: the rules below it are package rules       *)
(*   weak         weakrulemap                                              *)
(*   problem      solver_ruletoproblem: the problem a rule belongs to; a   *)
(*                job is negative and may own several rules                *)
(*   policy       for each job the policy rules it keeps disabled, which   *)
(*                come back when it is given up (jobtodisablelist)         *)
(*   recommends   the rules of recommendsrules..recommendsrules_end        *)
(*   recruleq     recommendsruleq                                          *)
(*   choice       choicerules_info: choice rule -> the rule it is made of  *)
(*   uninstall    the update rules solver_autouninstall may give up: those *)
(*                with a feature rule of their own (update), the others    *)
(*                (feature), those of orphans keep_orphans prefers         *)
(*                (orphan), and the best rule that protects one (best)     *)
(*   installed    installed package -> the packages its update may install *)
(*   extras       the packages resolve_weak and resolve_orphaned may add   *)
(*   disabled     rules that start disabled (solver_disablepolicyrules)    *)
(*   disablerules the argument of solver_run_sat                           *)
(***************************************************************************)
Instance(I) ==
  /\ I.rules \in Seq(Rule)
  /\ I.pkgend \in 1 .. Len(I.rules) + 1
  /\ I.weak \in SUBSET (1 .. Len(I.rules))
  /\ I.problem \in [1 .. Len(I.rules) -> Int \ {0}]
  /\ I.disabled \in SUBSET (1 .. Len(I.rules))
  /\ I.disablerules \in BOOLEAN
  /\ \A i \in 1 .. Len(I.rules) :
        LET r == I.rules[i] IN
        \/ r.lits = {} /\ r.w1 = 0 /\ r.w2 = 0
        \/ r.lits = {r.w1} /\ r.w2 = 0
        \/ {r.w1, r.w2} \subseteq r.lits /\ r.w1 # r.w2
  \* a package rule never contains a literal and its negation (solver_addrule)
  /\ \A i \in 1 .. I.pkgend - 1 : \A l \in I.rules[i].lits : -l \notin I.rules[i].lits
  \* a package rule that is an assertion forbids a package
  /\ \A i \in 1 .. I.pkgend - 1 :
        IsAssertion(I.rules[i]) => I.rules[i].w1 < 0 /\ I.rules[i].w1 # -SYSTEMSOLVABLE
  \* every package rule says what a package needs or refuses (-p | ...)
  /\ \A i \in 1 .. I.pkgend - 1 :
        \E l \in I.rules[i].lits : l < 0 /\ l # -SYSTEMSOLVABLE
  /\ \A p \in DOMAIN I.installed : p \in Solvable /\ I.installed[p] \subseteq Solvable
  /\ I.extras \subseteq Solvable
  \* every choice rule is pushed to weakruleq (solver_addchoicerules)
  /\ DOMAIN I.choice \subseteq 1 .. Len(I.rules) /\ DOMAIN I.choice \subseteq I.weak
  /\ \A c \in DOMAIN I.choice : I.choice[c] \in 1 .. Len(I.rules)
  \* only jobs have a list, and it names update, infarch, dup, black and
  \* repoprio rules, none of which belongs to a job (jobtodisablelist)
  /\ \A v \in DOMAIN I.policy : \A i \in I.policy[v] : v < 0 /\ I.problem[i] > 0
  \* an orphan is preferred among those without a feature rule of their own
  /\ I.uninstall.orphan \subseteq I.uninstall.feature

ASSUME InstancesAssumption == \A I \in Instances : Instance(I)
ASSUME MaxChoicesAssumption == MaxChoices \in Nat

VARIABLES
  inst,             \* the instance being solved
  rules,            \* solv->rules: inst.rules followed by the learnt rules
  why,              \* learnt_why/learnt_pool: the proof of each learnt rule
  disabled,         \* the rules with d < 0
  decisionq,        \* decisionq and decisionq_why: the decisions in order
  decisionmap,      \* package -> level of its decision, negative if not installed
  propagate_index,  \* number of decisions already propagated
  level,            \* the level of setpropagatelearn; 0 restart, -1 unsolvable
  branches,         \* the alternatives left open by selectandinstall
  problems,         \* the problems found: proof and involved problem ids
  disablerules,     \* the argument of the current setpropagatelearn
  pc,               \* where the engine is
  ri, havedisabled, \* locals of makeruledecisions
  pkg, todo,        \* locals of propagate: the literal that became false and
                    \* the rules of its watch chain still to be visited
  confl, idx, seen, q, num, l1num, uip, rlevel, proof
                    \* locals of analyze and analyze_unsolvable

ruleVars    == <<inst, rules, why>>
trailVars   == <<decisionq, decisionmap, propagate_index>>
assertVars  == <<ri, havedisabled>>
propVars    == <<pkg, todo>>
analyzeVars == <<confl, idx, seen, q, num, l1num, uip, rlevel, proof>>
vars == <<ruleVars, disabled, trailVars, level, branches, problems,
          disablerules, pc, assertVars, propVars, analyzeVars>>

-----------------------------------------------------------------------------
NBase == Len(inst.rules)        \* learntrules - 1

IsTrue(l)  == IF l > 0 THEN decisionmap[l] > 0 ELSE decisionmap[-l] < 0
IsFalse(l) == IF l > 0 THEN decisionmap[l] < 0 ELSE decisionmap[-l] > 0
IsUndef(l) == decisionmap[Pkg(l)] = 0

LevIn(map, l) == IF map[Pkg(l)] < 0 THEN -map[Pkg(l)] ELSE map[Pkg(l)]
Lev(l) == LevIn(decisionmap, l)

Decision(l, w) == [p |-> l, why |-> w]
Signed(l, lev) == IF l > 0 THEN lev ELSE -lev

Push(l, w, lev) ==
  /\ decisionq' = Append(decisionq, Decision(l, w))
  /\ decisionmap' = [decisionmap EXCEPT ![Pkg(l)] = Signed(l, lev)]

-----------------------------------------------------------------------------
(* Disabling and enabling rules. *)

GroupBug(v) ==                          \* mutant: only the first rule of a job
  {i \in 1 .. NBase : inst.problem[i] = v /\ \A j \in 1 .. i - 1 : inst.problem[j] # v}
Group(v) == {i \in 1 .. NBase : inst.problem[i] = v}    \* solver_disableproblem

\* solver_reenablepolicyrules: the policy rules the job v had disabled come
\* back unless another job with an enabled rule disables them too.
ReenablePolicyRules(v, d) ==
  LET others == {inst.problem[i] : i \in (1 .. NBase) \ d} \cap DOMAIN inst.policy
  IN  d \ (inst.policy[v] \ UNION {inst.policy[w] : w \in others})

FixProblem(i, d) ==
  LET v == inst.problem[i]
  IN  IF v \in DOMAIN inst.policy THEN ReenablePolicyRules(v, d \cup Group(v))
                                  ELSE d \cup Group(v)

\* solver_disablechoicerules: the choice rule c goes, and with it every
\* choice rule made of a rule that offers a package c had ruled out.
DisableChoiceRules(c, d) ==
  LET positive(i) == {l \in rules[i].lits : l > 0}
      m == positive(inst.choice[c]) \ positive(c)
  IN  d \cup {c} \cup {i \in DOMAIN inst.choice : positive(inst.choice[i]) \cap m # {}}

DisableRecommendsRules(weakq, d) ==
  d \cup (weakq \cap (inst.recommends \cup inst.recruleq))

\* disable_weakrules: give up the last weak rule of the proof, but a
\* recommends rule only when nothing else but package rules is left.
DisableWeakRules(weakq, d) ==
  LET last == Max(weakq)
      rest == {i \in weakq : \A j \in inst.recommends : i < j}
      lastweak == IF last \in inst.recommends
                  THEN IF rest = {} THEN 0 ELSE Max(rest) ELSE last
  IN  CASE last \in inst.recommends /\ lastweak < inst.pkgend ->
             DisableRecommendsRules(weakq, d)
        [] last \notin inst.recommends /\ lastweak < inst.pkgend
             /\ lastweak \in inst.recruleq -> DisableRecommendsRules(weakq, d)
        [] lastweak \in DOMAIN inst.choice -> DisableChoiceRules(lastweak, d)
        [] OTHER -> FixProblem(lastweak, d)

\* solver_autouninstall: the update rules it may choose to give up.
AutoUninstallBug(elems) ==              \* mutant: any rule of the problem may go
  LET free == {v \in elems : v > 0} IN IF free = {} THEN {} ELSE {Max(free)}
AutoUninstall(elems) ==
  LET free(S) == {v \in elems \cap S :
                    ~ \E b \in elems : <<b, v>> \in inst.uninstall.best}
      orphan  == free(inst.uninstall.orphan)
      update  == free(inst.uninstall.update)
      feature == free(inst.uninstall.feature)
  IN  IF orphan # {} THEN orphan
      ELSE IF update # {} THEN {Max(update)}
      ELSE IF feature # {} THEN {Max(feature)} ELSE {}

\* enabledisablelearntrules: a learnt rule is enabled iff every rule of its
\* proof is enabled; earlier rules are settled first.
EnableDisableLearntRules(d) ==
  LET off[i \in 1 .. Len(rules)] ==
        IF i <= NBase THEN i \in d ELSE \E w \in why[i - NBase] : off[w]
  IN  {i \in 1 .. Len(rules) : off[i]}

\* The rules of the instance a proof rests on (analyze_unsolvable_rule).
BaseRulesBug(R) == R \cap 1 .. NBase     \* mutant: proofs of learnt rules ignored
BaseRules(R) ==
  LET base[i \in 1 .. Len(rules)] ==
        IF i <= NBase THEN {i} ELSE UNION {base[w] : w \in why[i - NBase]}
  IN  UNION {base[i] : i \in R}

PkgRules == 1 .. inst.pkgend - 1

ProblemOf(R) == {inst.problem[i] : i \in R \cap inst.pkgend .. NBase}

Problem(prf, elems) == [proof |-> prf, elems |-> elems]

-----------------------------------------------------------------------------
(* makeruledecisions: turn the assertions into decisions. *)

RuleAssertions(k) == {i \in k .. Len(rules) : IsAssertion(rules[i])}

ClearMap == [v \in Solvable |-> 0]
SystemOnly ==
  /\ decisionq' = <<Decision(SYSTEMSOLVABLE, 0)>>
  /\ decisionmap' = [ClearMap EXCEPT ![SYSTEMSOLVABLE] = 1]

MakeRuleDecisions ==
  /\ pc = "start"
  /\ SystemOnly
  /\ ri' = 1 /\ havedisabled' = FALSE
  /\ disablerules' = inst.disablerules
  /\ pc' = "assert"
  /\ UNCHANGED <<ruleVars, disabled, propagate_index, level, branches, problems,
                 propVars, analyzeVars>>

\* The first learnt assertion is reached after rules were disabled.
AssertLearntStatus ==
  /\ pc = "assert" /\ havedisabled
  /\ RuleAssertions(ri) # {} /\ Min(RuleAssertions(ri)) > NBase
  /\ disabled' = EnableDisableLearntRules(disabled)
  /\ havedisabled' = FALSE
  /\ UNCHANGED <<ruleVars, trailVars, level, branches, problems, disablerules, pc,
                 ri, propVars, analyzeVars>>

\* The assertion i is the next one of the queue, and strong (or learnt).
AtAssertion(i) ==
  /\ RuleAssertions(ri) # {} /\ i = Min(RuleAssertions(ri))
  /\ ~(havedisabled /\ i > NBase)

Skipped(i) == i \in disabled \/ i \in inst.weak

AssertDecide ==
  /\ pc = "assert"
  /\ \E i \in RuleAssertions(ri) :
       /\ AtAssertion(i) /\ ~Skipped(i)
       /\ IsUndef(rules[i].w1)
       /\ Push(rules[i].w1, i, 1)
       /\ ri' = i + 1
  /\ UNCHANGED <<ruleVars, disabled, propagate_index, level, branches, problems,
                 disablerules, pc, havedisabled, propVars, analyzeVars>>

AssertSkip ==
  /\ pc = "assert"
  /\ \E i \in RuleAssertions(ri) :
       /\ AtAssertion(i)
       /\ Skipped(i) \/ IsTrue(rules[i].w1)
       /\ ri' = i + 1
  /\ UNCHANGED <<ruleVars, disabled, trailVars, level, branches, problems,
                 disablerules, pc, havedisabled, propVars, analyzeVars>>

\* A learnt assertion contradicts an earlier one: it is simply disabled.
AssertDropLearnt ==
  /\ pc = "assert"
  /\ \E i \in RuleAssertions(ri) :
       /\ AtAssertion(i) /\ ~Skipped(i) /\ i > NBase
       /\ IsFalse(rules[i].w1)
       /\ disabled' = disabled \cup {i}
       /\ ri' = i + 1
  /\ UNCHANGED <<ruleVars, trailVars, level, branches, problems,
                 disablerules, pc, havedisabled, propVars, analyzeVars>>

\* The rules recorded for the conflict of assertion i with rule o: i alone
\* against a package rule, else every strong assertion about the package.
AssertionConflict(i, o) ==
  IF o < inst.pkgend THEN {i}
  ELSE {j \in inst.pkgend .. NBase :
          /\ j \notin disabled /\ j \notin inst.weak
          /\ IsAssertion(rules[j]) /\ Pkg(rules[j].w1) = Pkg(rules[i].w1)}

\* The strong assertion i contradicts decision k.
InConflict(i, k) ==
  /\ pc = "assert" /\ i \in RuleAssertions(ri)
  /\ AtAssertion(i) /\ ~Skipped(i) /\ i <= NBase
  /\ IsFalse(rules[i].w1) /\ decisionq[k].p = -rules[i].w1

ConflictElems(i, k) == ProblemOf(AssertionConflict(i, decisionq[k].why))
ConflictProof(i, k) == {i, decisionq[k].why} \ {0}

StartOver(d) ==
  /\ disabled' = d
  /\ SystemOnly /\ ri' = 1 /\ havedisabled' = TRUE
  /\ pc' = "assert"

AssertUninstall ==
  /\ \E i \in 1 .. NBase : \E k \in 1 .. Len(decisionq) :
       /\ InConflict(i, k)
       /\ \E v \in AutoUninstall(ConflictElems(i, k)) : StartOver(disabled \cup Group(v))
  /\ UNCHANGED <<ruleVars, propagate_index, level, branches, problems, disablerules,
                 propVars, analyzeVars>>

AssertConflict ==
  /\ \E i \in 1 .. NBase : \E k \in 1 .. Len(decisionq) :
       /\ InConflict(i, k)
       /\ AutoUninstall(ConflictElems(i, k)) = {}
       /\ problems' = Append(problems, Problem(ConflictProof(i, k), ConflictElems(i, k)))
       /\ \/ /\ inst.disablerules
             /\ StartOver(disabled \cup UNION {Group(v) : v \in ConflictElems(i, k)})
             /\ level' = level
          \/ /\ ~inst.disablerules
             /\ pc' = "failed" /\ level' = -1
             /\ UNCHANGED <<disabled, decisionq, decisionmap, assertVars>>
  /\ UNCHANGED <<ruleVars, propagate_index, branches, disablerules, propVars, analyzeVars>>

AssertEnd ==
  /\ pc = "assert" /\ RuleAssertions(ri) = {}
  /\ IF inst.weak = {} THEN pc' = "propagate" /\ level' = 1 /\ UNCHANGED ri
                       ELSE pc' = "weakassert" /\ ri' = 1 /\ UNCHANGED level
  /\ UNCHANGED <<ruleVars, disabled, trailVars, branches, problems,
                 disablerules, havedisabled, propVars, analyzeVars>>

WeakAssertions(k) == (RuleAssertions(k) \cap inst.weak) \ disabled

WeakDecide ==
  /\ pc = "weakassert" /\ WeakAssertions(ri) # {}
  /\ LET i == Min(WeakAssertions(ri)) IN
       /\ ~IsFalse(rules[i].w1)
       /\ IF IsUndef(rules[i].w1) THEN Push(rules[i].w1, i, 1)
                                  ELSE UNCHANGED <<decisionq, decisionmap>>
       /\ ri' = i + 1
  /\ UNCHANGED <<ruleVars, disabled, propagate_index, level, branches, problems,
                 disablerules, pc, havedisabled, propVars, analyzeVars>>

\* A weak assertion that conflicts is given up silently; start over.
WeakConflict ==
  /\ pc = "weakassert" /\ WeakAssertions(ri) # {}
  /\ LET i == Min(WeakAssertions(ri)) IN
       /\ IsFalse(rules[i].w1)
       /\ StartOver(FixProblem(i, disabled))
  /\ UNCHANGED <<ruleVars, propagate_index, level, branches, problems,
                 disablerules, propVars, analyzeVars>>

WeakEnd ==
  /\ pc = "weakassert" /\ WeakAssertions(ri) = {}
  /\ pc' = "propagate" /\ level' = 1
  /\ UNCHANGED <<ruleVars, disabled, trailVars, branches, problems,
                 disablerules, assertVars, propVars, analyzeVars>>

-----------------------------------------------------------------------------
\* The locals of analyze and analyze_unsolvable go out of scope.
ForgetAnalysis ==
  /\ confl' = 0 /\ idx' = 0 /\ seen' = {} /\ q' = {} /\ num' = 0 /\ l1num' = 0
  /\ uip' = 0 /\ rlevel' = 1 /\ proof' = {}

(* propagate: find the rules that became unit. *)

Watching(l) == {i \in 1 .. Len(rules) : rules[i].w2 # 0 /\ l \in {rules[i].w1, rules[i].w2}}

\* Take the next decision of the queue; pkg is the literal it made false.
PropagateNext ==
  /\ pc = "propagate" /\ pkg = 0 /\ propagate_index < Len(decisionq)
  /\ pkg' = -decisionq[propagate_index + 1].p
  /\ todo' = Watching(pkg')
  /\ propagate_index' = propagate_index + 1
  /\ UNCHANGED <<ruleVars, disabled, decisionq, decisionmap, level, branches, problems,
                 disablerules, pc, assertVars, analyzeVars>>

PropagateDecisionDone ==
  /\ pc = "propagate" /\ pkg # 0 /\ todo = {}
  /\ pkg' = 0
  /\ UNCHANGED <<ruleVars, disabled, trailVars, level, branches, problems,
                 disablerules, pc, assertVars, todo, analyzeVars>>

OtherWatch(i) == IF pkg = rules[i].w1 THEN rules[i].w2 ELSE rules[i].w1

\* The literals the watch on pkg may move to.
FreeLits(i) == {l \in rules[i].lits : l # OtherWatch(i) /\ ~IsFalse(l)}

SkipRule(i) == i \in disabled \/ IsTrue(OtherWatch(i))

Visit(i) == pc = "propagate" /\ i \in todo /\ todo' = todo \ {i}

PropagateSkip ==
  /\ \E i \in todo : Visit(i) /\ SkipRule(i)
  /\ UNCHANGED <<ruleVars, disabled, trailVars, level, branches, problems,
                 disablerules, pc, assertVars, pkg, analyzeVars>>

MoveWatch(r, l) == IF pkg = r.w1 THEN [r EXCEPT !.w1 = l] ELSE [r EXCEPT !.w2 = l]

PropagateMove ==
  /\ \E i \in todo :
       /\ Visit(i) /\ ~SkipRule(i)
       /\ \E l \in FreeLits(i) : rules' = [rules EXCEPT ![i] = MoveWatch(@, l)]
  /\ UNCHANGED <<inst, why, disabled, trailVars, level, branches, problems,
                 disablerules, pc, assertVars, pkg, analyzeVars>>

PropagateUnit ==
  /\ \E i \in todo :
       /\ Visit(i) /\ ~SkipRule(i) /\ FreeLits(i) = {}
       /\ ~IsFalse(OtherWatch(i))
       /\ Push(OtherWatch(i), i, level)
  /\ UNCHANGED <<ruleVars, disabled, propagate_index, level, branches, problems,
                 disablerules, pc, assertVars, pkg, analyzeVars>>

\* Rule i is false: above level 1 it is analyzed, at level 1 it is hopeless.
PropagateConflict ==
  /\ \E i \in todo :
       /\ pc = "propagate" /\ ~SkipRule(i) /\ FreeLits(i) = {}
       /\ IsFalse(OtherWatch(i))
       /\ confl' = i
       /\ IF level = 1
          THEN /\ pc' = "unsolvable"
               /\ seen' = {Pkg(l) : l \in rules[i].lits} /\ proof' = {i}
          ELSE /\ pc' = "analyze"
               /\ seen' = {} /\ proof' = {}
  /\ pkg' = 0 /\ todo' = {}
  /\ idx' = Len(decisionq)
  /\ q' = {} /\ num' = 0 /\ l1num' = 0 /\ uip' = 0 /\ rlevel' = 1
  /\ UNCHANGED <<ruleVars, disabled, trailVars, level, branches, problems,
                 disablerules, assertVars>>

PropagateEnd ==
  /\ pc = "propagate" /\ pkg = 0 /\ propagate_index = Len(decisionq)
  /\ pc' = "decide"
  /\ UNCHANGED <<ruleVars, disabled, trailVars, level, branches, problems,
                 disablerules, assertVars, propVars, analyzeVars>>

-----------------------------------------------------------------------------
(* revert: take back the decisions above level l. *)

KeepLen(l) ==
  LET stop == {k \in 1 .. Len(decisionq) : Lev(decisionq[k].p) <= l}
  IN  IF stop = {} THEN 0 ELSE Max(stop)

Prefix(s, n) == SubSeq(s, 1, n)

Reverted(l) == {Pkg(decisionq[k].p) : k \in KeepLen(l) + 1 .. Len(decisionq)}
RevertedMap(l) == [v \in Solvable |-> IF v \in Reverted(l) THEN 0 ELSE decisionmap[v]]

PopBranchesBug(bs, l) ==                \* mutant: off by one
  LET stop == {k \in 1 .. Len(bs) : bs[k].level <= l}
  IN  Prefix(bs, IF stop = {} THEN 0 ELSE Max(stop))
PopBranches(bs, l) ==
  LET stop == {k \in 1 .. Len(bs) : bs[k].level < l}
  IN  Prefix(bs, IF stop = {} THEN 0 ELSE Max(stop))

\* Only a decision that is taken back moves propagate_index.
RevertedIndexBug(l) == propagate_index   \* mutant: not moved at all
RevertedIndex(l) == IF Reverted(l) = {} THEN propagate_index ELSE KeepLen(l)

\* revert(level) and then the decision of literal p by rule w at that level.
RevertAndPush(l, p, w, lev) ==
  /\ decisionq' = Append(Prefix(decisionq, KeepLen(l)), Decision(p, w))
  /\ decisionmap' = [RevertedMap(l) EXCEPT ![Pkg(p)] = Signed(p, lev)]
  /\ propagate_index' = RevertedIndex(l)

-----------------------------------------------------------------------------
(* analyze: resolve the conflict back to the last free decision and learn. *)

\* The literals of rule confl that are not marked yet.
NewLits == {l \in rules[confl].lits : ~IsTrue(l) /\ Pkg(l) \notin seen}
LitsAt(lev) == {l \in NewLits : Lev(l) = lev}
LowerLits == {l \in NewLits : Lev(l) # 1 /\ Lev(l) # level}

\* The level to go back to: the highest of the literals below this level.
BackLevel ==
  LET levels == {rlevel} \cup {Lev(l) : l \in LowerLits}
  IN  {m \in levels : \A n \in levels : n <= m}

\* Mark and count them.
AnalyzeRule ==
  /\ pc = "analyze"
  /\ seen'  = seen \cup {Pkg(l) : l \in NewLits}
  /\ l1num' = l1num + Cardinality(LitsAt(1))
  /\ num'   = num + Cardinality(LitsAt(level))
  /\ q' = q \cup LowerLits
  /\ rlevel' \in BackLevel
  /\ proof' = proof \cup {confl}
  /\ pc' = "next"
  /\ UNCHANGED <<ruleVars, disabled, trailVars, level, branches, problems,
                 disablerules, assertVars, propVars, confl, idx, uip>>

AnalyzeDone ==
  /\ pc = "next" /\ num = 0 /\ l1num = 1
  /\ l1num' = 0 /\ pc' = "learn"
  /\ UNCHANGED <<ruleVars, disabled, trailVars, level, branches, problems, disablerules,
                 assertVars, propVars, confl, idx, seen, q, num, uip, rlevel, proof>>

\* The last decision not looked at yet that is marked.
Marked == {k \in 1 .. idx : Pkg(decisionq[k].p) \in seen}
LastMarked == Max(Marked)
Unmark(k) == seen \ {Pkg(decisionq[k].p)}

NeedLevelOneBug == FALSE                 \* mutant: no level 1 pass
NeedLevelOne == l1num # 0

\* Only one literal of this level is left: its negation is what we learn.
\* Then the level 1 literals are resolved as well, for the proof.
AnalyzeUip ==
  /\ pc = "next" /\ num = 1 /\ Marked # {}
  /\ uip' = -decisionq[LastMarked].p
  /\ idx' = LastMarked - 1
  /\ num' = 0
  /\ IF NeedLevelOne
     THEN /\ seen' = Unmark(LastMarked) \ {Pkg(l) : l \in q}
          /\ l1num' = l1num + 1
          /\ UNCHANGED pc
     ELSE pc' = "learn" /\ seen' = Unmark(LastMarked) /\ UNCHANGED l1num
  /\ UNCHANGED <<ruleVars, disabled, trailVars, level, branches, problems,
                 disablerules, assertVars, propVars, confl, q, rlevel, proof>>

\* Replace the literal by the rule that decided it; the system solvable has none.
AnalyzeResolve ==
  /\ pc = "next" /\ Marked # {}
  /\ \/ num > 1 /\ num' = num - 1 /\ UNCHANGED l1num
     \/ num = 0 /\ l1num # 1 /\ l1num' = l1num - 1 /\ UNCHANGED num
  /\ idx' = LastMarked - 1
  /\ seen' = Unmark(LastMarked)
  /\ IF decisionq[LastMarked].why > 0
     THEN confl' = decisionq[LastMarked].why /\ pc' = "analyze"
     ELSE UNCHANGED <<confl, pc>>
  /\ UNCHANGED <<ruleVars, disabled, trailVars, level, branches, problems,
                 disablerules, assertVars, propVars, q, uip, rlevel, proof>>

\* watch2onhighest: a literal of the highest level becomes the second watch.
HighestBug(map, ls) == {l \in ls : \A m \in ls : LevIn(map, m) >= LevIn(map, l)}   \* mutant: lowest
Highest(map, ls) == {l \in ls : \A m \in ls : LevIn(map, m) <= LevIn(map, l)}

\* Go back to the highest level of the learnt rule, add it, and decide the
\* literal it makes unit there.  The guard is what analyze asserts.
Learn ==
  /\ pc = "learn" /\ uip # 0 /\ rlevel > 0 /\ rlevel < level
  /\ \E w2 \in IF q = {} THEN {0} ELSE Highest(RevertedMap(rlevel), q) :
       rules' = Append(rules, [lits |-> {uip} \cup q, w1 |-> uip, w2 |-> w2])
  /\ why' = Append(why, proof)
  /\ RevertAndPush(rlevel, uip, Len(rules) + 1, rlevel)
  /\ branches' = PopBranches(branches, rlevel)
  /\ level' = rlevel
  /\ pc' = "propagate"
  /\ ForgetAnalysis
  /\ UNCHANGED <<inst, disabled, problems, disablerules, assertVars, propVars>>

-----------------------------------------------------------------------------
(* analyze_unsolvable: a conflict at level 1 that no decision can avoid. *)

\* Walk back over the decisions and collect the rules that made them.
Involved == {k \in 1 .. idx : Pkg(decisionq[k].p) \in seen \ {SYSTEMSOLVABLE}}

UnsolvableWalk ==
  /\ pc = "unsolvable" /\ Involved # {}
  /\ LET k == Max(Involved)
         r == decisionq[k].why
     IN  /\ r > 0                    \* assert(why > 0)
         /\ idx' = k - 1
         /\ proof' = proof \cup {r}
         /\ seen' = seen \cup {Pkg(l) : l \in {m \in rules[r].lits : ~IsTrue(m)}}
  /\ UNCHANGED <<ruleVars, disabled, trailVars, level, branches, problems, disablerules,
                 pc, assertVars, propVars, confl, q, num, l1num, uip, rlevel>>

Proved == pc = "unsolvable" /\ Involved = {}
WeakOfProof == BaseRules(proof) \cap inst.weak
ElemsOfProof == ProblemOf(BaseRules(proof))

\* solver_reset: forget all decisions, settle the learnt rules, start again.
Reset(d) ==
  /\ disabled' = EnableDisableLearntRules(d)
  /\ decisionq' = <<>> /\ decisionmap' = ClearMap /\ propagate_index' = 0
  /\ branches' = <<>>
  /\ level' = 0 /\ pc' = "start"

UnsolvableWeak ==
  /\ Proved /\ WeakOfProof # {}
  /\ Reset(DisableWeakRules(WeakOfProof, disabled))
  /\ ForgetAnalysis
  /\ UNCHANGED <<ruleVars, problems, disablerules, assertVars, propVars>>

UnsolvableUninstall ==
  /\ Proved /\ WeakOfProof = {}
  /\ \E v \in AutoUninstall(ElemsOfProof) : Reset(disabled \cup Group(v))
  /\ ForgetAnalysis
  /\ UNCHANGED <<ruleVars, problems, disablerules, assertVars, propVars>>

RecordProblem ==
  /\ Proved /\ WeakOfProof = {} /\ AutoUninstall(ElemsOfProof) = {}
  /\ problems' = Append(problems, Problem(proof, ElemsOfProof))

\* All the rules of the problem are given up and the search goes on.
UnsolvableDisable ==
  /\ RecordProblem
  /\ disablerules /\ ElemsOfProof # {}
  /\ Reset(disabled \cup UNION {Group(v) : v \in ElemsOfProof})
  /\ ForgetAnalysis
  /\ UNCHANGED <<ruleVars, disablerules, assertVars, propVars>>

UnsolvableFail ==
  /\ RecordProblem
  /\ ~(disablerules /\ ElemsOfProof # {})
  /\ level' = -1 /\ pc' = "failed"
  /\ ForgetAnalysis
  /\ UNCHANGED <<ruleVars, disabled, trailVars, branches, disablerules, assertVars, propVars>>

-----------------------------------------------------------------------------
(* The decisions of the phases of solver_run_sat. *)

\* A rule none of whose literals holds yet; a package not decided is not
\* going to be installed.
FulfilledBug(i) ==                      \* mutant: undecided counts as fulfilled
  \E l \in rules[i].lits : IsTrue(l) \/ IsUndef(l)
Fulfilled(i) ==
  \E l \in rules[i].lits : IsTrue(l) \/ (l < 0 /\ IsUndef(l))

Unfulfilled ==
  {i \in (1 .. Len(rules)) \ disabled : rules[i].w1 # 0 /\ ~Fulfilled(i)}

Consistent == Unfulfilled = {}

UndecidedOf(S) == {p \in S : p > 0 /\ IsUndef(p)}

\* What is left of the candidates S after policy_filter_unwanted and the
\* other pruning and reordering, best first.
Selections(S) ==
  UNION {{dq \in [1 .. n -> UndecidedOf(S)] : \A i, j \in 1 .. n : i # j => dq[i] # dq[j]}
           : n \in 1 .. MaxChoices}

Branch(dq, l) == [cands |-> dq, tried |-> {1}, level |-> l]

\* setpropagatelearn with a free decision p.
SetPropagateLearn(p, flag) ==
  /\ level' = level + 1
  /\ Push(p, 0, level + 1)
  /\ disablerules' = flag
  /\ pc' = "propagate"
  /\ UNCHANGED <<ruleVars, disabled, propagate_index, problems, assertVars, propVars,
                 analyzeVars>>

SelectAndInstall(dq, flag) ==
  /\ branches' = IF Len(dq) > 1 THEN Append(branches, Branch(dq, level)) ELSE branches
  /\ SetPropagateLearn(dq[1], flag)

\* resolve_jobrules and resolve_dependencies: fulfill a rule.
DecideRule ==
  /\ pc = "decide"
  /\ \E i \in Unfulfilled : \E dq \in Selections(rules[i].lits) :
       SelectAndInstall(dq, inst.disablerules)

\* resolve_installed: keep the package p or install one of its updates.
DecideInstalled ==
  /\ pc = "decide"
  /\ \E p \in DOMAIN inst.installed : \E dq \in Selections({p}) \cup Selections(inst.installed[p]) :
       SelectAndInstall(dq, inst.disablerules)

\* resolve_weak and resolve_orphaned: add packages to a consistent system,
\* several of them before the dependencies of the first are looked at.
DecideExtra ==
  /\ pc = "decide" /\ (Consistent \/ ~disablerules)
  /\ \E dq \in Selections(inst.extras) : SelectAndInstall(dq, FALSE)

\* resolve_cleandeps and the last pass: erase an installed package nobody needs.
DecideErase ==
  /\ pc = "decide" /\ Consistent
  /\ \E p \in UndecidedOf(DOMAIN inst.installed) : SetPropagateLearn(-p, FALSE)
  /\ UNCHANGED branches

TriedBug(br, j) == br                    \* mutant: not marked
Tried(br, j) == [br EXCEPT !.tried = @ \cup {j}]

\* takebranch: go back to branch b and try its candidate j.  Revert would
\* drop the branch too, so its level is hidden meanwhile; the reason is read
\* from the first decision revert took back.
TakeBranchTo(b, j) ==
  /\ LET lev    == branches[b].level
         hidden == [branches EXCEPT ![b] = [Tried(@, j) EXCEPT !.level = 0]]
     IN  /\ KeepLen(lev) < Len(decisionq)
         /\ decisionq[KeepLen(lev) + 1].why = 0      \* assert(why >= 0)
         /\ RevertAndPush(lev, branches[b].cands[j], 0, lev + 1)
         /\ branches' = [PopBranches(hidden, lev) EXCEPT ![b].level = lev]
         /\ level' = lev + 1
  /\ disablerules' = inst.disablerules
  /\ pc' = "propagate"
  /\ UNCHANGED <<ruleVars, disabled, problems, assertVars, propVars, analyzeVars>>

TakeBranch ==
  /\ pc = "decide" /\ Consistent
  /\ \E b \in 1 .. Len(branches) : \E j \in DOMAIN branches[b].cands \ branches[b].tried :
       TakeBranchTo(b, j)

\* solver_check_unneeded_choicerules: a choice rule is not needed when a
\* package it had ruled out is installed anyway.
UnneededChoice(c, d) ==
  /\ c \in DOMAIN inst.choice /\ c \notin d /\ inst.choice[c] \notin d
  /\ \E l \in rules[inst.choice[c]].lits : l > 0 /\ IsTrue(l) /\ l \notin rules[c].lits

CheckUnneededChoiceRules(d0) ==
  LET d[c \in 0 .. NBase] ==
        IF c = 0 THEN d0
        ELSE IF UnneededChoice(c, d[c - 1]) THEN DisableChoiceRules(c, d[c - 1])
        ELSE d[c - 1]
  IN  d[NBase]

DropChoiceRules ==
  /\ pc = "decide" /\ Consistent
  /\ CheckUnneededChoiceRules(disabled) # disabled
  /\ Reset(CheckUnneededChoiceRules(disabled))
  /\ UNCHANGED <<ruleVars, problems, disablerules, assertVars, propVars, analyzeVars>>

Finish ==
  /\ pc = "decide" /\ Consistent
  /\ UndecidedOf(DOMAIN inst.installed) = {}
  /\ CheckUnneededChoiceRules(disabled) = disabled
  /\ pc' = "done"
  /\ UNCHANGED <<ruleVars, disabled, trailVars, level, branches, problems, disablerules,
                 assertVars, propVars, analyzeVars>>

Terminated == pc \in {"done", "failed"} /\ UNCHANGED vars

-----------------------------------------------------------------------------
Init ==
  /\ inst \in Instances
  /\ rules = inst.rules /\ why = <<>>
  /\ disabled = inst.disabled
  /\ decisionq = <<>> /\ decisionmap = ClearMap /\ propagate_index = 0
  /\ level = 0 /\ branches = <<>> /\ problems = <<>>
  /\ disablerules = inst.disablerules
  /\ pc = "start" /\ ri = 1 /\ havedisabled = FALSE
  /\ pkg = 0 /\ todo = {}
  /\ confl = 0 /\ idx = 0 /\ seen = {} /\ q = {} /\ num = 0 /\ l1num = 0
  /\ uip = 0 /\ rlevel = 1 /\ proof = {}

Assertions ==
  \/ MakeRuleDecisions \/ AssertLearntStatus \/ AssertDecide \/ AssertSkip
  \/ AssertDropLearnt \/ AssertUninstall \/ AssertConflict \/ AssertEnd
  \/ WeakDecide \/ WeakConflict \/ WeakEnd

Propagate ==
  \/ PropagateNext \/ PropagateDecisionDone \/ PropagateSkip \/ PropagateMove
  \/ PropagateUnit \/ PropagateConflict \/ PropagateEnd

Analyze == AnalyzeRule \/ AnalyzeDone \/ AnalyzeUip \/ AnalyzeResolve \/ Learn

AnalyzeUnsolvable ==
  \/ UnsolvableWalk \/ UnsolvableWeak \/ UnsolvableUninstall \/ UnsolvableDisable
  \/ UnsolvableFail

Decide ==
  \/ DecideRule \/ DecideInstalled \/ DecideExtra \/ DecideErase
  \/ TakeBranch \/ DropChoiceRules \/ Finish

Next == Assertions \/ Propagate \/ Analyze \/ AnalyzeUnsolvable \/ Decide \/ Terminated

Spec == Init /\ [][Next]_vars

\* solver_run_sat is one thread that never waits: it always takes a next step.
FairSpec == Spec /\ WF_vars(Next)

-----------------------------------------------------------------------------
(* Properties. *)

PcValues == {"start", "assert", "weakassert", "propagate", "analyze", "next", "learn",
             "unsolvable", "decide", "done", "failed"}

RuleId == 1 .. Len(rules)

DecisionRec == [p : Lit, why : RuleId \cup {0}]
BranchRec   == [cands : Seq(Solvable), tried : SUBSET Nat, level : Nat]
ProblemRec  == [proof : SUBSET RuleId, elems : SUBSET Int]

TypeRules ==
  /\ inst \in Instances
  /\ rules \in Seq(Rule) /\ Len(rules) = NBase + Len(why)
  /\ why \in Seq(SUBSET RuleId)
  /\ disabled \in SUBSET RuleId

TypeTrail ==
  /\ decisionq \in Seq(DecisionRec)
  /\ decisionmap \in [Solvable -> Int]
  /\ propagate_index \in 0 .. Len(decisionq)

TypeSearch ==
  /\ level \in Nat \cup {-1}
  /\ branches \in Seq(BranchRec)
  /\ problems \in Seq(ProblemRec)
  /\ disablerules \in BOOLEAN
  /\ pc \in PcValues

TypeLocals ==
  /\ ri \in 1 .. Len(rules) + 1 /\ havedisabled \in BOOLEAN
  /\ pkg \in Lit \cup {0} /\ todo \in SUBSET RuleId

TypeAnalysis ==
  /\ confl \in RuleId \cup {0} /\ idx \in 0 .. Len(decisionq) /\ seen \in SUBSET Solvable
  /\ q \in SUBSET Lit /\ num \in Int /\ l1num \in Int
  /\ uip \in Lit \cup {0} /\ rlevel \in Nat /\ proof \in SUBSET RuleId

\* Every variable of the engine keeps its type: the queues refer to existing
\* packages and rules, and propagate never runs ahead of the decisions.
TypeOK == TypeRules /\ TypeTrail /\ TypeSearch /\ TypeLocals /\ TypeAnalysis

DecisionLev(k) == Lev(decisionq[k].p)

\* decisionq and decisionmap describe the same decisions: every decided
\* package is in the queue once, with the sign of its level, and the levels
\* never go down along the queue, which is what lets revert stop at the
\* first decision of a lower level.
TrailOK ==
  /\ \A k \in 1 .. Len(decisionq) :
       IsTrue(decisionq[k].p) /\ (level > 0 => DecisionLev(k) <= level)
  /\ \A j, k \in 1 .. Len(decisionq) : j # k => Pkg(decisionq[j].p) # Pkg(decisionq[k].p)
  /\ \A v \in Solvable : decisionmap[v] # 0 => \E k \in 1 .. Len(decisionq) : Pkg(decisionq[k].p) = v
  /\ \A j, k \in 1 .. Len(decisionq) : j < k => DecisionLev(j) <= DecisionLev(k)

\* A decision that is not free was forced: the rule recorded for it contains
\* the literal, and every other literal of the rule was false before.  The
\* aborts of analyze_unsolvable test exactly this.
ReasonOK ==
  \A k \in 1 .. Len(decisionq) :
    LET w == decisionq[k].why IN
    w # 0 => /\ decisionq[k].p \in rules[w].lits
             /\ \A l \in rules[w].lits \ {decisionq[k].p} :
                  \E j \in 1 .. k - 1 : decisionq[j].p = -l

\* Every level above 1 starts with its free decision, and level 1 has none
\* but the system solvable.  takebranch relies on it: the first decision it
\* takes back must have been free (assert(why >= 0)).
LevelsStartFree ==
  \A k \in 1 .. Len(decisionq) :
    decisionq[k].why = 0 <=> (k = 1 \/ DecisionLev(k - 1) < DecisionLev(k))

\* Each branch is at a level below the current one, branches are ordered,
\* and its candidates are undecided below its level: going back to it makes
\* the candidate undecided again.
BranchOK ==
  pc \in {"propagate", "decide", "done"} =>
    /\ \A b \in 1 .. Len(branches) : branches[b].level < level
    /\ \A a, b \in 1 .. Len(branches) : a < b => branches[a].level < branches[b].level
    /\ \A b \in 1 .. Len(branches) : \A j \in DOMAIN branches[b].cands :
         LET p == branches[b].cands[j]
         IN  IsUndef(p) \/ Lev(p) > branches[b].level

\* The decisions and what is kept about them, as every step of propagate,
\* revert, analyze and takebranch relies on it.
TrailInvariant == TrailOK /\ ReasonOK /\ LevelsStartFree /\ BranchOK

\* When propagate ends, no enabled rule is false or unit: each has a true
\* literal or two undecided ones.  This is what the watches are for, and
\* what resolve_dependencies asserts (dq->count > 1).
PropagationComplete ==
  pc = "decide" =>
    \A i \in RuleId \ disabled :
      rules[i].w1 # 0 =>
        \/ \E l \in rules[i].lits : IsTrue(l)
        \/ \E l, m \in rules[i].lits : l # m /\ IsUndef(l) /\ IsUndef(m)

\* A problem that is reported is one: the package rules together with the
\* rules of its elements have no solution.  analyze_unsolvable collects them
\* through the proofs of the learnt rules.
ProblemsReal ==
  \A n \in 1 .. Len(problems) :
    Unsatisfiable(rules, PkgRules \cup UNION {Group(v) : v \in problems[n].elems})

\* The assertions of analyze: while it walks back it always finds the next
\* marked decision, and what it learns has a literal and a level to go back to.
AnalyzeAsserts ==
  /\ pc = "next" /\ ~(num = 0 /\ l1num = 1) => Marked # {}
  /\ pc = "learn" => uip # 0 /\ rlevel > 0 /\ rlevel < level

\* The learnt rule is unit after going back: its first literal is undecided
\* then and all the others are false.
LearntIsUnit ==
  pc = "learn" => /\ Lev(uip) > rlevel
                  /\ \A l \in q : IsFalse(l) /\ Lev(l) <= rlevel
                  /\ q = {} => rlevel = 1

\* A learnt rule follows from the rules of its proof, all of them older; in
\* particular dropping the level 1 literals from it is sound because the
\* rules that decided them are in the proof.
LearntSound ==
  \A j \in 1 .. Len(why) :
    /\ why[j] \subseteq 1 .. NBase + j - 1
    /\ Entails(rules, why[j], rules[NBase + j].lits)

\* No learnt rule is in use that rests on a disabled rule of the instance:
\* after rules were disabled enabledisablelearntrules has run, from
\* solver_reset or when makeruledecisions met the first learnt assertion.
\* Only a failure in makeruledecisions leaves them as they were.
LearntStatusOK ==
  pc \notin {"assert", "weakassert", "failed"} =>
    \A i \in RuleId \ disabled : BaseRules({i}) \cap disabled = {}

\* Learning is right: analyze meets its assertions, what it learns follows
\* from the rules it resolved and is unit where the search goes on, and it
\* is in use only as long as the rules it rests on are.
LearningOK == AnalyzeAsserts /\ LearntIsUnit /\ LearntSound /\ LearntStatusOK

\* The installed packages satisfy every enabled rule when the solver is done;
\* and with disablerules it always gets there: a phase that decides with
\* disablerules = 0 (resolve_weak, resolve_cleandeps, the last pass) can not
\* fail, because the system was consistent before, and a problem always has
\* an element to disable.
SolutionValid ==
  /\ pc = "done" =>
       LET M == {v \in Solvable : decisionmap[v] > 0}
       IN  \A i \in RuleId \ disabled : rules[i].w1 # 0 => Holds(M, rules[i].lits)
  /\ inst.disablerules => level # -1

\* No rule is given up silently: a rule the solver disabled belongs to a
\* reported problem, or it is weak, a choice rule, or an update rule that
\* allowuninstall gives up.
NoSilentDrop ==
  \A i \in (disabled \cap 1 .. NBase) \ inst.disabled :
    \/ \E n \in 1 .. Len(problems) : inst.problem[i] \in problems[n].elems
    \/ \E w \in inst.weak : inst.problem[w] = inst.problem[i]
    \/ i \in DOMAIN inst.choice
    \/ inst.problem[i] \in inst.uninstall.update \cup inst.uninstall.feature
                              \cup inst.uninstall.orphan

\* What solver_run_sat leaves behind is right: a reported problem is one, a
\* solution satisfies every enabled rule, and what was given up is reported.
OutcomeRight == ProblemsReal /\ SolutionValid /\ NoSilentDrop

-----------------------------------------------------------------------------
(* What the engine promises, without decisions and learnt rules. *)

Given    == disabled \cap 1 .. NBase
ReportedElems == [n \in 1 .. Len(problems) |-> problems[n].elems]
Result   == IF pc = "done" THEN "solved" ELSE IF pc = "failed" THEN "failed" ELSE "solving"
Packages == {v \in Solvable : decisionmap[v] > 0}
Solution == IF pc = "done" THEN Packages ELSE {}

Abstract == INSTANCE Resolution WITH
              given <- Given, reported <- ReportedElems, result <- Result, solution <- Solution

\* The engine implements Resolution: every step of solver_run_sat is one the
\* abstract solver may take.  What it gives up or reports is a conflict of
\* rules enabled at that time, and the solution satisfies all the rules that
\* are left.
ImplementsResolution == Abstract!Spec

\* The solver comes to an end: learning, restarts and branches never go
\* round in circles.
Termination == <>(pc \in {"done", "failed"})
=============================================================================
