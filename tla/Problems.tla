------------------------------ MODULE Problems ------------------------------
(***************************************************************************)
(* src/src/problems.c: from the problems solver_solve reports to the       *)
(* solutions it offers.  create_solutions takes the elements of a problem  *)
(* one after the other as the suggestion; refine_suggestion gives the      *)
(* suggestion up, enables the rest of the problem again and runs the       *)
(* solver until nothing conflicts any more, giving up more on the way; the *)
(* result becomes a solution, and the solver is put back as it was.        *)
(*                                                                         *)
(* Here solver_run_sat is what module Resolution says of it: it finds a    *)
(* core, or an installation that satisfies every enabled rule.  One        *)
(* behaviour is one solver_solve followed by calls of                      *)
(* solver_solution_count for its problems in any order.                    *)
(***************************************************************************)
EXTENDS Literals, FiniteSets, FiniteSetsExt, SequencesExt

CONSTANTS Worlds,      \* the rule sets solver_solve builds
          CoreSlack    \* how many rules a core may have in excess

ASSUME CoreSlackAssumption == CoreSlack \in Nat

(***************************************************************************)
(* A world is what solver_solve has built when it calls solver_run_sat.    *)
(*   rules     the rules; each has its literals, its kind, the problem it  *)
(*             belongs to (id: its own number, the first rule of its group *)
(*             for infarch and dup rules, minus the job for job rules and  *)
(*             the best rules made for a job) and for feature, update and  *)
(*             best rules the installed package they are about (else 0)    *)
(*   updaterules  where the update rules start                             *)
(*   weak, broken weakrulemap and brokenorphanrules                        *)
(*   essential the jobs marked SOLVER_ESSENTIAL                            *)
(*   policy    job -> what jobtodisablelist says it turns off; a target    *)
(*             says which rules that disables (off) and, when the job is   *)
(*             given up, enables again (on)                                *)
(*   uninstall the update rules allowuninstall lets the solver give up     *)
(*   installed, multiversion  packages                                     *)
(* Placeholder rules are left out, so a feature rule exists only where it  *)
(* differs from the update rule.                                           *)
(***************************************************************************)
VARIABLES world,
          disabled,   \* the rules with r->d < 0
          problems,   \* the problems of solver_solve, as sets of problem ids
          model,      \* the packages with decisionmap > 0
          solutions,  \* problem number -> [count: -1 until refined, list: what is offered]
          pc,         \* where create_solutions is
          cur,        \* the locals of create_solutions
          ref         \* the locals of refine_suggestion

vars == <<world, disabled, problems, model, solutions, pc, cur, ref>>

\* "unrefined" in solver_prepare_solutions
Unrefined == [count |-> -1, list |-> <<>>]

Rules     == DOMAIN world.rules
Kind(k)   == {i \in Rules : world.rules[i].kind = k}
RulesOf(v) == {i \in Rules : world.rules[i].id = v}
Partner(i, k) == {j \in Kind(k) : world.rules[j].pkg = world.rules[i].pkg}
FeatureOf(u) == Partner(u, "feature")
UpdateOf(f)  == Partner(f, "update")
Positive(ls) == {l \in ls : l > 0}

(***************************************************************************)
(* Turning problems on and off; D is the set of disabled rules.            *)
(***************************************************************************)
DisableProblem(D, v) == D \cup RulesOf(v)

EnableProblemBug(D, v) == D \ RulesOf(v)   \* mutant: feature rules like the others

\* A feature rule stays off while its update rule is on, and an update rule
\* that comes back turns its feature rule off.
EnableProblem(D, v) ==
  IF v \in Kind("feature") THEN IF UpdateOf(v) \subseteq D THEN D \ {v} ELSE D
  ELSE IF v \in Kind("update") THEN (D \ {v}) \cup FeatureOf(v)
  ELSE D \ RulesOf(v)

EnableFeature(D, v) == IF v \in Kind("update") THEN D \ FeatureOf(v) ELSE D

ActiveJobs(D) == {world.rules[i].id : i \in Kind("job") \ D}
Targets(js)   == UNION {world.policy[j] : j \in js}

DisablePolicyRules(D) == D \cup UNION {t.off : t \in Targets(ActiveJobs(D))}

\* Job j was just given up: what only j had turned off comes back.
ReenablePolicyRules(D, j) ==
  D \ UNION {t.on : t \in Targets({j}) \ Targets(ActiveJobs(D))}

FixProblemBug(D, v) ==                  \* mutant: a job's own rules stay on
  IF v < 0 THEN ReenablePolicyRules(D, v) ELSE DisableProblem(D, v)

FixProblem(D, v) ==
  LET E == DisableProblem(D, v) IN IF v < 0 THEN ReenablePolicyRules(E, v) ELSE E

EnableWeakRules(D) == (D \ world.weak) \cup world.broken

(***************************************************************************)
(* solver_run_sat: it has a solution or a core, a set of enabled rules     *)
(* that no installation satisfies.  The analysis does not look for the     *)
(* smallest one.                                                           *)
(***************************************************************************)
Violated(M, R) == {i \in R : ~Holds(M, world.rules[i].lits)}
Solvables(D)   == {M \in Installations : Violated(M, Rules \ D) = {}}

Cores(D) ==
  LET broken  == {Violated(M, Rules \ D) : M \in Installations}
      unsat(C) == \A V \in broken : V \cap C # {}
      minimal == {C \in SUBSET (Rules \ D) : unsat(C) /\ \A i \in C : ~unsat(C \ {i})}
      excess  == UNION {kSubset(n, Rules \ D) : n \in 0 .. Min({CoreSlack, Cardinality(Rules \ D)})}
  IN  {C \cup X : C \in minimal, X \in excess}

ElemsBug(C) == {world.rules[i].id : i \in C}       \* mutant: package rules too

Elems(C) == {world.rules[i].id : i \in C \ Kind("package")}

\* solver_autouninstall: an update rule with a feature rule if there is one.
Uninstallable(C) ==
  LET may == C \cap world.uninstall
      upd == {u \in may : FeatureOf(u) # {}}
  IN  IF may = {} THEN {} ELSE {Max(IF upd = {} THEN may ELSE upd)}

InRun == pc \in {"solve", "run"}

\* A weak rule of the core goes first.
RunWeak(C) ==
  /\ C \cap world.weak # {}
  /\ disabled' = FixProblem(disabled, world.rules[Max(C \cap world.weak)].id)
  /\ UNCHANGED <<problems, pc, ref>>

RunUninstall(C) ==
  /\ C \cap world.weak = {} /\ Uninstallable(C) # {}
  /\ disabled' = disabled \cup Uninstallable(C)
  /\ UNCHANGED <<problems, pc, ref>>

\* solver_recordproblem and, with disablerules, solver_disableproblemset
RunReport(C) ==
  /\ pc = "solve" /\ C \cap world.weak = {} /\ Uninstallable(C) = {} /\ Elems(C) # {}
  /\ problems' = Append(problems, Elems(C))
  /\ disabled' = disabled \cup UNION {RulesOf(v) : v \in Elems(C)}
  /\ UNCHANGED <<pc, ref>>

\* Without disablerules the run ends with its first problem.
RunFail(C) ==
  /\ pc = "run" /\ C \cap world.weak = {} /\ Uninstallable(C) = {}
  /\ \E q \in SetToSeqs(Elems(C)) : ref' = [ref EXCEPT !.conflict = q]
  /\ pc' = "choose"
  /\ UNCHANGED <<disabled, problems>>

RunConflict ==
  /\ InRun /\ Solvables(disabled) = {}
  /\ \E C \in Cores(disabled) : RunWeak(C) \/ RunUninstall(C) \/ RunReport(C) \/ RunFail(C)
  /\ UNCHANGED <<world, model, solutions, cur>>

\* The run succeeds.  In solver_solve, solver_prepare_solutions follows.
RunSolved ==
  /\ InRun /\ Solvables(disabled) # {}
  /\ model' \in Solvables(disabled)
  /\ pc' = IF pc = "solve" THEN "idle" ELSE "restore"
  /\ solutions' = IF pc = "solve" THEN [k \in DOMAIN problems |-> Unrefined] ELSE solutions
  /\ UNCHANGED <<world, disabled, problems, cur, ref>>

(***************************************************************************)
(* refine_suggestion(problem, sug, refined, essentialok)                   *)
(***************************************************************************)
sug       == cur.problem[cur.i]
Before(v) == \E j \in 1 .. cur.i - 1 : cur.problem[j] = v
Listed(v) == \E j \in 1 .. Len(cur.problem) : cur.problem[j] = v
Protected(v) == ~cur.essentialok /\ v \in world.essential

SuggestionStateBug ==                   \* mutant: the rest stays given up
  EnableWeakRules(EnableFeature(IF sug < 0 THEN ReenablePolicyRules(disabled, sug) ELSE disabled, sug))

\* The rest of the problem is enabled again, the suggestion stays disabled.
SuggestionState ==
  LET others == FoldLeft(EnableProblem, disabled, SelectSeq(cur.problem, LAMBDA v : v # sug))
      fixed  == IF sug < 0 THEN ReenablePolicyRules(others, sug) ELSE others
  IN  EnableWeakRules(EnableFeature(fixed, sug))

RefineStart ==
  /\ pc = "refine" /\ cur.i <= Len(cur.problem)
  /\ IF Protected(sug)
     THEN /\ ref' = [ref EXCEPT !.refined = <<>>, !.before = disabled]
          /\ pc' = "convert" /\ UNCHANGED disabled
     ELSE /\ ref' = [refined |-> <<sug>>, disabledq |-> <<>>, conflict |-> <<>>,
                     before |-> disabled, several |-> FALSE]
          /\ disabled' = SuggestionState
          /\ pc' = "run"
  /\ UNCHANGED <<world, problems, model, solutions, cur>>

CandidatesBug(pass) ==                  \* mutant: essential jobs too
  SelectSeq(ref.conflict, LAMBDA v : v = sug \/ ~Listed(v) \/ (pass = 2 /\ ~Before(v)))

\* The elements of the conflict that may be given up: in the first pass none
\* of the problem, in the second those after the suggestion too.  The
\* suggestion itself may have come back with a policy rule.
Candidates(pass) ==
  SelectSeq(ref.conflict, LAMBDA v :
    /\ ~Protected(v)
    /\ v = sug \/ ~Listed(v) \/ (pass = 2 /\ ~Before(v)))

\* refine_suggestion counts the first update rule among the others.
CountsAsUpdate(v) == v \in Kind("update") /\ v > world.updaterules

\* "got only update rules, filter out feature rules"
Filtered(q) ==
  LET feature == {i \in DOMAIN q : q[i] \in Kind("feature")}
      update  == {i \in DOMAIN q : CountsAsUpdate(q[i])}
  IN  IF feature # {} /\ update # {} /\ feature \cup update = DOMAIN q
      THEN SelectSeq(q, LAMBDA v : v \notin Kind("feature")) ELSE q

ChosenBug == Filtered(Candidates(1))    \* mutant: no second pass

Chosen == Filtered(IF Candidates(1) # <<>> THEN Candidates(1) ELSE Candidates(2))

\* Nothing may be given up: the suggestion was no good.
RefineHopeless ==
  /\ pc = "choose" /\ Chosen = <<>>
  /\ ref' = [ref EXCEPT !.refined = <<>>]
  /\ pc' = "restore"
  /\ UNCHANGED <<world, disabled, problems, model, solutions, cur>>

\* Just one candidate: it becomes part of the solution.
RefineOne ==
  /\ pc = "choose" /\ Len(Chosen) = 1
  /\ LET v == Chosen[1] IN
       /\ ref' = [ref EXCEPT !.disabledq = Append(@, v),
                             !.refined = IF v \in Kind("feature") \/ v = sug THEN @ ELSE Append(@, v)]
       /\ disabled' = EnableFeature(FixProblem(disabled, v), v)
  /\ pc' = "run"
  /\ UNCHANGED <<world, problems, model, solutions, cur>>

\* Several: all are given up and none is recorded, "as we do not know which
\* solution to choose".  Policy rules do not come back here.
RefineSeveral ==
  /\ pc = "choose" /\ Len(Chosen) > 1
  /\ ref' = [ref EXCEPT !.disabledq = @ \o Chosen, !.several = TRUE]
  /\ disabled' = FoldLeft(LAMBDA D, v : EnableFeature(DisableProblem(D, v), v), disabled, Chosen)
  /\ pc' = "run"
  /\ UNCHANGED <<world, problems, model, solutions, cur>>

\* "all done, get us back into the same state as before"
RefineRestore ==
  /\ pc = "restore"
  /\ LET back == FoldLeft(EnableProblem, disabled, ref.disabledq \o cur.problem)
     IN  disabled' = FoldLeft(DisableProblem, DisablePolicyRules(back), cur.problem)
  /\ pc' = "convert"
  /\ UNCHANGED <<world, problems, model, solutions, cur, ref>>

(***************************************************************************)
(* convertsolution: a rule that was given up, as changes of the job.  An   *)
(* element is <<what, package or job, replacement>>.  A rule the solution  *)
(* fulfils after all is a false alarm and gives no element.                *)
(***************************************************************************)
Replacements(ls) == (Positive(ls) \cap model) \ world.installed
Single(ps) == ps \ world.multiversion

ConvertGroup(why) ==      \* infarch and dup rules
  LET put == {-l : l \in UNION {world.rules[i].lits : i \in RulesOf(why)}} \cap model
  IN  IF put = {} THEN <<>> ELSE << <<world.rules[why].kind, Min(put), 0>> >>

\* The rule that says what may replace the package of update or best rule i.
ReplacementRule(i) ==
  LET f == Partner(i, "feature")
  IN  CHOOSE j \in (IF f # {} THEN f ELSE Partner(i, "update")) : TRUE

ConvertUpdate(why) ==
  LET p    == world.rules[why].pkg
      repl == Replacements(world.rules[ReplacementRule(why)].lits)
  IN  IF Positive(world.rules[why].lits) \cap model # {} \/ p \in model THEN <<>>
      ELSE IF repl = {} THEN << <<"replace", p, 0>> >>
      ELSE IF Single(repl) # {} THEN << <<"replace", p, Min(Single(repl))>> >>
      \* only multi-version replacements: "have to split solution into two parts"
      ELSE << <<"replace", p, Max(repl)>>, <<"replace", p, 0>> >>

ConvertBest(why) ==
  LET p    == world.rules[why].pkg
      repl == Replacements(world.rules[ReplacementRule(why)].lits)
  IN  IF Positive(world.rules[why].lits) \cap model # {} THEN <<>>
      ELSE IF p \in model THEN << <<"best", p, 0>> >>
      ELSE IF repl = {} THEN <<>>
      ELSE IF Single(repl) # {} THEN << <<"best", Min(Single(repl)), 0>> >>
      ELSE << <<"best", Max(repl), 0>>, <<"replace", p, 0>> >>

ConvertSolution(why) ==
  IF why < 0 THEN << <<"job", -why, 0>> >>
  ELSE CASE world.rules[why].kind \in {"infarch", "dup"} -> ConvertGroup(why)
         [] world.rules[why].kind = "update" -> ConvertUpdate(why)
         [] world.rules[why].kind = "best" -> ConvertBest(why)
         [] world.rules[why].kind \in {"black", "strictrepoprio"} ->
              << <<world.rules[why].kind, Max({-l : l \in world.rules[why].lits}), 0>> >>
         [] OTHER -> <<>>

Converted == FlattenSeq([j \in DOMAIN ref.refined |-> ConvertSolution(ref.refined[j])])

(***************************************************************************)
(* create_solutions                                                        *)
(***************************************************************************)
\* problems_sortcmp: rules before jobs, essential jobs last
SortsBefore(a, b) ==
  \/ a > 0 /\ b < 0
  \/ a > 0 /\ b > 0 /\ a < b
  \/ a < 0 /\ b < 0 /\ a \notin world.essential /\ b \in world.essential
  \/ a < 0 /\ b < 0 /\ (a \in world.essential <=> b \in world.essential) /\ a < b

CreateSolutions(k) ==
  /\ pc = "idle" /\ solutions[k] = Unrefined
  /\ cur' = [k |-> k, problem |-> SetToSortSeq(problems[k], SortsBefore), i |-> 1,
             essentialok |-> FALSE, saved |-> model]
  /\ pc' = "refine"
  /\ UNCHANGED <<world, disabled, problems, model, solutions, ref>>

\* A solution as recorded; refined and several are kept for the properties.
Solution(elems, fake) ==
  [elems |-> elems, refined |-> ref.refined, several |-> ref.several,
   essentialok |-> cur.essentialok, fake |-> fake]

OfferSolution(s) ==
  /\ solutions' = [solutions EXCEPT ![cur.k].list = Append(@, s)]
  /\ cur' = [cur EXCEPT !.i = @ + 1]

\* "this one did not work out", and neither did any other
NothingFound == Converted = <<>> /\ solutions[cur.k].list = <<>> /\ cur.i = Len(cur.problem)

ConvertOffer ==
  /\ pc = "convert" /\ Converted # <<>>
  /\ OfferSolution(Solution(Converted, FALSE))
  /\ pc' = "refine"
  /\ UNCHANGED <<world, disabled, problems, model, ref>>

ConvertSkip ==
  /\ pc = "convert" /\ Converted = <<>> /\ ~NothingFound
  /\ cur' = [cur EXCEPT !.i = @ + 1]
  /\ pc' = "refine"
  /\ UNCHANGED <<world, disabled, problems, model, solutions, ref>>

\* "nothing found, re-run with essentialok = 1"
ConvertRetry ==
  /\ pc = "convert" /\ NothingFound /\ ~cur.essentialok
  /\ cur' = [cur EXCEPT !.essentialok = TRUE, !.i = 1]
  /\ pc' = "refine"
  /\ UNCHANGED <<world, disabled, problems, model, solutions, ref>>

\* "nothing found, already did essentialok, fake it"
ConvertFake ==
  /\ pc = "convert" /\ NothingFound /\ cur.essentialok
  /\ LET some == {j \in DOMAIN cur.problem : ConvertSolution(cur.problem[j]) # <<>>} IN
       \/ /\ some # {}
          /\ OfferSolution(Solution(ConvertSolution(cur.problem[Min(some)]), TRUE))
       \/ /\ some = {}
          /\ cur' = [cur EXCEPT !.i = @ + 1] /\ UNCHANGED solutions
  /\ pc' = "refine"
  /\ UNCHANGED <<world, disabled, problems, model, ref>>

\* Every element was tried: the decisions are restored.
FinishSolutions ==
  /\ pc = "refine" /\ cur.i > Len(cur.problem)
  /\ model' = cur.saved
  /\ solutions' = [solutions EXCEPT ![cur.k].count = Len(solutions[cur.k].list)]
  /\ pc' = "idle"
  /\ UNCHANGED <<world, disabled, problems, cur, ref>>

Init ==
  /\ world \in Worlds
  /\ disabled = DisablePolicyRules(Kind("feature")) \cup world.broken
  /\ problems = <<>> /\ model = {} /\ solutions = <<>> /\ pc = "solve"
  /\ cur = [k |-> 0, problem |-> <<>>, i |-> 1, essentialok |-> FALSE, saved |-> {}]
  /\ ref = [refined |-> <<>>, disabledq |-> <<>>, conflict |-> <<>>, before |-> {}, several |-> FALSE]

Refine == RefineStart \/ RefineHopeless \/ RefineOne \/ RefineSeveral \/ RefineRestore
Convert == ConvertOffer \/ ConvertSkip \/ ConvertRetry \/ ConvertFake

Next ==
  \/ RunConflict \/ RunSolved \/ Refine \/ Convert \/ FinishSolutions
  \/ \E k \in DOMAIN problems : CreateSolutions(k)

Spec == Init /\ [][Next]_vars

\* One thread runs solver_solve and each solver_solution_count to its end.
FairSpec == Spec /\ WF_vars(Next)

(***************************************************************************)
(* Properties                                                              *)
(***************************************************************************)
\* The rules, the problems, the locals and the solutions have their types;
\* a package rule is never disabled unless it is weak or broken.
ProblemsTypeOK ==
  /\ disabled \subseteq Rules
  /\ disabled \cap Kind("package") \subseteq world.weak \cup world.broken
  /\ \A k \in DOMAIN problems : problems[k] # {} /\ \A v \in problems[k] : RulesOf(v) # {}
  /\ model \subseteq Solvable
  /\ pc \in {"solve", "idle", "refine", "run", "choose", "restore", "convert"}
  /\ cur.i \in 1 .. Len(cur.problem) + 1
  /\ ref.before \subseteq Rules

\* Weak jobs come and go during a run, and their policy rules with them.
Loose == world.weak \cup UNION {t.off : t \in Targets({world.rules[i].id : i \in world.weak \cap Kind("job")})}

\* refine_suggestion leaves the rules enabled and disabled as it found them
\* ("get us back into the same state as before", problems.c:535), whatever
\* policy, feature and update rules it turned on and off on the way.
StateRestored ==
  pc = "convert" => disabled \ Loose = ref.before \ Loose

\* Giving up what a solution names, and nothing else but feature and weak
\* rules (with the policy rules of weak jobs), makes the problem go away: the
\* solver would not ask again.  A solution found by giving up several
\* candidates at once does not promise this.
SolutionSuffices ==
  pc = "idle" => \A k \in DOMAIN solutions :
    \A j \in DOMAIN solutions[k].list :
      LET s    == solutions[k].list[j]
          back == FoldLeft(EnableProblem, disabled, SetToSeq(problems[k]))
          gone == FoldLeft(FixProblem, back, s.refined) \cup Kind("feature") \cup Loose
      IN  s.several \/ s.fake \/ Solvables(gone) # {}

\* A job marked essential is given up only when the first round, which may
\* not touch such jobs, offered nothing.
EssentialLast ==
  \A k \in DOMAIN solutions : \A i, j \in DOMAIN solutions[k].list :
    Range(solutions[k].list[j].refined) \cap world.essential # {}
      => solutions[k].list[i].essentialok

\* Every problem gets a solution, and never the made-up one create_solutions
\* falls back to ("this is bad, we found no solution", problems.c:871).
SolutionFound ==
  \A k \in DOMAIN solutions :
    /\ solutions[k].count # 0
    /\ \A j \in DOMAIN solutions[k].list : ~solutions[k].list[j].fake

\* A solution is right: it removes the problem, gives up an essential job only
\* as the last resort, and is always found.
SolutionsRight == SolutionSuffices /\ EssentialLast /\ SolutionFound

\* The bookkeeping of the search for solutions is right: its state has its
\* types, and the rules are as before when a problem is done with.
SearchInvariant == ProblemsTypeOK /\ StateRestored

\* Every call ends: refine_suggestion runs the solver until no problem is
\* left, although policy and feature rules come back while it does.
SolutionsTerminate == pc # "idle" ~> pc = "idle"
=============================================================================
