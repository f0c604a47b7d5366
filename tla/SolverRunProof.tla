--------------------------- MODULE SolverRunProof ---------------------------
(***************************************************************************)
(* The phases of solver_run_sat use the SAT engine as it has to be used,   *)
(* on every rule set without the dependencies of orphans: SolverRun        *)
(* implements Sat, its phases do what they are for (PhasesRight), and the  *)
(* locals and reasons fit the decisions (RunInvariant).                    *)
(*                                                                         *)
(* The phases after resolve_dependencies rely on the rules being           *)
(* fulfilled, which none of them checks.  That it is so has three reasons. *)
(* The scan of resolve_dependencies ends only after a full turn without a  *)
(* decision (LocalsFit), and rules of two literals that propagation left   *)
(* alone are fulfilled unless both are positive.  Erasing from such a      *)
(* system never runs into a conflict, because propagation erases only      *)
(* (Calm).  Installing an extra may, but the rules keep a solution         *)
(* (Harmless), and after it the phases start over.  The reasons are those  *)
(* of the levels because a branch remembers a level that was opened by a   *)
(* choice of several packages (ReasonInv).                                 *)
(***************************************************************************)
EXTENDS SolverRun, SatOutcomeProof

\* No rules of orphans were left out (SOLVER_FLAG_BREAK_ORPHANS is not set).
NoBrokenOrphans == \A I \in Instances : I.broken = {}

\* What the engine guarantees its callers.
EngineInv == TypeInv /\ TrailInv /\ WatchInv /\ LearnInv /\ OutInv

Stages == {"", "first", "special", "update", "keep", "done", "supplements", "recommends",
           "drop", "repair"}

Locals == [orig : Nat, olevel : Int, i : Nat, n : Nat, stage : Stages, pass : Nat,
           passlevel : Nat, needpass2 : BOOLEAN, postponed : Int, dqmap : SUBSET Solvable,
           decisioncount : Nat, list : Seq(Solvable), one : BOOLEAN]

\* The locals l are those of the phase ph: a scan of the rules that has put
\* nothing off has seen no rule since the last decision, a visited package
\* with special updates has an update rule, and the packages resolve_weak
\* still wants are extras.
LocalsFit(ph, l) ==
  /\ l \in Locals
  /\ ph \in {"focus", "deps"} =>
       /\ l.i \in 1 .. Len(rules) + 1 /\ l.n \in 1 .. Len(rules) + 1
       /\ l.postponed \in -1 .. Len(rules) /\ (l.postponed <= 0 => l.n = 1)
  /\ ph = "installed" =>
       /\ l.i \in Installed /\ l.n <= Cardinality(Installed)
       /\ l.stage = "special" => inst.updaterule[l.i] # 0 \/ inst.featurerule[l.i] # 0
  /\ ph \notin {"focus", "deps", "installed"} => l.n <= Len(inst.recs)
  /\ ph = "weak" => l.dqmap \subseteq inst.extras /\ l.list \in Seq(inst.extras)

\* Every rule is fulfilled and nothing gets installed.
Calm == Consistent /\ pc \in {"propagate", "decide"}

\* The rules in use have a solution, so that a conflict is always resolved.
Harmless == Satisfiable /\ pc \in {"propagate", "decide"} \cup Resolving

NoExtra == inst.doweak => Recommends \cup Supplements = {}

\* What the phase ph with the locals l relies on.
ExtrasFit(ph, l) ==
  /\ ph = "cleandeps" => Calm
  /\ ph = "weak" =>
       /\ Harmless
       /\ l.stage = "first" => Calm /\ pc = "decide"
       /\ l.stage # "first" => (Calm /\ pc = "decide") \/ ~disablerules
  /\ ph = "orphaned" =>
       IF l.one THEN l.stage = "first" /\ Harmless /\ ~disablerules
                ELSE l.stage \in {"first", "drop"} /\ Calm /\ NoExtra
  /\ ph = "last" => Calm /\ NoExtra /\ \A p \in Installed : p <= l.i => decisionmap[p] # 0
  /\ ph = "choices" => pc = "decide" /\ Consistent /\ NoExtra /\ UndecidedOf(Installed) = {}
  /\ ph = "end" => NoExtra

\* The engine and the phases are where the other expects them.
PhaseFits(ph) ==
  /\ ph \in Phases
  /\ pc \in {"start", "assert", "weakassert"} => ph = "begin"
  /\ ph = "end" <=> pc = "done"
  /\ ph \in {"jobs", "focus", "installed"} => \E k \in DOMAIN SystemPhases : SystemPhases[k] = ph

At(ph, l) == PhaseFits(ph) /\ LocalsFit(ph, l) /\ ExtrasFit(ph, l)

\* A free decision of p may have been made for this reason.
Fits(p, why_) ==
  /\ p < 0 => why_ \in {"cleandeps", "orphan"}
  /\ p > 0 => why_ # "cleandeps"
  /\ why_ = "keep" => p \in Installed

ReasonInv ==
  /\ reason \in Seq(DecisionReasons)
  /\ pc \in {"assert", "weakassert"} => reason = <<"none", "none">>
  /\ pc \in Active =>
       /\ Len(reason) = level + 1
       /\ \A k \in 2 .. Len(decisionq) :
            decisionq[k].why = 0 => Fits(decisionq[k].p, reason[DecisionLev(k) + 1])
       /\ \A b \in 1 .. Len(branches) : reason[branches[b].level + 2] \notin {"keep", "cleandeps"}

RunInv ==
  /\ EngineInv /\ ReasonInv
  /\ systemlevel \in Nat /\ installedpos \in Installed \cup {0} /\ inst.broken = {}
  /\ At(phase, loc)

-----------------------------------------------------------------------------

(* What the instance and the helpers give. *)

\* What RunInstance says of the instance being solved.
LEMMA RunFacts ==
  ASSUME TypeInv
  PROVE  /\ Installed \subseteq Solvable /\ IsFiniteSet(Installed) /\ Cardinality(Installed) \in Nat
         /\ \A p \in Installed : inst.installed[p] \subseteq Solvable
         /\ inst.updaterule \in [Installed -> (1 .. NBase) \cup {0}]
         /\ inst.featurerule \in [Installed -> (1 .. NBase) \cup {0}]
         /\ \A p \in Installed : \A r \in {inst.updaterule[p], inst.featurerule[p]} \ {0} :
              inst.rules[r].lits \subseteq inst.installed[p]
         /\ \A p \in DOMAIN inst.special : p \in Installed /\ inst.special[p] \subseteq inst.installed[p]
         /\ inst.jobs \subseteq 1 .. NBase /\ inst.cleandeps \subseteq Installed
         /\ inst.recs \in Seq(Solvable \X SUBSET inst.extras) /\ inst.extras \subseteq Solvable
         /\ DOMAIN inst.supps \subseteq inst.extras
         /\ \A p \in DOMAIN inst.supps : inst.supps[p] \subseteq Solvable
         /\ inst.orphaned \in Seq(Installed \cap inst.extras)
<1>1. inst \in Instances
  BY TypeFacts DEF TypeRules
<1>2. RunInstance(inst)
  BY <1>1, RunInstancesAssumption
<1>3. inst.extras \subseteq Solvable /\ \A p \in Installed : p \in Solvable /\ inst.installed[p] \subseteq Solvable
  BY <1>1, InstanceFacts DEF Installed
<1>4. IsFiniteSet(Installed) /\ Cardinality(Installed) \in Nat
  <2>1. IsFiniteSet(Solvable)
    BY FS_Interval, NSolvablesAssumption DEF Solvable
  <2>. QED BY <1>3, <2>1, FS_Subset, FS_CardinalityType
<1>. QED BY <1>2, <1>3, <1>4 DEF RunInstance, Installed, NBase

\* Narrowing the candidates narrows the selections.
LEMMA SelectionsMono ==
  ASSUME NEW S, NEW T, UndecidedOf(S) \subseteq UndecidedOf(T)
  PROVE  Selections(S) \subseteq Selections(T)
<1> SUFFICES ASSUME NEW dq \in Selections(S) PROVE dq \in Selections(T)
  OBVIOUS
<1>1. PICK n \in 1 .. MaxChoices :
        dq \in [1 .. n -> UndecidedOf(S)] /\ \A i, j \in 1 .. n : i # j => dq[i] # dq[j]
  BY DEF Selections
<1>2. dq \in [1 .. n -> UndecidedOf(T)]
  BY <1>1
<1>. QED BY <1>1, <1>2 DEF Selections

\* An undecided candidate may be the selection.
LEMMA SelectionsOne ==
  ASSUME NEW S, NEW p \in UndecidedOf(S)
  PROVE  <<p>> \in Selections(S)
<1>1. 1 \in 1 .. MaxChoices
  BY OneChoiceAssumption, MaxChoicesAssumption
<1>2. <<p>> \in [1 .. 1 -> UndecidedOf(S)] /\ \A i, j \in 1 .. 1 : i # j => <<p>>[i] # <<p>>[j]
  OBVIOUS
<1>. QED BY <1>1, <1>2 DEF Selections

\* A selection starts with an undecided candidate.
LEMMA SelectionFacts ==
  ASSUME NEW S, NEW dq \in Selections(S)
  PROVE  Len(dq) \in Nat /\ Len(dq) >= 1 /\ dq[1] \in UndecidedOf(S)
<1>1. PICK n \in 1 .. MaxChoices : dq \in [1 .. n -> UndecidedOf(S)]
  BY DEF Selections
<1>2. n \in Nat /\ n >= 1 /\ dq \in Seq(UndecidedOf(S)) /\ Len(dq) = n
  BY <1>1, MaxChoicesAssumption
<1>. QED BY <1>1, <1>2

-----------------------------------------------------------------------------
(* Steps of the phases that take no decision. *)

\* The engine keeps its promise.
LEMMA EngineKept == ASSUME EngineInv, [Next]_vars PROVE EngineInv'
BY NextType, NextTrail, NextWatch, NextLearn, NextOut DEF EngineInv

\* What the phases rely on does not change while the engine stands still.
LEMMA StandsStill ==
  ASSUME UNCHANGED vars, NEW ph, NEW l, At(ph, l)
  PROVE  At(ph, l)'
<1>1. /\ inst' = inst /\ rules' = rules /\ disabled' = disabled /\ decisionmap' = decisionmap
      /\ pc' = pc /\ disablerules' = disablerules
  BY DEF vars, ruleVars, trailVars
<1>2. SystemPhases' = SystemPhases /\ Installed' = Installed
  BY <1>1, Zenon DEF SystemPhases, Installed
<1>3. Consistent' <=> Consistent
  BY <1>1, Zenon DEF Consistent, Unfulfilled, Fulfilled, IsTrue, IsUndef
<1>4. Satisfiable' <=> Satisfiable
  BY <1>1, Zenon DEF Satisfiable, InUse, RuleId
<1>5. NoExtra' <=> NoExtra
  <2>1. Recommends' = Recommends
    <3>1. \A k : OpenRecommends(k)' = OpenRecommends(k)
      BY <1>1, Zenon DEF OpenRecommends, IsTrue, IsUndef, UndecidedOf
    <3>2. \A p : Wanted(p)' <=> Wanted(p)
      BY <1>1, Zenon DEF Wanted, IsTrue
    <3>. QED BY <1>1, <3>1, <3>2 DEF Recommends
  <2>2. Supplements' = Supplements
    BY <1>1, Zenon DEF Supplements, Wanted, IsTrue, IsUndef, UndecidedOf
  <2>. QED BY <1>1, <2>1, <2>2 DEF NoExtra
<1>6. UndecidedOf(Installed)' = UndecidedOf(Installed)
  BY <1>1, Zenon DEF UndecidedOf, Installed, IsUndef
<1>7. PhaseFits(ph)'
  BY <1>1, <1>2 DEF At, PhaseFits
<1>8. LocalsFit(ph, l)'
  BY <1>1, <1>2 DEF At, LocalsFit
<1>9. ExtrasFit(ph, l)'
  BY <1>1, <1>2, <1>3, <1>4, <1>5, <1>6 DEF At, ExtrasFit, Calm, Harmless
<1>. QED BY <1>7, <1>8, <1>9 DEF At

\* A step that takes no decision only has to arrive where it may go on.
LEMMA SilentKeeps ==
  ASSUME RunInv, NoDecision, NEW ph, NEW l, phase' = ph, loc' = l, At(ph, l),
         systemlevel' \in Nat, installedpos' \in Installed \cup {0}
  PROVE  UNCHANGED vars /\ RunInv'
<1>1. UNCHANGED vars /\ UNCHANGED reason
  BY DEF NoDecision
<1>2. EngineInv'
  BY <1>1, EngineKept DEF RunInv
<1>3. At(phase, loc)'
  BY <1>1, StandsStill
<1>4. inst' = inst /\ pc' = pc /\ decisionq' = decisionq /\ decisionmap' = decisionmap /\ level' = level /\ branches' = branches
  BY <1>1 DEF vars, ruleVars, trailVars
<1>5. ReasonInv'
  <2>1. Installed' = Installed
    BY <1>4 DEF Installed
  <2>2. \A k : DecisionLev(k)' = DecisionLev(k)
    BY <1>4 DEF DecisionLev, Lev
  <2>. QED BY <1>1, <1>4, <2>1, <2>2 DEF RunInv, ReasonInv, Fits
<1>6. Installed' = Installed
  BY <1>4 DEF Installed
<1>. QED BY <1>1, <1>2, <1>3, <1>4, <1>5, <1>6 DEF RunInv

\* The phases of the system are those of the list, and there are installed
\* packages where they are gone through.
LEMMA SystemFacts ==
  /\ Len(SystemPhases) \in Nat /\ Len(SystemPhases) >= 1 /\ DOMAIN SystemPhases = 1 .. Len(SystemPhases)
  /\ Head(SystemPhases) = SystemPhases[1]
  /\ \A k \in DOMAIN SystemPhases :
       /\ SystemPhases[k] \in {"jobs", "focus", "installed"}
       /\ SystemPhases[k] = "installed" => Installed # {}
<1>1. \/ SystemPhases = <<"jobs">>
      \/ SystemPhases = <<"installed", "jobs">> /\ Installed # {}
      \/ SystemPhases = <<"jobs", "focus", "installed">> /\ Installed # {}
      \/ SystemPhases = <<"jobs", "installed">> /\ Installed # {}
  BY DEF SystemPhases
<1>2. CASE SystemPhases = <<"jobs">>
  BY <1>2
<1>3. CASE SystemPhases = <<"installed", "jobs">> /\ Installed # {}
  BY <1>3
<1>4. CASE SystemPhases = <<"jobs", "focus", "installed">> /\ Installed # {}
  BY <1>4
<1>5. CASE SystemPhases = <<"jobs", "installed">> /\ Installed # {}
  BY <1>5
<1>. QED BY <1>1, <1>2, <1>3, <1>4, <1>5

\* The level while a phase decides.
LEMMA DecideLevel ==
  ASSUME RunInv, pc = "decide"
  PROVE  /\ level \in Nat /\ level >= 1 /\ TypeInv /\ TrailInv /\ WatchInv /\ LearnInv /\ OutInv
         /\ loc \in Locals /\ phase \in Phases
<1>1. EngineInv /\ At(phase, loc)
  BY DEF RunInv
<1>. QED BY <1>1, SearchFacts DEF EngineInv, Searching, At, LocalsFit, PhaseFits

\* The locals a phase starts with.
LEMMA StartLocals ==
  ASSUME RunInv, pc = "decide", NEW ph \in Phases, ph = "installed" => Installed # {}
  PROVE  /\ Start(ph) \in Locals
         /\ Start(ph).stage = "first" /\ ~Start(ph).one /\ Start(ph).postponed = 0
         /\ Start(ph).dqmap = {} /\ Start(ph).list = <<>>
         /\ Start(ph).n = IF ph \in {"focus", "deps"} THEN 1 ELSE 0
         /\ ph = "installed" => Start(ph).i \in Installed
         /\ ph \in {"focus", "deps"} => Start(ph).i = 1
         /\ ph \notin {"installed", "focus", "deps"} => Start(ph).i = 0
<1>1. level \in Nat /\ TypeInv /\ installedpos \in Installed \cup {0}
  BY DecideLevel DEF RunInv
<1>2. Installed \subseteq Solvable /\ Solvable \subseteq Nat
  BY <1>1, RunFacts, LitFacts
<1>3. ph = "installed" => Min(Installed) \in Installed
  BY <1>2, MinIn
<1>4. StartPass \in Nat
  BY DEF StartPass
<1> DEFINE at == CASE ph = "installed" -> IF installedpos = 0 THEN Min(Installed) ELSE installedpos
                   [] ph \in {"focus", "deps"} -> 1
                   [] OTHER -> 0
<1>5. /\ at \in Nat
      /\ ph = "installed" => at \in Installed
      /\ ph \in {"focus", "deps"} => at = 1
      /\ ph \notin {"installed", "focus", "deps"} => at = 0
  BY <1>1, <1>2, <1>3
<1> DEFINE many == IF ph \in {"focus", "deps"} THEN 1 ELSE 0
           turn == IF ph = "installed" THEN StartPass ELSE 0
<1>8. Start(ph) = [NoLocals EXCEPT !.orig = level, !.passlevel = level, !.i = at, !.n = many,
                                   !.stage = "first", !.pass = turn]
  BY Zenon DEF Start
<1>9. many \in Nat /\ turn \in Nat /\ many = IF ph \in {"focus", "deps"} THEN 1 ELSE 0
  BY <1>4
<1> HIDE DEF at, many, turn
<1>6. Start(ph) = [orig |-> level, olevel |-> 0, i |-> at,
             n |-> many, stage |-> "first", pass |-> turn,
             passlevel |-> level, needpass2 |-> FALSE, postponed |-> 0, dqmap |-> {},
             decisioncount |-> 0, list |-> <<>>, one |-> FALSE]
  BY <1>8 DEF NoLocals
<1>7. <<>> \in Seq(Solvable) /\ "first" \in Stages
  BY DEF Stages
<1>. QED BY <1>1, <1>5, <1>6, <1>7, <1>9 DEF Locals

\* A phase may start where what it relies on holds.
LEMMA StartAt ==
  ASSUME RunInv, pc = "decide", NEW ph \in Phases \ {"begin", "end"},
         ph \in {"jobs", "focus", "installed"} => \E k \in DOMAIN SystemPhases : SystemPhases[k] = ph,
         ph \in {"cleandeps", "weak", "orphaned", "last", "choices"} => Consistent,
         ph \in {"orphaned", "last", "choices"} => NoExtra,
         ph = "choices" => UndecidedOf(Installed) = {}
  PROVE  At(ph, Start(ph))
<1>1. TypeInv /\ TrailInv
  BY DecideLevel
<1>2. ph = "installed" => Installed # {}
  BY SystemFacts
<1>3. PICK l : l = Start(ph)
  OBVIOUS
<1>4. /\ l \in Locals
      /\ l.stage = "first" /\ ~l.one /\ l.postponed = 0
      /\ l.dqmap = {} /\ l.list = <<>>
      /\ l.n = IF ph \in {"focus", "deps"} THEN 1 ELSE 0
      /\ ph = "installed" => l.i \in Installed
      /\ ph \in {"focus", "deps"} => l.i = 1
      /\ ph \notin {"installed", "focus", "deps"} => l.i = 0
  BY <1>2, <1>3, StartLocals
<1>5. PhaseFits(ph)
  BY DEF PhaseFits
<1>6. LocalsFit(ph, l)
  <2>1. Len(rules) \in Nat /\ Cardinality(Installed) \in Nat /\ Len(inst.recs) \in Nat
    BY <1>1, TypeFacts, RunFacts
  <2>2. <<>> \in Seq(inst.extras)
    OBVIOUS
  <2>. QED BY <1>4, <2>1, <2>2 DEF LocalsFit
<1>7. ExtrasFit(ph, l)
  <2>1. ph \in {"cleandeps", "weak", "orphaned", "last", "choices"} => Calm /\ Satisfiable
    BY <1>1, ConsistentSolves DEF Calm
  <2>2. \A p \in Installed : ~(p <= 0)
    BY <1>1, RunFacts, LitFacts DEF Solvable
  <2>. QED BY <1>4, <2>1, <2>2 DEF ExtrasFit, Harmless, Calm
<1>. QED BY <1>3, <1>5, <1>6, <1>7 DEF At

\* Going over to another phase.
LEMMA GotoKeeps ==
  ASSUME RunInv, NoDecision, pc = "decide", NEW ph \in Phases \ {"begin", "end"}, Goto(ph),
         systemlevel' \in Nat, installedpos' \in Installed \cup {0},
         ph \in {"jobs", "focus", "installed"} => \E k \in DOMAIN SystemPhases : SystemPhases[k] = ph,
         ph \in {"cleandeps", "weak", "orphaned", "last", "choices"} => Consistent,
         ph \in {"orphaned", "last", "choices"} => NoExtra,
         ph = "choices" => UndecidedOf(Installed) = {}
  PROVE  UNCHANGED vars /\ RunInv'
<1>1. PICK l : l = Start(ph)
  OBVIOUS
<1>2. phase' = ph /\ loc' = l
  BY <1>1 DEF Goto
<1>3. At(ph, l)
  BY <1>1, StartAt
<1>. QED BY <1>2, <1>3, SilentKeeps

\* Leaving one of the phases of the system.
LEMMA LeaveKeeps ==
  ASSUME RunInv, NoDecision, pc = "decide", phase \in {"jobs", "focus", "installed"},
         NEW ph, ph = phase, LeaveSystemPhase(ph), installedpos' \in Installed \cup {0}
  PROVE  UNCHANGED vars /\ RunInv'
<1>1. level \in Nat /\ \E k \in DOMAIN SystemPhases : SystemPhases[k] = ph
  BY DecideLevel DEF RunInv, At, PhaseFits
<1>2. PICK k : k = CHOOSE j \in DOMAIN SystemPhases : SystemPhases[j] = ph
  OBVIOUS
<1>3. k \in 1 .. Len(SystemPhases)
  BY <1>1, <1>2, SystemFacts
<1>4. IF k < Len(SystemPhases) THEN Goto(SystemPhases[k + 1]) /\ systemlevel' = level + 1
                               ELSE Goto("deps") /\ systemlevel' = level
  BY <1>2 DEF LeaveSystemPhase
<1>5. CASE k < Len(SystemPhases)
  <2>1. k + 1 \in DOMAIN SystemPhases
    BY <1>3, <1>5, SystemFacts
  <2>2. SystemPhases[k + 1] \in {"jobs", "focus", "installed"}
    BY <2>1, SystemFacts
  <2>3. PICK ph2 : ph2 = SystemPhases[k + 1]
    OBVIOUS
  <2>4. Goto(ph2) /\ systemlevel' \in Nat
    BY <1>1, <1>4, <1>5, <2>3
  <2>. QED BY <2>1, <2>2, <2>3, <2>4, GotoKeeps DEF Phases
<1>6. CASE ~(k < Len(SystemPhases))
  BY <1>1, <1>4, <1>6, GotoKeeps DEF Phases
<1>. QED BY <1>5, <1>6

\* Going on in the same phase.
LEMMA StayKeeps ==
  ASSUME RunInv, NoDecision, UNCHANGED phase, NEW l, loc' = l, LocalsFit(phase, l), ExtrasFit(phase, l),
         systemlevel' \in Nat, installedpos' \in Installed \cup {0}
  PROVE  UNCHANGED vars /\ RunInv'
<1>1. At(phase, l)
  BY DEF RunInv, At
<1>. QED BY <1>1, SilentKeeps

\* The main loop starts over with the phases of the system or goes on to the
\* dependencies.
LEMMA LoopRun == RunInv /\ Loop => UNCHANGED vars /\ RunInv'
<1> SUFFICES ASSUME RunInv, Loop PROVE UNCHANGED vars /\ RunInv'
  OBVIOUS
<1>1. NoDecision /\ pc = "decide" /\ systemlevel' \in Nat /\ installedpos' \in Installed \cup {0}
      /\ (Goto(Head(SystemPhases)) \/ Goto("deps"))
  BY DecideLevel DEF Loop, Ready, RunInv
<1>2. CASE Goto("deps")
  BY <1>1, <1>2, GotoKeeps DEF Phases
<1>3. CASE Goto(Head(SystemPhases))
  <2>1. 1 \in DOMAIN SystemPhases /\ SystemPhases[1] \in {"jobs", "focus", "installed"}
    BY SystemFacts
  <2>2. PICK ph : ph = SystemPhases[1]
    OBVIOUS
  <2>3. Goto(ph)
    BY <1>3, <2>2, SystemFacts
  <2>. QED BY <1>1, <2>1, <2>2, <2>3, GotoKeeps DEF Phases
<1>. QED BY <1>1, <1>2, <1>3

\* Coming back to the main loop.
LEMMA BackRun == ASSUME RunInv, NEW ph, BackToLoop(ph) PROVE UNCHANGED vars /\ RunInv'
BY GotoKeeps DEF BackToLoop, Ready, RunInv, Phases

\* resolve_jobrules ends.
LEMMA JobsDoneRun == RunInv /\ JobsDone => UNCHANGED vars /\ RunInv'
<1> SUFFICES ASSUME RunInv, JobsDone PROVE UNCHANGED vars /\ RunInv'
  OBVIOUS
<1>1. NoDecision /\ pc = "decide" /\ phase = "jobs" /\ LeaveSystemPhase("jobs") /\ UNCHANGED installedpos
  BY DEF JobsDone, Ready
<1>2. PICK ph : ph = "jobs"
  OBVIOUS
<1>3. installedpos' \in Installed \cup {0} /\ LeaveSystemPhase(ph)
  BY <1>1, <1>2 DEF RunInv
<1>. QED BY <1>1, <1>2, <1>3, LeaveKeeps

\* What resolve_installed knows of its locals.
LEMMA InstalledFacts ==
  ASSUME RunInv, phase = "installed"
  PROVE  /\ loc \in Locals /\ loc.i \in Installed /\ loc.n \in Nat /\ loc.n <= Cardinality(Installed)
         /\ TypeInv /\ Installed # {} /\ Min(Installed) \in Installed
         /\ Installed \subseteq Nat /\ Cardinality(Installed) \in Nat /\ level \in Nat \cup {-1}
         /\ NextInstalled(loc.i) \in Installed /\ StartPass \in Nat
<1>1. TypeInv /\ LocalsFit(phase, loc)
  BY DEF RunInv, EngineInv, At
<1>2. loc \in Locals /\ loc.i \in Installed /\ loc.n <= Cardinality(Installed) /\ loc.n \in Nat
  BY <1>1 DEF LocalsFit, Locals
<1>3. Installed \subseteq Nat /\ Cardinality(Installed) \in Nat
  BY <1>1, RunFacts, LitFacts
<1>4. Min(Installed) \in Installed
  BY <1>2, <1>3, MinIn
<1>5. NextInstalled(loc.i) \in Installed
  <2>1. {o \in Installed : o > loc.i} # {} => Min({o \in Installed : o > loc.i}) \in {o \in Installed : o > loc.i}
    BY <1>3, MinIn
  <2>. QED BY <1>4, <2>1 DEF NextInstalled
<1>6. level \in Nat \cup {-1}
  BY <1>1, TypeFacts DEF TypeSearch
<1>. QED BY <1>1, <1>2, <1>3, <1>4, <1>5, <1>6 DEF StartPass

\* Locals l that resolve_installed may go on with.
LEMMA InstalledFits ==
  ASSUME phase = "installed", NEW l \in Locals, l.i \in Installed, l.n <= Cardinality(Installed),
         l.stage = "special" => inst.updaterule[l.i] # 0 \/ inst.featurerule[l.i] # 0
  PROVE  LocalsFit(phase, l) /\ ExtrasFit(phase, l)
BY DEF LocalsFit, ExtrasFit

\* resolve_installed looks at a package again, or starts over.
LEMMA InstalledRetryRun == RunInv /\ (InstalledRetry \/ InstalledTrouble) => UNCHANGED vars /\ RunInv'
<1> SUFFICES ASSUME RunInv, InstalledRetry \/ InstalledTrouble PROVE UNCHANGED vars /\ RunInv'
  OBVIOUS
<1>1. phase = "installed" /\ pc = "decide" /\ NoDecision /\ systemlevel' \in Nat
  BY DEF InstalledRetry, InstalledTrouble, Ready, RunInv
<1>2. level \in Nat
  BY <1>1, DecideLevel
<1>3. CASE InstalledRetry
  <2>1. PICK l : l = [loc EXCEPT !.stage = "first", !.n = IF level < loc.olevel THEN 0 ELSE @]
    OBVIOUS
  <2>5. PICK n2 : n2 = IF level < loc.olevel THEN 0 ELSE loc.n
    OBVIOUS
  <2>6. loc \in Locals /\ loc.i \in Installed /\ n2 \in Nat /\ n2 <= Cardinality(Installed)
    <3>1. loc.n <= Cardinality(Installed) /\ Cardinality(Installed) \in Nat /\ loc.n \in Nat
      BY <1>1, InstalledFacts
    <3>. QED BY <1>1, <2>5, <3>1, InstalledFacts
  <2>7. l = [loc EXCEPT !.stage = "first", !.n = n2]
    BY <2>1, <2>5
  <2>8. l \in Locals /\ l.i = loc.i /\ l.n = n2 /\ l.stage = "first"
    BY <2>6, <2>7 DEF Locals, Stages
  <2>2. l \in Locals /\ l.i \in Installed /\ l.n <= Cardinality(Installed) /\ l.stage = "first"
    BY <2>6, <2>8
  <2>3. loc' = l /\ UNCHANGED phase /\ installedpos' \in Installed \cup {0}
    BY <1>3, <2>1 DEF InstalledRetry, RunInv
  <2>. QED BY <1>1, <2>2, <2>3, InstalledFits, StayKeeps
<1>4. CASE InstalledTrouble
  <2>1. installedpos' \in Installed \cup {0}
    BY <1>1, <1>4, InstalledFacts DEF InstalledTrouble
  <2>2. CASE Trouble
    BY <1>1, <1>4, <2>1, <2>2, GotoKeeps DEF InstalledTrouble, Phases
  <2>3. CASE ~Trouble
    <3>1. PICK l : l = [loc EXCEPT !.stage = "first", !.n = 0, !.pass = StartPass,
                                   !.passlevel = level, !.needpass2 = FALSE]
      OBVIOUS
    <3>4. /\ loc \in Locals /\ loc.i \in Installed /\ StartPass \in Nat
          /\ Cardinality(Installed) \in Nat
      BY <1>1, InstalledFacts
    <3>5. l \in Locals /\ l.i = loc.i /\ l.n = 0 /\ l.stage = "first"
      BY <1>2, <3>1, <3>4 DEF Locals, Stages
    <3>2. l \in Locals /\ l.i \in Installed /\ l.n <= Cardinality(Installed) /\ l.stage = "first"
      BY <3>4, <3>5
    <3>3. loc' = l /\ UNCHANGED phase
      BY <1>4, <2>3, <3>1 DEF InstalledTrouble
    <3>. QED BY <1>1, <2>1, <3>2, <3>3, InstalledFits, StayKeeps
  <2>. QED BY <2>2, <2>3
<1>. QED BY <1>3, <1>4

\* The next installed package.
LEMMA AdvanceRun ==
  ASSUME RunInv, phase = "installed", loc.n < Cardinality(Installed), InstalledNext([loc EXCEPT !.needpass2 = TRUE]) \/ InstalledNext(loc)
  PROVE  UNCHANGED vars /\ RunInv'
<1>1. PICK l0 : (l0 = loc \/ l0 = [loc EXCEPT !.needpass2 = TRUE]) /\ InstalledNext(l0)
  OBVIOUS
<1>2. l0 \in Locals /\ l0.i = loc.i /\ l0.n = loc.n
  BY <1>1, InstalledFacts DEF Locals
<1>3. PICK l : l = [l0 EXCEPT !.i = NextInstalled(l0.i), !.n = l0.n + 1, !.stage = "first"]
  OBVIOUS
<1>7. PICK next : next = NextInstalled(loc.i)
  OBVIOUS
<1>8. next \in Installed /\ next \in Nat
  BY <1>7, InstalledFacts
<1>9. loc.n \in Nat /\ Cardinality(Installed) \in Nat
  BY InstalledFacts
<1>12. PICK many : many = loc.n + 1
  OBVIOUS
<1>13. many \in Nat /\ many <= Cardinality(Installed)
  BY <1>9, <1>12
<1>10. l = [l0 EXCEPT !.i = next, !.n = many, !.stage = "first"]
  BY <1>2, <1>3, <1>7, <1>12
<1>11. l \in Locals /\ l.i = next /\ l.n = many /\ l.stage = "first"
  BY <1>2, <1>8, <1>10, <1>13 DEF Locals, Stages
<1>4. l \in Locals /\ l.i \in Installed /\ l.n <= Cardinality(Installed) /\ l.stage = "first"
  BY <1>8, <1>11, <1>13
<1>5. loc' = l /\ NoDecision /\ UNCHANGED <<phase, systemlevel, installedpos>>
  BY <1>1, <1>3 DEF InstalledNext, Advance
<1>6. systemlevel' \in Nat /\ installedpos' \in Installed \cup {0}
  BY <1>5 DEF RunInv
<1>. QED BY <1>4, <1>5, <1>6, InstalledFits, StayKeeps

\* An installed package that is left alone, or dealt with.
LEMMA InstalledSkipRun == RunInv /\ (InstalledSkip \/ KeepNothing) => UNCHANGED vars /\ RunInv'
<1> SUFFICES ASSUME RunInv, InstalledSkip \/ KeepNothing PROVE UNCHANGED vars /\ RunInv'
  OBVIOUS
<1>1. /\ phase = "installed" /\ loc.n < Cardinality(Installed)
      /\ InstalledNext([loc EXCEPT !.needpass2 = TRUE]) \/ InstalledNext(loc)
  BY DEF InstalledSkip, KeepNothing, AtKeep, Visiting, Ready
<1>. QED BY <1>1, AdvanceRun

\* A pass over the installed packages ends.
LEMMA PassDoneRun == RunInv /\ PassDone => UNCHANGED vars /\ RunInv'
<1> SUFFICES ASSUME RunInv, PassDone PROVE UNCHANGED vars /\ RunInv'
  OBVIOUS
<1>1. phase = "installed" /\ pc = "decide" /\ NoDecision
  BY DEF PassDone, Ready
<1>2. installedpos' \in Installed \cup {0} /\ level \in Nat
  BY <1>1, InstalledFacts, DecideLevel DEF PassDone
<1>3. CASE loc.pass = 2 \/ (loc.pass = 1 /\ ~loc.needpass2)
  <2>1. PICK ph : ph = "installed"
    OBVIOUS
  <2>2. LeaveSystemPhase(ph)
    BY <1>3, <2>1 DEF PassDone
  <2>. QED BY <1>1, <1>2, <2>1, <2>2, LeaveKeeps
<1>4. CASE ~(loc.pass = 2 \/ (loc.pass = 1 /\ ~loc.needpass2))
  <2>1. PICK l : l = [loc EXCEPT !.pass = @ + 1, !.i = Min(Installed), !.n = 0,
                                 !.passlevel = level, !.needpass2 = FALSE]
    OBVIOUS
  <2>4. PICK m : m = Min(Installed)
    OBVIOUS
  <2>5. /\ m \in Installed /\ m \in Nat /\ loc \in Locals /\ Cardinality(Installed) \in Nat
        /\ loc.stage = "first"
    BY <1>1, <2>4, InstalledFacts DEF PassDone
  <2>8. loc.pass \in Nat
    BY <2>5 DEF Locals
  <2>9. PICK turn \in Nat : turn = loc.pass + 1
    BY <2>8
  <2>6. l = [loc EXCEPT !.pass = turn, !.i = m, !.n = 0, !.passlevel = level, !.needpass2 = FALSE]
    BY <2>1, <2>4, <2>9
  <2>7. l \in Locals /\ l.i = m /\ l.n = 0 /\ l.stage = "first"
    BY <1>2, <2>5, <2>6 DEF Locals
  <2>2. l \in Locals /\ l.i \in Installed /\ l.n <= Cardinality(Installed) /\ l.stage = "first"
    BY <2>5, <2>7
  <2>3. loc' = l /\ UNCHANGED phase /\ systemlevel' \in Nat
    BY <1>4, <2>1 DEF PassDone, RunInv
  <2>. QED BY <1>1, <1>2, <2>2, <2>3, InstalledFits, StayKeeps
<1>. QED BY <1>3, <1>4

-----------------------------------------------------------------------------
(* resolve_dependencies, when it takes no decision. *)

\* What the scan of the rules knows of its locals.
LEMMA ScanFacts ==
  ASSUME RunInv, DepsReady
  PROVE  /\ pc = "decide" /\ phase \in {"focus", "deps"} /\ loc \in Locals
         /\ loc.i \in 1 .. Len(rules) + 1 /\ loc.n \in 1 .. Len(rules) + 1
         /\ loc.postponed \in -1 .. Len(rules) /\ (loc.postponed <= 0 => loc.n = 1)
         /\ Len(rules) \in Nat /\ TypeInv
<1>1. pc = "decide" /\ phase \in {"focus", "deps"}
  BY DEF DepsReady, Ready
<1>2. TypeInv /\ LocalsFit(phase, loc)
  BY DEF RunInv, EngineInv, At
<1>3. Len(rules) \in Nat
  BY <1>2, TypeFacts
<1>. QED BY <1>1, <1>2, <1>3 DEF LocalsFit

\* The rule the scan stops at.
LEMMA StopFacts ==
  ASSUME RunInv, DepsReady, Stops # {}
  PROVE  /\ Min(Stops) \in 0 .. Len(rules) - loc.n
         /\ RuleAt(loc.i + Min(Stops)) \in RuleId
         /\ NeedsDecision(RuleAt(loc.i + Min(Stops)))
<1>1. /\ loc.i \in 1 .. Len(rules) + 1 /\ loc.n \in 1 .. Len(rules) + 1 /\ Len(rules) \in Nat
  BY ScanFacts
<1>2. Stops \subseteq 0 .. Len(rules) - loc.n
  BY DEF Stops
<1>3. Stops \subseteq Nat
  BY <1>1, <1>2
<1>4. Min(Stops) \in Stops
  BY <1>3, MinIn
<1>5. PICK d : d = Min(Stops)
  OBVIOUS
<1>6. d \in 0 .. Len(rules) - loc.n /\ NeedsDecision(RuleAt(loc.i + d))
  BY <1>4, <1>5 DEF Stops
<1>7. RuleAt(loc.i + d) \in RuleId
  BY <1>1, <1>6 DEF RuleAt, RuleId
<1>. QED BY <1>5, <1>6, <1>7

\* A scan that has put nothing off and stops nowhere has seen every rule.
LEMMA ScanComplete ==
  ASSUME RunInv, DepsReady, Stops = {}, ~Postponed
  PROVE  \A j \in RuleId : ~NeedsDecision(j)
<1>1. /\ loc.i \in 1 .. Len(rules) + 1 /\ loc.n = 1 /\ Len(rules) \in Nat
  BY ScanFacts DEF Postponed
<1>2. SUFFICES ASSUME NEW j \in RuleId PROVE \E d \in 0 .. Len(rules) - 1 : RuleAt(loc.i + d) = j
  BY <1>1 DEF Stops
<1>3. j \in 1 .. Len(rules)
  BY DEF RuleId
<1>4. CASE j >= loc.i
  <2>1. j - loc.i \in 0 .. Len(rules) - 1 /\ loc.i + (j - loc.i) = j
    BY <1>1, <1>3, <1>4
  <2>. QED BY <1>3, <2>1 DEF RuleAt
<1>5. CASE j < loc.i
  <2>1. PICK d \in Int : d = j + Len(rules) - loc.i
    BY <1>1, <1>3
  <2>2. d \in 0 .. Len(rules) - 1 /\ loc.i + d = j + Len(rules)
    BY <1>1, <1>3, <1>5, <2>1
  <2>. QED BY <1>1, <1>3, <2>2 DEF RuleAt
<1>. QED BY <1>1, <1>3, <1>4, <1>5

\* A rule of at most two literals that needs no decision after propagation is
\* fulfilled: it has a true literal, or two undecided ones, of which one is
\* negative.
LEMMA ShortFulfilled ==
  ASSUME TypeInv, TrailInv, WatchInv, pc = "decide", NEW j \in RuleId \ disabled, rules[j].w1 # 0,
         Cardinality(rules[j].lits) <= 2,
         ~(Cardinality(rules[j].lits) = 2 /\ \A l \in rules[j].lits : l > 0 /\ IsUndef(l))
  PROVE  Fulfilled(j)
<1>1. rules[j].lits \subseteq Lit /\ Lit \subseteq Int /\ 0 \notin Lit
  BY TypeFacts, LitFacts
<1>2. \/ \E l \in rules[j].lits : IsTrue(l)
      \/ \E l, m \in rules[j].lits : l # m /\ IsUndef(l) /\ IsUndef(m)
  BY WatchGives DEF PropagationComplete
<1>3. CASE \E l \in rules[j].lits : IsTrue(l)
  BY <1>3 DEF Fulfilled
<1>4. CASE \E l, m \in rules[j].lits : l # m /\ IsUndef(l) /\ IsUndef(m)
  <2>1. PICK l \in rules[j].lits, m \in rules[j].lits : l # m /\ IsUndef(l) /\ IsUndef(m)
    BY <1>4
  <2>2. IsFiniteSet(rules[j].lits) /\ Cardinality(rules[j].lits) \in Nat
    BY <1>1, LitFinite, FS_Subset, FS_CardinalityType
  <2>3. Cardinality({l, m}) = 2 /\ IsFiniteSet({l, m})
    <3>1. IsFiniteSet({l}) /\ Cardinality({l}) = 1
      BY FS_Singleton
    <3>2. {l, m} = {l} \cup {m} /\ m \notin {l}
      BY <2>1
    <3>3. IsFiniteSet({l} \cup {m}) /\ Cardinality({l} \cup {m}) = Cardinality({l}) + 1
      BY <3>1, <3>2, FS_AddElement
    <3>. QED BY <3>1, <3>2, <3>3
  <2>4. {l, m} \subseteq rules[j].lits /\ Cardinality({l, m}) <= Cardinality(rules[j].lits)
    BY <2>1, <2>2, FS_Subset
  <2>5. Cardinality(rules[j].lits) = 2
    BY <2>2, <2>3, <2>4
  <2>6. rules[j].lits = {l, m}
    BY <2>2, <2>3, <2>4, <2>5, FS_Subset
  <2>7. PICK n \in rules[j].lits : ~(n > 0) /\ IsUndef(n)
    BY <2>1, <2>5, <2>6
  <2>9. n \in Int /\ n # 0
    BY <1>1, Zenon
  <2>8. n < 0
    BY <2>7, <2>9
  <2>. QED BY <2>7, <2>8 DEF Fulfilled
<1>. QED BY <1>2, <1>3, <1>4

\* "At this point we have a consistent system."
LEMMA DepsConsistent ==
  ASSUME RunInv, DepsReady, phase = "deps", Stops = {}, ~Postponed
  PROVE  Consistent
<1>1. TypeInv /\ TrailInv /\ WatchInv /\ pc = "decide"
  BY ScanFacts DEF RunInv, EngineInv
<1>2. SUFFICES ASSUME NEW j \in RuleId, j \notin disabled, rules[j].w1 # 0, ~Fulfilled(j) PROVE FALSE
  BY DEF Consistent, Unfulfilled, RuleId
<1>3. ~NeedsDecision(j) /\ InFocus(j) /\ j \in Unfulfilled
  BY <1>2, ScanComplete DEF InFocus, Unfulfilled, RuleId
<1>4. CASE Cardinality(rules[j].lits) <= 2
  <2>1. ~(Cardinality(rules[j].lits) = 2 /\ \A l \in rules[j].lits : l > 0 /\ IsUndef(l))
    BY <1>2, <1>3, <1>4 DEF NeedsDecision
  <2>. QED BY <1>1, <1>2, <1>4, <2>1, ShortFulfilled
<1>5. CASE ~(Cardinality(rules[j].lits) <= 2)
  BY <1>2, <1>3, <1>5 DEF NeedsDecision
<1>. QED BY <1>4, <1>5

\* The scan of resolve_dependencies puts a rule off, starts over with the
\* first one put off, or ends.
LEMMA PostponedRun == RunInv /\ DependenciesPostponed => UNCHANGED vars /\ RunInv'
<1> SUFFICES ASSUME RunInv, DependenciesPostponed PROVE UNCHANGED vars /\ RunInv'
  OBVIOUS
<1>1. /\ phase \in {"focus", "deps"} /\ loc \in Locals /\ Len(rules) \in Nat
      /\ loc.postponed \in 1 .. Len(rules)
  BY ScanFacts DEF DependenciesPostponed, Postponed
<1>2. PICK l : l = [loc EXCEPT !.i = loc.postponed, !.n = 1, !.postponed = -1]
  OBVIOUS
<1>3. l \in Locals /\ l.i = loc.postponed /\ l.n = 1 /\ l.postponed = -1
  <2>1. loc.postponed \in Nat /\ -1 \in Int
    BY <1>1
  <2>. QED BY <1>1, <1>2, <2>1 DEF Locals
<1>4. LocalsFit(phase, l) /\ ExtrasFit(phase, l)
  BY <1>1, <1>3 DEF LocalsFit, ExtrasFit
<1>5. /\ NoDecision /\ UNCHANGED phase /\ loc' = l
      /\ systemlevel' \in Nat /\ installedpos' \in Installed \cup {0}
  BY <1>2 DEF DependenciesPostponed, RunInv
<1>. QED BY <1>4, <1>5, StayKeeps

\* The scan ends: every rule is fulfilled before the extras begin.
LEMMA DepsDoneRun == RunInv /\ DependenciesDone => UNCHANGED vars /\ RunInv'
<1> SUFFICES ASSUME RunInv, DependenciesDone PROVE UNCHANGED vars /\ RunInv'
  OBVIOUS
<1>1. /\ pc = "decide" /\ phase \in {"focus", "deps"} /\ NoDecision /\ DepsReady /\ Stops = {} /\ ~Postponed
      /\ installedpos' \in Installed \cup {0}
  BY ScanFacts DEF DependenciesDone, RunInv
<1>2. CASE phase = "focus"
  <2>1. PICK ph : ph = "focus"
    OBVIOUS
  <2>2. LeaveSystemPhase(ph)
    BY <1>2, <2>1 DEF DependenciesDone
  <2>. QED BY <1>1, <1>2, <2>1, <2>2, LeaveKeeps
<1>3. CASE phase = "deps"
  <2>1. Consistent
    BY <1>1, <1>3, DepsConsistent
  <2>2. PICK ph : ph = "cleandeps"
    OBVIOUS
  <2>3. Goto(ph) /\ systemlevel' \in Nat
    BY <1>3, <2>2 DEF DependenciesDone, RunInv
  <2>4. ph \in Phases \ {"begin", "end"}
    BY <2>2 DEF Phases
  <2>. QED BY <1>1, <2>1, <2>2, <2>3, <2>4, GotoKeeps
<1>. QED BY <1>1, <1>2, <1>3

\* The locals l of the scan that goes on behind the rule i.
Behind(i, m, k, l) == l = ScanOn(i, [[loc EXCEPT !.n = m] EXCEPT !.postponed = k])

\* What the scan continues with behind the rule i.
LEMMA ScanOnFacts ==
  ASSUME NEW i \in Nat, NEW m \in Nat, NEW k \in Int, NEW l,
         Behind(i, m, k, l), loc \in Locals
  PROVE  l \in Locals /\ l.i = i + 1 /\ l.n = m + 1 /\ l.postponed = k
<1>1. PICK next \in Nat, many \in Nat : next = i + 1 /\ many = m + 1
  OBVIOUS
<1>2. l = [loc EXCEPT !.i = next, !.n = many, !.postponed = k]
  BY <1>1 DEF Behind, ScanOn, Locals
<1>. QED BY <1>1, <1>2 DEF Locals

\* A rule is put off because the filter left more than one candidate.
LEMMA PutOffRun ==
  ASSUME RunInv, DepsReady, Stops # {}, loc.postponed >= 0, NoDecision,
         UNCHANGED <<phase, systemlevel, installedpos>>,
         NEW i, i = RuleAt(loc.i + Min(Stops)),
         loc' = ScanOn(i, [[loc EXCEPT !.n = @ + Min(Stops)] EXCEPT !.postponed = IF @ = 0 THEN i ELSE @])
  PROVE  UNCHANGED vars /\ RunInv'
<1>1. /\ phase \in {"focus", "deps"} /\ loc \in Locals /\ Len(rules) \in Nat /\ i \in RuleId
      /\ loc.n \in 1 .. Len(rules) + 1 /\ loc.postponed \in -1 .. Len(rules)
  BY ScanFacts, StopFacts
<1>2. PICK d : d = Min(Stops)
  OBVIOUS
<1>3. d \in 0 .. Len(rules) - loc.n
  BY <1>2, StopFacts
<1>4. PICK m : m = loc.n + d
  OBVIOUS
<1>5. m \in Nat /\ m + 1 \in 1 .. Len(rules) + 1 /\ i \in Nat /\ i + 1 \in 1 .. Len(rules) + 1
  BY <1>1, <1>3, <1>4 DEF RuleId
<1>6. PICK k : k = IF loc.postponed = 0 THEN i ELSE loc.postponed
  OBVIOUS
<1>7. k \in 1 .. Len(rules) /\ k \in Int
  BY <1>1, <1>6 DEF RuleId
<1>8. loc' = ScanOn(i, [[loc EXCEPT !.n = m] EXCEPT !.postponed = k])
  BY <1>1, <1>2, <1>4, <1>6 DEF Locals
<1>9. PICK l : l = ScanOn(i, [[loc EXCEPT !.n = m] EXCEPT !.postponed = k])
  OBVIOUS
<1>13. i \in Nat /\ m \in Nat /\ k \in Int /\ loc \in Locals /\ Behind(i, m, k, l)
  BY <1>1, <1>5, <1>7, <1>9 DEF Behind
<1>10. l \in Locals /\ l.i = i + 1 /\ l.n = m + 1 /\ l.postponed = k
  BY <1>13, ScanOnFacts
<1>11. LocalsFit(phase, l) /\ ExtrasFit(phase, l)
  BY <1>1, <1>5, <1>7, <1>10 DEF LocalsFit, ExtrasFit
<1>12. /\ NoDecision /\ UNCHANGED phase /\ loc' = l
       /\ systemlevel' \in Nat /\ installedpos' \in Installed \cup {0}
  BY <1>8, <1>9 DEF RunInv
<1>. QED BY <1>11, <1>12, StayKeeps

-----------------------------------------------------------------------------
(* The other phases, when they take no decision. *)

\* A phase that finds decisions taken back goes back to the main loop.
LEMMA TroubleRun == RunInv /\ PhaseTrouble => UNCHANGED vars /\ RunInv'
<1> SUFFICES ASSUME RunInv, PhaseTrouble PROVE UNCHANGED vars /\ RunInv'
  OBVIOUS
<1>1. PICK ph : BackToLoop(ph)
  BY DEF PhaseTrouble
<1>. QED BY <1>1, BackRun

\* What the phases after resolve_dependencies rely on.
LEMMA ExtrasFacts ==
  ASSUME RunInv, pc = "decide"
  PROVE  /\ TypeInv /\ TrailInv /\ loc \in Locals /\ ExtrasFit(phase, loc)
         /\ Installed \subseteq Solvable /\ Installed \subseteq Nat /\ inst.cleandeps \subseteq Installed
         /\ inst.orphaned \in Seq(Installed \cap inst.extras) /\ inst.extras \subseteq Solvable
<1>1. TypeInv /\ TrailInv /\ loc \in Locals /\ ExtrasFit(phase, loc)
  BY DEF RunInv, EngineInv, At, LocalsFit
<1>. QED BY <1>1, RunFacts, LitFacts

\* Nothing is left to erase.
LEMMA EraseDoneRun == RunInv /\ EraseDone => UNCHANGED vars /\ RunInv'
<1> SUFFICES ASSUME RunInv, EraseDone PROVE UNCHANGED vars /\ RunInv'
  OBVIOUS
<1>1. /\ pc = "decide" /\ NoDecision /\ systemlevel' \in Nat /\ installedpos' \in Installed \cup {0}
      /\ \/ phase = "cleandeps" /\ Goto(IF inst.doweak THEN "weak" ELSE "orphaned")
         \/ phase = "last" /\ LeftOver("last") = {} /\ Goto("choices")
  BY DEF EraseDone, Ready, RunInv
<1>2. CASE phase = "cleandeps" /\ Goto(IF inst.doweak THEN "weak" ELSE "orphaned")
  <2>1. Consistent
    BY <1>1, <1>2, ExtrasFacts DEF ExtrasFit, Calm
  <2>2. CASE inst.doweak
    BY <1>1, <1>2, <2>1, <2>2, GotoKeeps DEF Phases
  <2>3. CASE ~inst.doweak
    BY <1>1, <1>2, <2>1, <2>3, GotoKeeps DEF Phases, NoExtra
  <2>. QED BY <2>2, <2>3
<1>3. CASE phase = "last" /\ LeftOver("last") = {} /\ Goto("choices")
  <2>1. Consistent /\ NoExtra /\ \A p \in Installed : p <= loc.i => decisionmap[p] # 0
    BY <1>1, <1>3, ExtrasFacts DEF ExtrasFit, Calm
  <2>2. UndecidedOf(Installed) = {}
    <3>1. SUFFICES ASSUME NEW p \in UndecidedOf(Installed) PROVE FALSE
      OBVIOUS
    <3>2. p \in Installed /\ p \in Nat /\ p > 0 /\ decisionmap[p] = 0
      BY <1>1, ExtrasFacts DEF UndecidedOf, IsUndef, Pkg
    <3>3. p \in 1 .. loc.i
      BY <1>3, <3>1 DEF LeftOver
    <3>. QED BY <2>1, <3>2, <3>3
  <2>. QED BY <1>1, <1>3, <2>1, <2>2, GotoKeeps DEF Phases
<1>. QED BY <1>1, <1>2, <1>3

\* The packages resolve_weak may install are extras.
LEMMA WantedExtras ==
  ASSUME TypeInv
  PROVE  /\ \A k \in DOMAIN inst.recs : OpenRecommends(k) \subseteq inst.extras
         /\ Recommends \subseteq UndecidedOf(inst.extras) /\ Supplements \subseteq UndecidedOf(inst.extras)
<1>1. inst.recs \in Seq(Solvable \X SUBSET inst.extras) /\ DOMAIN inst.supps \subseteq inst.extras
  BY RunFacts
<1>2. \A k \in DOMAIN inst.recs : inst.recs[k][2] \subseteq inst.extras
  BY <1>1
<1>3. \A k \in DOMAIN inst.recs : OpenRecommends(k) \subseteq inst.extras
      /\ \A p \in OpenRecommends(k) : p > 0 /\ IsUndef(p)
  BY <1>2 DEF OpenRecommends, UndecidedOf
<1>4. Recommends \subseteq UndecidedOf(inst.extras)
  BY <1>3 DEF Recommends, UndecidedOf
<1>5. Supplements \subseteq UndecidedOf(inst.extras)
  BY <1>1 DEF Supplements, UndecidedOf
<1>. QED BY <1>3, <1>4, <1>5

\* resolve_weak finds nothing to install.
LEMMA WeakNothingRun == RunInv /\ WeakNothing => UNCHANGED vars /\ RunInv'
<1> SUFFICES ASSUME RunInv, WeakNothing PROVE UNCHANGED vars /\ RunInv'
  OBVIOUS
<1>1. /\ pc = "decide" /\ phase = "weak" /\ loc.stage = "first" /\ Recommends \cup Supplements = {}
      /\ NoDecision /\ Goto("orphaned") /\ systemlevel' \in Nat /\ installedpos' \in Installed \cup {0}
  BY DEF WeakNothing, Ready, RunInv
<1>2. Consistent
  BY <1>1, ExtrasFacts DEF ExtrasFit, Calm
<1>. QED BY <1>1, <1>2, GotoKeeps DEF Phases, NoExtra

\* The orders of a finite set are sequences of its elements.
LEMMA OrdersSeq ==
  ASSUME NEW S, NEW T, S \subseteq T, IsFiniteSet(S), NEW s \in Orders(S)
  PROVE  s \in Seq(T)
<1>1. Cardinality(S) \in Nat
  BY FS_CardinalityType
<1>2. PICK n \in Nat : n = Cardinality(S)
  BY <1>1
<1>3. s \in [1 .. n -> T]
  BY <1>2 DEF Orders
<1>. QED BY <1>3

\* resolve_weak has chosen what it may install.
LEMMA WeakStartRun == RunInv /\ WeakStart => UNCHANGED vars /\ RunInv'
<1> SUFFICES ASSUME RunInv, WeakStart PROVE UNCHANGED vars /\ RunInv'
  OBVIOUS
<1>1. /\ pc = "decide" /\ phase = "weak" /\ loc.stage = "first" /\ NoDecision
      /\ UNCHANGED phase /\ systemlevel' \in Nat /\ installedpos' \in Installed \cup {0}
  BY DEF WeakStart, Ready, RunInv
<1>2. PICK best \in (SUBSET (Recommends \cup Supplements)) \ {{}} :
        \E order \in Orders(Supplements \cap best) :
          loc' = [loc EXCEPT !.stage = "supplements", !.dqmap = best, !.list = order,
                             !.decisioncount = Len(decisionq), !.olevel = -1]
  BY DEF WeakStart
<1>3. PICK order \in Orders(Supplements \cap best) :
        loc' = [loc EXCEPT !.stage = "supplements", !.dqmap = best, !.list = order,
                           !.decisioncount = Len(decisionq), !.olevel = -1]
  BY <1>2
<1>4. TypeInv /\ loc \in Locals /\ inst.extras \subseteq Solvable /\ ExtrasFit(phase, loc)
      /\ LocalsFit(phase, loc)
  BY <1>1, ExtrasFacts DEF RunInv, At
<1>5. best \subseteq inst.extras /\ Supplements \cap best \subseteq inst.extras
  BY <1>4, WantedExtras DEF UndecidedOf
<1>6. order \in Seq(inst.extras) /\ order \in Seq(Solvable)
  <2>1. IsFiniteSet(Solvable)
    BY FS_Interval, NSolvablesAssumption DEF Solvable
  <2>2. IsFiniteSet(Supplements \cap best) /\ Supplements \cap best \subseteq Solvable
    BY <1>4, <1>5, <2>1, FS_Subset
  <2>. QED BY <1>5, <2>2, OrdersSeq
<1>7. Len(decisionq) \in Nat
  BY <1>4, TypeFacts
<1>13. PICK count \in Nat : count = Len(decisionq)
  BY <1>7
<1>8. PICK l : l = [loc EXCEPT !.stage = "supplements", !.dqmap = best, !.list = order,
                              !.decisioncount = count, !.olevel = -1]
  OBVIOUS
<1>9. /\ l \in Locals /\ l.stage = "supplements" /\ l.dqmap = best /\ l.list = order /\ l.n = loc.n
  <2>1. best \in SUBSET Solvable /\ order \in Seq(Solvable) /\ -1 \in Int /\ loc \in Locals
    BY <1>4, <1>5, <1>6
  <2>. QED BY <1>8, <2>1 DEF Locals, Stages
<1>10. LocalsFit(phase, l)
  BY <1>1, <1>4, <1>5, <1>6, <1>9 DEF LocalsFit
<1>11. ExtrasFit(phase, l)
  BY <1>1, <1>4, <1>9 DEF ExtrasFit
<1>12. loc' = l
  BY <1>3, <1>8, <1>13
<1>. QED BY <1>1, <1>10, <1>11, <1>12, StayKeeps

\* The supplemented packages are decided; the recommends are next.
LEMMA WeakSupplementsDoneRun == RunInv /\ WeakSupplementsDone => UNCHANGED vars /\ RunInv'
<1> SUFFICES ASSUME RunInv, WeakSupplementsDone PROVE UNCHANGED vars /\ RunInv'
  OBVIOUS
<1>1. /\ pc = "decide" /\ phase = "weak" /\ loc.stage = "supplements" /\ NoDecision
      /\ UNCHANGED phase /\ systemlevel' \in Nat /\ installedpos' \in Installed \cup {0}
  BY DEF WeakSupplementsDone, Ready, RunInv
<1>2. TypeInv /\ loc \in Locals /\ ExtrasFit(phase, loc) /\ LocalsFit(phase, loc)
  BY <1>1, ExtrasFacts DEF RunInv, At
<1>3. PICK l : l = [loc EXCEPT !.stage = "recommends", !.i = 1, !.n = 0, !.olevel = -1]
  OBVIOUS
<1>4. /\ l \in Locals /\ l.stage = "recommends" /\ l.dqmap = loc.dqmap /\ l.list = loc.list /\ l.n = 0
  <2>1. loc \in Locals /\ -1 \in Int
    BY <1>2
  <2>. QED BY <1>3, <2>1 DEF Locals, Stages
<1>5. Len(inst.recs) \in Nat
  BY <1>2, RunFacts
<1>6. LocalsFit(phase, l)
  BY <1>1, <1>2, <1>4, <1>5 DEF LocalsFit
<1>7. ExtrasFit(phase, l)
  BY <1>1, <1>2, <1>4 DEF ExtrasFit
<1>8. loc' = l
  BY <1>3 DEF WeakSupplementsDone
<1>. QED BY <1>1, <1>6, <1>7, <1>8, StayKeeps

\* resolve_weak or resolve_orphaned go back to the main loop.
LEMMA ExtrasDoneRun == RunInv /\ (WeakDone \/ OrphansDone) => UNCHANGED vars /\ RunInv'
<1> SUFFICES ASSUME RunInv, WeakDone \/ OrphansDone PROVE UNCHANGED vars /\ RunInv'
  OBVIOUS
<1>1. PICK ph : BackToLoop(ph)
  BY DEF WeakDone, OrphansDone
<1>. QED BY <1>1, BackRun

\* The orphans that are kept are decided; now the others.
LEMMA DropOrphansStartRun == RunInv /\ DropOrphansStart => UNCHANGED vars /\ RunInv'
<1> SUFFICES ASSUME RunInv, DropOrphansStart PROVE UNCHANGED vars /\ RunInv'
  OBVIOUS
<1>1. /\ pc = "decide" /\ phase = "orphaned" /\ ~loc.one /\ NoDecision
      /\ UNCHANGED phase /\ systemlevel' \in Nat /\ installedpos' \in Installed \cup {0}
  BY DEF DropOrphansStart, Ready, RunInv
<1>2. TypeInv /\ loc \in Locals /\ ExtrasFit(phase, loc) /\ LocalsFit(phase, loc)
  BY <1>1, ExtrasFacts DEF RunInv, At
<1>3. PICK l : l = [loc EXCEPT !.stage = "drop"]
  OBVIOUS
<1>4. l \in Locals /\ l.stage = "drop" /\ l.one = loc.one /\ l.n = loc.n
  BY <1>2, <1>3 DEF Locals, Stages
<1>5. LocalsFit(phase, l) /\ ExtrasFit(phase, l)
  BY <1>1, <1>2, <1>4 DEF LocalsFit, ExtrasFit
<1>6. loc' = l
  BY <1>3 DEF DropOrphansStart
<1>. QED BY <1>1, <1>5, <1>6, StayKeeps

\* Without rules of orphans left out there is nothing to repair.
LEMMA OrphansRepairRun == RunInv /\ OrphansRepair => UNCHANGED vars /\ RunInv'
<1> SUFFICES ASSUME RunInv, OrphansRepair PROVE UNCHANGED vars /\ RunInv'
  OBVIOUS
<1>1. /\ pc = "decide" /\ phase = "orphaned" /\ loc.stage = "drop" /\ NoDecision
      /\ systemlevel' \in Nat /\ installedpos' \in Installed \cup {0}
  BY DEF OrphansRepair, Ready, RunInv
<1>2. OrphanDeps = {}
  BY DEF RunInv, OrphanDeps
<1>3. Goto("last")
  <2>1. ASSUME NEW S \in SUBSET OrphanDeps PROVE S = {}
    BY <1>2
  <2>2. Goto("last") \/ \E S \in SUBSET OrphanDeps : S # {}
    BY DEF OrphansRepair
  <2>. QED BY <2>1, <2>2
<1>4. Consistent /\ NoExtra
  BY <1>1, ExtrasFacts DEF ExtrasFit, Calm
<1>. QED BY <1>1, <1>3, <1>4, GotoKeeps DEF Phases

-----------------------------------------------------------------------------
(* The engine, as the phases rely on it. *)

\* No package is added, none that was decided is undecided again, and the
\* rules stay what they are.
Quiet ==
  /\ \A v \in Solvable : decisionmap'[v] > 0 <=> decisionmap[v] > 0
  /\ \A v \in Solvable : decisionmap[v] # 0 => decisionmap'[v] # 0
  /\ UNCHANGED <<inst, disabled>>

\* A fulfilled rule stays fulfilled when no package is added.
LEMMA FulfilledKept ==
  ASSUME TypeInv, TypeInv', Quiet, NEW i \in RuleId, rules'[i].lits = rules[i].lits, Fulfilled(i)
  PROVE  Fulfilled(i)'
<1>1. PICK l \in rules[i].lits : IsTrue(l) \/ (l < 0 /\ IsUndef(l))
  BY DEF Fulfilled
<1>2. l \in Lit /\ l \in Int /\ l # 0 /\ Pkg(l) \in Solvable /\ (l > 0 => l \in Solvable)
  BY TypeFacts, LitFacts
<1>3. decisionmap \in [Solvable -> Int] /\ decisionmap' \in [Solvable -> Int]
  BY DEF TypeInv, TypeOK, TypeTrail
<1>4. CASE l > 0
  <2>1. decisionmap'[l] > 0
    BY <1>1, <1>2, <1>4 DEF IsTrue, Quiet
  <2>. QED BY <1>4, <2>1 DEF Fulfilled, IsTrue
<1>5. CASE ~(l > 0)
  <2>1. -l \in Solvable /\ Pkg(l) = -l /\ l < 0
    BY <1>2, <1>5 DEF Pkg
  <2>2. ~(decisionmap[-l] > 0)
    BY <1>1, <1>3, <1>5, <2>1 DEF IsTrue, IsUndef
  <2>3. ~(decisionmap'[-l] > 0) /\ decisionmap'[-l] \in Int
    BY <1>3, <2>1, <2>2 DEF Quiet
  <2>4. decisionmap'[-l] < 0 \/ decisionmap'[-l] = 0
    BY <2>3
  <2>. QED BY <1>5, <2>1, <2>4 DEF Fulfilled, IsTrue, IsUndef
<1>. QED BY <1>4, <1>5

\* So a consistent system stays consistent.
LEMMA ConsistentKept ==
  ASSUME TypeInv, TypeInv', Alike, Quiet, Consistent
  PROVE  Consistent'
<1>1. SUFFICES ASSUME NEW i \in RuleId', i \notin disabled', rules'[i].w1 # 0, ~Fulfilled(i)' PROVE FALSE
  BY DEF Consistent, Unfulfilled, RuleId
<1>2. i \in RuleId /\ i \notin disabled /\ rules[i].w1 # 0 /\ rules'[i].lits = rules[i].lits
  BY <1>1 DEF Alike, Quiet
<1>3. Fulfilled(i)
  BY <1>2 DEF Consistent, Unfulfilled, RuleId
<1>. QED BY <1>1, <1>2, <1>3, FulfilledKept

\* What is left to install does not grow when no package is added.
LEMMA NoExtraKept ==
  ASSUME TypeInv, TypeInv', Quiet, NoExtra
  PROVE  NoExtra'
<1>1. inst' = inst
  BY DEF Quiet
<1>2. \A p \in Solvable : /\ IsTrue(p)' <=> IsTrue(p)
                          /\ IsUndef(p)' => IsUndef(p)
  BY LitFacts DEF Quiet, IsTrue, IsUndef, Pkg
<1>3. /\ inst.recs \in Seq(Solvable \X SUBSET inst.extras) /\ inst.extras \subseteq Solvable
      /\ DOMAIN inst.supps \subseteq inst.extras
      /\ \A p \in DOMAIN inst.supps : inst.supps[p] \subseteq Solvable
  BY RunFacts
<1>4. \A p : Wanted(p)' => Wanted(p)
  BY <1>1, <1>2 DEF Wanted
<1>5. ASSUME NEW k \in DOMAIN inst.recs PROVE OpenRecommends(k)' \subseteq OpenRecommends(k)
  <2>1. inst.recs[k][1] \in Solvable /\ inst.recs[k][2] \subseteq Solvable
    BY <1>3
  <2>2. PICK p, S : p = inst.recs[k][1] /\ S = inst.recs[k][2]
    OBVIOUS
  <2>3. OpenRecommends(k) = IF IsTrue(p) /\ \A o \in S : ~IsTrue(o) THEN UndecidedOf(S) ELSE {}
    BY <2>2 DEF OpenRecommends
  <2>4. OpenRecommends(k)' = IF IsTrue(p)' /\ \A o \in S : ~IsTrue(o)' THEN UndecidedOf(S)' ELSE {}
    BY <1>1, <2>2, Zenon DEF OpenRecommends, IsTrue, UndecidedOf, IsUndef
  <2>5. UndecidedOf(S)' \subseteq UndecidedOf(S)
    BY <1>2, <2>1, <2>2 DEF UndecidedOf
  <2>. QED BY <1>2, <2>1, <2>2, <2>3, <2>4, <2>5
<1>6. Recommends' \subseteq Recommends
  BY <1>1, <1>4, <1>5 DEF Recommends
<1>7. Supplements' \subseteq Supplements
  <2>1. SUFFICES ASSUME NEW p \in Supplements' PROVE p \in Supplements
    OBVIOUS
  <2>2. p \in DOMAIN inst.supps /\ p > 0 /\ IsUndef(p)' /\ Wanted(p)' /\ \E o \in inst.supps[p] : IsTrue(o)'
    BY <1>1 DEF Supplements, UndecidedOf
  <2>3. p \in Solvable /\ inst.supps[p] \subseteq Solvable
    BY <1>3, <2>2
  <2>4. IsUndef(p) /\ Wanted(p) /\ \E o \in inst.supps[p] : IsTrue(o)
    BY <1>2, <1>4, <2>2, <2>3
  <2>. QED BY <2>2, <2>4 DEF Supplements, UndecidedOf
<1>. QED BY <1>1, <1>6, <1>7 DEF NoExtra

\* An undecided package that is erased, by a phase or by propagation.
LEMMA EraseIsQuiet ==
  ASSUME TypeInv, NEW l \in Lit, l < 0, IsUndef(l), NEW lev \in Nat, lev >= 1, NEW w, Push(l, w, lev),
         UNCHANGED <<inst, disabled>>
  PROVE  Quiet
<1>1. /\ decisionmap \in [Solvable -> Int] /\ decisionmap[Pkg(l)] = 0 /\ Pkg(l) \in Solvable
      /\ decisionmap' = [decisionmap EXCEPT ![Pkg(l)] = -lev]
  <2>1. l \in Int /\ ~(l > 0) /\ Pkg(l) \in Solvable
    BY LitFacts
  <2>2. decisionmap \in [Solvable -> Int] /\ decisionmap[Pkg(l)] = 0
    BY DEF TypeInv, TypeOK, TypeTrail, IsUndef
  <2>3. Signed(l, lev) = -lev
    BY <2>1 DEF Signed
  <2>. QED BY <2>1, <2>2, <2>3 DEF Push
<1>. QED BY <1>1 DEF Quiet

\* From a consistent system propagate only erases, and finds no conflict.
LEMMA QuietPropagate ==
  ASSUME TypeInv, TrailInv, WatchInv, TypeInv', Consistent, Propagate
  PROVE  /\ Quiet /\ Consistent' /\ pc' \in {"propagate", "decide"} /\ disablerules' = disablerules
<1>1. WhyOlder /\ pc = "propagate"
  BY DEF WatchInv, Propagate, PropagateNext, PropagateDecisionDone, PropagateSkip, PropagateMove,
         PropagateUnit, PropagateConflict, PropagateEnd, Visit
<1>2. CASE PropagateNext \/ PropagateDecisionDone \/ PropagateSkip \/ PropagateEnd
  <2>1. /\ UNCHANGED ruleVars /\ UNCHANGED <<disabled, decisionmap, disablerules>>
        /\ pc' \in {"propagate", "decide"}
    BY <1>1, <1>2, Zenon DEF PropagateNext, PropagateDecisionDone, PropagateSkip, PropagateEnd, trailVars
  <2>2. Quiet
    BY <2>1 DEF Quiet, ruleVars
  <2>3. Alike
    BY <2>1, AlikeSame
  <2>. QED BY <2>1, <2>2, <2>3, ConsistentKept
<1>3. CASE PropagateMove
  <2>1. UNCHANGED <<inst, disabled, decisionmap, disablerules, pc>>
    BY <1>3 DEF PropagateMove, trailVars
  <2>2. Quiet
    BY <2>1 DEF Quiet
  <2>3. Alike
    BY <1>3, MoveAlike
  <2>. QED BY <1>1, <2>1, <2>2, <2>3, ConsistentKept
<1>4. ASSUME NEW i \in todo, ~SkipRule(i), FreeLits(i) = {}
      PROVE  OtherWatch(i) \in Lit /\ OtherWatch(i) < 0 /\ IsUndef(OtherWatch(i))
  <2>1. i \in RuleId /\ rules[i].w1 \in Lit /\ OtherWatch(i) \in {rules[i].w1, rules[i].w2}
        /\ rules[i].w2 \in Lit
    BY VisitFacts
  <2>2. i \notin disabled /\ ~IsTrue(OtherWatch(i)) /\ rules[i].w1 # 0 /\ OtherWatch(i) \in Lit
    BY <1>4, <2>1, LitFacts DEF SkipRule
  <2>3. Fulfilled(i)
    BY <2>1, <2>2 DEF Consistent, Unfulfilled, RuleId
  <2>4. PICK l \in rules[i].lits : IsTrue(l) \/ (l < 0 /\ IsUndef(l))
    BY <2>3 DEF Fulfilled
  <2>5. l \in Lit
    BY <2>1, TypeFacts
  <2>6. ~Falsified(l)
    <3>1. IsTrue(l) <=> HoldsIn(decisionmap, l)
      BY <2>5, TruthFacts
    <3>2. IsUndef(l) <=> decisionmap[Pkg(l)] = 0
      BY DEF IsUndef
    <3>3. -l \in Lit /\ Pkg(-l) = Pkg(l) /\ -(-l) = l
      BY <2>5, LitFacts, PkgFacts
    <3>4. Falsified(l) => ~HoldsIn(decisionmap, l) /\ decisionmap[Pkg(l)] # 0
      BY <3>3, TruthFacts, SignFacts DEF Falsified
    <3>. QED BY <2>4, <3>1, <3>2, <3>4
  <2>7. l = OtherWatch(i)
    BY <1>4, <2>4, <2>6, NoFreeLit
  <2>. QED BY <2>2, <2>4, <2>7
<1>5. CASE PropagateUnit
  <2>1. PICK i \in todo : ~SkipRule(i) /\ FreeLits(i) = {} /\ Push(OtherWatch(i), i, level)
    BY <1>5 DEF PropagateUnit
  <2>2. UNCHANGED ruleVars /\ UNCHANGED <<disabled, disablerules, pc>>
    BY <1>5 DEF PropagateUnit
  <2>3. OtherWatch(i) \in Lit /\ OtherWatch(i) < 0 /\ IsUndef(OtherWatch(i))
    BY <1>4, <2>1
  <2>4. level \in Nat /\ level >= 1
    BY <1>1, SearchFacts DEF Searching
  <2>5. Quiet
    BY <2>1, <2>2, <2>3, <2>4, EraseIsQuiet DEF ruleVars
  <2>6. Alike
    BY <2>2, AlikeSame
  <2>. QED BY <1>1, <2>2, <2>5, <2>6, ConsistentKept
<1>6. CASE PropagateConflict
  <2>1. PICK i \in todo : ~SkipRule(i) /\ FreeLits(i) = {} /\ IsFalse(OtherWatch(i))
    BY <1>6 DEF PropagateConflict
  <2>2. OtherWatch(i) \in Lit /\ OtherWatch(i) < 0 /\ IsUndef(OtherWatch(i))
    BY <1>4, <2>1
  <2>5. OtherWatch(i) \in Int
    BY <2>2, LitFacts
  <2>3. Pkg(OtherWatch(i)) = -OtherWatch(i) /\ ~(OtherWatch(i) > 0)
    BY <2>2, <2>5 DEF Pkg
  <2>4. decisionmap[-OtherWatch(i)] > 0 /\ decisionmap[-OtherWatch(i)] = 0
    BY <2>1, <2>2, <2>3 DEF IsFalse, IsUndef
  <2>. QED BY <2>4
<1>. QED BY <1>2, <1>3, <1>5, <1>6 DEF Propagate

\* From a consistent system a phase may erase a package.
LEMMA QuietErase ==
  ASSUME TypeInv, TrailInv, TypeInv', pc = "decide", Consistent, NEW p \in Solvable, IsUndef(p),
         NEW flag, SetPropagateLearn(-p, flag)
  PROVE  Quiet /\ Consistent' /\ decisionmap'[p] # 0 /\ pc' = "propagate"
<1>1. -p \in Lit /\ -p < 0 /\ IsUndef(-p) /\ Pkg(-p) = p /\ p \in Nat
  BY LitFacts DEF IsUndef, Pkg
<1>2. level + 1 \in Nat /\ level + 1 >= 1
  BY SearchFacts DEF Searching
<1>3. UNCHANGED ruleVars /\ disabled' = disabled /\ pc' = "propagate" /\ Push(-p, 0, level + 1)
  BY DEF SetPropagateLearn
<1>4. Quiet
  BY <1>1, <1>2, <1>3, EraseIsQuiet DEF ruleVars
<1>5. Consistent'
  BY <1>3, <1>4, AlikeSame, ConsistentKept
<1>6. decisionmap'[p] # 0
  <2>1. decisionmap \in [Solvable -> Int]
    BY DEF TypeInv, TypeOK, TypeTrail
  <2>3. ~(-p > 0)
    BY <1>1
  <2>4. Signed(-p, level + 1) = -(level + 1)
    BY <2>3 DEF Signed
  <2>2. decisionmap' = [decisionmap EXCEPT ![p] = -(level + 1)]
    BY <1>1, <1>3, <2>4 DEF Push
  <2>. QED BY <1>2, <2>1, <2>2
<1>. QED BY <1>3, <1>4, <1>5, <1>6

\* What is learnt holds in every solution.
LEMMA LearnSatisfiable ==
  ASSUME TypeInv, TrailInv, LearnInv, Learn, Satisfiable
  PROVE  Satisfiable'
<1>1. PICK n : n = Len(rules) + 1
  OBVIOUS
<1>2. disabled' = disabled /\ pc = "learn"
  BY DEF Learn
<1>3. /\ RuleId' = RuleId \cup {n} /\ rules'[n].lits = {uip} \cup q
      /\ \A i \in RuleId : rules'[i] = rules[i]
  BY <1>1, LearnFacts
<1>4. Entails(rules, proof, q \cup {uip}) /\ \A i \in proof : InUse(i)
  BY <1>2 DEF LearnInv, ProofOK, Resolving
<1>5. proof \subseteq RuleId
  BY TypeFacts DEF TypeAnalysis
<1>6. PICK M \in Installations : \A i \in RuleId : InUse(i) => Holds(M, rules[i].lits)
  BY DEF Satisfiable
<1>7. Holds(M, rules'[n].lits)
  <2>1. \A i \in proof : Holds(M, rules[i].lits)
    BY <1>4, <1>5, <1>6
  <2>2. Holds(M, q \cup {uip})
    BY <1>4, <2>1 DEF Entails
  <2>. QED BY <1>3, <2>2 DEF Holds
<1>8. \A i \in RuleId' : InUse(i)' => Holds(M, rules'[i].lits)
  BY <1>2, <1>3, <1>6, <1>7 DEF InUse
<1>. QED BY <1>8 DEF Satisfiable

\* Rules in use that have a solution are never in conflict at level 1.
LEMMA SolvableAboveOne ==
  ASSUME TypeInv, TrailInv, WatchInv, Satisfiable, PropagateConflict
  PROVE  level # 1 /\ pc' = "analyze"
<1>1. PICK i \in todo : /\ ~SkipRule(i) /\ FreeLits(i) = {} /\ IsFalse(OtherWatch(i))
                        /\ pc' = IF level = 1 THEN "unsolvable" ELSE "analyze"
  BY DEF PropagateConflict
<1>2. pc = "propagate"
  BY DEF PropagateConflict
<1>3. SUFFICES ASSUME level = 1 PROVE FALSE
  BY <1>1
<1>4. i \in RuleId /\ InUse(i)
  BY <1>1, VisitFacts, LitFacts DEF SkipRule, InUse
<1>5. PICK M \in Installations : \A j \in RuleId : InUse(j) => Holds(M, rules[j].lits)
  BY DEF Satisfiable
<1>6. \A k \in 1 .. Len(decisionq) : DecisionLev(k) = 1 => LitHolds(M, decisionq[k].p)
  BY <1>2, <1>5, LevelOneForced
<1>7. \A k \in 1 .. Len(decisionq) : DecisionLev(k) = 1
  BY <1>2, <1>3, SearchFacts, TrailFacts DEF Searching
<1>8. PICK l \in rules[i].lits : LitHolds(M, l)
  BY <1>4, <1>5 DEF Holds
<1>9. l \in Lit /\ \E k \in 1 .. Len(decisionq) : decisionq[k].p = -l
  BY <1>1, ConflictFalse
<1>10. LitHolds(M, -l)
  BY <1>6, <1>7, <1>9
<1>. QED BY <1>8, <1>9, <1>10, LitSign

\* Where the rules in use have a solution they keep it until the phase goes on.
LEMMA HarmlessStep ==
  ASSUME TypeInv, TrailInv, WatchInv, LearnInv, TypeInv', Satisfiable, Propagate \/ Analyze
  PROVE  /\ Satisfiable' /\ pc' \in {"propagate", "decide"} \cup Resolving
         /\ disablerules' = disablerules
<1>1. WhyOlder
  BY DEF WatchInv
<1>2. CASE PropagateConflict
  <2>1. UNCHANGED ruleVars /\ disabled' = disabled /\ disablerules' = disablerules
    BY <1>2 DEF PropagateConflict
  <2>2. pc' = "analyze"
    BY <1>2, SolvableAboveOne
  <2>3. Satisfiable'
    BY <1>1, <2>1, AlikeSame, AlikeKeeps
  <2>. QED BY <2>1, <2>2, <2>3 DEF Resolving
<1>3. CASE PropagateMove
  <2>1. disabled' = disabled /\ disablerules' = disablerules /\ pc' = "propagate"
    BY <1>3 DEF PropagateMove, Visit
  <2>2. Satisfiable'
    BY <1>1, <1>3, <2>1, MoveAlike, AlikeKeeps
  <2>. QED BY <2>1, <2>2
<1>4. CASE PropagateNext \/ PropagateDecisionDone \/ PropagateSkip \/ PropagateUnit \/ PropagateEnd
  <2>1. /\ UNCHANGED ruleVars /\ UNCHANGED <<disabled, disablerules>>
        /\ pc' \in {"propagate", "decide"}
    BY <1>4, Zenon DEF PropagateNext, PropagateDecisionDone, PropagateSkip, PropagateUnit, PropagateEnd, Visit
  <2>2. Satisfiable'
    BY <1>1, <2>1, AlikeSame, AlikeKeeps
  <2>. QED BY <2>1, <2>2
<1>5. CASE AnalyzeRule \/ AnalyzeDone \/ AnalyzeUip \/ AnalyzeResolve
  <2>1. UNCHANGED ruleVars /\ UNCHANGED <<disabled, disablerules>>
    BY <1>5, Zenon DEF AnalyzeRule, AnalyzeDone, AnalyzeUip, AnalyzeResolve
  <2>2. pc' \in Resolving
    BY <1>5 DEF AnalyzeRule, AnalyzeDone, AnalyzeUip, AnalyzeResolve, Resolving
  <2>3. Satisfiable'
    BY <1>1, <2>1, AlikeSame, AlikeKeeps
  <2>. QED BY <2>1, <2>2, <2>3
<1>6. CASE Learn
  <2>1. pc' = "propagate" /\ disablerules' = disablerules
    BY <1>6 DEF Learn
  <2>. QED BY <1>6, <2>1, LearnSatisfiable
<1>. QED BY <1>2, <1>3, <1>4, <1>5, <1>6 DEF Propagate, Analyze

\* Where the engine is before and after its steps.
LEMMA EnginePc ==
  ASSUME Engine
  PROVE  /\ pc = "start" => pc' = "assert"
         /\ pc \in {"propagate"} \cup Resolving \cup {"unsolvable"} \cup Asserting \cup {"start"}
         /\ pc' \in {"propagate", "decide"} \cup Resolving \cup {"unsolvable"} \cup Asserting \cup {"start", "failed"}
         /\ pc' \in Asserting => pc \in Asserting \cup {"start"}
         /\ pc = "propagate" => Propagate
         /\ pc \in Resolving => Analyze
         /\ pc' = "start" => pc = "unsolvable"
<1>1. CASE Assertions
  <2>1. CASE MakeRuleDecisions
    BY <2>1 DEF MakeRuleDecisions, Asserting, Resolving
  <2>2. CASE AssertLearntStatus \/ AssertDecide \/ AssertSkip \/ AssertDropLearnt
    BY <2>2 DEF AssertLearntStatus, AssertDecide, AssertSkip, AssertDropLearnt, Asserting, Resolving
  <2>3. CASE AssertUninstall \/ AssertConflict
    BY <2>3 DEF AssertUninstall, AssertConflict, InConflict, StartOver, Asserting, Resolving
  <2>4. CASE AssertEnd \/ WeakDecide \/ WeakConflict \/ WeakEnd
    BY <2>4 DEF AssertEnd, WeakDecide, WeakConflict, WeakEnd, StartOver, Asserting, Resolving
  <2>. QED BY <1>1, <2>1, <2>2, <2>3, <2>4 DEF Assertions
<1>2. CASE Propagate
  BY <1>2 DEF Propagate, PropagateNext, PropagateDecisionDone, PropagateSkip, PropagateMove,
         PropagateUnit, PropagateConflict, PropagateEnd, Visit, Asserting, Resolving
<1>3. CASE Analyze
  BY <1>3 DEF Analyze, AnalyzeRule, AnalyzeDone, AnalyzeUip, AnalyzeResolve, Learn, Asserting, Resolving
<1>4. CASE AnalyzeUnsolvable
  BY <1>4 DEF AnalyzeUnsolvable, UnsolvableWalk, UnsolvableWeak, UnsolvableUninstall, UnsolvableDisable,
         UnsolvableFail, RecordProblem, Proved, Reset, Asserting, Resolving
<1>. QED BY <1>1, <1>2, <1>3, <1>4 DEF Engine

-----------------------------------------------------------------------------
(* The reasons of the levels. *)

\* Reasons stay right while no level is opened or taken back.
LEMMA ReasonKeeps ==
  ASSUME ReasonInv, UNCHANGED <<reason, inst, level, branches>>, pc \in Active,
         pc' \notin {"assert", "weakassert"},
         \A k \in 2 .. Len(decisionq') : decisionq'[k].why = 0 =>
           k \in 2 .. Len(decisionq) /\ decisionq'[k] = decisionq[k] /\ DecisionLev(k)' = DecisionLev(k)
  PROVE  ReasonInv'
<1>2. ASSUME NEW k \in 2 .. Len(decisionq'), decisionq'[k].why = 0
      PROVE  Fits(decisionq[k].p, reason[DecisionLev(k) + 1])'
  <2>1. k \in 2 .. Len(decisionq) /\ decisionq'[k] = decisionq[k] /\ DecisionLev(k)' = DecisionLev(k)
    BY <1>2
  <2>2. Fits(decisionq[k].p, reason[DecisionLev(k) + 1])
    BY <1>2, <2>1 DEF ReasonInv
  <2>3. Installed' = Installed /\ reason' = reason
    BY DEF Installed
  <2>. QED BY <2>1, <2>2, <2>3 DEF Fits
<1>3. /\ reason' \in Seq(DecisionReasons)
      /\ Len(reason') = level' + 1
      /\ \A b \in 1 .. Len(branches') : reason'[branches'[b].level + 2] \notin {"keep", "cleandeps"}
  BY DEF ReasonInv
<1>4. pc' \in {"assert", "weakassert"} => reason' = <<"none", "none">>
  OBVIOUS
<1>. QED BY <1>2, <1>3, <1>4 DEF ReasonInv

\* makeruledecisions ends, or goes on: all it decided is forced.
LEMMA ReasonAssert ==
  ASSUME RunInv, Assertions, EngineStep
  PROVE  ReasonInv'
<1>1. pc \in Asserting \cup {"start"} /\ (pc = "start" => pc' = "assert")
      /\ pc' \in {"assert", "weakassert", "propagate", "failed"}
  BY DEF Assertions, MakeRuleDecisions, AssertLearntStatus, AssertDecide, AssertSkip, AssertDropLearnt,
         AssertUninstall, AssertConflict, AssertEnd, WeakDecide, WeakConflict, WeakEnd, InConflict, StartOver,
         Asserting
<1>2. TypeInv /\ TrailInv /\ ReasonInv
  BY DEF RunInv, EngineInv
<1>3. <<"none", "none">> \in Seq(DecisionReasons)
  BY DEF DecisionReasons
<1>4. CASE pc = "start"
  <2>1. reason' = <<"none", "none">> /\ pc' = "assert"
    BY <1>1, <1>4 DEF EngineStep
  <2>. QED BY <1>3, <2>1 DEF ReasonInv, Active, Searching, Resolving
<1>5. CASE pc # "start"
  <2>1. reason' = reason /\ reason = <<"none", "none">>
    BY <1>1, <1>2, <1>5 DEF EngineStep, ReasonInv, Asserting
  <2>2. CASE pc' # "propagate"
    BY <1>1, <1>3, <2>1, <2>2 DEF ReasonInv, Active, Searching, Resolving
  <2>3. CASE pc' = "propagate"
    <3>1. AssertEnd \/ WeakEnd
      BY <1>1, <1>5, <2>3 DEF Assertions, MakeRuleDecisions, AssertLearntStatus, AssertDecide, AssertSkip,
         AssertDropLearnt, AssertUninstall, AssertConflict, WeakDecide, WeakConflict, StartOver, Asserting
    <3>2. level' = 1 /\ UNCHANGED <<decisionq, decisionmap, branches>>
      BY <2>3, <3>1 DEF AssertEnd, WeakEnd, trailVars
    <3>3. /\ branches = <<>> /\ TrailFull(decisionq, decisionmap, rules) /\ Len(decisionq) \in Nat
          /\ \A k \in 1 .. Len(decisionq) : LevIn(decisionmap, decisionq[k].p) = 1
      BY <1>1, <1>2, <1>5, AssertPhaseFacts DEF Asserting
    <3>4. \A k \in 2 .. Len(decisionq) : decisionq[k].why # 0
      <4> SUFFICES ASSUME NEW k \in 2 .. Len(decisionq) PROVE decisionq[k].why # 0
        OBVIOUS
      <4>1. k \in 1 .. Len(decisionq) /\ k - 1 \in 1 .. Len(decisionq) /\ k # 1
        BY <3>3
      <4>2. LevIn(decisionmap, decisionq[k - 1].p) = 1 /\ LevIn(decisionmap, decisionq[k].p) = 1
        BY <3>3, <4>1
      <4>3. FreeFirst(decisionq, decisionmap)
        BY <3>3 DEF TrailFull
      <4>. QED BY <4>1, <4>2, <4>3 DEF FreeFirst
    <3>5. Len(reason') = level' + 1
      BY <2>1, <3>2
    <3>6. branches' = <<>> /\ \A k \in 2 .. Len(decisionq') : decisionq'[k].why # 0
      BY <3>2, <3>3, <3>4
    <3>7. reason' \in Seq(DecisionReasons) /\ \A b \in 1 .. Len(branches') : FALSE
      BY <1>3, <2>1, <3>6
    <3>. QED BY <2>3, <3>5, <3>6, <3>7 DEF ReasonInv
  <2>. QED BY <2>2, <2>3
<1>. QED BY <1>4, <1>5

\* propagate decides by rules only, and opens no level.
LEMMA ReasonPropagate ==
  ASSUME RunInv, Propagate, EngineStep
  PROVE  ReasonInv'
<1>1. TypeInv /\ TrailInv /\ ReasonInv
  BY DEF RunInv, EngineInv
<1>2. pc = "propagate" /\ pc' \in {"propagate", "analyze", "unsolvable", "decide"}
      /\ UNCHANGED <<inst, level, branches>>
  BY DEF Propagate, PropagateNext, PropagateDecisionDone, PropagateSkip, PropagateMove,
         PropagateUnit, PropagateConflict, PropagateEnd, Visit, ruleVars
<1>3. reason' = reason
  BY <1>2 DEF EngineStep
<1>4. \A k \in 2 .. Len(decisionq') : decisionq'[k].why = 0 =>
        k \in 2 .. Len(decisionq) /\ decisionq'[k] = decisionq[k] /\ DecisionLev(k)' = DecisionLev(k)
  <2>1. CASE PropagateUnit
    <3>1. PICK i \in todo : ~SkipRule(i) /\ Push(OtherWatch(i), i, level) /\ ~IsFalse(OtherWatch(i))
      BY <2>1 DEF PropagateUnit
    <3>2. i \in RuleId /\ OtherWatch(i) \in {rules[i].w1, rules[i].w2} /\ OtherWatch(i) \in Lit
      BY <1>1, VisitFacts
    <3>3. IsUndef(OtherWatch(i))
      <4>1. ~HoldsIn(decisionmap, OtherWatch(i)) /\ ~HoldsIn(decisionmap, -OtherWatch(i))
        BY <1>1, <3>1, <3>2, TruthFacts DEF SkipRule
      <4>. QED BY <1>1, <3>2, <4>1, TruthFacts, SignFacts
    <3>4. PICK l \in Lit : l = OtherWatch(i)
      BY <3>2
    <3>5. level \in Nat /\ level >= 1 /\ i # 0 /\ Len(decisionq) \in Nat
      BY <1>1, <1>2, <3>2, SearchFacts, TypeFacts DEF Searching
    <3>6. IsUndef(l) /\ Push(l, i, level)
      BY <3>1, <3>3, <3>4
    <3>7. /\ Len(decisionq') = Len(decisionq) + 1 /\ decisionq'[Len(decisionq) + 1] = Decision(l, i)
          /\ \A k \in 1 .. Len(decisionq) : decisionq'[k] = decisionq[k]
          /\ \A m \in Lit : HoldsIn(decisionmap, m) =>
               HoldsIn(decisionmap', m) /\ LevIn(decisionmap', m) = LevIn(decisionmap, m)
      BY <1>1, <3>5, <3>6, PushKeeps
    <3> SUFFICES ASSUME NEW k \in 2 .. Len(decisionq'), decisionq'[k].why = 0
                 PROVE  k \in 2 .. Len(decisionq) /\ decisionq'[k] = decisionq[k] /\ DecisionLev(k)' = DecisionLev(k)
      OBVIOUS
    <3>8. k # Len(decisionq) + 1
      BY <3>5, <3>7 DEF Decision
    <3>9. k \in 2 .. Len(decisionq) /\ k \in 1 .. Len(decisionq) /\ decisionq'[k] = decisionq[k]
      BY <3>5, <3>7, <3>8
    <3>10. decisionq[k].p \in Lit /\ HoldsIn(decisionmap, decisionq[k].p)
      BY <1>1, <3>9, TypeFacts, TrailFacts
    <3>11. LevIn(decisionmap', decisionq[k].p) = LevIn(decisionmap, decisionq[k].p)
      BY <3>7, <3>10
    <3>12. DecisionLev(k)' = LevIn(decisionmap', decisionq'[k].p) /\ DecisionLev(k) = LevIn(decisionmap, decisionq[k].p)
      BY Zenon DEF DecisionLev, Lev, LevIn
    <3>. QED BY <3>9, <3>11, <3>12
  <2>2. CASE ~PropagateUnit
    <3>1. UNCHANGED <<decisionq, decisionmap>>
      BY <2>2 DEF Propagate, PropagateNext, PropagateDecisionDone, PropagateSkip, PropagateMove,
         PropagateConflict, PropagateEnd, trailVars
    <3>2. \A k : DecisionLev(k)' = DecisionLev(k)
      BY <3>1 DEF DecisionLev, Lev
    <3>. QED BY <3>1, <3>2
  <2>. QED BY <2>1, <2>2
<1>. QED BY <1>1, <1>2, <1>3, <1>4, ReasonKeeps DEF Active, Searching

\* analyze looks at the decisions; learning takes back those above a level.
LEMMA ReasonAnalyze ==
  ASSUME RunInv, Analyze, EngineStep
  PROVE  ReasonInv'
<1>1. TypeInv /\ TrailInv /\ ReasonInv
  BY DEF RunInv, EngineInv
<1>2. CASE ~Learn
  <2>1. pc \in {"analyze", "next"} /\ pc' \in {"analyze", "next", "learn"}
        /\ UNCHANGED <<inst, level, branches, decisionq, decisionmap>>
    BY <1>2 DEF Analyze, AnalyzeRule, AnalyzeDone, AnalyzeUip, AnalyzeResolve, ruleVars, trailVars
  <2>2. reason' = reason
    BY <2>1 DEF EngineStep
  <2>3. \A k : DecisionLev(k)' = DecisionLev(k)
    BY <2>1 DEF DecisionLev, Lev
  <2>. QED BY <1>1, <2>1, <2>2, <2>3, ReasonKeeps DEF Active, Resolving
<1>3. CASE Learn
  <2> DEFINE n == KeepLen(rlevel)
  <2>1. /\ pc = "learn" /\ pc' = "propagate" /\ level' = rlevel /\ UNCHANGED inst
        /\ rlevel \in Nat /\ 1 <= rlevel /\ rlevel < level /\ level \in Nat
    BY <1>1, <1>3, LearnFacts, TypeFacts DEF LocalsOK
  <2>2. /\ reason \in Seq(DecisionReasons) /\ Len(reason) = level + 1
        /\ \A k \in 2 .. Len(decisionq) :
             decisionq[k].why = 0 => Fits(decisionq[k].p, reason[DecisionLev(k) + 1])
        /\ \A b \in 1 .. Len(branches) : reason[branches[b].level + 2] \notin {"keep", "cleandeps"}
    BY <1>1, <2>1 DEF ReasonInv, Active, Resolving
  <2>3. reason' = Prefix(reason, rlevel + 1) /\ rlevel + 1 \in 0 .. Len(reason)
    BY <2>1, <2>2 DEF EngineStep, RevertedReason, Prefix
  <2>4. /\ reason' \in Seq(DecisionReasons) /\ Len(reason') = rlevel + 1
        /\ \A k \in 1 .. rlevel + 1 : reason'[k] = reason[k]
    BY <2>2, <2>3, PrefixSeq
  <2>5. /\ n \in 1 .. Len(decisionq) - 1 /\ Len(decisionq') = n + 1
        /\ \A k \in 1 .. Len(decisionq) : k <= n <=> DecisionLev(k) <= rlevel
        /\ decisionq'[n + 1] = Decision(uip, Len(rules) + 1)
        /\ \A k \in 1 .. n : decisionq'[k] = decisionq[k] /\ DecisionLev(k)' = DecisionLev(k)
    BY <1>1, <1>3, LearnRevert
  <2>6. Len(rules) \in Nat /\ Len(decisionq) \in Nat
    BY <1>1, TypeFacts
  <2> HIDE DEF n
  <2>7. ASSUME NEW k \in 2 .. Len(decisionq'), decisionq'[k].why = 0
        PROVE  Fits(decisionq[k].p, reason[DecisionLev(k) + 1])'
    <3>1. k # n + 1
      BY <2>5, <2>6, <2>7 DEF Decision
    <3>2. k \in 1 .. n /\ k \in 2 .. Len(decisionq) /\ k \in 1 .. Len(decisionq)
      BY <2>5, <2>6, <3>1
    <3>3. decisionq'[k] = decisionq[k] /\ DecisionLev(k)' = DecisionLev(k) /\ DecisionLev(k) <= rlevel
          /\ DecisionLev(k) \in Nat
      BY <1>1, <2>5, <3>2, TrailFacts
    <3>4. reason'[DecisionLev(k) + 1] = reason[DecisionLev(k) + 1]
      BY <2>1, <2>4, <3>3
    <3>5. Fits(decisionq[k].p, reason[DecisionLev(k) + 1])
      BY <2>2, <2>7, <3>2, <3>3
    <3>6. Installed' = Installed
      BY <2>1 DEF Installed
    <3>. QED BY <3>3, <3>4, <3>5, <3>6 DEF Fits
  <2>8. ASSUME NEW b \in 1 .. Len(branches')
        PROVE  reason'[branches'[b].level + 2] \notin {"keep", "cleandeps"}
    <3>1. branches' = PopBranches(branches, rlevel)
      BY <1>3 DEF Learn
    <3>2. /\ branches \in Seq(BranchRec) /\ Len(branches) \in Nat
          /\ \A a, c \in 1 .. Len(branches) : a < c => branches[a].level < branches[c].level
      BY <1>1, <2>1, TypeFacts, TrailFacts DEF TypeSearch, BranchesOK
    <3>3. PICK m \in 0 .. Len(branches) : /\ Len(branches') = m
                                          /\ \A k \in 1 .. m : branches'[k] = branches[k] /\ branches[k].level < rlevel
      BY <2>1, <3>1, <3>2, PopBranchesFacts
    <3>4. b \in 1 .. Len(branches) /\ branches'[b] = branches[b] /\ branches[b].level < rlevel
      BY <3>2, <3>3
    <3>7. branches[b] \in BranchRec
      BY <3>2, <3>4, ElementOfSeq
    <3>5. branches[b].level \in Nat
      BY <3>7 DEF BranchRec
    <3>6. branches[b].level + 2 \in 1 .. rlevel + 1
      BY <2>1, <3>4, <3>5
    <3>. QED BY <2>2, <2>4, <3>4, <3>6
  <2>. QED BY <2>1, <2>4, <2>7, <2>8 DEF ReasonInv
<1>. QED BY <1>2, <1>3

\* analyze_unsolvable walks, gives rules up and starts over, or fails.
LEMMA ReasonUnsolvable ==
  ASSUME RunInv, AnalyzeUnsolvable, EngineStep
  PROVE  ReasonInv'
<1>1. TypeInv /\ TrailInv /\ ReasonInv
  BY DEF RunInv, EngineInv
<1>2. pc = "unsolvable" /\ pc' \in {"unsolvable", "start", "failed"}
  BY DEF AnalyzeUnsolvable, UnsolvableWalk, UnsolvableWeak, UnsolvableUninstall, UnsolvableDisable,
         UnsolvableFail, RecordProblem, Proved, Reset
<1>3. reason \in Seq(DecisionReasons) /\ <<>> \in Seq(DecisionReasons)
  BY <1>1 DEF ReasonInv
<1>4. CASE pc' # "unsolvable"
  <2>1. reason' \in {<<>>, reason}
    BY <1>2 DEF EngineStep
  <2>. QED BY <1>2, <1>3, <1>4, <2>1 DEF ReasonInv, Active, Searching, Resolving
<1>5. CASE pc' = "unsolvable"
  <2>1. UNCHANGED <<inst, level, branches, decisionq, decisionmap>>
    BY <1>5 DEF AnalyzeUnsolvable, UnsolvableWalk, UnsolvableWeak, UnsolvableUninstall, UnsolvableDisable,
         UnsolvableFail, Reset, ruleVars, trailVars
  <2>2. reason' = reason
    BY <1>2, <1>5 DEF EngineStep
  <2>3. \A k : DecisionLev(k)' = DecisionLev(k)
    BY <2>1 DEF DecisionLev, Lev
  <2>. QED BY <1>1, <1>2, <1>5, <2>1, <2>2, <2>3, ReasonKeeps DEF Active
<1>. QED BY <1>4, <1>5

-----------------------------------------------------------------------------
(* The steps of the engine. *)

\* The rules become more, never less.
LEMMA RulesGrow ==
  ASSUME TypeInv, TypeInv', inst' = inst, UNCHANGED why \/ why' = Append(why, proof)
  PROVE  Len(rules) \in Nat /\ Len(rules') \in Nat /\ Len(rules) <= Len(rules')
<1>1. /\ Len(rules) = NBase + Len(why) /\ Len(rules) \in Nat /\ NBase \in Nat /\ why \in Seq(SUBSET RuleId)
      /\ Len(why) \in Nat
  BY TypeFacts DEF TypeRules
<1>2. Len(rules') = NBase' + Len(why') /\ Len(rules') \in Nat
  <2>1. Len(rules') = NBase' + Len(why') /\ rules' \in Seq(Rule)
    BY DEF TypeInv, TypeOK, TypeRules
  <2>. QED BY <2>1
<1>3. NBase' = NBase
  BY DEF NBase
<1>4. Len(why') \in {Len(why), Len(why) + 1}
  BY <1>1
<1>. QED BY <1>1, <1>2, <1>3, <1>4

\* Locals stay those of their phase.
LEMMA LocalsKept ==
  ASSUME inst' = inst, Len(rules) \in Nat, Len(rules') \in Nat, Len(rules) <= Len(rules'),
         NEW ph, NEW l, LocalsFit(ph, l)
  PROVE  LocalsFit(ph, l)'
<1>1. Installed' = Installed
  BY DEF Installed
<1>2. 1 .. Len(rules) + 1 \subseteq 1 .. Len(rules') + 1 /\ -1 .. Len(rules) \subseteq -1 .. Len(rules')
  OBVIOUS
<1>. QED BY <1>1, <1>2 DEF LocalsFit

\* A step of the engine learns at most one rule.
LEMMA EngineWhy == Engine => UNCHANGED why \/ why' = Append(why, proof)
BY DEF Engine, Assertions, MakeRuleDecisions, AssertLearntStatus, AssertDecide, AssertSkip, AssertDropLearnt,
       AssertUninstall, AssertConflict, AssertEnd, WeakDecide, WeakConflict, WeakEnd,
       Propagate, PropagateNext, PropagateDecisionDone, PropagateSkip, PropagateMove,
       PropagateUnit, PropagateConflict, PropagateEnd,
       Analyze, AnalyzeRule, AnalyzeDone, AnalyzeUip, AnalyzeResolve, Learn,
       AnalyzeUnsolvable, UnsolvableWalk, UnsolvableWeak, UnsolvableUninstall, UnsolvableDisable,
       UnsolvableFail, ruleVars

\* What the extras rely on survives the engine: nothing is added while an
\* erased package is propagated, and what an added one leads to is resolved.
LEMMA EngineExtras ==
  ASSUME RunInv, Engine, EngineInv', NEW ph, NEW l, ph = phase, l = loc
  PROVE  ExtrasFit(ph, l)'
<1>1. /\ TypeInv /\ TrailInv /\ WatchInv /\ LearnInv /\ TypeInv' /\ ExtrasFit(ph, l) /\ PhaseFits(ph)
      /\ pc # "decide" /\ pc # "done"
  BY EnginePc DEF RunInv, EngineInv, At, Asserting, Resolving
<1>2. ASSUME Calm PROVE Quiet /\ Calm' /\ (NoExtra => NoExtra')
  <2>1. Propagate /\ Consistent
    BY <1>1, <1>2, EnginePc DEF Calm
  <2>. QED BY <1>1, <2>1, QuietPropagate, NoExtraKept DEF Calm
<1>3. ASSUME Harmless PROVE Harmless' /\ disablerules' = disablerules
  <2>1. (Propagate \/ Analyze) /\ Satisfiable
    BY <1>1, <1>3, EnginePc DEF Harmless
  <2>. QED BY <1>1, <2>1, HarmlessStep DEF Harmless
<1>4. CASE ph = "cleandeps"
  BY <1>1, <1>2, <1>4 DEF ExtrasFit
<1>5. CASE ph = "weak"
  BY <1>1, <1>3, <1>5 DEF ExtrasFit
<1>6. CASE ph = "orphaned"
  BY <1>1, <1>2, <1>3, <1>6 DEF ExtrasFit
<1>7. CASE ph = "last"
  <2>1. Installed \subseteq Solvable
    BY <1>1, RunFacts
  <2>2. Installed' = Installed
    BY <1>1, <1>2, <1>7 DEF ExtrasFit, Quiet, Installed
  <2>. QED BY <1>1, <1>2, <1>7, <2>1, <2>2 DEF ExtrasFit, Quiet
<1>8. CASE ph \in {"choices", "end"}
  BY <1>1, <1>8 DEF ExtrasFit, PhaseFits
<1>. QED BY <1>4, <1>5, <1>6, <1>7, <1>8 DEF ExtrasFit

\* The main loop starts where the engine does.
LEMMA BeginAt ==
  ASSUME TypeInv', pc' \in {"start", "propagate"}, NEW ph \in {"begin", "loop"}, pc' = "start" => ph = "begin"
  PROVE  At(ph, NoLocals)'
<1>1. Len(inst'.recs) \in Nat
  <2>1. RunInstance(inst')
    BY RunInstancesAssumption DEF TypeInv, TypeOK, TypeRules
  <2>2. inst'.recs \in Seq(Solvable \X SUBSET inst'.extras)
    BY <2>1 DEF RunInstance
  <2>. QED BY <2>2
<1>2. NoLocals \in Locals /\ NoLocals.n = 0
  BY DEF NoLocals, Locals, Stages
<1>3. PhaseFits(ph)'
  BY DEF PhaseFits, Phases
<1>4. LocalsFit(ph, NoLocals)'
  BY <1>1, <1>2 DEF LocalsFit
<1>5. ExtrasFit(ph, NoLocals)'
  BY DEF ExtrasFit
<1>. QED BY <1>3, <1>4, <1>5 DEF At

\* The engine works below the phases.
LEMMA EngineRun == RunInv /\ EngineStep => Next /\ RunInv'
<1> SUFFICES ASSUME RunInv, EngineStep PROVE Next /\ RunInv'
  OBVIOUS
<1>1. Engine /\ Next
  BY DEF EngineStep, Engine, Next
<1>2. TypeInv /\ TrailInv /\ EngineInv'
  BY <1>1, EngineKept DEF RunInv, EngineInv
<1>3. inst' = inst
  BY <1>1, <1>2, NextBase DEF BaseKeeps
<1>4. TypeInv'
  BY <1>2 DEF EngineInv
<1>5. ReasonInv'
  BY <1>1, ReasonAssert, ReasonPropagate, ReasonAnalyze, ReasonUnsolvable DEF Engine
<1>6. systemlevel' \in Nat /\ inst'.broken = {} /\ Installed' = Installed
  BY <1>3 DEF RunInv, EngineStep, Installed
<1>7. CASE pc' = "start"
  <2>1. phase' = "begin" /\ loc' = NoLocals /\ installedpos' = IF phase = "installed" THEN loc.i ELSE installedpos
    BY <1>7 DEF EngineStep
  <2>2. installedpos' \in Installed \cup {0}
    BY <2>1, InstalledFacts DEF RunInv
  <2>3. At(phase, loc)'
    BY <1>4, <1>7, <2>1, BeginAt
  <2>. QED BY <1>1, <1>2, <1>5, <1>6, <2>2, <2>3 DEF RunInv
<1>8. CASE pc' # "start"
  <2>1. UNCHANGED <<phase, loc, installedpos>>
    BY <1>8 DEF EngineStep
  <2>2. PICK ph, l : ph = phase /\ l = loc
    OBVIOUS
  <2>3. LocalsFit(ph, l) /\ PhaseFits(ph)
    BY <2>2 DEF RunInv, At
  <2>4. LocalsFit(ph, l)'
    BY <1>1, <1>2, <1>3, <1>4, <2>3, EngineWhy, RulesGrow, LocalsKept
  <2>5. ExtrasFit(ph, l)'
    BY <1>1, <1>2, <2>2, EngineExtras
  <2>6. PhaseFits(ph)'
    <3>1. SystemPhases' = SystemPhases
      BY <1>3 DEF SystemPhases, Installed
    <3>2. pc' # "done" /\ pc # "done" /\ (pc' \in Asserting => pc \in Asserting \cup {"start"})
      BY <1>1, EnginePc DEF Asserting, Resolving
    <3>. QED BY <1>8, <2>3, <3>1, <3>2 DEF PhaseFits, Asserting
  <2>7. At(phase, loc)'
    BY <2>1, <2>2, <2>4, <2>5, <2>6 DEF At
  <2>8. installedpos' \in Installed' \cup {0}
    BY <1>6, <2>1 DEF RunInv
  <2>. QED BY <1>1, <1>2, <1>5, <1>6, <2>7, <2>8 DEF RunInv
<1>. QED BY <1>7, <1>8

-----------------------------------------------------------------------------
(* Taking decisions. *)

\* A free decision opens a level, and a branch that is added remembers the
\* level below it.
LEMMA PushReason ==
  ASSUME TypeInv, TrailInv, ReasonInv, pc = "decide", NEW p \in Lit, IsUndef(p), NEW flag,
         SetPropagateLearn(p, flag), NEW why_ \in DecisionReasons, Fits(p, why_),
         reason' = Append(reason, why_),
         \/ UNCHANGED branches
         \/ why_ \notin {"keep", "cleandeps"} /\ \E dq : branches' = Append(branches, Branch(dq, level))
  PROVE  ReasonInv'
<1>1. /\ level \in Nat /\ level >= 1 /\ Len(decisionq) \in Nat
      /\ branches \in Seq(BranchRec) /\ Len(branches) \in Nat
      /\ \A b \in 1 .. Len(branches) : branches[b].level < level
  BY SearchFacts, TypeFacts DEF Searching, TypeSearch
<1>2. /\ pc' = "propagate" /\ level' = level + 1 /\ inst' = inst /\ Push(p, 0, level + 1)
  BY DEF SetPropagateLearn, ruleVars
<1>3. /\ reason \in Seq(DecisionReasons) /\ Len(reason) = level + 1
      /\ \A k \in 2 .. Len(decisionq) :
           decisionq[k].why = 0 => Fits(decisionq[k].p, reason[DecisionLev(k) + 1])
      /\ \A b \in 1 .. Len(branches) : reason[branches[b].level + 2] \notin {"keep", "cleandeps"}
  BY DEF ReasonInv, Active, Searching
<1>4. /\ reason' \in Seq(DecisionReasons) /\ Len(reason') = level' + 1
      /\ reason'[level + 2] = why_
      /\ \A k \in 1 .. level + 1 : reason'[k] = reason[k]
  BY <1>1, <1>2, <1>3
<1>5. PICK lev \in Nat : lev = level + 1
  BY <1>1
<1>6. /\ Len(decisionq') = Len(decisionq) + 1 /\ decisionq'[Len(decisionq) + 1] = Decision(p, 0)
      /\ \A k \in 1 .. Len(decisionq) : decisionq'[k] = decisionq[k]
      /\ LevIn(decisionmap', p) = lev
      /\ \A m \in Lit : HoldsIn(decisionmap, m) =>
           HoldsIn(decisionmap', m) /\ LevIn(decisionmap', m) = LevIn(decisionmap, m)
  <2>1. lev >= 1 /\ Push(p, 0, lev)
    BY <1>1, <1>2, <1>5
  <2>2. PICK w : w = 0
    OBVIOUS
  <2>3. Push(p, w, lev)
    BY <2>1, <2>2
  <2>. QED BY <2>1, <2>2, <2>3, PushKeeps
<1>7. Installed' = Installed
  BY <1>2 DEF Installed
<1>8. \A k : DecisionLev(k)' = LevIn(decisionmap', decisionq'[k].p)
  BY Zenon DEF DecisionLev, Lev, LevIn
<1>9. ASSUME NEW k \in 2 .. Len(decisionq'), decisionq'[k].why = 0
      PROVE  Fits(decisionq[k].p, reason[DecisionLev(k) + 1])'
  <2>1. CASE k = Len(decisionq) + 1
    <3>1. decisionq'[k].p = p
      BY <1>6, <2>1 DEF Decision
    <3>2. DecisionLev(k)' = lev /\ lev + 1 = level + 2
      BY <1>1, <1>5, <1>6, <1>8, <3>1
    <3>. QED BY <1>4, <1>7, <3>1, <3>2 DEF Fits
  <2>2. CASE k # Len(decisionq) + 1
    <3>1. k \in 2 .. Len(decisionq) /\ k \in 1 .. Len(decisionq) /\ decisionq'[k] = decisionq[k]
      BY <1>1, <1>6, <2>2
    <3>2. decisionq[k].p \in Lit /\ HoldsIn(decisionmap, decisionq[k].p) /\ DecisionLev(k) \in Nat
          /\ DecisionLev(k) = LevIn(decisionmap, decisionq[k].p) /\ DecisionLev(k) <= level
      BY <3>1, TypeFacts, TrailFacts, SearchFacts DEF Searching
    <3>3. DecisionLev(k)' = DecisionLev(k)
      BY <1>6, <1>8, <3>1, <3>2
    <3>6. PICK n \in Nat : n = DecisionLev(k) /\ n <= level
      BY <3>2
    <3>7. n + 1 \in 1 .. level + 1
      BY <1>1, <3>6
    <3>4. reason'[DecisionLev(k) + 1] = reason[DecisionLev(k) + 1]
      BY <1>4, <3>6, <3>7
    <3>5. Fits(decisionq[k].p, reason[DecisionLev(k) + 1])
      BY <1>3, <1>9, <3>1
    <3>. QED BY <1>7, <3>1, <3>3, <3>4, <3>5 DEF Fits
  <2>. QED BY <2>1, <2>2
<1>10. \A b \in 1 .. Len(branches) : branches[b].level + 2 \in 1 .. level + 1
  <2> TAKE b \in 1 .. Len(branches)
  <2>1. branches[b] \in BranchRec
    BY <1>1, ElementOfSeq
  <2>2. branches[b].level \in Nat
    BY <2>1 DEF BranchRec
  <2>. QED BY <1>1, <2>2
<1>11. \A b \in 1 .. Len(branches') : reason'[branches'[b].level + 2] \notin {"keep", "cleandeps"}
  <2>1. CASE UNCHANGED branches
    BY <1>3, <1>4, <1>10, <2>1
  <2>2. CASE why_ \notin {"keep", "cleandeps"} /\ \E dq : branches' = Append(branches, Branch(dq, level))
    <3>1. PICK dq : branches' = Append(branches, Branch(dq, level))
      BY <2>2
    <3> SUFFICES ASSUME NEW b \in 1 .. Len(branches') PROVE reason'[branches'[b].level + 2] \notin {"keep", "cleandeps"}
      OBVIOUS
    <3>2. CASE b \in 1 .. Len(branches)
      <4>1. branches'[b] = branches[b]
        BY <1>1, <3>1, <3>2
      <4>. QED BY <1>3, <1>4, <1>10, <3>2, <4>1
    <3>3. CASE b \notin 1 .. Len(branches)
      <4>1. branches'[b] = Branch(dq, level)
        BY <1>1, <3>1, <3>3
      <4>2. branches'[b].level = level
        BY <4>1 DEF Branch
      <4>. QED BY <1>4, <2>2, <4>2
    <3>. QED BY <3>2, <3>3
  <2>. QED BY <2>1, <2>2
<1>. QED BY <1>2, <1>4, <1>9, <1>11 DEF ReasonInv

\* The locals only note the level of the decision.
LEMMA NotedFits ==
  ASSUME NEW ph, NEW l, NEW m, LocalsFit(ph, l), m = [l EXCEPT !.olevel = level], level \in Nat
  PROVE  LocalsFit(ph, m) /\ m.i = l.i /\ m.stage = l.stage /\ m.one = l.one
<1>1. l \in Locals
  BY DEF LocalsFit
<1>2. PICK n \in Int : n = level
  OBVIOUS
<1>3. m = [l EXCEPT !.olevel = n]
  BY <1>2
<1>4. /\ m \in Locals /\ m.i = l.i /\ m.stage = l.stage /\ m.one = l.one /\ m.n = l.n
      /\ m.postponed = l.postponed /\ m.dqmap = l.dqmap /\ m.list = l.list
  BY <1>1, <1>2, <1>3 DEF Locals
<1>. QED BY <1>4 DEF LocalsFit

\* Where a phase may install packages, and how: resolve_weak and
\* resolve_orphaned without disablerules, from rules that have a solution.
MayInstall(l, flag) ==
  /\ phase \in {"jobs", "focus", "installed", "deps", "weak", "orphaned"}
  /\ phase \in {"weak", "orphaned"} => Satisfiable /\ flag = FALSE
  /\ phase = "weak" => l.stage # "first"
  /\ phase = "orphaned" => l.one /\ l.stage = "first"

\* A phase installs a package.
LEMMA InstallKeeps ==
  ASSUME RunInv, Next, pc = "decide", NEW S, S \subseteq Lit, NEW dq \in Selections(S), NEW flag,
         NEW why_ \in DecisionReasons \ {"cleandeps"},
         why_ = "keep" => Len(dq) = 1 /\ dq[1] \in Installed,
         NEW l, Install(dq, flag, why_, l), LocalsFit(phase, l), MayInstall(l, flag)
  PROVE  RunInv'
<1>1. TypeInv /\ TrailInv /\ ReasonInv /\ EngineInv' /\ level \in Nat /\ WhyOlder /\ TypeInv'
  BY EngineKept, DecideLevel DEF RunInv, EngineInv, WatchInv
<1>2. SelectAndInstall(dq, flag) /\ reason' = Append(reason, why_) /\ UNCHANGED <<phase, systemlevel, installedpos>>
      /\ loc' = [l EXCEPT !.olevel = level]
  BY DEF Install, Because
<1>3. SetPropagateLearn(dq[1], flag)
      /\ branches' = IF Len(dq) > 1 THEN Append(branches, Branch(dq, level)) ELSE branches
  BY <1>2 DEF SelectAndInstall
<1>4. /\ UNCHANGED ruleVars /\ UNCHANGED disabled /\ pc' = "propagate" /\ disablerules' = flag
      /\ UNCHANGED <<inst, rules>>
  BY <1>3 DEF SetPropagateLearn, ruleVars
<1>5. dq[1] \in Lit /\ dq[1] > 0 /\ IsUndef(dq[1])
  BY SelectionsType, SelectionFacts DEF UndecidedOf
<1>6. ReasonInv'
  <2>1. PICK p \in Lit : p = dq[1]
    BY <1>5
  <2>2. p > 0 /\ IsUndef(p) /\ SetPropagateLearn(p, flag)
    BY <1>3, <1>5, <2>1
  <2>3. Fits(p, why_)
    <3>1. p \in Int
      BY LitFacts
    <3>. QED BY <2>1, <2>2, <3>1 DEF Fits
  <2>4. \/ UNCHANGED branches
        \/ why_ \notin {"keep", "cleandeps"} /\ \E s : branches' = Append(branches, Branch(s, level))
    <3>1. CASE Len(dq) > 1
      <4>1. why_ # "keep"
        <5>1. PICK n \in Nat : n = Len(dq)
          BY SelectionFacts
        <5>2. n # 1
          BY <3>1, <5>1
        <5>. QED BY <5>1, <5>2
      <4>. QED BY <1>3, <3>1, <4>1
    <3>2. CASE ~(Len(dq) > 1)
      BY <1>3, <3>2
    <3>. QED BY <3>1, <3>2
  <2>. QED BY <1>1, <1>2, <2>2, <2>3, <2>4, PushReason
<1>7. PICK ph, m : ph = phase /\ m = [l EXCEPT !.olevel = level]
  OBVIOUS
<1>8. LocalsFit(ph, m) /\ m.stage = l.stage /\ m.one = l.one
  BY <1>1, <1>7, NotedFits
<1>9. LocalsFit(ph, m)'
  <2>1. Len(rules) \in Nat
    BY <1>1, TypeFacts
  <2>. QED BY <1>4, <1>8, <2>1, LocalsKept
<1>10. PhaseFits(ph)'
  <2>1. SystemPhases' = SystemPhases
    BY <1>4 DEF SystemPhases, Installed
  <2>2. PhaseFits(ph) /\ ph # "end"
    BY <1>7 DEF RunInv, At, MayInstall
  <2>. QED BY <1>4, <2>1, <2>2 DEF PhaseFits
<1>11. ExtrasFit(ph, m)'
  <2>1. ph \in {"weak", "orphaned"} => Harmless' /\ ~disablerules'
    <3>1. ph \in {"weak", "orphaned"} => Satisfiable /\ flag = FALSE
      BY <1>7 DEF MayInstall
    <3>2. Satisfiable => Satisfiable'
      BY <1>1, <1>4, AlikeSame, AlikeKeeps
    <3>. QED BY <1>4, <3>1, <3>2 DEF Harmless
  <2>2. ph \notin {"cleandeps", "last", "choices", "end"} /\ (ph = "weak" => m.stage # "first")
        /\ (ph = "orphaned" => m.one /\ m.stage = "first")
    BY <1>7, <1>8 DEF MayInstall
  <2>. QED BY <2>1, <2>2 DEF ExtrasFit
<1>12. At(phase, loc)'
  BY <1>2, <1>7, <1>9, <1>10, <1>11 DEF At
<1>13. systemlevel' \in Nat /\ installedpos' \in Installed' \cup {0} /\ inst'.broken = {}
  BY <1>2, <1>4 DEF RunInv, Installed
<1>. QED BY <1>1, <1>6, <1>12, <1>13 DEF RunInv

\* Where a phase may erase p: from a consistent system.
MayErase(p, l) ==
  /\ Consistent
  /\ \/ phase = "cleandeps"
     \/ phase = "orphaned" /\ ~l.one /\ l.stage \in {"first", "drop"} /\ NoExtra
     \/ phase = "last" /\ NoExtra /\ \A o \in Installed : o <= l.i => decisionmap[o] # 0 \/ o = p

\* A phase erases a package.
LEMMA EraseKeeps ==
  ASSUME RunInv, Next, pc = "decide", NEW p \in Solvable, IsUndef(p),
         NEW why_ \in {"cleandeps", "orphan"},
         NEW l, Erase(p, why_, l), LocalsFit(phase, l), MayErase(p, l)
  PROVE  RunInv'
<1>1. TypeInv /\ TrailInv /\ ReasonInv /\ EngineInv' /\ level \in Nat /\ TypeInv'
  BY EngineKept, DecideLevel DEF RunInv, EngineInv
<1>2. SetPropagateLearn(-p, FALSE) /\ reason' = Append(reason, why_)
      /\ UNCHANGED <<phase, systemlevel, installedpos>> /\ UNCHANGED branches
      /\ loc' = [l EXCEPT !.olevel = level]
  BY DEF Erase, Because
<1>3. pc' = "propagate" /\ UNCHANGED <<inst, rules>>
  BY <1>2 DEF SetPropagateLearn, ruleVars
<1>4. ReasonInv'
  <2>1. -p \in Lit /\ p \in Nat /\ p # 0 /\ Pkg(-p) = Pkg(p) /\ -p \in Int
    BY LitFacts
  <2>2. PICK n \in Lit : n = -p
    BY <2>1
  <2>3. IsUndef(n)
    BY <2>1, <2>2 DEF IsUndef
  <2>4. n < 0 /\ ~(n > 0)
    BY <2>1, <2>2
  <2>5. Fits(n, why_)
    BY <2>4 DEF Fits
  <2>6. SetPropagateLearn(n, FALSE)
    BY <1>2, <2>2
  <2>7. why_ \in DecisionReasons
    BY DEF DecisionReasons
  <2>. QED BY <1>1, <1>2, <2>3, <2>5, <2>6, <2>7, PushReason
<1>5. Quiet /\ Consistent' /\ decisionmap'[p] # 0
  BY <1>1, <1>2, QuietErase DEF MayErase
<1>6. NoExtra => NoExtra'
  BY <1>1, <1>5, NoExtraKept
<1>7. PICK ph, m : ph = phase /\ m = [l EXCEPT !.olevel = level]
  OBVIOUS
<1>8. LocalsFit(ph, m) /\ m.stage = l.stage /\ m.one = l.one /\ m.i = l.i
  BY <1>1, <1>7, NotedFits
<1>9. LocalsFit(ph, m)'
  <2>1. Len(rules) \in Nat
    BY <1>1, TypeFacts
  <2>. QED BY <1>3, <1>8, <2>1, LocalsKept
<1>10. PhaseFits(ph)'
  <2>1. SystemPhases' = SystemPhases
    BY <1>3 DEF SystemPhases, Installed
  <2>2. PhaseFits(ph) /\ ph # "end"
    BY <1>7 DEF RunInv, At, MayErase
  <2>. QED BY <1>3, <2>1, <2>2 DEF PhaseFits
<1>11. ExtrasFit(ph, m)'
  <2>1. Calm'
    BY <1>3, <1>5 DEF Calm
  <2>2. CASE ph = "cleandeps"
    BY <2>1, <2>2 DEF ExtrasFit
  <2>3. CASE ph = "orphaned"
    <3>1. NoExtra /\ ~m.one /\ m.stage \in {"first", "drop"}
      BY <1>7, <1>8, <2>3 DEF MayErase
    <3>. QED BY <1>6, <2>1, <2>3, <3>1 DEF ExtrasFit
  <2>4. CASE ph = "last"
    <3>1. NoExtra /\ \A o \in Installed : o <= m.i => decisionmap[o] # 0 \/ o = p
      BY <1>7, <1>8, <2>4 DEF MayErase
    <3>2. Installed \subseteq Solvable /\ Installed' = Installed
      BY <1>1, <1>3, RunFacts DEF Installed
    <3>3. \A o \in Installed : o <= m.i => decisionmap'[o] # 0
      BY <1>5, <3>1, <3>2 DEF Quiet
    <3>. QED BY <1>6, <2>1, <2>4, <3>1, <3>2, <3>3 DEF ExtrasFit
  <2>. QED BY <1>7, <2>2, <2>3, <2>4 DEF MayErase
<1>12. At(phase, loc)'
  BY <1>2, <1>7, <1>9, <1>10, <1>11 DEF At
<1>13. systemlevel' \in Nat /\ installedpos' \in Installed' \cup {0} /\ inst'.broken = {}
  BY <1>2, <1>3 DEF RunInv, Installed
<1>. QED BY <1>1, <1>4, <1>12, <1>13 DEF RunInv

\* What a phase that decides relies on.
LEMMA DecideFacts ==
  ASSUME RunInv, pc = "decide"
  PROVE  /\ TypeInv /\ TrailInv /\ LocalsFit(phase, loc) /\ ExtrasFit(phase, loc) /\ loc \in Locals
         /\ RuleId \subseteq Nat /\ Len(rules) \in Nat
         /\ \A i \in RuleId : rules[i].lits \subseteq Lit
         /\ \A i \in 1 .. NBase : rules[i].lits = inst.rules[i].lits
BY TypeFacts DEF RunInv, EngineInv, At, LocalsFit, OutInv, BaseSame

\* A job rule is fulfilled by one of its undecided candidates.
LEMMA ResolveJobRulesRun == RunInv /\ ResolveJobRules => Next /\ RunInv'
<1> SUFFICES ASSUME RunInv, ResolveJobRules PROVE Next /\ RunInv'
  OBVIOUS
<1>1. pc = "decide" /\ phase = "jobs" /\ OpenJobs # {}
  BY DEF ResolveJobRules, Ready
<1>2. PICK i : i = Min(OpenJobs)
  OBVIOUS
<1>3. i \in inst.jobs /\ i \in Unfulfilled
  <2>1. OpenJobs \subseteq Nat
    BY <1>1, DecideFacts, RunFacts DEF OpenJobs
  <2>2. i \in OpenJobs
    BY <1>1, <1>2, <2>1, MinIn
  <2>. QED BY <2>2 DEF OpenJobs
<1>4. PICK l : l = [loc EXCEPT !.i = i]
  OBVIOUS
<1>5. PICK dq \in Selections(JobCandidates(i)) : Install(dq, inst.disablerules, "job", l)
  BY <1>2, <1>4 DEF ResolveJobRules
<1>6. i \in RuleId /\ i \in Nat /\ rules[i].lits \subseteq Lit
  BY <1>1, <1>3, DecideFacts DEF Unfulfilled, RuleId
<1>7. dq \in Selections(rules[i].lits)
  <2>1. UndecidedOf(JobCandidates(i)) \subseteq UndecidedOf(rules[i].lits)
    BY DEF JobCandidates, UndecidedOf, InstalledSet
  <2>. QED BY <1>5, <2>1, SelectionsMono
<1>8. Next
  BY <1>1, <1>3, <1>5, <1>7 DEF Next, Decide, DecideRule, Install
<1>9. LocalsFit(phase, l) /\ MayInstall(l, inst.disablerules)
  <2>1. loc \in Locals /\ loc.n <= Len(inst.recs)
    BY <1>1, DecideFacts DEF LocalsFit
  <2>2. l \in Locals /\ l.n = loc.n
    BY <1>4, <1>6, <2>1 DEF Locals
  <2>. QED BY <1>1, <2>1, <2>2 DEF LocalsFit, MayInstall
<1>10. "job" \in DecisionReasons
  BY DEF DecisionReasons
<1>11. RunInv'
  <2>1. PICK flag, why_ : flag = inst.disablerules /\ why_ = "job"
    OBVIOUS
  <2>2. PICK S : S = rules[i].lits
    OBVIOUS
  <2>3. S \subseteq Lit /\ dq \in Selections(S) /\ why_ \in DecisionReasons \ {"cleandeps"} /\ why_ # "keep"
    BY <1>6, <1>7, <1>10, <2>1, <2>2
  <2>4. Install(dq, flag, why_, l) /\ MayInstall(l, flag)
    BY <1>5, <1>9, <2>1
  <2>. QED BY <1>1, <1>8, <1>9, <2>3, <2>4, InstallKeeps
<1>. QED BY <1>8, <1>11

\* What resolve_installed may choose for an installed package.
LEMMA UpdatesAllowed ==
  ASSUME RunInv, pc = "decide", NEW p \in Installed
  PROVE  /\ inst.installed[p] \subseteq Lit /\ p \in Lit /\ p > 0
         /\ RuleOf(p) # 0 <=> (inst.updaterule[p] # 0 \/ inst.featurerule[p] # 0)
         /\ RuleOf(p) # 0 => UpdateCandidates(p) \subseteq inst.installed[p]
         /\ SpecialUpdaters(p) \subseteq UndecidedOf(inst.installed[p])
<1>1. TypeInv /\ \A i \in 1 .. NBase : rules[i].lits = inst.rules[i].lits
  BY DecideFacts
<1>2. /\ inst.installed[p] \subseteq Solvable /\ p \in Solvable
      /\ inst.updaterule[p] \in (1 .. NBase) \cup {0} /\ inst.featurerule[p] \in (1 .. NBase) \cup {0}
      /\ \A r \in {inst.updaterule[p], inst.featurerule[p]} \ {0} : inst.rules[r].lits \subseteq inst.installed[p]
      /\ p \in DOMAIN inst.special => inst.special[p] \subseteq inst.installed[p]
  BY <1>1, RunFacts
<1>3. RuleOf(p) \in {inst.updaterule[p], inst.featurerule[p]}
      /\ (RuleOf(p) # 0 <=> (inst.updaterule[p] # 0 \/ inst.featurerule[p] # 0))
  BY DEF RuleOf
<1>4. ASSUME RuleOf(p) # 0 PROVE UpdateCandidates(p) \subseteq inst.installed[p]
  <2>1. PICK r : r = RuleOf(p)
    OBVIOUS
  <2>2. r \in 1 .. NBase /\ inst.rules[r].lits \subseteq inst.installed[p]
    BY <1>2, <1>3, <1>4, <2>1
  <2>3. rules[r].lits \subseteq inst.installed[p]
    BY <1>1, <2>2
  <2>. QED BY <2>1, <2>3 DEF UpdateCandidates, UndecidedOf, Targeted
<1>5. SpecialUpdaters(p) \subseteq UndecidedOf(inst.installed[p])
  <2>1. Special(p) \subseteq inst.installed[p]
    BY <1>2 DEF Special
  <2>. QED BY <2>1 DEF SpecialUpdaters, UndecidedOf, Targeted
<1>6. inst.installed[p] \subseteq Lit /\ p \in Lit /\ p > 0
  BY <1>2, LitFacts DEF Solvable
<1>. QED BY <1>3, <1>4, <1>5, <1>6

\* resolve_installed decides among the package and its updates.
LEMMA InstalledDecides ==
  ASSUME RunInv, pc = "decide", phase = "installed", NEW p \in Installed, p = loc.i,
         NEW S \in {{p}, inst.installed[p]}, NEW dq \in Selections(S),
         NEW why_ \in {"update", "keep"}, why_ = "keep" => dq = <<p>>,
         NEW st \in {"special", "update", "keep"}, st = "special" => RuleOf(p) # 0,
         Install(dq, inst.disablerules, why_, [loc EXCEPT !.stage = st])
  PROVE  Next /\ RunInv'
<1>1. inst.installed[p] \subseteq Lit /\ p \in Lit /\ (RuleOf(p) # 0 <=> (inst.updaterule[p] # 0 \/ inst.featurerule[p] # 0))
  BY UpdatesAllowed
<1>2. S \subseteq Lit
  BY <1>1
<1>3. PICK flag : flag = inst.disablerules
  OBVIOUS
<1>4. PICK l : l = [loc EXCEPT !.stage = st]
  OBVIOUS
<1>5. Install(dq, flag, why_, l)
  BY <1>3, <1>4
<1>6. Next
  <2>1. SelectAndInstall(dq, inst.disablerules)
    BY <1>3, <1>5 DEF Install
  <2>2. dq \in Selections({p}) \cup Selections(inst.installed[p])
    OBVIOUS
  <2>. QED BY <2>1, <2>2 DEF Next, Decide, DecideInstalled, Installed
<1>7. LocalsFit(phase, l) /\ MayInstall(l, flag)
  <2>1. loc \in Locals /\ loc.n <= Cardinality(Installed)
    BY InstalledFacts
  <2>2. l \in Locals /\ l.n = loc.n /\ l.i = loc.i /\ l.stage = st
    BY <1>4, <2>1 DEF Locals, Stages
  <2>3. LocalsFit(phase, l)
    BY <1>1, <2>1, <2>2, InstalledFits
  <2>. QED BY <2>3 DEF MayInstall
<1>8. why_ \in DecisionReasons \ {"cleandeps"}
  BY DEF DecisionReasons
<1>9. why_ = "keep" => Len(dq) = 1 /\ dq[1] \in Installed
  OBVIOUS
<1>. QED BY <1>2, <1>5, <1>6, <1>7, <1>8, <1>9, InstallKeeps

\* resolve_installed updates a package, or keeps it.
LEMMA ResolveInstalledRun ==
  RunInv /\ (InstallSpecialUpdate \/ InstallUpdate \/ KeepInstalled) => Next /\ RunInv'
<1>1. ASSUME RunInv, InstallSpecialUpdate PROVE Next /\ RunInv'
  <2>1. PICK p \in Installed : Updating(p) /\ \E u \in SpecialUpdaters(p) :
          Install(<<u>>, inst.disablerules, "update", [loc EXCEPT !.stage = "special"])
    BY <1>1 DEF InstallSpecialUpdate
  <2>2. PICK u \in SpecialUpdaters(p) : Install(<<u>>, inst.disablerules, "update", [loc EXCEPT !.stage = "special"])
    BY <2>1
  <2>3. pc = "decide" /\ phase = "installed" /\ p = loc.i /\ RuleOf(p) # 0
    BY <2>1 DEF Updating, Visiting, Ready, SkipInstalled
  <2>4. u \in UndecidedOf(inst.installed[p])
    BY <1>1, <2>3, UpdatesAllowed
  <2>5. PICK dq, S, st, why_ : dq = <<u>> /\ S = inst.installed[p] /\ st = "special" /\ why_ = "update"
    OBVIOUS
  <2>6. dq \in Selections(S)
    BY <2>4, <2>5, SelectionsOne
  <2>7. Install(dq, inst.disablerules, why_, [loc EXCEPT !.stage = st])
    BY <2>2, <2>5
  <2>. QED BY <1>1, <2>3, <2>5, <2>6, <2>7, InstalledDecides
<1>2. ASSUME RunInv, InstallUpdate PROVE Next /\ RunInv'
  <2>1. PICK p \in Installed :
          /\ \/ Updating(p) /\ loc.stage = "first" /\ SpecialMayStay(p)
             \/ Visiting(p) /\ loc.stage = "special" /\ ~Retried
          /\ \E dq \in Selections(UpdateCandidates(p)) :
               Install(dq, inst.disablerules, "update", [loc EXCEPT !.stage = "update"])
    BY <1>2 DEF InstallUpdate
  <2>2. PICK dq \in Selections(UpdateCandidates(p)) : Install(dq, inst.disablerules, "update", [loc EXCEPT !.stage = "update"])
    BY <2>1
  <2>3. pc = "decide" /\ phase = "installed" /\ p = loc.i
    BY <2>1 DEF Updating, Visiting, Ready
  <2>4. RuleOf(p) # 0
    <3>1. CASE Updating(p)
      BY <3>1 DEF Updating, SkipInstalled
    <3>2. CASE loc.stage = "special"
      <4>1. LocalsFit(phase, loc)
        BY <1>2, <2>3, DecideFacts
      <4>2. inst.updaterule[p] # 0 \/ inst.featurerule[p] # 0
        BY <2>3, <3>2, <4>1 DEF LocalsFit
      <4>. QED BY <1>2, <2>3, <4>2, UpdatesAllowed
    <3>. QED BY <2>1, <3>1, <3>2
  <2>5. UndecidedOf(UpdateCandidates(p)) \subseteq UndecidedOf(inst.installed[p])
    BY <1>2, <2>3, <2>4, UpdatesAllowed DEF UndecidedOf
  <2>6. PICK S, st, why_ : S = inst.installed[p] /\ st = "update" /\ why_ = "update"
    OBVIOUS
  <2>7. dq \in Selections(S)
    BY <2>5, <2>6, SelectionsMono
  <2>8. Install(dq, inst.disablerules, why_, [loc EXCEPT !.stage = st])
    BY <2>2, <2>6
  <2>. QED BY <1>2, <2>3, <2>6, <2>7, <2>8, InstalledDecides
<1>3. ASSUME RunInv, KeepInstalled PROVE Next /\ RunInv'
  <2>1. PICK p \in Installed : AtKeep(p) /\ IsUndef(p)
                               /\ Install(<<p>>, inst.disablerules, "keep", [loc EXCEPT !.stage = "keep"])
    BY <1>3 DEF KeepInstalled
  <2>2. pc = "decide" /\ phase = "installed" /\ p = loc.i
    BY <2>1 DEF AtKeep, Visiting, Ready
  <2>3. p \in UndecidedOf({p})
    BY <1>3, <2>1, <2>2, UpdatesAllowed DEF UndecidedOf
  <2>4. PICK dq, S, st, why_ : dq = <<p>> /\ S = {p} /\ st = "keep" /\ why_ = "keep"
    OBVIOUS
  <2>5. dq \in Selections(S)
    BY <2>3, <2>4, SelectionsOne
  <2>6. Install(dq, inst.disablerules, why_, [loc EXCEPT !.stage = st])
    BY <2>1, <2>4
  <2>. QED BY <1>3, <2>2, <2>4, <2>5, <2>6, InstalledDecides
<1>. QED BY <1>1, <1>2, <1>3

\* A rule that needs a decision is not fulfilled.
LEMMA NeedsUnfulfilled ==
  ASSUME TypeInv, NEW i \in RuleId, NeedsDecision(i)
  PROVE  i \in Unfulfilled
<1>1. /\ i \notin disabled
      /\ IF Cardinality(rules[i].lits) <= 2
         THEN Cardinality(rules[i].lits) = 2 /\ \A l \in rules[i].lits : l > 0 /\ IsUndef(l)
         ELSE i \in Unfulfilled
  BY DEF NeedsDecision
<1>2. CASE Cardinality(rules[i].lits) = 2 /\ \A l \in rules[i].lits : l > 0 /\ IsUndef(l)
  <2>1. rules[i].w1 # 0
    <3>1. rules[i].w1 = 0 => rules[i].lits = {}
      BY TypeFacts DEF RuleShape
    <3>. QED BY <1>2, <3>1, FS_EmptySet
  <2>2. \A l \in rules[i].lits : ~IsTrue(l) /\ ~(l < 0)
    <3> SUFFICES ASSUME NEW l \in rules[i].lits PROVE ~IsTrue(l) /\ ~(l < 0)
      OBVIOUS
    <3>1. l \in Lit /\ l \in Int
      BY TypeFacts, LitFacts
    <3>2. l > 0 /\ decisionmap[l] = 0
      BY <1>2 DEF IsUndef, Pkg
    <3>. QED BY <3>1, <3>2 DEF IsTrue
  <2>3. ~Fulfilled(i)
    BY <2>2 DEF Fulfilled
  <2>. QED BY <1>1, <2>1, <2>3 DEF Unfulfilled, RuleId
<1>. QED BY <1>1, <1>2

\* Pruning to cleandeps packages leaves candidates of the rule.
LEMMA PrunedCandidates ==
  ASSUME NEW T, NEW S \in PruneToCleandeps(UndecidedOf(T))
  PROVE  UndecidedOf(S) \subseteq UndecidedOf(T)
<1>1. PICK C : C = UndecidedOf(T)
  OBVIOUS
<1>2. S \subseteq C
  <2> DEFINE clean == C \cap inst.cleandeps
             stay  == IF inst.updateall THEN {} ELSE clean \ inst.updatemap
             updates(p) == {o \in Targeted(p, IF Special(p) # {} THEN Special(p)
                                              ELSE IF inst.updaterule[p] = 0 THEN {}
                                              ELSE rules[inst.updaterule[p]].lits) : decisionmap[o] >= 0}
             more == clean \cup UNION {updates(p) : p \in clean}
  <2>1. S \in IF stay # {} THEN {{p} : p \in stay} ELSE IF clean # {} THEN {C \cap more} ELSE {C}
    BY <1>1 DEF PruneToCleandeps
  <2>2. stay \subseteq C
    OBVIOUS
  <2> HIDE DEF stay, clean, more
  <2>. QED BY <2>1, <2>2
<1>. QED BY <1>1, <1>2 DEF UndecidedOf

\* The scan goes on behind the rule i, all others to come.
LEMMA ScanFromFacts ==
  ASSUME NEW i \in Nat, NEW m \in Nat, NEW l, loc \in Locals,
         l = ScanOn(i, [[loc EXCEPT !.n = m] EXCEPT !.n = 0])
  PROVE  l \in Locals /\ l.i = i + 1 /\ l.n = 1 /\ l.postponed = loc.postponed
<1>1. PICK next \in Nat, many \in Nat : next = i + 1 /\ many = 1
  OBVIOUS
<1>2. PICK a : a = [[loc EXCEPT !.n = m] EXCEPT !.n = 0]
  OBVIOUS
<1>3. a = [loc EXCEPT !.n = 0]
  BY <1>2 DEF Locals
<1>9. a \in Locals
  BY <1>3 DEF Locals
<1>10. a.n = 0 /\ a.postponed = loc.postponed
  BY <1>3 DEF Locals
<1>4. a \in Locals /\ a.n = 0 /\ a.n + 1 = many /\ a.postponed = loc.postponed
  BY <1>1, <1>9, <1>10
<1>5. l = [a EXCEPT !.i = i + 1, !.n = @ + 1]
  BY <1>2 DEF ScanOn
<1>6. l = [a EXCEPT !.i = next, !.n = many]
  BY <1>1, <1>4, <1>5 DEF Locals
<1>7. l \in Locals
  BY <1>1, <1>4, <1>6 DEF Locals
<1>8. l.i = next /\ l.n = many /\ l.postponed = a.postponed
  BY <1>4, <1>6 DEF Locals
<1>. QED BY <1>1, <1>4, <1>7, <1>8

\* resolve_dependencies installs a candidate of a rule that needs one, or
\* puts the rule off.
LEMMA ResolveDependenciesRun == RunInv /\ ResolveDependencies => [Next]_vars /\ RunInv'
<1> SUFFICES ASSUME RunInv, ResolveDependencies PROVE [Next]_vars /\ RunInv'
  OBVIOUS
<1>1. DepsReady /\ Stops # {}
  BY DEF ResolveDependencies
<1>2. PICK i : i = RuleAt(loc.i + Min(Stops))
  OBVIOUS
<1>3. /\ pc = "decide" /\ phase \in {"focus", "deps"} /\ loc \in Locals /\ TypeInv /\ Len(rules) \in Nat
      /\ loc.postponed \in -1 .. Len(rules) /\ loc.n \in 1 .. Len(rules) + 1
      /\ i \in RuleId /\ NeedsDecision(i) /\ Min(Stops) \in 0 .. Len(rules) - loc.n
  BY <1>1, <1>2, ScanFacts, StopFacts
<1>4. PICK S \in PruneToCleandeps(UndecidedOf(rules[i].lits)) :
        \/ /\ loc.postponed >= 0
           /\ loc' = ScanOn(i, [[loc EXCEPT !.n = @ + Min(Stops)] EXCEPT !.postponed = IF @ = 0 THEN i ELSE @])
           /\ NoDecision /\ UNCHANGED <<phase, systemlevel, installedpos>>
        \/ \E dq \in Selections(S) :
             Install(dq, inst.disablerules, "resolve", ScanOn(i, [[loc EXCEPT !.n = @ + Min(Stops)] EXCEPT !.n = 0]))
  BY <1>2 DEF ResolveDependencies
<1>5. CASE /\ loc.postponed >= 0
           /\ loc' = ScanOn(i, [[loc EXCEPT !.n = @ + Min(Stops)] EXCEPT !.postponed = IF @ = 0 THEN i ELSE @])
           /\ NoDecision /\ UNCHANGED <<phase, systemlevel, installedpos>>
  <2>1. UNCHANGED vars /\ RunInv'
    BY <1>1, <1>2, <1>5, PutOffRun
  <2>. QED BY <2>1
<1>6. CASE \E dq \in Selections(S) :
             Install(dq, inst.disablerules, "resolve", ScanOn(i, [[loc EXCEPT !.n = @ + Min(Stops)] EXCEPT !.n = 0]))
  <2>1. PICK dq \in Selections(S) :
             Install(dq, inst.disablerules, "resolve", ScanOn(i, [[loc EXCEPT !.n = @ + Min(Stops)] EXCEPT !.n = 0]))
    BY <1>6
  <2>2. PICK m : m = loc.n + Min(Stops)
    OBVIOUS
  <2>3. m \in Nat
    BY <1>3, <2>2
  <2>4. PICK l : l = ScanOn(i, [[loc EXCEPT !.n = m] EXCEPT !.n = 0])
    OBVIOUS
  <2>5. l = ScanOn(i, [[loc EXCEPT !.n = @ + Min(Stops)] EXCEPT !.n = 0])
    BY <1>3, <2>2, <2>4 DEF Locals
  <2>6. PICK flag, why_, T : flag = inst.disablerules /\ why_ = "resolve" /\ T = rules[i].lits
    OBVIOUS
  <2>7. Install(dq, flag, why_, l)
    BY <2>1, <2>5, <2>6
  <2>8. T \subseteq Lit /\ i \in Nat /\ i \in 1 .. Len(rules)
    BY <1>3, <2>6, DecideFacts DEF RuleId
  <2>9. dq \in Selections(T)
    BY <2>6, PrunedCandidates, SelectionsMono
  <2>10. i \in Unfulfilled
    BY <1>3, NeedsUnfulfilled
  <2>11. Next
    BY <1>3, <2>6, <2>7, <2>9, <2>10 DEF Next, Decide, DecideRule, Install
  <2>12. l \in Locals /\ l.i = i + 1 /\ l.n = 1 /\ l.postponed = loc.postponed
    BY <1>3, <2>3, <2>4, <2>8, ScanFromFacts
  <2>13. LocalsFit(phase, l) /\ MayInstall(l, flag)
    BY <1>3, <2>8, <2>12 DEF LocalsFit, MayInstall
  <2>14. why_ \in DecisionReasons \ {"cleandeps"} /\ why_ # "keep"
    BY <2>6 DEF DecisionReasons
  <2>15. RunInv'
    BY <1>3, <2>7, <2>8, <2>9, <2>11, <2>13, <2>14, InstallKeeps
  <2>. QED BY <2>11, <2>15
<1>. QED BY <1>4, <1>5, <1>6

\* resolve_cleandeps or the final pass erase the next package nobody needs.
LEMMA EraseLeftOverRun == RunInv /\ EraseLeftOver => Next /\ RunInv'
<1> SUFFICES ASSUME RunInv, EraseLeftOver PROVE Next /\ RunInv'
  OBVIOUS
<1>1. PICK ph \in {"cleandeps", "last"} :
        /\ Ready(ph) /\ LeftOver(ph) # {}
        /\ Erase(Min(LeftOver(ph)), "cleandeps", [loc EXCEPT !.i = Min(LeftOver(ph))])
  BY DEF EraseLeftOver
<1>2. pc = "decide" /\ phase = ph
  BY <1>1 DEF Ready
<1>3. /\ TypeInv /\ loc \in Locals /\ ExtrasFit(ph, loc) /\ LocalsFit(ph, loc)
      /\ Installed \subseteq Solvable /\ Installed \subseteq Nat /\ inst.cleandeps \subseteq Installed
  BY <1>2, ExtrasFacts, DecideFacts
<1>4. PICK p : p = Min(LeftOver(ph))
  OBVIOUS
<1>5. LeftOver(ph) \subseteq UndecidedOf(Installed) /\ LeftOver(ph) \subseteq Nat
  BY <1>3 DEF LeftOver, UndecidedOf
<1>6. p \in LeftOver(ph) /\ \A o \in LeftOver(ph) : p <= o
  BY <1>1, <1>4, <1>5, MinIn
<1>7. p \in UndecidedOf(Installed) /\ p \in Installed /\ p \in Solvable /\ p \in Nat /\ IsUndef(p)
  BY <1>3, <1>5, <1>6 DEF UndecidedOf
<1>8. PICK l : l = [loc EXCEPT !.i = p]
  OBVIOUS
<1>9. PICK why_ : why_ = "cleandeps"
  OBVIOUS
<1>10. Erase(p, why_, l)
  BY <1>1, <1>4, <1>8, <1>9
<1>11. l \in Locals /\ l.i = p /\ l.n = loc.n
  BY <1>3, <1>7, <1>8 DEF Locals
<1>12. LocalsFit(phase, l)
  BY <1>2, <1>3, <1>11 DEF LocalsFit
<1>13. Consistent /\ (ph = "last" => NoExtra /\ \A o \in Installed : o <= loc.i => decisionmap[o] # 0)
  BY <1>3 DEF ExtrasFit, Calm
<1>14. MayErase(p, l)
  <2>1. ASSUME ph = "last", NEW o \in Installed, o <= p, decisionmap[o] = 0, o # p PROVE FALSE
    <3>1. o \in Nat /\ o # 0 /\ o > 0 /\ o \in Solvable
      BY <1>3, LitFacts
    <3>2. o \in UndecidedOf(Installed)
      BY <2>1, <3>1 DEF UndecidedOf, IsUndef, Pkg
    <3>3. ~(o <= loc.i)
      BY <1>13, <2>1
    <3>4. loc.i \in Nat
      BY <1>3 DEF Locals
    <3>5. o \notin 1 .. loc.i
      BY <3>3, <3>4
    <3>6. o \in LeftOver(ph)
      BY <2>1, <3>2, <3>5 DEF LeftOver
    <3>. QED BY <1>6, <1>7, <2>1, <3>1, <3>6
  <2>. QED BY <1>2, <1>11, <1>13, <2>1 DEF MayErase
<1>15. Next
  <2>1. SetPropagateLearn(-p, FALSE) /\ UNCHANGED branches
    BY <1>10 DEF Erase
  <2>. QED BY <1>2, <1>7, <1>13, <2>1 DEF Next, Decide, DecideErase, Installed
<1>. QED BY <1>2, <1>7, <1>9, <1>10, <1>12, <1>14, <1>15, EraseKeeps

\* resolve_orphaned erases the next orphan that is not kept.
LEMMA DropOrphanRun == RunInv /\ DropOrphan => Next /\ RunInv'
<1> SUFFICES ASSUME RunInv, DropOrphan PROVE Next /\ RunInv'
  OBVIOUS
<1>1. pc = "decide" /\ phase = "orphaned" /\ loc.stage = "drop" /\ OpenOrphans({}) # {}
  BY DEF DropOrphan, Ready
<1>2. /\ TypeInv /\ loc \in Locals /\ ExtrasFit(phase, loc) /\ LocalsFit(phase, loc)
      /\ inst.orphaned \in Seq(Installed \cap inst.extras) /\ Installed \subseteq Solvable
  BY <1>1, ExtrasFacts, DecideFacts
<1>3. PICK k : k = Min(OpenOrphans({}))
  OBVIOUS
<1>4. k \in OpenOrphans({}) /\ k \in DOMAIN inst.orphaned /\ k \in Nat
  <2>1. OpenOrphans({}) \subseteq DOMAIN inst.orphaned /\ DOMAIN inst.orphaned \subseteq Nat
    BY <1>2 DEF OpenOrphans
  <2>2. k \in OpenOrphans({})
    BY <1>1, <1>3, <2>1, MinIn
  <2>. QED BY <2>1, <2>2
<1>5. PICK p : p = inst.orphaned[k]
  OBVIOUS
<1>6. p \in Installed /\ p \in Solvable /\ IsUndef(p)
  BY <1>2, <1>4, <1>5 DEF OpenOrphans
<1>7. PICK l, why_ : l = [loc EXCEPT !.i = k] /\ why_ = "orphan"
  OBVIOUS
<1>8. Erase(p, why_, l)
  BY <1>3, <1>5, <1>7 DEF DropOrphan
<1>9. l \in Locals /\ l.i = k /\ l.n = loc.n /\ l.stage = loc.stage /\ l.one = loc.one
  BY <1>2, <1>4, <1>7 DEF Locals
<1>10. LocalsFit(phase, l)
  BY <1>1, <1>2, <1>9 DEF LocalsFit
<1>11. ~loc.one /\ Consistent /\ NoExtra
  BY <1>1, <1>2 DEF ExtrasFit, Calm
<1>12. MayErase(p, l)
  BY <1>1, <1>9, <1>11 DEF MayErase
<1>13. Next
  <2>1. SetPropagateLearn(-p, FALSE) /\ UNCHANGED branches
    BY <1>8 DEF Erase
  <2>2. p \in UndecidedOf(Installed)
    BY <1>6, LitFacts DEF UndecidedOf, Solvable
  <2>. QED BY <1>1, <1>11, <2>1, <2>2 DEF Next, Decide, DecideErase, Installed
<1>. QED BY <1>1, <1>6, <1>7, <1>8, <1>10, <1>12, <1>13, EraseKeeps

\* resolve_weak or resolve_orphaned install an extra.
LEMMA ExtraInstalled ==
  ASSUME RunInv, pc = "decide", phase \in {"weak", "orphaned"}, Consistent \/ ~disablerules,
         NEW dq \in Selections(inst.extras), NEW why_ \in {"weak", "orphan"},
         NEW l, Install(dq, FALSE, why_, l), LocalsFit(phase, l),
         phase = "weak" => l.stage # "first",
         phase = "orphaned" => l.one /\ l.stage = "first"
  PROVE  Next /\ RunInv'
<1>1. TypeInv /\ TrailInv /\ ExtrasFit(phase, loc) /\ inst.extras \subseteq Solvable
  BY ExtrasFacts
<1>2. inst.extras \subseteq Lit
  BY <1>1, LitFacts
<1>3. Satisfiable
  <2>1. Calm => Satisfiable
    BY <1>1, ConsistentSolves DEF Calm
  <2>. QED BY <1>1, <2>1 DEF ExtrasFit, Harmless
<1>4. PICK flag, S : flag = FALSE /\ S = inst.extras
  OBVIOUS
<1>5. Install(dq, flag, why_, l) /\ MayInstall(l, flag)
  BY <1>3, <1>4 DEF MayInstall
<1>6. Next
  <2>1. SelectAndInstall(dq, FALSE)
    BY <1>4, <1>5 DEF Install
  <2>. QED BY <2>1 DEF Next, Decide, DecideExtra
<1>7. why_ \in DecisionReasons \ {"cleandeps"} /\ why_ # "keep"
  BY DEF DecisionReasons
<1>. QED BY <1>2, <1>4, <1>5, <1>6, <1>7, InstallKeeps

\* resolve_weak installs the only package it may.
LEMMA WeakSingleRun == RunInv /\ WeakSingle => Next /\ RunInv'
<1> SUFFICES ASSUME RunInv, WeakSingle PROVE Next /\ RunInv'
  OBVIOUS
<1>1. PICK p \in Recommends \cup Supplements : Install(<<p>>, FALSE, "weak", [loc EXCEPT !.stage = "done"])
  BY DEF WeakSingle
<1>2. pc = "decide" /\ phase = "weak" /\ loc.stage = "first"
  BY DEF WeakSingle, Ready
<1>3. TypeInv /\ loc \in Locals /\ ExtrasFit(phase, loc) /\ LocalsFit(phase, loc)
  BY <1>2, ExtrasFacts, DecideFacts
<1>4. p \in UndecidedOf(inst.extras)
  BY <1>1, <1>3, WantedExtras
<1>5. PICK dq, why_, l : dq = <<p>> /\ why_ = "weak" /\ l = [loc EXCEPT !.stage = "done"]
  OBVIOUS
<1>6. dq \in Selections(inst.extras)
  BY <1>4, <1>5, SelectionsOne
<1>7. Install(dq, FALSE, why_, l)
  BY <1>1, <1>5
<1>8. /\ l \in Locals /\ l.stage = "done" /\ l.n = loc.n /\ l.dqmap = loc.dqmap /\ l.list = loc.list
  BY <1>3, <1>5 DEF Locals, Stages
<1>9. LocalsFit(phase, l)
  BY <1>2, <1>3, <1>8 DEF LocalsFit
<1>10. Consistent
  BY <1>2, <1>3 DEF ExtrasFit, Calm
<1>. QED BY <1>2, <1>5, <1>6, <1>7, <1>8, <1>9, <1>10, ExtraInstalled

\* resolve_weak installs the next supplemented package.
LEMMA WeakSupplementRun == RunInv /\ WeakSupplement => Next /\ RunInv'
<1> SUFFICES ASSUME RunInv, WeakSupplement PROVE Next /\ RunInv'
  OBVIOUS
<1>1. pc = "decide" /\ phase = "weak" /\ loc.stage = "supplements" /\ OpenSupplements # {}
  BY DEF WeakSupplement, Ready
<1>2. /\ TypeInv /\ loc \in Locals /\ ExtrasFit(phase, loc) /\ LocalsFit(phase, loc) /\ inst.extras \subseteq Solvable
  BY <1>1, ExtrasFacts, DecideFacts
<1>3. loc.list \in Seq(inst.extras) /\ loc.dqmap \subseteq inst.extras /\ loc.n <= Len(inst.recs)
  BY <1>1, <1>2 DEF LocalsFit
<1>4. PICK s : s = loc.list
  OBVIOUS
<1>5. s \in Seq(inst.extras) /\ Len(s) \in Nat
  BY <1>3, <1>4
<1>6. PICK k : k = Min(OpenSupplements)
  OBVIOUS
<1>7. k \in OpenSupplements /\ k \in 1 .. Len(s) /\ k \in Nat
  <2>1. OpenSupplements \subseteq 1 .. Len(s) /\ OpenSupplements \subseteq Nat
    BY <1>4, <1>5 DEF OpenSupplements
  <2>2. k \in OpenSupplements
    BY <1>1, <1>6, <2>1, MinIn
  <2>. QED BY <2>1, <2>2
<1>8. PICK t : t = SubSeq(s, k + 1, Len(s))
  OBVIOUS
<1>9. t \in Seq(inst.extras) /\ t \in Seq(Solvable)
  <2>1. PICK a \in Int, b \in Int : a = k + 1 /\ b = Len(s)
    BY <1>5, <1>7
  <2>2. \A i \in a .. b : s[i] \in inst.extras
    BY <1>5, <1>7, <2>1
  <2>3. SubSeq(s, a, b) \in Seq(inst.extras)
    BY <2>2, SubSeqProperties
  <2>4. t \in Seq(inst.extras)
    BY <1>8, <2>1, <2>3
  <2>. QED BY <1>2, <2>4
<1>10. PICK p : p = s[k]
  OBVIOUS
<1>11. p \in UndecidedOf(inst.extras)
  <2>1. p \in inst.extras
    BY <1>5, <1>7, <1>10
  <2>2. p > 0
    BY <1>2, <2>1, LitFacts DEF Solvable
  <2>3. IsUndef(p)
    BY <1>4, <1>7, <1>10 DEF OpenSupplements
  <2>. QED BY <2>1, <2>2, <2>3 DEF UndecidedOf
<1>12. PICK dq, why_, l : dq = <<p>> /\ why_ = "weak" /\ l = [loc EXCEPT !.list = t]
  OBVIOUS
<1>13. Install(dq, FALSE, why_, l)
  <2>1. Install(<<loc.list[k]>>, FALSE, "weak", [loc EXCEPT !.list = SubSeq(@, k + 1, Len(@))])
    BY <1>6 DEF WeakSupplement
  <2>2. [loc EXCEPT !.list = SubSeq(@, k + 1, Len(@))] = l
    BY <1>2, <1>4, <1>8, <1>12 DEF Locals
  <2>. QED BY <1>4, <1>10, <1>12, <2>1, <2>2
<1>14. l \in Locals /\ l.stage = loc.stage /\ l.n = loc.n /\ l.dqmap = loc.dqmap /\ l.list = t
  BY <1>2, <1>9, <1>12 DEF Locals
<1>15. LocalsFit(phase, l)
  BY <1>1, <1>3, <1>9, <1>14 DEF LocalsFit
<1>16. Consistent \/ ~disablerules
  BY <1>1, <1>2 DEF ExtrasFit, Calm
<1>17. dq \in Selections(inst.extras)
  BY <1>11, <1>12, SelectionsOne
<1>. QED BY <1>1, <1>12, <1>13, <1>14, <1>15, <1>16, <1>17, ExtraInstalled

\* Of the recommends that are still open one comes first.
LEMMA FirstOpen ==
  ASSUME RunInv, pc = "decide", phase = "weak", WeakOpen # {},
         NEW first, first = CHOOSE x \in WeakOpen : \A y \in WeakOpen :
                              x[1] < y[1] \/ (x[1] = y[1] /\ x[2] <= y[2])
  PROVE  first[1] \in Nat /\ first[2] \in DOMAIN inst.recs /\ first[2] \in Nat /\ first[2] <= Len(inst.recs)
<1>1. TypeInv /\ loc \in Locals
  BY ExtrasFacts
<1>2. inst.recs \in Seq(Solvable \X SUBSET inst.extras)
  BY <1>1, RunFacts
<1>3. PICK m \in Nat, c \in Nat : m = Len(inst.recs) /\ c = loc.decisioncount
  BY <1>1, <1>2 DEF Locals
<1>4. DOMAIN inst.recs = 1 .. m
  BY <1>2, <1>3
<1>5. WeakOpen \subseteq (1 .. c) \X (1 .. m)
  BY <1>3, <1>4 DEF WeakOpen
<1> DEFINE D == {x[1] : x \in WeakOpen}
           K == {x[2] : x \in {y \in WeakOpen : y[1] = Min(D)}}
<1>6. D \subseteq Nat /\ D # {}
  BY <1>5
<1>7. Min(D) \in D /\ \A y \in D : Min(D) <= y
  BY <1>6, MinIn
<1>8. K \subseteq Nat /\ K # {}
  <2>1. \A y \in WeakOpen : y[2] \in Nat
    BY <1>5
  <2>2. PICK y \in WeakOpen : y[1] = Min(D)
    BY <1>7
  <2>. QED BY <2>1, <2>2
<1>9. Min(K) \in K /\ \A y \in K : Min(K) <= y
  BY <1>8, MinIn
<1>10. PICK x \in WeakOpen : x[1] = Min(D) /\ x[2] = Min(K)
  BY <1>9
<1>11. \A y \in WeakOpen : x[1] < y[1] \/ (x[1] = y[1] /\ x[2] <= y[2])
  <2> SUFFICES ASSUME NEW y \in WeakOpen PROVE x[1] < y[1] \/ (x[1] = y[1] /\ x[2] <= y[2])
    OBVIOUS
  <2>1. x[1] <= y[1]
    BY <1>7, <1>10
  <2>2. y[1] = x[1] => x[2] <= y[2]
    BY <1>9, <1>10
  <2>3. x[1] \in Nat /\ y[1] \in Nat
    BY <1>5
  <2>. QED BY <2>1, <2>2, <2>3
<1> HIDE DEF D, K
<1>12. first \in WeakOpen
  BY <1>11
<1>13. first[1] \in 1 .. c /\ first[2] \in 1 .. m
  BY <1>5, <1>12
<1>. QED BY <1>3, <1>4, <1>13

\* resolve_weak installs the next recommended package.
LEMMA WeakRecommendRun == RunInv /\ WeakRecommend => Next /\ RunInv'
<1> SUFFICES ASSUME RunInv, WeakRecommend PROVE Next /\ RunInv'
  OBVIOUS
<1>1. pc = "decide" /\ phase = "weak" /\ loc.stage = "recommends" /\ WeakOpen # {}
  BY DEF WeakRecommend, WeakGoesOn, Ready
<1>2. /\ TypeInv /\ loc \in Locals /\ ExtrasFit(phase, loc) /\ LocalsFit(phase, loc)
  BY <1>1, ExtrasFacts, DecideFacts
<1>3. PICK first : first = CHOOSE x \in WeakOpen : \A y \in WeakOpen :
                              x[1] < y[1] \/ (x[1] = y[1] /\ x[2] <= y[2])
  OBVIOUS
<1>4. PICK d \in Nat, k \in Nat : d = first[1] /\ k = first[2] /\ k \in DOMAIN inst.recs /\ k <= Len(inst.recs)
  BY <1>1, <1>3, FirstOpen
<1>5. PICK dq \in Selections(OpenRecommends(k) \cap loc.dqmap) :
         Install(dq, FALSE, "weak", [loc EXCEPT !.i = d, !.n = k])
  BY <1>3, <1>4 DEF WeakRecommend
<1>6. dq \in Selections(inst.extras)
  <2>1. OpenRecommends(k) \subseteq inst.extras
    BY <1>2, <1>4, WantedExtras
  <2>2. UndecidedOf(OpenRecommends(k) \cap loc.dqmap) \subseteq UndecidedOf(inst.extras)
    BY <2>1 DEF UndecidedOf
  <2>. QED BY <1>5, <2>2, SelectionsMono
<1>7. PICK l, why_ : l = [loc EXCEPT !.i = d, !.n = k] /\ why_ = "weak"
  OBVIOUS
<1>8. Install(dq, FALSE, why_, l)
  BY <1>5, <1>7
<1>9. l \in Locals /\ l.n = k /\ l.stage = loc.stage /\ l.dqmap = loc.dqmap /\ l.list = loc.list
  BY <1>2, <1>7 DEF Locals
<1>10. LocalsFit(phase, l)
  BY <1>1, <1>2, <1>4, <1>9 DEF LocalsFit
<1>11. Consistent \/ ~disablerules
  BY <1>1, <1>2 DEF ExtrasFit, Calm
<1>12. l.stage # "first" /\ why_ \in {"weak", "orphan"} /\ phase \in {"weak", "orphaned"} /\ phase # "orphaned"
  BY <1>1, <1>7, <1>9
<1>. QED BY <1>1, <1>6, <1>8, <1>10, <1>11, <1>12, ExtraInstalled

\* resolve_orphaned keeps the next orphan.
LEMMA KeepOrphanRun == RunInv /\ KeepOrphan => Next /\ RunInv'
<1> SUFFICES ASSUME RunInv, KeepOrphan PROVE Next /\ RunInv'
  OBVIOUS
<1>1. pc = "decide" /\ phase = "orphaned" /\ loc.stage = "first" /\ OpenOrphans(inst.droporphaned) # {}
  BY DEF KeepOrphan, Ready
<1>2. /\ TypeInv /\ loc \in Locals /\ ExtrasFit(phase, loc) /\ LocalsFit(phase, loc)
      /\ inst.orphaned \in Seq(Installed \cap inst.extras) /\ Installed \subseteq Solvable
  BY <1>1, ExtrasFacts, DecideFacts
<1>3. PICK k : k = Min(OpenOrphans(inst.droporphaned))
  OBVIOUS
<1>4. k \in OpenOrphans(inst.droporphaned) /\ k \in DOMAIN inst.orphaned /\ k \in Nat
  <2>1. OpenOrphans(inst.droporphaned) \subseteq DOMAIN inst.orphaned /\ DOMAIN inst.orphaned \subseteq Nat
    BY <1>2 DEF OpenOrphans
  <2>2. k \in OpenOrphans(inst.droporphaned)
    BY <1>1, <1>3, <2>1, MinIn
  <2>. QED BY <2>1, <2>2
<1>5. PICK p : p = inst.orphaned[k]
  OBVIOUS
<1>6. p \in inst.extras /\ p \in Solvable /\ IsUndef(p)
  BY <1>2, <1>4, <1>5 DEF OpenOrphans
<1>7. p \in UndecidedOf(inst.extras)
  BY <1>6, LitFacts DEF UndecidedOf, Solvable
<1>8. PICK dq, l, why_ : dq = <<p>> /\ l = [loc EXCEPT !.i = k, !.one = TRUE] /\ why_ = "orphan"
  OBVIOUS
<1>9. dq \in Selections(inst.extras)
  BY <1>7, <1>8, SelectionsOne
<1>10. Install(dq, FALSE, why_, l)
  BY <1>3, <1>5, <1>8 DEF KeepOrphan
<1>11. l \in Locals /\ l.n = loc.n /\ l.stage = loc.stage /\ l.one
  BY <1>2, <1>4, <1>8 DEF Locals
<1>12. LocalsFit(phase, l)
  BY <1>1, <1>2, <1>11 DEF LocalsFit
<1>13. Consistent \/ ~disablerules
  BY <1>1, <1>2 DEF ExtrasFit, Calm
<1>14. l.stage = "first" /\ why_ \in {"weak", "orphan"} /\ phase \in {"weak", "orphaned"} /\ phase # "weak"
  BY <1>1, <1>8, <1>11
<1>. QED BY <1>1, <1>9, <1>10, <1>11, <1>12, <1>13, <1>14, ExtraInstalled

\* Without rules of orphans left out nothing is installed to repair them.
LEMMA NoOrphanDep == RunInv => ~InstallOrphanDep
<1> SUFFICES ASSUME RunInv, InstallOrphanDep PROVE FALSE
  OBVIOUS
<1>1. pc = "decide" /\ phase = "orphaned" /\ loc.stage = "repair"
  BY DEF InstallOrphanDep, Ready
<1>2. ExtrasFit(phase, loc)
  BY <1>1, ExtrasFacts
<1>. QED BY <1>1, <1>2 DEF ExtrasFit

-----------------------------------------------------------------------------
(* Choice rules, the solution callback and the minimization. *)

\* The candidates of a branch.
LEMMA UntriedFacts ==
  ASSUME TypeInv
  PROVE  /\ DOMAIN branches = 1 .. Len(branches) /\ Len(branches) \in Nat
         /\ \A b \in 1 .. Len(branches) : \E m \in Nat :
              DOMAIN branches[b].cands = 1 .. m /\ Untried(b) \subseteq 1 .. m
<1>1. branches \in Seq(BranchRec)
  BY TypeFacts DEF TypeSearch
<1>2. ASSUME NEW b \in 1 .. Len(branches)
      PROVE  \E m \in Nat : DOMAIN branches[b].cands = 1 .. m /\ Untried(b) \subseteq 1 .. m
  <2>1. branches[b] \in BranchRec
    BY <1>1, ElementOfSeq
  <2>2. PICK c \in Seq(Solvable) : c = branches[b].cands
    BY <2>1 DEF BranchRec
  <2>3. PICK m \in Nat : DOMAIN c = 1 .. m
    BY <2>2
  <2>. QED BY <2>2, <2>3 DEF Untried
<1>. QED BY <1>1, <1>2

\* The minimization takes a candidate that was not tried.
LEMMA BetterFacts ==
  ASSUME NEW b, Untried(b) \subseteq Nat
  PROVE  Better(b) \subseteq Untried(b)
<1> DEFINE installed == {j \in Untried(b) : decisionmap[branches[b].cands[j]] > branches[b].level}
           wanted    == {j \in Untried(b) : inst.favor[branches[b].cands[j]] >= 0 /\ IsRecommended(branches[b].cands[j])}
<1>1. \/ Better(b) = {}
      \/ installed # {} /\ Better(b) = {Min(installed)}
      \/ wanted # {} /\ Better(b) = {Min(wanted)}
  BY DEF Better
<1>2. installed # {} => Min(installed) \in installed
  BY MinIn
<1>3. wanted # {} => Min(wanted) \in wanted
  BY MinIn
<1>4. installed \subseteq Untried(b) /\ wanted \subseteq Untried(b)
  OBVIOUS
<1> HIDE DEF installed, wanted
<1>. QED BY <1>1, <1>2, <1>3, <1>4

\* The branch that is taken next has a candidate that was not tried.
LEMMA NextBranchFacts ==
  ASSUME TypeInv, NEW x \in NextBranch
  PROVE  x[1] \in 1 .. Len(branches) /\ x[2] \in DOMAIN branches[x[1]].cands \ branches[x[1]].tried
<1>1. PICK n \in Nat : n = Len(branches) /\ DOMAIN branches = 1 .. n
  BY UntriedFacts
<1>2. ASSUME NEW b \in 1 .. n PROVE Untried(b) \subseteq Nat /\ \E m \in Nat : Untried(b) \subseteq 0 .. m
  <2>1. PICK m \in Nat : Untried(b) \subseteq 1 .. m
    BY <1>1, UntriedFacts
  <2>. QED BY <2>1
<1>3. CASE inst.callback
  <2> DEFINE open == {b \in DOMAIN branches : Untried(b) # {}}
             b == Max(open)
             run == {j \in Untried(b) : j .. Max(Untried(b)) \subseteq Untried(b)}
  <2>1. open # {} /\ x = <<b, Min(run)>>
    BY <1>3 DEF NextBranch, CallbackBranch
  <2>2. open \subseteq 0 .. n
    BY <1>1
  <2>3. b \in open
    BY <2>1, <2>2, MaxIn
  <2>4. b \in 1 .. n /\ Untried(b) # {}
    BY <1>1, <2>3
  <2> HIDE DEF b, open
  <2>5. PICK m \in Nat : Untried(b) \subseteq 0 .. m
    BY <1>2, <2>4
  <2>6. Max(Untried(b)) \in Untried(b)
    BY <2>4, <2>5, MaxIn
  <2>7. PICK k \in Nat : k = Max(Untried(b)) /\ k \in Untried(b)
    BY <2>5, <2>6
  <2>8. k .. k = {k}
    OBVIOUS
  <2>9. k \in run
    BY <2>7, <2>8
  <2>10. run \subseteq Nat /\ run # {} /\ run \subseteq Untried(b)
    BY <2>5, <2>9
  <2> HIDE DEF run
  <2>11. Min(run) \in Untried(b)
    BY <2>10, MinIn
  <2>12. x[1] = b /\ x[2] = Min(run)
    BY <2>1
  <2>. QED BY <1>1, <2>4, <2>11, <2>12 DEF Untried
<1>4. CASE ~inst.callback
  <2> DEFINE open == {b \in DOMAIN branches : Better(b) # {}}
             b == Min(open)
  <2>1. open # {} /\ x = <<b, Min(Better(b))>>
    BY <1>4 DEF NextBranch, MinimizingBranch
  <2>2. open \subseteq Nat
    BY <1>1
  <2>3. b \in open
    BY <2>1, <2>2, MinIn
  <2>4. b \in 1 .. n /\ Better(b) # {}
    BY <1>1, <2>3
  <2> HIDE DEF b, open
  <2>5. Untried(b) \subseteq Nat
    BY <1>2, <2>4
  <2>6. Better(b) \subseteq Untried(b)
    BY <2>5, BetterFacts
  <2>7. Min(Better(b)) \in Untried(b)
    BY <2>4, <2>5, <2>6, MinIn
  <2>8. x[1] = b /\ x[2] = Min(Better(b))
    BY <2>1
  <2>. QED BY <1>1, <2>4, <2>7, <2>8 DEF Untried
<1>. QED BY <1>3, <1>4

\* The level of the branch gets another candidate for the same reason.
LEMMA TakeBranchReason ==
  ASSUME TypeInv, TrailInv, ReasonInv, pc = "decide", NEW b \in 1 .. Len(branches),
         NEW j \in DOMAIN branches[b].cands, TakeBranchTo(b, j),
         reason' = SubSeq(reason, 1, branches[b].level + 2)
  PROVE  ReasonInv'
<1>1. PICK l \in Nat, p \in Lit : l = branches[b].level /\ p = branches[b].cands[j] /\ p > 0
  <2>1. branches[b] \in BranchRec /\ branches[b].cands[j] \in Lit
    BY TakeBranchFacts
  <2>2. branches[b].level \in Nat /\ branches[b].cands[j] \in Solvable
    BY <2>1 DEF BranchRec
  <2>3. branches[b].cands[j] > 0
    BY <2>2, LitFacts DEF Solvable
  <2>. QED BY <2>1, <2>2, <2>3
<1>2. /\ l >= 1 /\ l < level /\ level \in Nat
      /\ CandidatesOpen(branches[b], decisionmap)
      /\ Len(branches') = b
      /\ \A k \in 1 .. b - 1 : branches'[k] = branches[k] /\ branches[k].level < l
      /\ branches'[b].level = l
  BY <1>1, TakeBranchFacts, SearchFacts DEF Searching
<1>3. LevIn(decisionmap, p) = 0 \/ LevIn(decisionmap, p) > l
  BY <1>1, <1>2 DEF CandidatesOpen
<1>4. /\ RevertAndPush(l, p, 0, l + 1) /\ level' = l + 1 /\ pc' = "propagate"
      /\ UNCHANGED inst
  BY <1>1 DEF TakeBranchTo, ruleVars
<1>5. PICK w \in Nat : w = 0
  OBVIOUS
<1>a. PICK lev \in Nat : lev = l + 1
  BY <1>1
<1>b. PICK top \in Nat : top = l + 2
  BY <1>1
<1> DEFINE n == KeepLen(l)
<1>6. /\ n \in 1 .. Len(decisionq) - 1 /\ Len(decisionq') = n + 1
      /\ \A k \in 1 .. Len(decisionq) : k <= n <=> DecisionLev(k) <= l
      /\ decisionq'[n + 1] = Decision(p, w)
      /\ \A k \in 1 .. n : decisionq'[k] = decisionq[k] /\ DecisionLev(k)' = DecisionLev(k)
      /\ DecisionLev(Len(decisionq))' = lev
  <2>1. RevertAndPush(l, p, w, lev) /\ lev >= l
        /\ IF w = 0 THEN l < lev ELSE lev = l /\ \E k \in 1 .. Len(decisionq) : DecisionLev(k) = l
    BY <1>1, <1>a, <1>4, <1>5
  <2>a. pc \in Searching \cup Resolving
    BY DEF Searching
  <2>2. w # 0 => /\ p \in rules[w].lits
                 /\ \A m \in rules[w].lits \ {p} : m \in Lit /\ Falsified(m) /\ LevIn(decisionmap, m) <= l
    BY <1>5
  <2>3. Reasons(decisionq, rules)
    BY TrailFacts DEF TrailFull
  <2>4. l \in Nat /\ l >= 1 /\ l < level /\ p \in Lit
    BY <1>1, <1>2
  <2>5. /\ n \in 1 .. Len(decisionq) - 1
        /\ \A k \in 1 .. Len(decisionq) : k <= n <=> DecisionLev(k) <= l
        /\ Len(decisionq') = n + 1
        /\ decisionq'[n + 1] = Decision(p, w)
        /\ \A k \in 1 .. n : decisionq'[k] = decisionq[k] /\ DecisionLev(k)' = DecisionLev(k)
        /\ DecisionLev(Len(decisionq))' = lev
    BY <1>3, <2>1, <2>a, <2>2, <2>3, <2>4, RevertPush
  <2>. QED BY <2>5
<1> HIDE DEF n
<1>7. /\ reason \in Seq(DecisionReasons) /\ Len(reason) = level + 1
      /\ \A k \in 2 .. Len(decisionq) :
           decisionq[k].why = 0 => Fits(decisionq[k].p, reason[DecisionLev(k) + 1])
      /\ \A c \in 1 .. Len(branches) : reason[branches[c].level + 2] \notin {"keep", "cleandeps"}
  BY DEF ReasonInv, Active, Searching
<1>8. reason' = Prefix(reason, top) /\ top \in 0 .. Len(reason)
  BY <1>1, <1>2, <1>b, <1>7 DEF Prefix
<1>9. /\ reason' \in Seq(DecisionReasons) /\ Len(reason') = top
      /\ \A k \in 1 .. top : reason'[k] = reason[k]
  <2>1. reason \in Seq(DecisionReasons)
    BY <1>7
  <2>. QED BY <1>8, <2>1, PrefixSeq
<1>c. \A d \in Nat : d < l => d + 2 \in 1 .. top
  BY <1>1, <1>b
<1>d. \A d \in Nat : d <= l => d + 1 \in 1 .. top
  BY <1>1, <1>b
<1>10. reason'[top] \notin {"keep", "cleandeps"}
  BY <1>1, <1>b, <1>7, <1>9
<1>11. Len(decisionq) \in Nat /\ branches \in Seq(BranchRec) /\ Len(branches) \in Nat
  BY TypeFacts DEF TypeSearch
<1>12. Installed' = Installed
  BY <1>4 DEF Installed
<1>13. ASSUME NEW k \in 2 .. Len(decisionq'), decisionq'[k].why = 0
       PROVE  Fits(decisionq[k].p, reason[DecisionLev(k) + 1])'
  <2>1. CASE k = n + 1
    <3>1. decisionq'[k].p = p
      BY <1>6, <2>1 DEF Decision
    <3>2. DecisionLev(k)' = lev
      BY <1>6, <2>1
    <3>4. ~(p < 0)
      BY <1>1, LitFacts
    <3>3. DecisionLev(k)' + 1 = top
      BY <1>1, <1>a, <1>b, <3>2
    <3>. QED BY <1>1, <1>10, <3>1, <3>3, <3>4, Zenon DEF Fits
  <2>2. CASE k # n + 1
    <3>1. k \in 1 .. n /\ k \in 2 .. Len(decisionq) /\ k \in 1 .. Len(decisionq)
      BY <1>6, <1>11, <2>2
    <3>2. decisionq'[k] = decisionq[k] /\ DecisionLev(k)' = DecisionLev(k) /\ DecisionLev(k) <= l
          /\ DecisionLev(k) \in Nat
      BY <1>6, <3>1, TrailFacts
    <3>3. PICK d \in Nat : d = DecisionLev(k)
      BY <3>2
    <3>6. d + 1 \in 1 .. top
      BY <1>d, <3>2, <3>3
    <3>4. reason'[d + 1] = reason[d + 1]
      BY <1>9, <3>6
    <3>5. Fits(decisionq[k].p, reason[DecisionLev(k) + 1])
      BY <1>7, <1>13, <3>1, <3>2
    <3>. QED BY <1>12, <3>2, <3>3, <3>4, <3>5 DEF Fits
  <2>. QED BY <2>1, <2>2
<1>14. ASSUME NEW c \in 1 .. Len(branches')
       PROVE  reason'[branches'[c].level + 2] \notin {"keep", "cleandeps"}
  <2>1. CASE c = b
    BY <1>2, <1>b, <1>10, <2>1
  <2>2. CASE c # b
    <3>1. c \in 1 .. b - 1 /\ c \in 1 .. Len(branches)
      BY <1>2, <1>11, <2>2
    <3>2. branches'[c] = branches[c] /\ branches[c].level < l
      BY <1>2, <3>1
    <3>3. branches[c] \in BranchRec
      BY <1>11, <3>1, ElementOfSeq
    <3>4. PICK m \in Nat : m = branches[c].level
      BY <3>3 DEF BranchRec
    <3>5. branches[c].level + 2 \in 1 .. top
      BY <1>c, <3>2, <3>4
    <3>. QED BY <1>7, <1>9, <3>1, <3>2, <3>5
  <2>. QED BY <2>1, <2>2
<1>15. Len(reason') = level' + 1
  BY <1>1, <1>b, <1>4, <1>9
<1>. QED BY <1>4, <1>9, <1>13, <1>14, <1>15 DEF ReasonInv

\* The callback or the minimization ask for another candidate.
LEMMA RunTakeBranchRun == RunInv /\ RunTakeBranch => Next /\ RunInv'
<1> SUFFICES ASSUME RunInv, RunTakeBranch PROVE Next /\ RunInv'
  OBVIOUS
<1>1. /\ pc = "decide" /\ phase = "choices" /\ phase' = "loop" /\ loc' = NoLocals
      /\ UNCHANGED <<systemlevel, installedpos>>
  BY DEF RunTakeBranch, Ready
<1>2. PICK x \in NextBranch : TakeBranchTo(x[1], x[2]) /\ reason' = SubSeq(reason, 1, branches[x[1]].level + 2)
  BY DEF RunTakeBranch
<1>3. /\ TypeInv /\ TrailInv /\ ReasonInv /\ EngineInv /\ At(phase, loc)
      /\ systemlevel \in Nat /\ installedpos \in Installed \cup {0} /\ inst.broken = {}
  BY DEF RunInv, EngineInv
<1>4. x[1] \in 1 .. Len(branches) /\ x[2] \in DOMAIN branches[x[1]].cands \ branches[x[1]].tried
  BY <1>2, <1>3, NextBranchFacts
<1>5. Consistent
  BY <1>1, <1>3 DEF At, ExtrasFit
<1>6. Next
  BY <1>1, <1>2, <1>4, <1>5 DEF Next, Decide, TakeBranch
<1>7. EngineInv' /\ TypeInv'
  <2>1. EngineInv'
    BY <1>3, <1>6, EngineKept
  <2>. QED BY <2>1 DEF EngineInv
<1>8. ReasonInv'
  BY <1>1, <1>2, <1>3, <1>4, TakeBranchReason
<1>9. pc' = "propagate" /\ inst' = inst
  BY <1>2 DEF TakeBranchTo, ruleVars
<1>10. At("loop", NoLocals)'
  BY <1>7, <1>9, BeginAt
<1>11. At(phase, loc)'
  BY <1>1, <1>10 DEF At, PhaseFits, LocalsFit, ExtrasFit
<1>12. Installed' = Installed
  BY <1>9 DEF Installed
<1>. QED BY <1>1, <1>3, <1>6, <1>7, <1>8, <1>9, <1>11, <1>12 DEF RunInv

\* Choice rules that are not needed are given up, and everything starts over.
LEMMA RestartRun == RunInv /\ RestartWithoutChoices => Next /\ RunInv'
<1> SUFFICES ASSUME RunInv, RestartWithoutChoices PROVE Next /\ RunInv'
  OBVIOUS
<1>1. /\ pc = "decide" /\ phase = "choices" /\ phase' = "begin" /\ loc' = NoLocals /\ reason' = <<>>
      /\ UNCHANGED <<systemlevel, installedpos, inst>> /\ pc' = "start"
  BY DEF RestartWithoutChoices, Ready, Reset, ruleVars
<1>2. /\ TypeInv /\ EngineInv /\ At(phase, loc)
      /\ systemlevel \in Nat /\ installedpos \in Installed \cup {0} /\ inst.broken = {}
  BY DEF RunInv, EngineInv
<1>3. Consistent
  BY <1>1, <1>2 DEF At, ExtrasFit
<1>4. Next
  BY <1>1, <1>3 DEF Next, Decide, DropChoiceRules, RestartWithoutChoices
<1>5. EngineInv' /\ TypeInv'
  <2>1. EngineInv'
    BY <1>2, <1>4, EngineKept
  <2>. QED BY <2>1 DEF EngineInv
<1>6. ReasonInv'
  BY <1>1 DEF ReasonInv, Active, Searching, Resolving
<1>7. At("begin", NoLocals)'
  BY <1>1, <1>5, BeginAt
<1>8. At(phase, loc)'
  BY <1>1, <1>7 DEF At, PhaseFits, LocalsFit, ExtrasFit
<1>9. Installed' = Installed
  BY <1>1 DEF Installed
<1>. QED BY <1>1, <1>2, <1>4, <1>5, <1>6, <1>8, <1>9 DEF RunInv

\* The solver is done.
LEMMA RunFinishRun == RunInv /\ RunFinish => Next /\ RunInv'
<1> SUFFICES ASSUME RunInv, RunFinish PROVE Next /\ RunInv'
  OBVIOUS
<1>1. /\ pc = "decide" /\ phase = "choices" /\ phase' = "end" /\ pc' = "done"
      /\ UNCHANGED <<ruleVars, disabled, trailVars, level, branches, disablerules,
                     systemlevel, installedpos, loc, reason>>
  BY DEF RunFinish, Ready
<1>2. /\ TypeInv /\ EngineInv /\ ReasonInv /\ At(phase, loc)
      /\ systemlevel \in Nat /\ installedpos \in Installed \cup {0} /\ inst.broken = {}
  BY DEF RunInv, EngineInv
<1>3. Consistent /\ NoExtra /\ UndecidedOf(Installed) = {}
  BY <1>1, <1>2 DEF At, ExtrasFit
<1>4. Next
  BY <1>1, <1>3 DEF Next, Decide, Finish, RunFinish, Installed
<1>5. EngineInv' /\ TypeInv'
  <2>1. EngineInv'
    BY <1>2, <1>4, EngineKept
  <2>. QED BY <2>1 DEF EngineInv
<1>6. /\ inst' = inst /\ disabled' = disabled /\ decisionmap' = decisionmap /\ decisionq' = decisionq
      /\ level' = level /\ branches' = branches /\ reason' = reason /\ rules' = rules
  BY <1>1 DEF ruleVars, trailVars
<1>7. ReasonInv'
  <2>1. \A k : DecisionLev(k)' = DecisionLev(k)
    BY <1>6 DEF DecisionLev, Lev
  <2>. QED BY <1>1, <1>2, <1>6, <2>1, ReasonKeeps DEF Active, Searching
<1>8. NoExtra'
  BY <1>2, <1>3, <1>5, <1>6, NoExtraKept DEF Quiet
<1>9. Installed' = Installed
  BY <1>6 DEF Installed
<1>10. At(phase, loc)'
  <2>1. LocalsFit("choices", loc)
    BY <1>1, <1>2 DEF At
  <2>2. LocalsFit(phase, loc)'
    BY <1>1, <1>6, <2>1 DEF LocalsFit
  <2>3. PhaseFits(phase)'
    BY <1>1 DEF PhaseFits, Phases
  <2>4. ExtrasFit(phase, loc)'
    BY <1>1, <1>8 DEF ExtrasFit
  <2>. QED BY <2>2, <2>3, <2>4 DEF At
<1>. QED BY <1>1, <1>2, <1>4, <1>5, <1>6, <1>7, <1>9, <1>10 DEF RunInv

\* Nothing happens.
LEMMA RunStutter == RunInv /\ UNCHANGED allVars => UNCHANGED vars /\ RunInv'
<1> SUFFICES ASSUME RunInv, UNCHANGED allVars PROVE UNCHANGED vars /\ RunInv'
  OBVIOUS
<1>1. NoDecision /\ UNCHANGED <<phase, loc, systemlevel, installedpos>> /\ inst' = inst
  BY DEF NoDecision, allVars, runVars, vars, ruleVars
<1>2. At(phase, loc) /\ systemlevel \in Nat /\ installedpos \in Installed \cup {0}
  BY DEF RunInv
<1>3. PICK ph, l : ph = phase /\ l = loc
  OBVIOUS
<1>. QED BY <1>1, <1>2, <1>3, SilentKeeps

-----------------------------------------------------------------------------
(* The theorems. *)

\* The phases start where the engine does.
LEMMA RunInitInv == RunInit /\ NoBrokenOrphans => RunInv
<1> SUFFICES ASSUME RunInit, NoBrokenOrphans PROVE RunInv
  OBVIOUS
<1>1. /\ Init /\ phase = "begin" /\ systemlevel = 1 /\ installedpos = 0 /\ loc = NoLocals /\ reason = <<>>
  BY DEF RunInit
<1>2. EngineInv
  BY <1>1, InitType, InitTrail, InitWatch, InitLearn, InitOut DEF EngineInv
<1>3. TypeInv /\ inst \in Instances /\ pc = "start" /\ inst.broken = {}
  BY <1>1, <1>2 DEF EngineInv, Init, NoBrokenOrphans
<1>4. ReasonInv
  BY <1>1, <1>3 DEF ReasonInv, Active, Searching, Resolving
<1>5. inst.recs \in Seq(Solvable \X SUBSET inst.extras)
  BY <1>3, RunFacts
<1>6. Len(inst.recs) \in Nat
  BY <1>5
<1>7. NoLocals \in Locals /\ NoLocals.n = 0
  BY DEF NoLocals, Locals, Stages
<1>8. At(phase, loc)
  <2>1. PhaseFits(phase)
    BY <1>1, <1>3 DEF PhaseFits, Phases
  <2>2. LocalsFit(phase, loc)
    BY <1>1, <1>6, <1>7 DEF LocalsFit
  <2>3. ExtrasFit(phase, loc)
    BY <1>1 DEF ExtrasFit
  <2>. QED BY <2>1, <2>2, <2>3 DEF At
<1>. QED BY <1>1, <1>2, <1>3, <1>4, <1>8 DEF RunInv

\* Each step of the phases that decides is a step of the engine.
LEMMA RunStep == RunInv /\ [RunNext]_allVars => [Next]_vars /\ RunInv'
<1> SUFFICES ASSUME RunInv, [RunNext]_allVars PROVE [Next]_vars /\ RunInv'
  OBVIOUS
<1>1. CASE EngineStep
  BY <1>1, EngineRun
<1>2. CASE Loop \/ JobsDone \/ DependenciesPostponed \/ DependenciesDone \/ PhaseTrouble \/ EraseDone
  BY <1>2, LoopRun, JobsDoneRun, PostponedRun, DepsDoneRun, TroubleRun, EraseDoneRun
<1>3. CASE ResolveJobRules \/ ResolveDependencies \/ EraseLeftOver
  BY <1>3, ResolveJobRulesRun, ResolveDependenciesRun, EraseLeftOverRun
<1>4. CASE ResolveInstalled
  BY <1>4, InstalledRetryRun, InstalledSkipRun, ResolveInstalledRun, PassDoneRun DEF ResolveInstalled
<1>5. CASE ResolveWeak
  BY <1>5, WeakNothingRun, WeakSingleRun, WeakStartRun, WeakSupplementRun, WeakSupplementsDoneRun,
     WeakRecommendRun, ExtrasDoneRun DEF ResolveWeak
<1>6. CASE ResolveOrphaned
  BY <1>6, KeepOrphanRun, DropOrphansStartRun, DropOrphanRun, OrphansRepairRun, NoOrphanDep,
     ExtrasDoneRun DEF ResolveOrphaned
<1>7. CASE RestartWithoutChoices \/ RunTakeBranch \/ RunFinish
  BY <1>7, RestartRun, RunTakeBranchRun, RunFinishRun
<1>8. CASE RunTerminated \/ UNCHANGED allVars
  BY <1>8, RunStutter DEF RunTerminated
<1>. QED BY <1>1, <1>2, <1>3, <1>4, <1>5, <1>6, <1>7, <1>8 DEF RunNext

\* The locals have their types and the reasons are those of the levels.
LEMMA RunGives == RunInv => RunInvariant
<1> SUFFICES ASSUME RunInv PROVE RunTypeOK /\ ReasonFits
  BY DEF RunInvariant
<1>1. PhaseFits(phase) /\ LocalsFit(phase, loc) /\ ReasonInv /\ loc \in Locals
  BY DEF RunInv, At, LocalsFit
<1>2. phase \in Phases /\ systemlevel \in Nat /\ installedpos \in Installed \cup {0}
  BY <1>1 DEF RunInv, PhaseFits
<1>3. /\ loc.n \in Nat /\ loc.dqmap \subseteq Solvable /\ loc.list \in Seq(Solvable) /\ loc.orig \in Nat
  BY <1>1 DEF Locals
<1>4. loc.n <= ScanLimit
  BY <1>1 DEF LocalsFit, ScanLimit
<1>5. ScanLimit \in Nat
  <2>1. TypeInv
    BY DEF RunInv, EngineInv
  <2>2. Len(rules) \in Nat /\ Cardinality(Installed) \in Nat /\ inst.recs \in Seq(Solvable \X SUBSET inst.extras)
    BY <2>1, TypeFacts, RunFacts
  <2>3. Len(inst.recs) \in Nat
    BY <2>2
  <2>. QED BY <2>2, <2>3 DEF ScanLimit
<1>6. loc.n \in 0 .. ScanLimit
  BY <1>3, <1>4, <1>5
<1>7. RunTypeOK
  BY <1>1, <1>2, <1>3, <1>6 DEF RunTypeOK, ReasonInv
<1>8. ReasonFits
  BY <1>1 DEF ReasonInv, ReasonFits, Fits, Active, Searching
<1>. QED BY <1>7, <1>8

\* The phases do what they are for.
LEMMA PhasesGive == RunInv => PhasesRight
<1> SUFFICES ASSUME RunInv PROVE ExtrasHarmless /\ ConsistentSystem /\ WeakComplete
  BY DEF PhasesRight
<1>1. PhaseFits(phase) /\ ExtrasFit(phase, loc)
  BY DEF RunInv, At
<1>2. ExtrasHarmless
  BY <1>1 DEF ExtrasHarmless, ExtrasFit, Calm, Harmless, Resolving
<1>3. ConsistentSystem
  BY <1>1 DEF ConsistentSystem, ExtrasFit, Calm, Ready
<1>4. WeakComplete
  BY <1>1 DEF WeakComplete, ExtrasFit, PhaseFits, NoExtra
<1>. QED BY <1>2, <1>3, <1>4

\* The phases are a correct user of the engine: each decision they take is
\* one module Sat allows, whatever they learn and take back, for every rule
\* set without the dependencies of orphans.
THEOREM PhasesImplementSat == RunSpec /\ NoBrokenOrphans => ImplementsSat
<1>1. RunInit => Init
  BY DEF RunInit
<1>. QED BY <1>1, RunInitInv, RunStep, PTL DEF RunSpec, ImplementsSat, Spec

\* solver_run_sat keeps its locals and the reasons of its decisions in step
\* with the decisions.
THEOREM RunInvariantHolds == RunSpec /\ NoBrokenOrphans => []RunInvariant
BY RunInitInv, RunStep, RunGives, PTL DEF RunSpec

\* Every rule is fulfilled when the extras begin, no extra leads to a
\* problem, and no wanted one is left out.
THEOREM PhasesAreRight == RunSpec /\ NoBrokenOrphans => []PhasesRight
BY RunInitInv, RunStep, PhasesGive, PTL DEF RunSpec

=============================================================================
