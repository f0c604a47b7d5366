------------------------------ MODULE SolverRun ------------------------------
(***************************************************************************)
(* solver_run_sat of src/src/solver.c: the main loop and its phases        *)
(* (resolve_jobrules, resolve_installed, resolve_dependencies,             *)
(* resolve_cleandeps, resolve_weak, resolve_orphaned, the final pass, the  *)
(* choice rules and the minimization), which choose the decisions the      *)
(* engine of module Sat propagates and learns from.  A phase goes on only  *)
(* after its last decision has been propagated; what it does then depends  *)
(* on the level it comes back at.  Which of several candidates is best is  *)
(* left open (policy.c), and solver_check_cleandeps_mistakes is left to    *)
(* the model of cleandeps.c: here it finds no mistake.                     *)
(***************************************************************************)
EXTENDS Sat

(***************************************************************************)
(* What an instance has besides the rules:                                 *)
(*   jobs         the rules jobrules..jobrules_end                         *)
(*   orupdate     the job rules whose job has SOLVER_ORUPDATE              *)
(*   updaterule, featurerule   installed package -> its rule, 0 if empty   *)
(*   updateall, updatemap, noupdate, cleandeps  the maps of that name      *)
(*   special      specialupdaters: installed package -> packages           *)
(*   targets      update_targets: installed package -> packages            *)
(*   recs         the recommends, in order: package and candidates         *)
(*   supps        supplements: package -> packages that pull it in         *)
(*   blocked      <<b, p>>: b installed keeps resolve_weak away from p     *)
(*   favor        favormap; sticky: packages that replace an installed one *)
(*   orphaned     the queue of orphans; droporphaned the map               *)
(*   broken       brokenorphanrules                                        *)
(*   doweak       the argument; focus the SOLVER_FLAG_FOCUS that is set    *)
(*   callback     whether there is a solution_callback                     *)
(***************************************************************************)
RunInstance(I) ==
  LET packages == DOMAIN I.installed
      base     == 1 .. Len(I.rules) IN
  /\ I.jobs \subseteq base /\ I.orupdate \subseteq I.jobs
  /\ \A f \in {I.updaterule, I.featurerule} : f \in [packages -> base \cup {0}]
  /\ I.updateall \in BOOLEAN /\ I.doweak \in BOOLEAN /\ I.callback \in BOOLEAN
  /\ \A S \in {I.updatemap, I.noupdate, I.cleandeps, I.droporphaned} : S \subseteq packages
  /\ \A f \in {I.special, I.targets} : DOMAIN f \subseteq packages
  /\ \A p \in packages : \A r \in {I.updaterule[p], I.featurerule[p]} \ {0} :
        I.rules[r].lits \subseteq I.installed[p]
  /\ \A p \in DOMAIN I.special : I.special[p] \subseteq I.installed[p]
  /\ \A p \in DOMAIN I.targets : I.targets[p] \subseteq Solvable
  /\ I.recs \in Seq(Solvable \X SUBSET I.extras)
  /\ DOMAIN I.supps \subseteq I.extras
  /\ \A p \in DOMAIN I.supps : I.supps[p] \subseteq Solvable
  /\ I.orphaned \in Seq(packages \cap I.extras)
  /\ I.broken \subseteq base
  /\ \A r \in I.broken : {l \in I.rules[r].lits : l > 0} \ packages \subseteq I.extras
  /\ I.focus \in {"none", "installed", "best", "new"}

ASSUME RunInstancesAssumption == \A I \in Instances : RunInstance(I)

\* A decision has at least one candidate.
ASSUME OneChoiceAssumption == MaxChoices >= 1

VARIABLES
  phase,        \* the function solver_run_sat is in
  systemlevel,  \* the level below which jobs and installed packages are redone
  installedpos, \* where resolve_installed starts, 0 at the beginning
  loc,          \* the locals of the current phase
  reason        \* decisionq_reason: why each level was opened

runVars == <<phase, systemlevel, installedpos, loc, reason>>
allVars == <<vars, runVars>>

(***************************************************************************)
(* orig      level at the start of the phase                               *)
(* olevel    level before the last decision                                *)
(* i, n      position of the scan, and how many were looked at             *)
(* stage     the part of the function                                      *)
(* pass, passlevel, needpass2   of resolve_installed                       *)
(* postponed of resolve_dependencies; dqmap, decisioncount of resolve_weak *)
(* list      packages still to be decided; one: installedone               *)
(***************************************************************************)
NoLocals == [orig |-> 0, olevel |-> 0, i |-> 0, n |-> 0, stage |-> "", pass |-> 0,
             passlevel |-> 0, needpass2 |-> FALSE, postponed |-> 0, dqmap |-> {},
             decisioncount |-> 0, list |-> <<>>, one |-> FALSE]

-----------------------------------------------------------------------------
(* The main loop. *)

Ready(ph) == pc = "decide" /\ phase = ph

Installed == DOMAIN inst.installed
InstalledSet(S) == S \cap Installed

\* The phases run while level < systemlevel.
SystemPhases ==
  CASE inst.focus = "installed" -> IF Installed = {} THEN <<"jobs">> ELSE <<"installed", "jobs">>
    [] inst.focus # "installed" /\ Installed = {} -> <<"jobs">>
    [] inst.focus \in {"best", "new"} /\ Installed # {} -> <<"jobs", "focus", "installed">>
    [] OTHER -> <<"jobs", "installed">>

StartPass == IF inst.updateall THEN 2 ELSE IF inst.updatemap # {} THEN 0 ELSE 1

Start(ph) ==
  [NoLocals EXCEPT
     !.orig = level, !.passlevel = level,
     !.i = CASE ph = "installed" -> IF installedpos = 0 THEN Min(Installed) ELSE installedpos
             [] ph \in {"focus", "deps"} -> 1
             [] OTHER -> 0,
     !.n = IF ph \in {"focus", "deps"} THEN 1 ELSE 0,
     !.stage = "first",
     !.pass = IF ph = "installed" THEN StartPass ELSE 0]

Goto(ph) == phase' = ph /\ loc' = Start(ph)

\* What a step of the phases that takes no decision leaves alone.
NoDecision == UNCHANGED <<vars, reason>>

Loop ==
  /\ \/ /\ Ready("begin")
        /\ systemlevel' = level + 1 /\ Goto(Head(SystemPhases))
     \/ /\ Ready("loop") /\ level < systemlevel
        /\ Goto(Head(SystemPhases)) /\ UNCHANGED systemlevel
     \/ /\ Ready("loop") /\ level >= systemlevel
        /\ Goto("deps") /\ UNCHANGED systemlevel
  /\ NoDecision /\ UNCHANGED installedpos

\* A system phase is through: go on with the next, or with the dependencies.
LeaveSystemPhase(ph) ==
  LET k == CHOOSE k \in DOMAIN SystemPhases : SystemPhases[k] = ph
  IN  IF k < Len(SystemPhases) THEN Goto(SystemPhases[k + 1]) /\ systemlevel' = level + 1
                               ELSE Goto("deps") /\ systemlevel' = level

Trouble == level < loc.orig

BackToLoop(ph) ==
  /\ Ready(ph) /\ Goto("loop")
  /\ NoDecision /\ UNCHANGED <<systemlevel, installedpos>>

-----------------------------------------------------------------------------
(* Taking decisions: phases hand a free decision to the engine. *)

Because(why_) == reason' = Append(reason, why_)

Install(dq, flag, why_, l) ==
  /\ SelectAndInstall(dq, flag) /\ Because(why_)
  /\ loc' = [l EXCEPT !.olevel = level]
  /\ UNCHANGED <<phase, systemlevel, installedpos>>

Erase(p, why_, l) ==
  /\ SetPropagateLearn(-p, FALSE) /\ Because(why_)
  /\ loc' = [l EXCEPT !.olevel = level]
  /\ UNCHANGED <<branches, phase, systemlevel, installedpos>>

\* The engine goes on.  When it restarts (solver_reset) the phase returns to
\* the main loop with level 0; resolve_installed remembers where it was.
Engine == Assertions \/ Propagate \/ Analyze \/ AnalyzeUnsolvable

RevertedReasonBug == SubSeq(reason, 1, level')      \* mutant: one entry too few
RevertedReason == SubSeq(reason, 1, level' + 1)

EngineStep ==
  /\ Engine
  /\ reason' = CASE pc = "start" -> <<"none", "none">>
                 [] pc' = "start" -> <<>>
                 [] pc = "learn" -> RevertedReason
                 [] OTHER -> reason
  /\ IF pc' = "start"
     THEN /\ phase' = "begin" /\ loc' = NoLocals
          /\ installedpos' = IF phase = "installed" THEN loc.i ELSE installedpos
     ELSE UNCHANGED <<phase, loc, installedpos>>
  /\ UNCHANGED systemlevel

-----------------------------------------------------------------------------
(* resolve_jobrules *)

\* The first job rule to look at after the last decision: the next one, the
\* same again (a rule was learnt) or all of them (decisions were taken back).
JobsFrom ==
  CASE loc.i = 0 -> 1
    [] loc.i > 0 /\ level > loc.olevel -> loc.i + 1
    [] loc.i > 0 /\ level = loc.olevel -> loc.i
    [] OTHER -> 1

OpenJobs == {i \in inst.jobs : i >= JobsFrom /\ i \in Unfulfilled
                                /\ UndecidedOf(rules[i].lits) # {}}

\* Prune to the installed packages if nothing is to be updated.
JobCandidates(i) ==
  LET c == UndecidedOf(rules[i].lits)
  IN  IF /\ ~inst.updateall /\ i \notin inst.orupdate
         /\ c \cap inst.updatemap = {} /\ InstalledSet(c) # {}
      THEN InstalledSet(c) ELSE c

ResolveJobRules ==
  /\ Ready("jobs") /\ ~Trouble /\ OpenJobs # {}
  /\ LET i == Min(OpenJobs) IN
       \E dq \in Selections(JobCandidates(i)) :
         Install(dq, inst.disablerules, "job", [loc EXCEPT !.i = i])

JobsDone ==
  /\ Ready("jobs") /\ ~Trouble /\ OpenJobs = {}
  /\ LeaveSystemPhase("jobs")
  /\ NoDecision /\ UNCHANGED installedpos

-----------------------------------------------------------------------------
(* resolve_installed *)

NextInstalled(p) ==
  LET after == {o \in Installed : o > p} IN IF after # {} THEN Min(after) ELSE Min(Installed)

Advance(l) == [l EXCEPT !.i = NextInstalled(l.i), !.n = l.n + 1, !.stage = "first"]

\* The update rule, or the feature rule if it is disabled or empty.
RuleOf(p) ==
  LET u == inst.updaterule[p]
      f == inst.featurerule[p]
  IN  IF (u = 0 \/ u \in disabled) /\ f # 0 THEN f ELSE u

WantsUpdate(p) ==
  p \notin inst.noupdate /\ (decisionmap[p] < 0 \/ inst.updateall \/ p \in inst.updatemap)

SkipInstalled(p) ==
  \/ decisionmap[p] > 0 /\ p \notin DOMAIN inst.special
  \/ loc.pass = 0 /\ p \notin inst.updatemap
  \/ RuleOf(p) = 0

Targeted(p, S) == IF p \in DOMAIN inst.targets THEN S \cap inst.targets[p] ELSE S

\* get_special_updaters: the packages that may come out as the best one.
Special(p) == IF p \in DOMAIN inst.special THEN inst.special[p] ELSE {}
SpecialUpdaters(p) == UndecidedOf(Targeted(p, Special(p))) \ {p}
SpecialMayStay(p) ==
  \/ SpecialUpdaters(p) = {}
  \/ \E o \in Targeted(p, Special(p) \cup {p}) :
       decisionmap[o] > 0 \/ (decisionmap[o] = 0 /\ o \in Installed)

UpdateCandidates(p) ==
  IF \E l \in rules[RuleOf(p)].lits : decisionmap[l] > 0 THEN {}
  ELSE UndecidedOf(Targeted(p, rules[RuleOf(p)].lits))

Visiting(p) == Ready("installed") /\ loc.n < Cardinality(Installed) /\ p = loc.i

\* The level did not rise: a rule was learnt.  Look at the package again, and
\* at all the others if decisions were taken back.
Retried == loc.stage # "first" /\ level <= loc.olevel
InstalledRetry ==
  /\ Ready("installed") /\ Retried /\ level >= loc.passlevel
  /\ loc' = [loc EXCEPT !.stage = "first", !.n = IF level < loc.olevel THEN 0 ELSE @]
  /\ NoDecision /\ UNCHANGED <<phase, systemlevel, installedpos>>

\* Decisions made before this pass were taken back.  Start with this package
\* next time, here or after the main loop came round.
InstalledTrouble ==
  /\ Ready("installed") /\ Retried /\ level < loc.passlevel
  /\ installedpos' = loc.i
  /\ IF Trouble THEN Goto("loop")
     ELSE /\ loc' = [loc EXCEPT !.stage = "first", !.n = 0, !.pass = StartPass,
                                !.passlevel = level, !.needpass2 = FALSE]
          /\ UNCHANGED phase
  /\ NoDecision /\ UNCHANGED systemlevel

InstalledNext(l) ==
  /\ loc' = Advance(l)
  /\ NoDecision /\ UNCHANGED <<phase, systemlevel, installedpos>>

InstalledSkip ==
  \E p \in Installed :
    /\ Visiting(p) /\ loc.stage = "first"
    /\ \/ SkipInstalled(p) /\ InstalledNext(loc)
       \/ /\ ~SkipInstalled(p) /\ WantsUpdate(p) /\ loc.pass = 1
          /\ InstalledNext([loc EXCEPT !.needpass2 = TRUE])

Updating(p) == Visiting(p) /\ ~SkipInstalled(p) /\ WantsUpdate(p) /\ loc.pass # 1

\* Updates of a multiversion package first, then those of the rule.
InstallSpecialUpdate ==
  \E p \in Installed :
    /\ Updating(p) /\ loc.stage = "first"
    /\ \E u \in SpecialUpdaters(p) :
         Install(<<u>>, inst.disablerules, "update", [loc EXCEPT !.stage = "special"])

InstallUpdate ==
  \E p \in Installed :
    /\ \/ Updating(p) /\ loc.stage = "first" /\ SpecialMayStay(p)
       \/ Visiting(p) /\ loc.stage = "special" /\ ~Retried
    /\ \E dq \in Selections(UpdateCandidates(p)) :
         Install(dq, inst.disablerules, "update", [loc EXCEPT !.stage = "update"])

\* The update is done, there is none, or none is wanted: now p itself.
AtKeep(p) ==
  /\ Visiting(p)
  /\ \/ loc.stage = "update" /\ ~Retried
     \/ /\ loc.stage = "first" /\ ~SkipInstalled(p)
        /\ \/ ~WantsUpdate(p)
           \/ loc.pass # 1 /\ SpecialMayStay(p) /\ UpdateCandidates(p) = {}
     \/ loc.stage = "special" /\ ~Retried /\ UpdateCandidates(p) = {}

KeepInstalled ==
  \E p \in Installed :
    /\ AtKeep(p) /\ IsUndef(p) /\ p \notin inst.cleandeps
    /\ Install(<<p>>, inst.disablerules, "keep", [loc EXCEPT !.stage = "keep"])

KeepNothing ==
  \E p \in Installed :
    /\ \/ AtKeep(p) /\ (~IsUndef(p) \/ p \in inst.cleandeps)
       \/ Visiting(p) /\ loc.stage = "keep" /\ ~Retried
    /\ InstalledNext(loc)

PassDone ==
  /\ Ready("installed") /\ loc.stage = "first" /\ loc.n = Cardinality(Installed)
  /\ installedpos' = Min(Installed)
  /\ IF loc.pass = 2 \/ (loc.pass = 1 /\ ~loc.needpass2)
     THEN LeaveSystemPhase("installed")
     ELSE /\ loc' = [loc EXCEPT !.pass = @ + 1, !.i = Min(Installed), !.n = 0,
                                !.passlevel = level, !.needpass2 = FALSE]
          /\ UNCHANGED <<phase, systemlevel>>
  /\ NoDecision

-----------------------------------------------------------------------------
(* resolve_dependencies, also in the focus_new and focus_best cases *)

NotInstalledPkg(p) == p \notin Installed

\* With focus_new/best only rules of new packages are looked at, with
\* focus_new only if no installed package would do.
InFocus(i) ==
  \/ phase = "deps"
  \/ /\ i < inst.pkgend
     /\ \/ Cardinality(rules[i].lits) <= 2
        \/ /\ \E l \in rules[i].lits : l < 0 /\ IsFalse(l) /\ NotInstalledPkg(-l)
           /\ inst.focus = "best" \/ \A l \in rules[i].lits : l <= 1 \/ NotInstalledPkg(l)

\* A rule that needs a decision.  In a rule with two literals both must be
\* positive and undecided, as anything else is left to propagation.
NeedsDecisionBug(i) ==                  \* mutant: only the short rules
  /\ i \notin disabled /\ InFocus(i)
  /\ Cardinality(rules[i].lits) = 2 /\ \A l \in rules[i].lits : l > 0 /\ IsUndef(l)
NeedsDecision(i) ==
  /\ i \notin disabled /\ InFocus(i)
  /\ IF Cardinality(rules[i].lits) <= 2
     THEN Cardinality(rules[i].lits) = 2 /\ \A l \in rules[i].lits : l > 0 /\ IsUndef(l)
     ELSE i \in Unfulfilled

RuleAt(k) == IF k <= Len(rules) THEN k ELSE k - Len(rules)

\* How far the scan gets before it stops at a rule.
StopsBug ==                             \* mutant: the first rule once more
  {d \in 0 .. Len(rules) + 1 - loc.n : NeedsDecision(RuleAt(loc.i + d))}
Stops == {d \in 0 .. Len(rules) - loc.n : NeedsDecision(RuleAt(loc.i + d))}

DepsReady == \E ph \in {"focus", "deps"} : Ready(ph) /\ ~Trouble

\* Cleandeps packages that are not updated are preferred; if they are all to
\* be updated, they and their updates are (do_cleandeps_update_filter).
PruneToCleandeps(S) ==
  LET clean == S \cap inst.cleandeps
      stay  == IF inst.updateall THEN {} ELSE clean \ inst.updatemap
      updates(p) == {o \in Targeted(p, IF Special(p) # {} THEN Special(p)
                                       ELSE IF inst.updaterule[p] = 0 THEN {}
                                       ELSE rules[inst.updaterule[p]].lits) : decisionmap[o] >= 0}
  IN  IF stay # {} THEN {{p} : p \in stay}
      ELSE IF clean # {} THEN {S \cap (clean \cup UNION {updates(p) : p \in clean})}
      ELSE {S}

ScanOn(i, l) == [l EXCEPT !.i = i + 1, !.n = @ + 1]

ResolveDependencies ==
  /\ DepsReady /\ Stops # {}
  /\ LET i == RuleAt(loc.i + Min(Stops))
         at == [loc EXCEPT !.n = @ + Min(Stops)]
     IN  \E S \in PruneToCleandeps(UndecidedOf(rules[i].lits)) :
           \/ \* the filter left more than one: come back to it later
              /\ Cardinality(S) > 1 /\ loc.postponed >= 0
              /\ loc' = ScanOn(i, [at EXCEPT !.postponed = IF @ = 0 THEN i ELSE @])
              /\ NoDecision /\ UNCHANGED <<phase, systemlevel, installedpos>>
           \/ \E dq \in Selections(S) :
                /\ loc.postponed >= 0 => Len(dq) = 1
                /\ Install(dq, inst.disablerules, "resolve", ScanOn(i, [at EXCEPT !.n = 0]))

PostponedBug == FALSE                    \* mutant: they are forgotten
Postponed == loc.postponed > 0

DependenciesPostponed ==
  /\ DepsReady /\ Stops = {} /\ Postponed
  /\ loc' = [loc EXCEPT !.i = loc.postponed, !.n = 1, !.postponed = -1]
  /\ NoDecision /\ UNCHANGED <<phase, systemlevel, installedpos>>

DependenciesDone ==
  /\ DepsReady /\ Stops = {} /\ ~Postponed
  /\ IF phase = "focus" THEN LeaveSystemPhase("focus")
                        ELSE Goto("cleandeps") /\ UNCHANGED systemlevel
  /\ NoDecision /\ UNCHANGED installedpos

-----------------------------------------------------------------------------
(* resolve_cleandeps, and the final pass over the installed packages *)

LeftOver(ph) ==
  UndecidedOf(IF ph = "cleandeps" THEN inst.cleandeps ELSE Installed) \ (1 .. loc.i)

\* The erased package led to a conflict.
EraseFailed == level < loc.olevel

EraseLeftOver ==
  \E ph \in {"cleandeps", "last"} :
    /\ Ready(ph) /\ ~EraseFailed /\ LeftOver(ph) # {}
    /\ Erase(Min(LeftOver(ph)), "cleandeps", [loc EXCEPT !.i = Min(LeftOver(ph))])

EraseDone ==
  \/ /\ Ready("cleandeps") /\ ~EraseFailed /\ LeftOver("cleandeps") = {}
     /\ Goto(IF inst.doweak THEN "weak" ELSE "orphaned")
     /\ NoDecision /\ UNCHANGED <<systemlevel, installedpos>>
  \/ /\ Ready("last") /\ ~EraseFailed /\ LeftOver("last") = {} /\ Goto("choices")
     /\ NoDecision /\ UNCHANGED <<systemlevel, installedpos>>

\* Decisions made before the phase were taken back, or an erase failed.
PhaseTrouble ==
  \E ph \in {"jobs", "focus", "deps", "cleandeps", "last"} :
    /\ IF ph \in {"cleandeps", "last"} THEN EraseFailed ELSE Trouble
    /\ BackToLoop(ph)

-----------------------------------------------------------------------------
(* resolve_weak *)

Wanted(p) ==
  /\ ~(p \in inst.droporphaned) /\ ~ \E b \in Solvable : <<b, p>> \in inst.blocked /\ IsTrue(b)

OpenRecommends(k) ==
  LET S == inst.recs[k][2]
  IN  IF IsTrue(inst.recs[k][1]) /\ \A p \in S : ~IsTrue(p) THEN UndecidedOf(S) ELSE {}

Recommends  == {p \in UNION {OpenRecommends(k) : k \in DOMAIN inst.recs} : Wanted(p)}
Supplements == {p \in UndecidedOf(DOMAIN inst.supps) :
                  Wanted(p) /\ \E o \in inst.supps[p] : IsTrue(o)}

WeakNothing ==
  /\ Ready("weak") /\ loc.stage = "first" /\ Recommends \cup Supplements = {}
  /\ Goto("orphaned") /\ NoDecision /\ UNCHANGED <<systemlevel, installedpos>>

WeakSingle ==
  /\ Ready("weak") /\ loc.stage = "first" /\ Cardinality(Recommends \cup Supplements) = 1
  /\ \E p \in Recommends \cup Supplements :
       Install(<<p>>, FALSE, "weak", [loc EXCEPT !.stage = "done"])

Orders(S) == {s \in [1 .. Cardinality(S) -> S] : {s[k] : k \in DOMAIN s} = S}

\* The best versions are selected; the supplemented ones come first.
WeakStart ==
  /\ Ready("weak") /\ loc.stage = "first" /\ Cardinality(Recommends \cup Supplements) > 1
  /\ \E best \in (SUBSET (Recommends \cup Supplements)) \ {{}} :
     \E order \in Orders(Supplements \cap best) :
       loc' = [loc EXCEPT !.stage = "supplements", !.dqmap = best, !.list = order,
                          !.decisioncount = Len(decisionq), !.olevel = -1]
  /\ NoDecision /\ UNCHANGED <<phase, systemlevel, installedpos>>

LevelKept == level > loc.olevel

OpenSupplementsBug == DOMAIN loc.list    \* mutant: decided or not
OpenSupplements == {k \in DOMAIN loc.list : IsUndef(loc.list[k])}

WeakSupplement ==
  /\ Ready("weak") /\ loc.stage = "supplements" /\ LevelKept /\ OpenSupplements # {}
  /\ LET k == Min(OpenSupplements)
     IN  Install(<<loc.list[k]>>, FALSE, "weak",
                 [loc EXCEPT !.list = SubSeq(@, k + 1, Len(@))])

WeakSupplementsDone ==
  /\ Ready("weak") /\ loc.stage = "supplements" /\ LevelKept /\ OpenSupplements = {}
  /\ Len(decisionq) >= loc.decisioncount
  /\ loc' = [loc EXCEPT !.stage = "recommends", !.i = 1, !.n = 0, !.olevel = -1]
  /\ NoDecision /\ UNCHANGED <<phase, systemlevel, installedpos>>

\* <<d, k>>: recommends k of the package of decision d, not looked at yet.
WeakOpen ==
  {x \in (1 .. loc.decisioncount) \X DOMAIN inst.recs :
     /\ x[1] > loc.i \/ (x[1] = loc.i /\ x[2] > loc.n)
     /\ decisionq[x[1]].p = inst.recs[x[2]][1]
     /\ OpenRecommends(x[2]) \cap loc.dqmap # {}}

WeakGoesOn ==
  Ready("weak") /\ loc.stage = "recommends" /\ LevelKept /\ Len(decisionq) >= loc.decisioncount

WeakRecommend ==
  /\ WeakGoesOn /\ WeakOpen # {}
  /\ LET first == CHOOSE x \in WeakOpen : \A y \in WeakOpen :
                    x[1] < y[1] \/ (x[1] = y[1] /\ x[2] <= y[2])
     IN  \E dq \in Selections(OpenRecommends(first[2]) \cap loc.dqmap) :
           Install(dq, FALSE, "weak", [loc EXCEPT !.i = first[1], !.n = first[2]])

WeakOver ==
  \/ loc.stage = "done"
  \/ loc.stage = "supplements" /\ ~LevelKept
  \/ loc.stage = "supplements" /\ OpenSupplements = {} /\ Len(decisionq) < loc.decisioncount
  \/ loc.stage = "recommends" /\ (~WeakGoesOn \/ WeakOpen = {})

\* Whatever happened, all the phases are run again.
WeakDoneBug ==                          \* mutant: the orphans come next
  /\ Ready("weak") /\ WeakOver /\ Goto("orphaned")
  /\ NoDecision /\ UNCHANGED <<systemlevel, installedpos>>
WeakDone == WeakOver /\ BackToLoop("weak")

-----------------------------------------------------------------------------
(* resolve_orphaned *)

OpenOrphans(S) == {k \in DOMAIN inst.orphaned :
                     k > loc.i /\ IsUndef(inst.orphaned[k]) /\ inst.orphaned[k] \notin S}
Lowered == loc.i > 0 /\ level < loc.olevel

KeepOrphan ==
  /\ Ready("orphaned") /\ loc.stage = "first" /\ ~Lowered /\ OpenOrphans(inst.droporphaned) # {}
  /\ LET k == Min(OpenOrphans(inst.droporphaned))
     IN  Install(<<inst.orphaned[k]>>, FALSE, "orphan", [loc EXCEPT !.i = k, !.one = TRUE])

DropOrphansStart ==
  /\ Ready("orphaned") /\ loc.stage = "first" /\ ~loc.one
  /\ OpenOrphans(inst.droporphaned) = {}
  /\ loc' = [loc EXCEPT !.stage = "drop"]
  /\ NoDecision /\ UNCHANGED <<phase, systemlevel, installedpos>>

DropOrphan ==
  /\ Ready("orphaned") /\ loc.stage = "drop" /\ ~Lowered /\ OpenOrphans({}) # {}
  /\ LET k == Min(OpenOrphans({}))
     IN  Erase(inst.orphaned[k], "orphan", [loc EXCEPT !.i = k])

\* solver_check_brokenorphanrules: what could repair the kept orphans.
OrphanDeps ==
  {p \in UNION {rules[r].lits : r \in
                 {b \in inst.broken : \A l \in rules[b].lits :
                    IF l < 0 THEN decisionmap[-l] > 0
                             ELSE ~(decisionmap[l] > 0 /\ NotInstalledPkg(l))}} :
     p > 0 /\ IsUndef(p) /\ NotInstalledPkg(p)}

OrphansRepair ==
  /\ Ready("orphaned") /\ loc.stage = "drop" /\ ~Lowered /\ OpenOrphans({}) = {}
  /\ \/ /\ OrphanDeps = {} /\ Goto("last")
     \/ \E S \in (SUBSET OrphanDeps) \ {{}} : \E order \in Orders(S) :
          loc' = [loc EXCEPT !.stage = "repair", !.list = order, !.i = 0] /\ UNCHANGED phase
  /\ NoDecision /\ UNCHANGED <<systemlevel, installedpos>>

\* The packages are installed one after the other, decided or not.
InstallOrphanDep ==
  /\ Ready("orphaned") /\ loc.stage = "repair" /\ ~Lowered /\ loc.list # <<>>
  /\ Install(<<Head(loc.list)>>, FALSE, "orphan", [loc EXCEPT !.list = Tail(@), !.i = 1])

OrphansDone ==
  /\ \/ Lowered
     \/ loc.stage = "first" /\ loc.one /\ OpenOrphans(inst.droporphaned) = {}
     \/ loc.stage = "repair" /\ loc.list = <<>>
  /\ BackToLoop("orphaned")

-----------------------------------------------------------------------------
(* Choice rules, the solution callback and the minimization. *)

RestartWithoutChoices ==
  /\ Ready("choices") /\ CheckUnneededChoiceRules(disabled) # disabled
  /\ Reset(CheckUnneededChoiceRules(disabled))
  /\ reason' = <<>> /\ phase' = "begin" /\ loc' = NoLocals
  /\ UNCHANGED <<ruleVars, problems, disablerules, assertVars, propVars, analyzeVars,
                 systemlevel, installedpos>>

Untried(b) == DOMAIN branches[b].cands \ branches[b].tried

\* With a callback every alternative is visited: the last branch that has an
\* untried candidate, and the first candidate of the last untried run.
CallbackBranch ==
  LET open == {b \in DOMAIN branches : Untried(b) # {}}
      b == Max(open)
      run == {j \in Untried(b) : j .. Max(Untried(b)) \subseteq Untried(b)}
  IN  IF open = {} THEN {} ELSE {<<b, Min(run)>>}

IsRecommended(p) ==
  \/ \E k \in DOMAIN inst.recs : IsTrue(inst.recs[k][1]) /\ p \in inst.recs[k][2]
  \/ p \in DOMAIN inst.supps /\ \E o \in inst.supps[p] : IsTrue(o)

\* A better candidate of branch b: one that was installed anyway, or a
\* recommended one instead of one that is not.
Better(b) ==
  LET cand(j)   == branches[b].cands[j]
      lev       == branches[b].level
      installed == {j \in Untried(b) : decisionmap[cand(j)] > lev}
      wanted    == {j \in Untried(b) : inst.favor[cand(j)] >= 0 /\ IsRecommended(cand(j))}
      replace   == \E j \in branches[b].tried :
                     /\ decisionmap[cand(j)] = lev + 1 /\ cand(j) \notin inst.sticky
                     /\ inst.favor[cand(j)] <= inst.favor[cand(Min(wanted))]
                     /\ ~IsRecommended(cand(j))
  IN  IF installed # {} THEN {Min(installed)}
      ELSE IF wanted # {} /\ replace THEN {Min(wanted)} ELSE {}

MinimizingBranch ==
  LET open == {b \in DOMAIN branches : Better(b) # {}}
  IN  IF open = {} THEN {} ELSE {<<Min(open), Min(Better(Min(open)))>>}

NextBranch == IF inst.callback THEN CallbackBranch ELSE MinimizingBranch

\* The reason is that of the decision taken back.
RunTakeBranch ==
  /\ Ready("choices") /\ CheckUnneededChoiceRules(disabled) = disabled
  /\ \E x \in NextBranch :
       LET lev == branches[x[1]].level
       IN  TakeBranchTo(x[1], x[2]) /\ reason' = SubSeq(reason, 1, lev + 2)
  /\ phase' = "loop" /\ loc' = NoLocals
  /\ UNCHANGED <<systemlevel, installedpos>>

RunFinish ==
  /\ Ready("choices") /\ CheckUnneededChoiceRules(disabled) = disabled
  /\ NextBranch = {}
  /\ pc' = "done" /\ phase' = "end"
  /\ UNCHANGED <<ruleVars, disabled, trailVars, level, branches, problems, disablerules,
                 assertVars, propVars, analyzeVars, systemlevel, installedpos, loc, reason>>

RunTerminated == pc \in {"done", "failed"} /\ UNCHANGED allVars

-----------------------------------------------------------------------------
RunInit == Init /\ phase = "begin" /\ systemlevel = 1 /\ installedpos = 0
                /\ loc = NoLocals /\ reason = <<>>

ResolveInstalled ==
  \/ InstalledRetry \/ InstalledTrouble \/ InstalledSkip \/ InstallSpecialUpdate
  \/ InstallUpdate \/ KeepInstalled \/ KeepNothing \/ PassDone

ResolveWeak ==
  \/ WeakNothing \/ WeakSingle \/ WeakStart \/ WeakSupplement \/ WeakSupplementsDone
  \/ WeakRecommend \/ WeakDone

ResolveOrphaned ==
  \/ KeepOrphan \/ DropOrphansStart \/ DropOrphan \/ OrphansRepair \/ InstallOrphanDep
  \/ OrphansDone

RunNext ==
  \/ EngineStep \/ Loop \/ ResolveJobRules \/ JobsDone \/ ResolveInstalled
  \/ ResolveDependencies \/ DependenciesPostponed \/ DependenciesDone \/ PhaseTrouble
  \/ EraseLeftOver \/ EraseDone \/ ResolveWeak \/ ResolveOrphaned
  \/ RestartWithoutChoices \/ RunTakeBranch \/ RunFinish \/ RunTerminated

RunSpec == RunInit /\ [][RunNext]_allVars

\* One thread that never waits.
FairRunSpec == RunSpec /\ WF_allVars(RunNext)

-----------------------------------------------------------------------------
(* Properties. *)

Phases == {"begin", "loop", "jobs", "focus", "installed", "deps", "cleandeps", "weak",
           "orphaned", "last", "choices", "end"}
DecisionReasons == {"none", "job", "keep", "update", "resolve", "cleandeps", "weak", "orphan"}

\* How many of them the scan of a phase may have looked at: the rules, the
\* installed packages, the recommends.
ScanLimit ==
  CASE phase \in {"focus", "deps"} -> Len(rules) + 1
    [] phase = "installed" -> Cardinality(Installed)
    [] OTHER -> Len(inst.recs)

\* The locals have their types, and the scans of the rules, of the installed
\* packages and of the recommends never look at more of them than there are.
RunTypeOK ==
  /\ phase \in Phases
  /\ systemlevel \in Nat /\ installedpos \in Installed \cup {0}
  /\ loc.n \in 0 .. ScanLimit
  /\ loc.dqmap \subseteq Solvable /\ loc.list \in Seq(Solvable) /\ loc.orig \in Nat
  /\ reason \in Seq(DecisionReasons)

\* The phases are a correct user of the engine: each decision they take is
\* one module Sat allows.  A package is undecided when it is decided on,
\* erasing starts from a consistent system, and the solver stops only when
\* no rule is left to fulfill and no installed package is undecided.
ImplementsSat == Spec

\* decisionq_reason has one entry per level (the assertion at the end of
\* solver_run_sat), and it is the entry of that level: a package is freely
\* erased only for the reasons that erase, kept only if it is installed.
ReasonFits ==
  pc \in {"decide", "done"} =>
    /\ Len(reason) = level + 1
    /\ \A k \in 2 .. Len(decisionq) :
         LET why_ == reason[DecisionLev(k) + 1] IN
         decisionq[k].why = 0 =>
           /\ decisionq[k].p < 0 => why_ \in {"cleandeps", "orphan"}
           /\ decisionq[k].p > 0 => why_ # "cleandeps"
           /\ why_ = "keep" => decisionq[k].p \in Installed

\* The extras never cost anything: from a consistent system no decision of
\* the later phases runs into a conflict without a way out, so that no rule
\* is given up and no problem reported for a recommended package, an orphan
\* or an erased leaf.
ExtrasHarmless ==
  phase \in {"cleandeps", "weak", "orphaned", "last"} => pc # "unsolvable"

\* "At this point we have a consistent system": when the extras begin, every
\* enabled rule holds if the undecided packages are not installed.
ConsistentSystem == Ready("weak") /\ loc.stage = "first" => Consistent

\* When the solver is done no recommended or supplemented package is left
\* that it could still decide to install.
WeakComplete == pc = "done" /\ inst.doweak => Recommends \cup Supplements = {}

\* The locals of solver_run_sat and the reasons it notes fit the decisions.
RunInvariant == RunTypeOK /\ ReasonFits

\* The phases do what they are for: a consistent system before the extras,
\* extras that cost nothing, and no wanted extra left out.
PhasesRight == ExtrasHarmless /\ ConsistentSystem /\ WeakComplete

\* The phases come to an end, whatever is learnt and taken back meanwhile.
RunTermination == <>(pc \in {"done", "failed"})
=============================================================================
