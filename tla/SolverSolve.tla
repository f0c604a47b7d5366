---------------------------- MODULE SolverSolve ----------------------------
(***************************************************************************)
(* solver.c, solver_solve: the phases that turn a job queue into rules.    *)
(* A solver may be used again: package rules are kept, everything else is  *)
(* made anew.  Between two calls the application changes flags and jobs;   *)
(* after a call the problem code switches jobs off and the result is       *)
(* queried.  The search itself (solver_run_sat) is the business of other   *)
(* modules; here it is any set of packages that fulfils the enabled rules. *)
(*                                                                         *)
(* A job is a record [op, sel, what, flags].  Further fields of sv:        *)
(*   todo, pos    the seeds still to add rules for, the last weak package  *)
(*   deduceq      what addedmap cannot be read off the package rules       *)
(*   first        the number of rules the call started with                *)
(*   favset, havedis   is there a favormap; havedisfavored                 *)
(*   exweak       excludefromweakmap                                       *)
(*   procorph     process_orphans                                          *)
(*   why          the rule of each negative decision, in parallel to dq;   *)
(*                weakdec the packages installed for a weak dependency     *)
(*   reco, sugg   the answer of solver_get_recommendations                 *)
(*   dm           the decision map after it (the set of its literals)      *)
(***************************************************************************)
EXTENDS ChoiceRules
CONSTANTS
  Cases,      \* the worlds, jobs and flags a behaviour may use
  MaxSolves,  \* how often the solver is called
  MaxOff      \* how many jobs the problem code switches off in a call

VARIABLES w, sv, pc, k   \* k = [case, solves, off, how, same]
vars == <<w, sv, pc, k>>

Classes == {"job", "update", "feature", "dup", "infarch", "best", "yumobs", "black", "choice", "recommends", "strict"}

(***************************************************************************)
(* solver_create.                                                          *)
(***************************************************************************)
CreateSolver(world) ==
  [rules |-> <<>>, last |-> 0, pkgend |-> 0, m |-> {}, wq |-> <<>>, recq |-> <<>>, multi |-> {}, fix |-> {},
   buddy |-> [p \in Ids(world) |-> 0], dq |-> <<>>, suppq |-> <<>>, favor |-> [p \in Ids(world) |-> 0],
   dup |-> {}, rm |-> EmptyMaps, seg |-> [c \in Classes |-> <<0, 0>>], upd |-> {}, bestupd |-> {},
   drop |-> {}, allowun |-> {}, good |-> {}, orphaned |-> <<>>, special |-> [p \in Ids(world) |-> <<>>],
   noupd |-> {}, cdupd |-> <<>>, bestup |-> 0, bestinfo |-> <<>>, jobs |-> <<>>, r2j |-> <<>>, mist |-> <<>>,
   clean |-> {}, hasclean |-> FALSE, weak |-> <<>>, choiceinfo |-> <<>>, recinfo |-> <<>>, yuminfo |-> <<>>,
   targets |-> [p \in Ids(world) |-> <<>>], broken |-> <<>>, todo |-> <<>>, pos |-> 0, deduceq |-> <<>>,
   first |-> 0, favset |-> FALSE, havedis |-> FALSE, exweak |-> {}, procorph |-> FALSE, why |-> <<>>,
   weakdec |-> {}, reco |-> <<>>, sugg |-> <<>>, dm |-> {}]

(***************************************************************************)
(* solver_set_flag.                                                        *)
(***************************************************************************)
SetFlag(world, f, on) == [world EXCEPT !.opt = IF on THEN @ \cup {f} ELSE @ \ {f}]

(***************************************************************************)
(* addedmap2deduceq and deduceq2addedmap: the packages whose rules exist   *)
(* are those some dependency rule starts with, corrected by the queue.     *)
(***************************************************************************)
DepRule(r) == RuleP(r) < 0 /\ ~(Len(r.l) = 2 /\ r.l[2] < 0)
DeduceStep(m, s, r) ==
  LET p == -RuleP(r)
      between == SelectSeq([x \in 1..p |-> x], LAMBDA x : s.i <= x /\ x < p /\ x \in m)
  IN  IF ~DepRule(r) THEN s
      ELSE IF p \notin m THEN (IF s.q # <<>> /\ Last(s.q) = -p THEN s ELSE [s EXCEPT !.q = Append(@, -p)])
      ELSE [i |-> IF s.i <= p THEN p + 1 ELSE s.i, q |-> s.q \o between]
AddedToDeduceq(world, s) ==
  LET d == FoldLeft(LAMBDA x, r : DeduceStep(s.m, x, r), [i |-> 2, q |-> <<>>], Reverse(s.rules))
  IN  d.q \o SelectSeq(IdSeq(world), LAMBDA p : p >= d.i /\ p \in s.m)
DeduceqToAddedBug(s) ==   \* mutant: packages that only occur in rules are not taken out
  {System} \cup {-RuleP(s.rules[i]) : i \in {x \in 1..(s.pkgend - 1) : DepRule(s.rules[x])}}
           \cup {s.deduceq[i] : i \in {x \in DOMAIN s.deduceq : s.deduceq[x] > 0}}
DeduceqToAdded(s) ==
  FoldLeft(LAMBDA m, p : IF p > 0 THEN m \cup {p} ELSE m \ {-p},
           {System} \cup {-RuleP(s.rules[i]) : i \in {x \in 1..(s.pkgend - 1) : DepRule(s.rules[x])}}, s.deduceq)

(***************************************************************************)
(* add_update_target and transform_update_targets: a targeted update says  *)
(* where the packages it replaces may go, the identical installed package  *)
(* included.                                                               *)
(***************************************************************************)
TargetOf(world, p) ==
  IF IsInst(world, p)
  THEN {p} \cup {q \in ToSet(NameGroup(world, p)) : IsInst(world, q)
                   /\ (Opt(world, "implicitobsoleteusescolors") => ColorMatch(world, p, q))}
  ELSE {q \in ToSet(NameGroup(world, p)) : IsInst(world, q)
          /\ (Opt(world, "implicitobsoleteusescolors") => ColorMatch(world, p, q))}
       \cup {q \in InstSet(world) : ~SameName(world, p, q) /\ Obsoletes(world, p, q)}
TargetPairs(world, p) ==
  LET inst == TargetOf(world, p)
      twin == {q \in inst : ~IsInst(world, p) /\ SameName(world, p, q) /\ Identical(world, p, q)}
      last == IF twin = {} THEN {} ELSE {CHOOSE q \in twin : \A x \in twin : x <= q}
  IN  inst \X ({p} \cup last)
UpdateTargets(world, s, seeds, flags) ==
  LET pairs == UNION {TargetPairs(world, p) : p \in ToSet(seeds)}
      olds == {x[1] : x \in pairs}
      forced == UNION {TargetOf(world, p) : p \in {q \in ToSet(seeds) : ~IsInst(world, q)}}
  IN  [s EXCEPT !.targets = [p \in DOMAIN @ |->
                    SetToSortSeq(ToSet(@[p]) \cup {x[2] : x \in {y \in pairs : y[1] = p}}, <)],
                !.upd = @ \cup olds,
                !.bestupd = @ \cup (IF "forcebest" \in flags THEN forced ELSE {}),
                !.cdupd = IF "cleandeps" \in flags
                          THEN PushAllUnique(@, SelectSeq(IdSeq(world), LAMBDA p : p \in forced)) ELSE @]

(***************************************************************************)
(* The jobs that are needed early: verify, update, drop orphaned and allow *)
(* uninstall.                                                              *)
(***************************************************************************)
InstOf(world, j) == IF SelectsAllInstalled(j) THEN InstSet(world)
                    ELSE {p \in ToSet(JobSelect(world, j)) : IsInst(world, p)}
UpdateJob(world, s, j) ==
  LET sel == IF j.sel = "repo" THEN RepoSeq(world, j.what) ELSE JobSelect(world, j)
      inst == IF j.sel = "all" THEN InstSeq(world) ELSE SelectSeq(sel, LAMBDA p : IsInst(world, p))
      direct == IF j.sel = "repo" THEN j.what = "inst" /\ "targeted" \notin j.flags
                ELSE j.sel = "all" \/ ("targeted" \notin j.flags /\ inst # <<>>)
  IN  IF direct
      THEN [s EXCEPT !.upd = @ \cup ToSet(inst),
                     !.bestupd = @ \cup (IF "forcebest" \in j.flags THEN ToSet(inst) ELSE {}),
                     !.cdupd = IF "cleandeps" \in j.flags THEN PushAllUnique(@, inst) ELSE @]
      ELSE IF Opt(world, "noautotarget") /\ "targeted" \notin j.flags THEN s
      ELSE UpdateTargets(world, s, sel, j.flags)
EarlyJob(world, s, j) ==
  CASE j.op = "verify" -> [s EXCEPT !.fix = @ \cup InstOf(world, j)]
    [] j.op = "update" -> UpdateJob(world, s, j)
    [] j.op = "droporphaned" -> [s EXCEPT !.drop = @ \cup InstOf(world, j)]
    [] j.op = "allowuninstall" -> [s EXCEPT !.allowun = @ \cup InstOf(world, j)]
    [] OTHER -> s
MultiversionMap(world, jobs) ==
  LET Of(j) == IF j.sel = "all" THEN Ids(world) \ {System}
               ELSE IF j.sel = "repo" THEN ToSet(RepoSeq(world, j.what)) ELSE ToSet(JobSelect(world, j))
  IN  UNION {Of(jobs[i]) : i \in {x \in DOMAIN jobs : jobs[x].op = "multiversion"}}

(***************************************************************************)
(* The start of solver_solve.  Two fields are not reset: suppq, havedis.   *)
(***************************************************************************)
Reset(world, s, jobs) ==
  LET c == CreateSolver(world)
      rules == [i \in 1..(IF s.pkgend = 0 THEN 0 ELSE s.pkgend - 1) |-> [s.rules[i] EXCEPT !.on = TRUE]]
      fresh == [c EXCEPT !.rules = rules, !.first = Len(rules), !.recq = s.recq, !.buddy = s.buddy,
                         !.suppq = s.suppq, !.havedis = s.havedis, !.deduceq = s.deduceq, !.seg = s.seg,
                         !.jobs = jobs, !.multi = MultiversionMap(world, jobs), !.todo = InstSeq(world),
                         !.m = IF Len(rules) = 0 THEN {System} ELSE DeduceqToAdded(s),
                         !.allowun = IF Opt(world, "allow_uninstall") THEN InstSet(world) ELSE {}]
  IN  IF HaveInstalled(world) THEN FoldLeft(LAMBDA x, j : EarlyJob(world, x, j), fresh, jobs) ELSE fresh

(***************************************************************************)
(* The rules of a job.                                                     *)
(***************************************************************************)
ComplexJobLits(world, j, erase) ==
  LET x == NormalizeComplex(world, j.what, erase, erase, j.sel = "name")
  IN  IF x.r = 0 THEN << <<-System>> >> ELSE x.b
IsComplexJob(j) == j.sel \in {"name", "provides"} /\ IsComplex(j.what)
NsHack(world, j) == /\ j.op = "install" /\ j.sel = "provides" /\ IsRel(j.what) /\ j.what.op = "ns"
                    /\ JobSelect(world, j) \in {<<>>, <<System>>}
InstallLits(world, j) ==
  LET q == JobSelect(world, j)
  IN  IF IsComplexJob(j) THEN ComplexJobLits(world, j, FALSE)
      ELSE IF NsHack(world, j) THEN << <<System>> >>
      ELSE IF q # <<>> THEN <<q>>
      ELSE IF j.sel = "oneof" THEN <<>> ELSE << <<-System>> >>
(***************************************************************************)
(* Erasing one specific installed package also keeps the other versions    *)
(* away, except those another job may want to install.                     *)
(***************************************************************************)
InstallCandidateMap(world, jobs) ==
  UNION {ToSet(JobSelect(world, jobs[i])) : i \in {x \in DOMAIN jobs : jobs[x].op = "install"}}
EraseLits(world, s, j) ==
  LET sel == CASE j.sel = "all" -> Tail(IdSeq(world)) [] j.sel = "repo" -> RepoSeq(world, j.what)
               [] OTHER -> JobSelect(world, j)
      Buddy(p) == IF j.sel \notin {"all", "repo"} /\ IsInst(world, p) /\ s.buddy[p] > 1 THEN << <<-s.buddy[p]>> >> ELSE <<>>
      direct == ForEach(sel, LAMBDA p : << <<-p>> >> \o Buddy(p))
      inst == SelectSeq(sel, LAMBDA p : IsInst(world, p))
      specific == j.sel = "solvable" \/ (j.sel = "name" /\ Versioned(j.what))
      others == IF specific /\ Len(inst) = 1
                THEN SelectSeq(NameGroup(world, inst[1]),
                       LAMBDA p : /\ ~IsInst(world, p) /\ p \notin InstallCandidateMap(world, s.jobs)
                                  /\ Opt(world, "implicitobsoleteusescolors") => ColorMatch(world, inst[1], p)
                                  /\ ~InSeq(<<-p>>, direct))
                ELSE <<>>
  IN  IF IsComplexJob(j) THEN ComplexJobLits(world, j, TRUE)
      ELSE direct \o [i \in DOMAIN others |-> <<-others[i]>>]
LockLits(world, s, j) ==
  LET sel == CASE j.sel = "all" -> Tail(IdSeq(world)) [] j.sel = "repo" -> RepoSeq(world, j.what)
               [] OTHER -> JobSelect(world, j)
      Lit(p) == IF IsInst(world, p) THEN p ELSE -p
      Buddy(p) == IF j.sel \notin {"all", "repo"} /\ IsInst(world, p) /\ s.buddy[p] > 1 THEN << <<s.buddy[p]>> >> ELSE <<>>
  IN  ForEach(sel, LAMBDA p : << <<Lit(p)>> >> \o Buddy(p))
WeakenedRules(s, p) == SelectSeq([i \in 1..(s.pkgend - 1) |-> i],
                                 LAMBDA i : RuleP(s.rules[i]) = -p /\ DepRule(s.rules[i]))
JobLits(world, s, j) ==
  CASE j.op = "install" -> InstallLits(world, j) [] j.op = "erase" -> EraseLits(world, s, j)
    [] j.op = "lock" -> LockLits(world, s, j) [] OTHER -> <<>>
AddJobLits(world, s, i, ls) ==
  LET j == s.jobs[i]
      new == [x \in DOMAIN ls |-> NRules(s) + x]
      weakened == IF j.op = "weakendeps" /\ j.sel = "solvable" THEN WeakenedRules(s, j.what) ELSE <<>>
      clean == j.op \in {"install", "erase"} /\ "cleandeps" \in j.flags /\ HaveInstalled(world)
      supp == IF j.what.b = NoDep THEN j.what.a ELSE j.what
  IN  [AddRules(s, ls) EXCEPT !.r2j = @ \o [x \in DOMAIN ls |-> i],
                              !.weak = @ \o weakened \o (IF "weak" \in j.flags THEN new ELSE <<>>),
                              !.hasclean = @ \/ clean,
                              !.suppq = IF NsHack(world, j) THEN PushUnique(@, supp) ELSE @]
AddJob(world, s, i) == AddJobLits(world, s, i, JobLits(world, s, s.jobs[i]))
AddJobRules(world, s) ==
  CloseSeg(FoldLeft(LAMBDA x, i : AddJob(world, x, i), OpenSeg(s, "job"), [i \in DOMAIN s.jobs |-> i]), "job")

(***************************************************************************)
(* Update rules; a feature rule that says the same is deleted, any other   *)
(* one disabled for now.  A package that only its own feature rule names   *)
(* is orphaned.                                                            *)
(***************************************************************************)
AdjustFeature(s, p, f) ==
  LET r == Last(s.rules)
      fr == s.rules[f]
      noted == IF ~s.procorph /\ fr.l = <<p>> THEN [s EXCEPT !.orphaned = Append(@, p)] ELSE s
  IN  IF r.l = <<>> THEN SetRule(s, f, Rule(<<>>))
      ELSE IF r.l = fr.l THEN SetRule(noted, f, Rule(<<>>))
      ELSE IF fr.l # <<>> THEN Switch(noted, {f}, FALSE) ELSE noted
AddUpdateStep(world, s, p) == AdjustFeature(AddUpdateRule(world, s, p), p, FeatNo(world, s, p))
AddUpdateRules(world, s) ==
  CloseSeg(FoldLeft(LAMBDA x, p : AddUpdateStep(world, x, p), OpenSeg(s, "update"), InstSeq(world)), "update")

(***************************************************************************)
(* setup_favormap: a later job overrides an earlier one.                   *)
(***************************************************************************)
FavorJob(world, s, i) ==
  LET j == s.jobs[i]
      sel == ToSet(IF j.sel = "repo" THEN RepoSeq(world, j.what) ELSE JobSelect(world, j))
      idx == IF j.op = "favor" THEN i ELSE -i
  IN  IF j.op \notin {"favor", "disfavor"} THEN s
      ELSE [s EXCEPT !.favor = [p \in DOMAIN @ |-> IF p \in sel THEN idx ELSE @[p]], !.favset = TRUE,
                     !.havedis = @ \/ (idx < 0 /\ sel # {})]
ExcludeFromWeak(world, s) ==
  UNION {ToSet(IF j.sel = "repo" THEN RepoSeq(world, j.what) ELSE JobSelect(world, j)) :
           j \in {s.jobs[i] : i \in {x \in DOMAIN s.jobs : s.jobs[x].op = "excludefromweak"}}}
ExtendToBuddies(world, s) ==
  [s EXCEPT !.upd = @ \cup {s.buddy[p] : p \in {q \in s.upd : s.buddy[q] > 1 /\ HasLink(world, q)
                                                             /\ IsInst(world, s.buddy[q])}}]

(***************************************************************************)
(* The policy rules, in the order solver_solve adds them.                  *)
(***************************************************************************)
HasBestInstall(s) == \E i \in Seg(s, "job") : JobOf(s, i).op = "install" /\ "forcebest" \in JobOf(s, i).flags
FavorJobs(world, s) == FoldLeft(LAMBDA x, i : FavorJob(world, x, i), s, [i \in DOMAIN s.jobs |-> i])
InfarchPart(world, s) == IF Opt(world, "noinfarchcheck") THEN OpenSeg(s, "infarch") ELSE AddInfarchRules(world, s)
DupPart(world, s) == IF s.dup = {} THEN OpenSeg(s, "dup") ELSE AddDupRules(world, s)
BestPart(world, s) ==
  IF s.bestupd # {} \/ HasBestInstall(s) THEN AddBestRules(world, s, HasBestInstall(s))
  ELSE [OpenSeg(s, "best") EXCEPT !.bestinfo = <<>>, !.bestup = NRules(s) + 1]
AddForbidding(world, s) ==
  [BestPart(world, ExtendToBuddies(world, DupPart(world, InfarchPart(world, FavorJobs(world, s)))))
     EXCEPT !.good = {}]
YumObsPart(world, s) == IF Opt(world, "yum_obsoletes") THEN AddYumObsRules(world, s) ELSE OpenSeg(s, "yumobs")
BlackPart(world, s) == [AddBlackRules(world, s, s.jobs) EXCEPT !.exweak = ExcludeFromWeak(world, s)]
RecommendsPart(world, s) ==
  IF s.havedis /\ Opt(world, "strongrecommends") THEN AddRecommendsRules(s) ELSE OpenSeg(s, "recommends")
StrictPart(world, s) == IF Opt(world, "strict_repo_priority") THEN AddStrictRules(world, s) ELSE OpenSeg(s, "strict")
ChoicePart(world, s) == IF Opt(world, "conda") THEN OpenSeg(s, "choice") ELSE AddChoiceRules(world, s)
AddSteering(world, s) ==
  ChoicePart(world, StrictPart(world, RecommendsPart(world, BlackPart(world, YumObsPart(world, s)))))
OrphansPart(world, s) ==
  IF s.procorph /\ s.orphaned # <<>> /\ Opt(world, "breakorphans") THEN BreakOrphans(world, s) ELSE s
Prepare(world, s) ==
  OrphansPart(world, DisablePolicyRules(world, [s EXCEPT !.mist = <<>>, !.hasclean = @ \/ s.cdupd # <<>>]))

(***************************************************************************)
(* A result: a set of packages I that fulfils every enabled rule that is   *)
(* not weak (weak ones it does not fulfil have been disabled), and what    *)
(* the rules then forbid, each with the rule it comes from: assertions     *)
(* come first, and the first one counts.                                   *)
(***************************************************************************)
WeakRules(s) == ToSet(s.weak) \cup ToSet(s.recq)
RuleHolds(r, I) == r.l # <<>> => \E x \in DOMAIN r.l : LitTrue(r.l[x], I)
Fulfils(s, I) == \A i \in DOMAIN s.rules : (s.rules[i].on /\ i \notin WeakRules(s)) => RuleHolds(s.rules[i], I)
Assertions(s) ==
  SelectSeq([i \in DOMAIN s.rules |-> i],
            LAMBDA i : /\ s.rules[i].on /\ Len(s.rules[i].l) = 1 /\ RuleP(s.rules[i]) < 0
                       /\ \A x \in 1..(i - 1) : ~(s.rules[x].on /\ s.rules[x].l = s.rules[i].l))
False(l, D) == -l \in D
UnitNegative(s, D) ==
  {<<s.rules[i].l[x], i>> : <<i, x>> \in {<<a, b>> \in (DOMAIN s.rules) \X (1..8) :
      /\ s.rules[a].on /\ b \in DOMAIN s.rules[a].l
      /\ s.rules[a].l[b] < 0 /\ s.rules[a].l[b] \notin D /\ -s.rules[a].l[b] \notin D
      /\ \A y \in DOMAIN s.rules[a].l : y # b => False(s.rules[a].l[y], D)}}
RECURSIVE Propagated(_, _, _)
Propagated(s, dq, why) ==
  LET u == UnitNegative(s, ToSet(dq))
      c == CHOOSE x \in u : \A y \in u : x[2] < y[2] \/ (x[2] = y[2] /\ x[1] <= y[1])
  IN  IF u = {} THEN [dq |-> dq, why |-> why]
      ELSE Propagated(s, Append(dq, c[1]), Append(why, c[2]))

(***************************************************************************)
(* solver_get_recommendations.  Erase jobs are left out of account while   *)
(* it looks: what only they forbid is possible again, unless another rule  *)
(* forbids it too.                                                         *)
(***************************************************************************)
Lifted(s) ==
  {s.dq[i] : i \in {x \in DOMAIN s.dq : /\ s.dq[x] < 0 /\ s.why[x] \in Seg(s, "job")
                                        /\ RuleP(s.rules[s.why[x]]) < 0}}
RelaxedBug(s) ==   \* mutant: what another rule forbids as well is not forbidden again
  [s EXCEPT !.dq = SelectSeq(@, LAMBDA l : l \notin Lifted(s))]
Relaxed(s) ==
  LET off == {i \in Seg(s, "job") : s.rules[i].on /\ RuleP(s.rules[i]) < 0}
      t == Switch(s, off, FALSE)
      keep == SelectSeq(s.dq, LAMBDA l : l \notin Lifted(s))
  IN  IF Lifted(s) = {} THEN s ELSE [t EXCEPT !.dq = Propagated(t, keep, <<>>).dq]
(***************************************************************************)
(* do_complex_recommendations and its plain form: the open providers of a  *)
(* dependency, or those chosen if the caller wants them too.               *)
(***************************************************************************)
BlockReco(s, b, noselected) ==
  LET blocked == \E i \in DOMAIN b : b[i] < 0 /\ Decided(s, -b[i]) <= 0
                                     /\ \A j \in 1..(i - 1) : ~(b[j] > 0 /\ Decided(s, b[j]) > 0)
      have == {p \in ToSet(Positive(b)) : Decided(s, p) > 0}
  IN  IF blocked THEN {} ELSE IF have = {} THEN ToSet(Positive(b)) ELSE IF noselected THEN {} ELSE have
BlocksReco(s, b, noselected) == UNION {BlockReco(s, b[i], noselected) : i \in DOMAIN b}
DepReco(world, s, d, noselected) ==
  LET have == {p \in ProvSet(world, d) : Decided(s, p) > 0}
  IN  IF IsComplex(d) THEN BlocksReco(s, NormalizeComplex(world, d, FALSE, FALSE, FALSE).b, noselected)
      ELSE IF have = {} THEN ProvSet(world, d) ELSE IF noselected THEN {} ELSE have
ObsoletedByKept(world, s) ==
  UNION {ProvSet(world, d) : d \in UNION {ToSet(Pk(world, p).obsoletes) :
            p \in {q \in InstSet(world) : Decided(s, q) > 0 /\ q \notin s.multi}}}
OpenPkgs(world, s, wanted, noselected) ==
  SelectSeq(IdSeq(world), LAMBDA p : /\ Decided(s, p) >= 0 /\ (noselected => Decided(s, p) = 0)
                                     /\ p \notin ObsoletedByKept(world, s) /\ p \in wanted)
AskedFor(world, t, field) == UNION {ToSet(Pk(world, p)[field]) : p \in ToSet(t.dq) \cap Nat}
Wanted(world, t, field, noselected) == UNION {DepReco(world, t, d, noselected) : d \in AskedFor(world, t, field)}
Supplementing(world, t) == {p \in Ids(world) : Installable(world, p) /\ IsSupplementing(world, t, p)}
Enhancing(world, t) == {p \in Ids(world) : Installable(world, p) /\ IsEnhancing(world, t, p)}
WantedSets(world, t, noselected) ==
  <<t.weakdec \cup Wanted(world, t, "recommends", noselected) \cup Supplementing(world, t),
    Wanted(world, t, "suggests", noselected) \cup Enhancing(world, t)>>
FilteredOpen(world, s, t, wanted, noselected) ==
  [i \in DOMAIN wanted |-> FilterUnwanted(world, s, OpenPkgs(world, t, wanted[i], noselected), "suggest")]
SetAnswers(s, t, q) == [s EXCEPT !.reco = q[1], !.sugg = q[2], !.dm = ToSet(t.dq) \cup Lifted(s)]
RecommendationsIn(world, s, t, noselected) ==
  SetAnswers(s, t, FilteredOpen(world, s, t, WantedSets(world, t, noselected), noselected))
Recommendations(world, s, noselected) == RecommendationsIn(world, s, Relaxed(s), noselected)

-----------------------------------------------------------------------------
Init == \E c \in Cases : /\ w = c.world /\ sv = CreateSolver(c.world) /\ pc = "idle"
                         /\ k = [case |-> c, solves |-> 0, off |-> 0, how |-> <<>>, same |-> TRUE]

(***************************************************************************)
(* The application flips a flag before it calls the solver.                *)
(***************************************************************************)
ChangeFlag == /\ pc = "idle" /\ \E f \in k.case.flags : w' = SetFlag(w, f, f \notin w.opt)
              /\ UNCHANGED <<sv, pc, k>>
Start == /\ pc = "idle" /\ k.solves < MaxSolves
         /\ \E jobs \in k.case.jobs : sv' = Reset(w, sv, jobs)
         /\ k' = [k EXCEPT !.solves = @ + 1, !.off = 0, !.how = <<sv'.multi, sv'.fix, w.opt>>,
                           !.same = k.solves = 0 \/ (@ /\ k.how = <<sv'.multi, sv'.fix, w.opt>>)]
         /\ pc' = "installed"
         /\ UNCHANGED w
(***************************************************************************)
(* One package of the work queue.                                          *)
(***************************************************************************)
AddPackage ==
  /\ sv.wq # <<>>
  /\ LET n == Head(sv.wq)
         s == [sv EXCEPT !.wq = Tail(@)]
     IN  sv' = IF n \in sv.m THEN s ELSE AddSolvable(w, s, n)
  /\ UNCHANGED <<w, pc, k>>
NextSeed == /\ sv.wq = <<>> /\ sv.todo # <<>> /\ pc \in {"installed", "updaters", "jobpkgs"}
            /\ sv' = [sv EXCEPT !.wq = <<Head(sv.todo)>>, !.todo = Tail(@)]
            /\ UNCHANGED <<w, pc, k>>
Done(phase) == pc = phase /\ sv.wq = <<>> /\ sv.todo = <<>>
ToUpdaters == /\ Done("installed") /\ pc' = "updaters"
              /\ sv' = [sv EXCEPT !.todo = ForEach(InstSeq(w), LAMBDA p : <<p>> \o FindUpdatePackages(w, sv, p, "all"))]
              /\ UNCHANGED <<w, k>>
ToJobPackages ==
  /\ Done("updaters") /\ pc' = "jobpkgs"
  /\ sv' = [sv EXCEPT !.todo = ForEach(SelectSeq(sv.jobs, LAMBDA j : j.op = "install"), LAMBDA j : JobSelect(w, j)),
                      !.procorph = \E i \in DOMAIN sv.jobs : sv.jobs[i].op = "distupgrade" /\ sv.jobs[i].sel = "all"]
  /\ UNCHANGED <<w, k>>
ToWeak == /\ Done("jobpkgs") /\ pc' = "weak" /\ sv' = [sv EXCEPT !.pos = 1] /\ UNCHANGED <<w, k>>
WeakCandidates == {p \in Ids(w) : WeakPossible(w, sv, p)}
AddWeak ==
  /\ Done("weak") /\ WeakCandidates # {}
  /\ LET Dist(p) == IF p > sv.pos THEN p - sv.pos ELSE p - sv.pos + Len(w.pkgs)
         p == CHOOSE x \in WeakCandidates : \A y \in WeakCandidates : Dist(x) <= Dist(y)
     IN  sv' = [sv EXCEPT !.wq = <<p>>, !.pos = p]
  /\ UNCHANGED <<w, pc, k>>
ToLinked == /\ Done("weak") /\ WeakCandidates = {} /\ pc' = "linked" /\ sv' = [sv EXCEPT !.pos = 0]
            /\ UNCHANGED <<w, k>>
LinkedCandidates == {p \in Ids(w) : p > sv.pos /\ LinkedPossible(w, sv, p)}
AddLinked == /\ Done("linked") /\ LinkedCandidates # {}
             /\ LET p == CHOOSE x \in LinkedCandidates : \A y \in LinkedCandidates : x <= y
                IN  sv' = [sv EXCEPT !.wq = <<p>>, !.pos = p]
             /\ UNCHANGED <<w, pc, k>>
Unify ==
  /\ Done("linked") /\ LinkedCandidates = {} /\ pc' = "policies"
  /\ LET s == IF NRules(sv) > sv.first THEN UnifyRules(sv) ELSE sv
     IN  sv' = [s EXCEPT !.pkgend = NRules(s) + 1, !.last = 0,
                         !.deduceq = IF NRules(sv) > sv.first THEN AddedToDeduceq(w, s) ELSE @]
  /\ UNCHANGED <<w, k>>
AddUpdates ==
  /\ pc = "policies" /\ pc' = "jobrules"
  /\ sv' = AddUpdateRules(w, AddFeatureRules(w,
               IF \E i \in DOMAIN sv.jobs : sv.jobs[i].op = "distupgrade" THEN CreateDupMaps(w, sv, sv.jobs) ELSE sv))
  /\ UNCHANGED <<w, k>>
AddJobs == pc = "jobrules" /\ pc' = "forbid" /\ sv' = AddJobRules(w, sv) /\ UNCHANGED <<w, k>>
AddForbids == pc = "forbid" /\ pc' = "steer" /\ sv' = AddForbidding(w, sv) /\ UNCHANGED <<w, k>>
AddSteers == pc = "steer" /\ pc' = "prepare" /\ sv' = AddSteering(w, sv) /\ UNCHANGED <<w, k>>
Finish == pc = "prepare" /\ pc' = "ready" /\ sv' = Prepare(w, sv) /\ UNCHANGED <<w, k>>

(***************************************************************************)
(* The problem code gives up a job: its rules are disabled, and the policy *)
(* rules it had switched off come back (solver_disableproblem).            *)
(***************************************************************************)
JobRulesOf(s, i) == {x \in Seg(s, "job") : s.r2j[x - s.seg.job[1] + 1] = i}
DisableJob ==
  /\ pc = "ready" /\ k.off < MaxOff
  /\ \E i \in {j \in DOMAIN sv.jobs : \E x \in JobRulesOf(sv, j) : sv.rules[x].on} :
          sv' = ReenablePolicyRules(w, Switch(sv, JobRulesOf(sv, i), FALSE), i)
  /\ k' = [k EXCEPT !.off = @ + 1] /\ UNCHANGED <<w, pc>>
Decide ==
  /\ pc = "ready" /\ pc' = "decided"
  /\ \E I \in {J \in SUBSET (sv.m \ {System}) : Fulfils(sv, J \cup {System})} :
     \E wd \in {{}, {p \in I : ~IsInst(w, p)}} :
          LET s == Switch(sv, {i \in WeakRules(sv) : ~RuleHolds(sv.rules[i], I \cup {System})}, FALSE)
              unit == Assertions(s)
              pos == SelectSeq(IdSeq(w), LAMBDA p : p \in I)
              d == Propagated(s, <<System>> \o [i \in DOMAIN unit |-> RuleP(s.rules[unit[i]])] \o pos,
                              <<0>> \o unit \o [i \in DOMAIN pos |-> 0])
          IN  sv' = [s EXCEPT !.dq = d.dq, !.why = d.why, !.weakdec = wd]
  /\ UNCHANGED <<w, k>>
Recommend == /\ pc = "decided" /\ pc' = "asked"
             /\ \E noselected \in BOOLEAN : sv' = Recommendations(w, sv, noselected)
             /\ UNCHANGED <<w, k>>
(***************************************************************************)
(* Packages cleandeps should not have removed are kept and the search      *)
(* starts again (resolve_cleandeps).                                       *)
(***************************************************************************)
StartOver(s) == [s EXCEPT !.dq = <<>>, !.why = <<>>, !.weakdec = {}, !.rm = EmptyMaps]
Mistakes == /\ pc = "decided" /\ sv.hasclean
            /\ sv' = StartOver(CheckMistakes(w, sv))
            /\ sv'.mist # sv.mist
            /\ pc' = "ready" /\ UNCHANGED <<w, k>>
(***************************************************************************)
(* The next call of solver_solve takes nothing of the last result, so it   *)
(* may as well come before there is one.                                   *)
(***************************************************************************)
Again == pc = "ready" /\ k.solves < MaxSolves /\ pc' = "idle" /\ UNCHANGED <<w, sv, k>>
Next == \/ ChangeFlag \/ Start \/ AddPackage \/ NextSeed \/ ToUpdaters \/ ToJobPackages \/ ToWeak \/ AddWeak
        \/ ToLinked \/ AddLinked \/ Unify \/ AddUpdates \/ AddJobs \/ AddForbids \/ AddSteers \/ Finish
        \/ DisableJob \/ Decide \/ Recommend \/ Mistakes \/ Again
Spec == Init /\ [][Next]_vars
-----------------------------------------------------------------------------
Clash(p, q) ==
  /\ p # q /\ ~(DontFix(w, sv, p) /\ DontFix(w, sv, q))
  /\ \/ /\ SameName(w, p, q) /\ ~({p, q} \subseteq sv.multi /\ ~SameNevra(w, p, q))
        /\ Opt(w, "implicitobsoleteusescolors") => ColorMatch(w, p, q)
     \/ Obsoletes(w, p, q) /\ (p \in sv.multi => Opt(w, "keepexplicitobsoletes"))
Refuses(p, d, I) ==
  LET patch == Pk(w, p).kind = "patch"
      harmless == (IF DontFix(w, sv, p) THEN InstSet(w) ELSE {})
                  \cup (IF Opt(w, "forbidselfconflicts") THEN {} ELSE {p})
      \* a patch accepts a multiversion package next to a version it likes
      Excused(q) == q \in sv.multi /\ Versioned(d) /\ \E x \in I \cap sv.multi :
                      SameName(w, q, x) /\ Pk(w, q).arch = Pk(w, x).arch /\ ~MatchNevr(w, x, d)
  IN  IF IsComplex(d) /\ ~patch THEN Holds(w, d, I)
      ELSE \E q \in (ProvSet(w, d) \cap (I \cup {System})) \ harmless : patch => MatchNevr(w, q, d) /\ ~Excused(q)
LinksKept(I) ==
  \A p \in {q \in sv.m : HasLink(w, q)} :
    LET link == PackageLink(w, p)
        qp == ToSet(link.qp)
    IN  /\ p \in I /\ link.qr # <<>> => ToSet(link.qr) \cap I # {}
        /\ \A r \in I \cap ToSet(link.qr) : \A q \in qp : \E x \in qp \cap I : SameName(w, x, q)
Constrained(p, q, d) == /\ p # q /\ Versioned(d) /\ ~(DontFix(w, sv, p) /\ IsInst(w, q))
                        /\ q \in ProvSet(w, NameDep(d.n)) \ ProvSet(w, d)
Consistent(I) ==
  /\ LinksKept(I)
  /\ \A p \in I :
       /\ DontFix(w, sv, p) \/ Installable(w, p) \/ IsSrc(w, p)
       /\ \A d \in ToSet(Pk(w, p).requires) :
            \/ Holds(w, d, I) \/ Filtered(w, p, d)
            \/ DontFix(w, sv, p) /\ ~Holds(w, d, InstSet(w))
       /\ Opt(w, "conda") => \A d \in ToSet(Pk(w, p).constrains) : \A q \in I : ~Constrained(p, q, d)
       /\ IsSrc(w, p) \/ \A d \in ToSet(Pk(w, p).conflicts) : ~Refuses(p, d, I)
       /\ \A q \in I : ~Clash(p, q)
HardRules == {sv.rules[i].l : i \in (1..(sv.pkgend - 1)) \ ToSet(sv.recq)}
Models(I) == \A l \in HardRules : \E x \in DOMAIN l : LitTrue(l[x], I \cup {System})

(***************************************************************************)
(* What package rules are for: a set of packages, all of them with rules,  *)
(* is a model of the rules exactly if it is consistent.  An installed      *)
(* package that is not being fixed may stay as broken as it is.  Rules     *)
(* are kept from call to call, so this is said of calls that agree on the  *)
(* flags and on which packages are multiversion or to be fixed.            *)
(***************************************************************************)
PkgRulesExact ==
  (pc = "policies" /\ k.same) => \A I \in SUBSET (sv.m \ {System}) : Models(I) <=> Consistent(I)

(***************************************************************************)
(* Every package rule can be explained: solver_ruleinfo finds a dependency *)
(* of a package in it that makes this very rule.  And every rule after     *)
(* the package rules belongs to exactly one class.                         *)
(***************************************************************************)
RulesExplained ==
  /\ (pc = "policies" /\ k.same) => \A i \in 1..(sv.pkgend - 1) : RuleInfo(w, sv, i).t # "pkg"
  /\ pc = "ready" => \A i \in sv.pkgend..NRules(sv) : Cardinality({c \in Classes : i \in Seg(sv, c)}) = 1

(***************************************************************************)
(* The packages with rules are found again when the solver is called once  *)
(* more: deduceq2addedmap inverts addedmap2deduceq.                        *)
(***************************************************************************)
AddedmapRebuilt == [][(Start /\ sv.pkgend > 1) => sv'.m = sv.m]_vars

PolicyRuleNos == {i \in sv.pkgend..NRules(sv) : i \notin Seg(sv, "job")}
Reopened ==
  LET open == Switch(sv, PolicyRuleNos, TRUE)
  IN  Switch(open, NonDummy(sv, Seg(sv, "feature")), FALSE)
Following == PolicyRuleNos \ (IF sv.hasclean THEN Seg(sv, "update") \cup Seg(sv, "feature") ELSE {})
EnabledPolicy(s) == {i \in Following : s.rules[i].l # <<>> /\ s.rules[i].on}
Forbidding(p) == {i \in UNION {Seg(sv, c) : c \in {"infarch", "dup", "strict", "black"}} :
                    sv.rules[i].on /\ sv.rules[i].l = <<-p>>}

(***************************************************************************)
(* Whatever jobs have been given up: the enabled policy rules are those a  *)
(* fresh look at the remaining jobs leaves enabled, and none of those that *)
(* forbid a package forbids what a remaining job asks for by name.  Not so *)
(* the update rules under cleandeps: the map is computed anew when a job   *)
(* is given up, the update rules of the packages that enter or leave it    *)
(* stay as they are.                                                       *)
(***************************************************************************)
PolicyRulesFollowJobs ==
  pc = "ready" =>
    /\ EnabledPolicy(sv) = EnabledPolicy(DisablePolicyRules(w, Reopened))
    /\ \A i \in ToSet(ActiveJobs(sv)) :
         LET j == sv.jobs[i]
         IN  (j.op = "install" /\ j.sel = "solvable" /\ "noautoset" \notin j.flags) => Forbidding(j.what) = {}

Addressed == ErasedByJob(w, sv) \cup ToSet(Candidates(w, sv)) \cup ToSet(sv.cdupd)
\* what packages that stay require stays, and so does what the user asked for
Spares(gone) ==
  /\ \A p \in InstSet(w) \ (gone \cup Addressed) : \A d \in ToSet(Pk(w, p).requires) :
       LET prov == ProvSet(w, d) \cap InstSet(w)
       IN  ~IsComplex(d) /\ prov \ Addressed # {} => prov \ gone # {}
  /\ UserInstalledJobs(w, sv.jobs) \cap gone \subseteq Addressed

(***************************************************************************)
(* Cleandeps never takes away what a package that stays requires, nor a    *)
(* package the user asked for, unless a job itself addresses it.  Nor does *)
(* solver_get_unneeded list such a package; if it lists any, some of them  *)
(* are left when those that others of the list need are filtered out.      *)
(***************************************************************************)
CleandepsSafe ==
  pc = "ready" =>
     /\ sv.hasclean => Spares(sv.clean)
     /\ HaveInstalled(w) =>
          LET unneeded == GetUnneeded(w, sv, FALSE)
              few == GetUnneeded(w, sv, TRUE)
          IN  /\ Spares(ToSet(unneeded)) /\ ToSet(few) \subseteq ToSet(unneeded)
              /\ unneeded # <<>> => few # <<>>

(***************************************************************************)
(* What is recommended or suggested may be installed: no rule but an erase *)
(* job forbids it next to what was chosen.  And to ask changes no          *)
(* decision, although those of the erase jobs are taken back meanwhile.    *)
(***************************************************************************)
RecommendationsSound ==
  pc = "asked" =>
    /\ sv.dm = ToSet(sv.dq)
    /\ \A p \in ToSet(sv.reco) \cup ToSet(sv.sugg) : \A i \in DOMAIN sv.rules :
         sv.rules[i].on /\ ~(i \in Seg(sv, "job") /\ RuleP(sv.rules[i]) < 0) =>
           RuleHolds(sv.rules[i], {x \in ToSet(sv.dq) : x > 0} \cup {p})
              \/ ~InSeq(-p, sv.rules[i].l)

(***************************************************************************)
(* solver.h on havedisfavored: "do we have disfavored packages?".          *)
(***************************************************************************)
HavedisfavoredIsTrue == (pc = "ready" /\ sv.havedis) => \E p \in Ids(w) : sv.favor[p] < 0
=============================================================================
