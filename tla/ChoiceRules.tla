---------------------------- MODULE ChoiceRules -----------------------------
(***************************************************************************)
(* rules.c, rules that only steer the choice: choice rules (weak copies of *)
(* requires rules that keep to what is installed), best rules, yum's       *)
(* obsoletes rules, copies of recommends rules without disfavored          *)
(* packages, and the rules given up for orphaned packages.  Further fields *)
(* of the solver record sv:                                                *)
(*   weak       weakruleq                                                  *)
(*   choiceinfo, recinfo   package rule each choice/recommends rule is of  *)
(*   bestinfo   package (> 0) or job rule (< 0) each best rule is for      *)
(*   yuminfo    the obsoletes each yumobs rule is for                      *)
(*   targets    update_targets: installed package -> where it may go       *)
(*   broken     brokenorphanrules                                          *)
(***************************************************************************)
EXTENDS Cleandeps

(***************************************************************************)
(* rules.c, policy rules and jobs: a job switches off the policy rules it  *)
(* contradicts; when the job is switched off (to solve a problem), those   *)
(* that no other job contradicts are switched on again.  The same goes for *)
(* packages that cleandeps removes, until it finds that it was mistaken.   *)
(* A disable element is a record [t, x] of the kind of rule and a name or  *)
(* a package.                                                              *)
(*                                                                         *)
(* What a job fixes: its set flags, and unless told otherwise what its     *)
(* selection implies.  Versions are twice the version plus the release, so *)
(* "= version" without a release is a range of two.                        *)
(***************************************************************************)
SetFlags == {"setevr", "setev", "setarch", "setvendor", "setrepo", "setname"}
EvrPart(d) == IF IsRel(d) /\ d.op = "arch" THEN d.a ELSE d
IsEq(d) == ~IsRel(d) /\ d.lo > 0 /\ (d.lo = d.hi \/ (d.lo % 2 = 0 /\ d.hi = d.lo + 1))
AutoSet(w, j) ==
  CASE j.sel = "solvable" -> {"setname", "setarch", "setvendor", "setrepo", "setevr"}
    [] j.sel \in {"name", "provides"} ->
         (IF j.sel = "name" THEN {"setname"} ELSE {})
         \cup (IF j.sel = "name" /\ IsEq(EvrPart(j.what))
               THEN {IF EvrPart(j.what).lo = EvrPart(j.what).hi THEN "setevr" ELSE "setev"} ELSE {})
         \cup (IF IsRel(j.what) /\ j.what.op = "arch" THEN {"setarch"} ELSE {})
    [] OTHER -> {}
JobSet(w, j) == (j.flags \cap SetFlags) \cup (IF "noautoset" \in j.flags THEN {} ELSE AutoSet(w, j))
EvOnly(e) == e \div 2

(***************************************************************************)
(* installed_is_in_lockstep.                                               *)
(***************************************************************************)
InLockStep(w, sv, p) ==
  \E i \in Seg(sv, "infarch") : /\ RuleP(sv.rules[i]) < 0 /\ IsInst(w, -RuleP(sv.rules[i]))
                                /\ InSeq(p, sv.rules[i].l)

(***************************************************************************)
(* jobtodisablelist.                                                       *)
(***************************************************************************)
Off(t, x) == [t |-> t, x |-> x]
NamesOf(w, s) == PushAllUnique(<<>>, [i \in DOMAIN s |-> Pk(w, s[i]).name])
IsOff(e, s) == \E i \in DOMAIN s : s[i].t = e.t /\ s[i].x = e.x
OffAll(t, s) == [i \in DOMAIN s |-> Off(t, s[i])]
HasSeg(sv, c) == sv.seg[c][1] # sv.seg[c][2]
(***************************************************************************)
(* Installed packages every candidate of an install job replaces, as far   *)
(* as policy would not have allowed the replacement without the job.       *)
(***************************************************************************)
RECURSIVE IntersectAll(_, _, _, _, _)
IntersectAll(w, sv, s, q, first) ==
  IF s = <<>> \/ (q = <<>> /\ ~first) THEN q
  ELSE IntersectAll(w, sv, Tail(s), IntersectObsoleted(w, sv, s[1], q), FALSE)
SetFor == [downgrade |-> "setevr", name |-> "setname", arch |-> "setarch", vendor |-> "setvendor"]
SetsAll(set) == {"setevr", "setarch", "setvendor"} \subseteq set
IllegalByJob(w, p, q, set, i) ==
  i # {} /\ ~(i = {"downgrade"} /\ "setev" \in set /\ EvOnly(Pk(w, p).evr) # EvOnly(Pk(w, q).evr))
LegalFor(w, sv, p, sel, set) ==
  \A k \in DOMAIN sel :
     ~IllegalByJob(w, p, sel[k], set, IsIllegal(w, sv, p, sel[k], {f \in DOMAIN SetFor : SetFor[f] \in set}))
UpdatesOff(w, sv, j, sel, set) ==
  IF ~HaveInstalled(w) THEN <<>>
  ELSE IF j.sel = "solvable" /\ IsInst(w, j.what) /\ sv.bestinfo # <<>> /\ SetsAll(set)
       THEN (IF BestUpRules(sv, j.what) # {} THEN <<j.what>> ELSE <<>>)
  ELSE IF \E i \in DOMAIN sel : \/ IsInst(w, sel[i])
                                \/ sel[i] \in sv.multi /\ ~Opt(w, "keepexplicitobsoletes") THEN <<>>
  ELSE SelectSeq(IntersectAll(w, sv, sel, <<>>, TRUE),
                 LAMBDA p : SetsAll(set) \/ LegalFor(w, sv, p, sel, set))
IsInferior(sv, p) == \E i \in Seg(sv, "infarch") : RuleP(sv.rules[i]) = -p
ListOff(w, sv, j, sel, set) ==
  IF set = {} THEN <<>>
  ELSE (IF "setarch" \in set
        THEN OffAll("infarch", NamesOf(w, SelectSeq(sel, LAMBDA p : IsInferior(sv, p)))) ELSE <<>>)
       \o (IF "setrepo" \in set /\ HasSeg(sv, "dup") THEN OffAll("dup", NamesOf(w, sel)) ELSE <<>>)
       \o (IF "setrepo" \in set /\ HasSeg(sv, "strict") THEN OffAll("strict", NamesOf(w, sel)) ELSE <<>>)
       \o (IF "setevr" \in set /\ HasSeg(sv, "black") THEN OffAll("black", sel) ELSE <<>>)
       \o OffAll("update", UpdatesOff(w, sv, j, sel, set))
InstallOff(w, sv, j) == ListOff(w, sv, j, JobSelect(w, j), JobSet(w, j))
EraseOff(w, sv, j) ==
  LET lock == Opt(w, "implicitobsoleteusescolors") /\ HasSeg(sv, "infarch")
      set == (j.flags \cap SetFlags)
             \cup (IF lock /\ {"noautoset", "setarch"} \cap j.flags = {} /\ "setarch" \in AutoSet(w, j)
                   THEN {"setarch"} ELSE {})
      sel == SelectSeq(JobSelect(w, j), LAMBDA p : IsInst(w, p))
      Of(p) == <<Off("update", p)>>
               \o (IF lock /\ "setarch" \in set /\ InLockStep(w, sv, p) THEN <<Off("infarch", Pk(w, p).name)>> ELSE <<>>)
               \o (IF sv.buddy[p] > 1 THEN <<Off("update", sv.buddy[p])>> ELSE <<>>)
  IN  (IF SelectsAllInstalled(j) THEN OffAll("update", InstSeq(w)) ELSE <<>>) \o ForEach(sel, Of)
LockOff(w, j) ==
  LET sel == IF SelectsAllInstalled(j) THEN InstSeq(w) ELSE SelectSeq(JobSelect(w, j), LAMBDA p : IsInst(w, p))
  IN  OffAll("dup", NamesOf(w, sel))
DisableList(w, sv, j) == CASE j.op = "install" -> InstallOff(w, sv, j)
                           [] j.op = "erase" -> IF HaveInstalled(w) THEN EraseOff(w, sv, j) ELSE <<>>
                           [] j.op = "lock" -> LockOff(w, j)
                           [] OTHER -> <<>>

(***************************************************************************)
(* The rules a disable element stands for, apart from update rules.        *)
(***************************************************************************)
NamedRules(w, sv, c, n) == {i \in Seg(sv, c) : RuleP(sv.rules[i]) < 0 /\ Pk(w, -RuleP(sv.rules[i])).name = n}
ElementRules(w, sv, e) == IF e.t = "black" THEN {i \in Seg(sv, "black") : RuleP(sv.rules[i]) = -e.x}
                          ELSE NamedRules(w, sv, e.t, e.x)
Disable(w, sv, e) == IF e.t = "update" THEN DisableUpdateRule(w, sv, e.x)
                     ELSE Switch(sv, ElementRules(w, sv, e), FALSE)
Reenable(w, sv, e) == IF e.t = "update" THEN ReenableUpdateRule(w, sv, e.x)
                      ELSE Switch(sv, ElementRules(w, sv, e), TRUE)

(***************************************************************************)
(* The jobs with an enabled rule, in the order of their rules.             *)
(***************************************************************************)
ActiveJobs(sv) == LET e == EnabledJobRules(sv)
                  IN  PushAllUnique(<<>>, [k \in DOMAIN e |-> sv.r2j[e[k] - sv.seg.job[1] + 1]])
JobsOff(w, sv) == ForEach(ActiveJobs(sv), LAMBDA k : DisableList(w, sv, sv.jobs[k]))
Recompute(w, sv) == IF sv.hasclean THEN [sv EXCEPT !.clean = CleandepsMap(w, sv, FALSE)] ELSE sv

DisableAll(w, s) ==
  FoldLeft(LAMBDA x, e : Disable(w, x, e), [s EXCEPT !.noupd = {}],
           JobsOff(w, s) \o OffAll("update", SelectSeq(InstSeq(w), LAMBDA p : s.hasclean /\ p \in s.clean)))
DisablePolicyRules(w, sv) == DisableAll(w, Recompute(w, sv))

(***************************************************************************)
(* solver_reenablepolicyrules for a job whose rules were just disabled.    *)
(***************************************************************************)
ReenablePolicyRulesBug(w, sv, k) ==   \* mutant: the lists of the other jobs are not looked at
  FoldLeft(LAMBDA x, e : Reenable(w, x, e), Recompute(w, sv), DisableList(w, sv, sv.jobs[k]))
ReenableList(w, s, q, others) ==
  LET left == SelectSeq(q, LAMBDA e : /\ ~(s.hasclean /\ e.t = "update" /\ e.x \in s.clean)
                                      /\ ~IsOff(e, others))
  IN  FoldLeft(LAMBDA x, e : Reenable(w, x, e), s, left)
ReenableAgain(w, sv, q) == IF q = <<>> THEN sv ELSE ReenableList(w, Recompute(w, sv), q, JobsOff(w, sv))
ReenablePolicyRules(w, sv, k) == ReenableAgain(w, sv, DisableList(w, sv, sv.jobs[k]))

(***************************************************************************)
(* add_cleandeps_mistake and solver_reenablepolicyrules_cleandeps.         *)
(***************************************************************************)
ReenableMistake(w, s, p) == IF IsOff(Off("update", p), JobsOff(w, s)) THEN s ELSE ReenableUpdateRule(w, s, p)
CleandepsMistake(w, sv, p) == ReenableMistake(w, [sv EXCEPT !.mist = Append(@, p), !.clean = @ \ {p}], p)

(***************************************************************************)
(* solver_check_cleandeps_mistakes: a package that cleandeps would remove  *)
(* but that a kept package requires, that the result recommends, or that   *)
(* was replaced by something its update or best rule does not allow.       *)
(***************************************************************************)
RuleTrue(sv, r) == \E i \in DOMAIN r.l : r.l[i] > 0 /\ Decided(sv, r.l[i]) > 0
RequiresMistakes(w, sv, p) ==
  LET all == ForEach(Pk(w, p).requires, LAMBDA d : Providers(w, d))
  IN  IF Decided(sv, p) <= 0 THEN <<>>
      ELSE PushAllUnique(<<>>, SelectSeq(all, LAMBDA q : /\ IsInst(w, q) /\ q # p /\ Decided(sv, q) <= 0
                                                         /\ q \in sv.clean))
ReplacedMistake(w, sv, p) ==
  LET f == FeatureRule(w, sv, p)
      u == UpdateRule(w, sv, p)
      fr == IF RuleP(f) # 0 THEN f ELSE u
  IN  /\ p \in sv.clean /\ RuleP(fr) # 0
      /\ IF ~RuleTrue(sv, fr) THEN p \in sv.rm.maps.rec.m \/ IsSupplementing(w, sv, p)
         ELSE \/ RuleP(u) # 0 /\ RuleP(f) # 0 /\ ~RuleTrue(sv, u)
              \/ \E i \in BestUpRules(sv, p) : ~RuleTrue(sv, sv.rules[i])
IfReplaced(w, s, p) == IF ReplacedMistake(w, s, p) THEN CleandepsMistake(w, s, p) ELSE s
CheckMistake(w, s, p) ==
  IfReplaced(w, FoldLeft(LAMBDA x, q : CleandepsMistake(w, x, q), s, RequiresMistakes(w, s, p)), p)
CheckMistakes(w, sv) ==
  IF sv.hasclean THEN FoldLeft(LAMBDA s, p : CheckMistake(w, s, p), UpdateRecommendsMap(w, sv), InstSeq(w)) ELSE sv

-----------------------------------------------------------------------------
Positive(l) == SelectSeq(l, LAMBDA x : x > 0)
Negative(l) == SelectSeq(l, LAMBDA x : x < 0)
PolicyRuleOf(w, sv, p) == IF UpdateRule(w, sv, p).l # <<>> THEN UpdateRule(w, sv, p).l ELSE FeatureRule(w, sv, p).l
(***************************************************************************)
(* solver_choicerulecheck: none of the best versions of installed package  *)
(* p is among the providers m.                                             *)
(***************************************************************************)
NoneOfTheBest(w, sv, ur, m) ==
  \/ ur = <<>>
  \/ Len(ur) = 1 /\ ur[1] \notin m
  \/ /\ Len(ur) > 1 /\ ~(ToSet(ur) \subseteq m)
     /\ ToSet(FilterUnwanted(w, sv, ur, "choose")) \cap m = {}
ChoiceRuleCheck(w, sv, p, m) ==
  /\ PolicyRuleOf(w, sv, p) # <<>>
  /\ NoneOfTheBest(w, sv, Positive(PolicyRuleOf(w, sv, p)), m)
(***************************************************************************)
(* choicerule_find_installed: the installed package that p would replace.  *)
(***************************************************************************)
FirstOf(s) == IF s = <<>> THEN 0 ELSE s[1]
FindInstalled(w, p) ==
  IF Pk(w, p).repo = "none" THEN 0
  ELSE IF IsInst(w, p) THEN p
  ELSE FirstOf(SelectSeq(NameProviders(w, p),
                         LAMBDA q : /\ IsInst(w, q)
                                    /\ Opt(w, "implicitobsoleteusesprovides") \/ SameName(w, p, q)
                                    /\ Opt(w, "implicitobsoleteusescolors") => ColorMatch(w, p, q))
               \o ReplacedByObsoletes(w, p))

(***************************************************************************)
(* solver_addchoicerules for one requires rule: <<>> or the literals of    *)
(* its choice rule.  There is a choice if one provider has nothing to do   *)
(* with the installed packages and another one has.                        *)
(***************************************************************************)
Forbidden(sv) == {-RuleP(sv.rules[i]) : i \in {k \in Seg(sv, "infarch") \cup Seg(sv, "dup") :
                                                 RuleP(sv.rules[k]) < 0 /\ Len(sv.rules[k].l) = 1}}
PairWith(w, s) == [i \in DOMAIN s |-> [old |-> FindInstalled(w, s[i]), new |-> s[i]]]
ChoicePairs(w, sv, l) ==
  SelectSeq(PairWith(w, Positive(l)),
            LAMBDA x : /\ Pk(w, x.new).repo # "none" /\ x.old # 0
                       /\ IsInst(w, x.new) \/ (x.new \notin Forbidden(sv) /\ IsIllegal(w, sv, x.old, x.new, {}) = {}))
IsDowngrade(w, sv, x) == /\ Opt(w, "allow_downgrade") \/ (sv.dup # {} /\ Opt(w, "dup_downgrade"))
                         /\ SameName(w, x.old, x.new) /\ Pk(w, x.old).evr > Pk(w, x.new).evr
LitsWithoutOthers(w, sv, l, m, qi) ==
  IF \A i \in DOMAIN qi : ToSet(PolicyRuleOf(w, sv, qi[i].old)) \subseteq m THEN <<>>
  ELSE <<l[1]>> \o SelectSeq(Negative(l), LAMBDA x : x # l[1]) \o [i \in DOMAIN qi |-> qi[i].new]
SomeIndependent(w, l) == \E i \in DOMAIN l : l[i] > 0 /\ Pk(w, l[i]).repo # "none" /\ FindInstalled(w, l[i]) = 0
ChoiceFixed(w, sv, l) == \E i \in DOMAIN l : l[i] < 0 /\ IsInst(w, -l[i]) /\ -l[i] \notin sv.upd
ChoiceStays(w, sv, l, x) ==
  ChoiceFixed(w, sv, l) \/ ~(/\ IsDowngrade(w, sv, x) \/ x.old \in sv.upd
                             /\ ChoiceRuleCheck(w, sv, x.old, ToSet(Positive(l))))
ChoiceLits(w, sv, l) ==
  IF l[1] >= 0 \/ Len(l) = 1 \/ (Len(l) = 2 /\ l[2] < 0) \/ ~SomeIndependent(w, l) THEN <<>>
  ELSE LitsWithoutOthers(w, sv, l, ToSet(Positive(l)),
                         SelectSeq(ChoicePairs(w, sv, l), LAMBDA x : ChoiceStays(w, sv, l, x)))
AddChoiceRule(sv, rid, l) ==
  IF l = <<>> \/ (NRules(sv) >= sv.seg.choice[1] /\ sv.rules[NRules(sv)].l = l) THEN sv
  ELSE [AddRule(sv, l) EXCEPT !.weak = Append(@, NRules(sv) + 1), !.choiceinfo = Append(@, rid)]
AddChoiceStep(w, sv, rid) == AddChoiceRule(sv, rid, ChoiceLits(w, sv, sv.rules[rid].l))
AddChoiceRules(w, sv) ==
  LET s == [OpenSeg(sv, "choice") EXCEPT !.choiceinfo = <<>>]
  IN  IF ~HaveInstalled(w) THEN s
      ELSE CloseSeg(FoldLeft(LAMBDA x, i : AddChoiceStep(w, x, i), s, [i \in 1..(sv.pkgend - 1) |-> i]), "choice")

(***************************************************************************)
(* solver_disablechoicerules: with one of them go all whose package rule   *)
(* has a provider the disabled rule excluded.                              *)
(***************************************************************************)
ChoicePkgRule(sv, i) == sv.rules[sv.choiceinfo[i - sv.seg.choice[1] + 1]].l
DisableChoiceRules(sv, i) ==
  LET excluded == ToSet(Positive(ChoicePkgRule(sv, i))) \ ToSet(Positive(sv.rules[i].l))
      others == {k \in Seg(sv, "choice") : sv.rules[k].on /\ ToSet(Positive(ChoicePkgRule(sv, k))) \cap excluded # {}}
  IN  Switch(sv, {i} \cup others, FALSE)

(***************************************************************************)
(* solver_addbestrules.  A locked package that is installed is always as   *)
(* good as the best, one that is not is as if it were not there.           *)
(***************************************************************************)
LockedPkgs(sv) == {Lit2Pkg(RuleP(sv.rules[i])) : i \in {k \in Seg(sv, "job") :
                     Len(sv.rules[k].l) < 2 /\ JobOf(sv, k).op = "lock"}}
PruneDisabled(w, s) == IF Opt(w, "whatprovideswithdisabled")
                       THEN SelectSeq(s, LAMBDA p : IsInst(w, p) \/ ~Disabled(w, p)) ELSE s
NotLocked(w, sv, s) == SelectSeq(s, LAMBDA p : IsInst(w, p) \/ p \notin LockedPkgs(sv))
LockedInst(w, sv, s) == SelectSeq(s, LAMBDA p : IsInst(w, p) /\ p \in LockedPkgs(sv))
Recommended(w, sv, s) == FilterUnwanted(w, sv, s, "recommend")
(***************************************************************************)
(* The lists the best ones are taken of: all candidates, and with locks    *)
(* those that are not locked.                                              *)
(***************************************************************************)
Lists(w, sv, s) == IF LockedPkgs(sv) = {} THEN <<s>> ELSE <<s, NotLocked(w, sv, s)>>
WithLocked(w, sv, best, locked) ==
  IF LockedPkgs(sv) = {} THEN best[1]
  ELSE PushAllUnique(PushAllUnique(best[1], LockedInst(w, sv, locked)), best[2])
BestInstallLits(w, sv, l, all, best) ==
  IF Len(best[1]) = Len(all) THEN <<>> ELSE Negative(l) \o WithLocked(w, sv, best, Positive(l))
BestOfLists(w, sv, lists) == [i \in DOMAIN lists |-> Recommended(w, sv, lists[i])]
BestInstallFrom(w, sv, l, all) == BestInstallLits(w, sv, l, all, BestOfLists(w, sv, Lists(w, sv, all)))
BestInstall(w, sv, l) == BestInstallFrom(w, sv, l, PruneDisabled(w, Positive(l)))
AddBestRule(sv, i, l, weak) ==
  IF l = <<>> THEN sv
  ELSE [AddRule(sv, l) EXCEPT !.bestinfo = Append(@, i),
                              !.weak = IF weak THEN Append(@, NRules(sv) + 1) ELSE @]
AddBestInstall(w, sv, i) ==
  AddBestRule(sv, -i, BestInstall(w, sv, sv.rules[i].l), "weak" \in JobOf(sv, i).flags)
TargetsOnly(sv, p, s) ==
  SelectSeq(s, LAMBDA q : /\ sv.targets[p] # <<>> => InSeq(q, sv.targets[p])
                          /\ sv.dup # {} /\ p \in sv.dup => q \in sv.good)
BestCandidates(w, sv, p, f, u) ==
  LET isupd == Opt(w, "bestobeypolicy") \/ f = <<>>
  IN  IF isupd /\ sv.special[p] # <<>>
      THEN (IF u # <<>> /\ u[1] = p THEN <<p>> ELSE <<>>) \o sv.special[p]
      ELSE Positive(IF isupd THEN u ELSE f)
(***************************************************************************)
(* The best ones of q0, with locks also the locked ones and the best of    *)
(* the others, and the best of the feature rule if the policy is obeyed.   *)
(***************************************************************************)
WithSelf(sv, p, q) == IF p \in LockedPkgs(sv) THEN PushUnique(q, p) ELSE q
UpdateLists(w, sv, p, q, f) ==
  <<q>> \o (IF LockedPkgs(sv) = {} THEN <<>>
            ELSE <<LockedInst(w, sv, WithSelf(sv, p, q)), NotLocked(w, sv, WithSelf(sv, p, q))>>)
  \o (IF Opt(w, "bestobeypolicy") /\ f # <<>> THEN Lists(w, sv, f) ELSE <<>>)
PruneLists(w, sv, p, lists) ==
  [i \in DOMAIN lists |-> IF i = 2 /\ LockedPkgs(sv) # {} THEN lists[i]
                          ELSE Recommended(w, sv, TargetsOnly(sv, p, lists[i]))]
JoinBest(lists) == IF lists[1] = <<>> THEN <<>> ELSE FoldLeft(LAMBDA q, s : PushAllUnique(q, s), <<>>, lists)
BestUpdateFrom(w, sv, p, q, f) == JoinBest(PruneLists(w, sv, p, UpdateLists(w, sv, p, q, f)))
BestUpdate(w, sv, p) ==
  BestUpdateFrom(w, sv, p, BestCandidates(w, sv, p, FeatureRule(w, sv, p).l, UpdateRule(w, sv, p).l),
                 Positive(FeatureRule(w, sv, p).l))
(***************************************************************************)
(* A package that may also be uninstalled gets one rule against each worse *)
(* candidate instead of the rule for the best ones.                        *)
(***************************************************************************)
BestRulesFor(sv, p, r, q) ==
  LET worse == SelectSeq(r, LAMBDA x : ~InSeq(x, q))
  IN  IF q = <<>> THEN <<>>
      ELSE IF p \in sv.allowun THEN [i \in DOMAIN worse |-> <<-worse[i]>> \o q]
      ELSE <<q>>
BestRulesOf(w, sv, p) ==
  IF p \notin sv.upd \/ p \notin sv.bestupd THEN <<>>
  ELSE BestRulesFor(sv, p, IF FeatureRule(w, sv, p).l # <<>> THEN FeatureRule(w, sv, p).l ELSE UpdateRule(w, sv, p).l,
                    BestUpdate(w, sv, p))
AddBestUpdate(w, sv, p) ==
  FoldLeft(LAMBDA s, l : AddBestRule(s, p, l, FALSE), sv, BestRulesOf(w, sv, p))
AddBestUpdates(w, sv) == FoldLeft(LAMBDA x, p : AddBestUpdate(w, x, p), sv, IF HaveInstalled(w) THEN InstSeq(w) ELSE <<>>)
NoteBestUp(sv) == [sv EXCEPT !.bestup = NRules(sv) + 1]
JobRuleSeq(sv, k) == SelectSeq([i \in 1..(sv.seg.job[2] - sv.seg.job[1]) |-> sv.seg.job[1] + i - 1],
                               LAMBDA i : sv.r2j[i - sv.seg.job[1] + 1] = k)
BestInstallJobs(sv) == SelectSeq([k \in DOMAIN sv.jobs |-> k],
                                 LAMBDA k : sv.jobs[k].op = "install" /\ "forcebest" \in sv.jobs[k].flags)
AddBestInstalls(w, sv, installjobs) ==
  FoldLeft(LAMBDA x, i : AddBestInstall(w, x, i), [OpenSeg(sv, "best") EXCEPT !.bestinfo = <<>>],
           IF installjobs THEN ForEach(BestInstallJobs(sv), LAMBDA k : JobRuleSeq(sv, k)) ELSE <<>>)
AddBestRules(w, sv, installjobs) ==
  CloseSeg(AddBestUpdates(w, NoteBestUp(AddBestInstalls(w, sv, installjobs))), "best")

(***************************************************************************)
(* find_obsolete_group and solver_addyumobsrules: if packages of several   *)
(* names obsolete the same installed package, one of them may only come    *)
(* together with one of each other name.                                   *)
(***************************************************************************)
AnyColors(w, p, q) == (Opt(w, "obsoleteusescolors") \/ Opt(w, "implicitobsoleteusescolors")) => ColorMatch(w, p, q)
ObsInstalled(w, d) == SelectSeq(Providers(w, d), LAMBDA q : IsInst(w, q) /\ ObsMatches(w, q, q, d))
GroupByHead(w, q, heads) ==
  IF Len(heads) < 2 THEN <<>>
  ELSE [i \in DOMAIN heads |-> SelectSeq(q, LAMBDA p : SameName(w, p, heads[i]))]
ObsoleteGroups(w, d) ==
  LET Of(s) == SelectSeq(ObsoleteIndex(w, s) \o NameGroup(w, s),
                         LAMBDA q : InSeq(d, Pk(w, q).obsoletes) /\ AnyColors(w, s, q))
      q == PushAllUnique(<<>>, ForEach(ObsInstalled(w, d), Of))
  IN  GroupByHead(w, q, PruneBestVersion(w, q))
YumObsDeps(w) ==
  LET Hit(p, d) == \E q \in ToSet(ObsInstalled(w, d)) : AnyColors(w, p, q)
      Of(p) == ForEach(ObsoleteIndex(w, p), LAMBDA o : SelectSeq(Pk(w, o).obsoletes, LAMBDA d : Hit(p, d)))
  IN  PushAllUnique(<<>>, ForEach(InstSeq(w), Of))
YumObsLits(w, g) ==
  LET Others(i, p) == [k \in 1..(Len(g) - 1) |-> <<-p>> \o g[IF k < i THEN k ELSE k + 1]]
  IN  ForEach([i \in DOMAIN g |-> i],
              LAMBDA i : ForEach(SelectSeq(g[i], LAMBDA p : ~IsInst(w, p)), LAMBDA p : Others(i, p)))
(***************************************************************************)
(* Without such an obsoletes the end of the class is left as it was.       *)
(***************************************************************************)
AddYumObsRules(w, sv) ==
  LET s == [OpenSeg(sv, "yumobs") EXCEPT !.yuminfo = <<>>]
      AddLits(x, d, ls) == [AddRules(x, ls) EXCEPT !.yuminfo = @ \o [i \in DOMAIN ls |-> d]]
      Add(x, d) == AddLits(x, d, YumObsLits(w, ObsoleteGroups(w, d)))
  IN  IF ~HaveInstalled(w) THEN s
      ELSE IF YumObsDeps(w) = <<>> THEN [s EXCEPT !.seg.yumobs[2] = sv.seg.yumobs[2]]
      ELSE CloseSeg(FoldLeft(Add, s, YumObsDeps(w)), "yumobs")

(***************************************************************************)
(* solver_addrecommendsrules: a recommends rule with disfavored providers  *)
(* is replaced by one without them, if anything is left.                   *)
(***************************************************************************)
RecommendsStep(sv, rid) ==
  LET l == sv.rules[rid].l
      q == SelectSeq(l, LAMBDA x : ~(x > 0 /\ sv.favor[x] < 0))
      s == Switch(sv, {rid}, FALSE)
  IN  IF Len(q) = Len(l) THEN sv
      ELSE IF Positive(q) = <<>> \/ Len(q) < 2 THEN s
      ELSE [AddRule(s, q) EXCEPT !.recinfo = Append(@, rid)]
AddRecommendsRules(sv) ==
  CloseSeg(FoldLeft(RecommendsStep, [OpenSeg(sv, "recommends") EXCEPT !.recinfo = <<>>], sv.recq), "recommends")

(***************************************************************************)
(* solver_breakorphans: dependency rules of orphaned packages are given    *)
(* up; solver_check_brokenorphanrules names what would fulfil them.        *)
(***************************************************************************)
LeadingNeg(l) == LET k == {i \in 2..Len(l) : \A j \in 2..i : l[j] < 0} IN {-l[i] : i \in k}
OrphanRule(w, sv, l) ==
  LET o == {p \in ToSet(sv.orphaned) : IsInst(w, p) /\ p \notin sv.drop}
  IN  /\ l # <<>> /\ l[1] < 0 /\ ~(Len(l) = 2 /\ l[2] < 0)
      /\ -l[1] \in o \/ (Len(l) > 2 /\ LeadingNeg(l) \cap o # {})
BreakOrphans(w, sv) ==
  LET b == SelectSeq([i \in 1..(sv.pkgend - 1) |-> i], LAMBDA i : OrphanRule(w, sv, sv.rules[i].l))
  IN  IF ~HaveInstalled(w) \/ InstSet(w) \subseteq sv.drop THEN sv
      ELSE Switch([sv EXCEPT !.broken = b], ToSet(b), FALSE)

(***************************************************************************)
(* solver_ruleclass: which class a rule number belongs to.                 *)
(***************************************************************************)
ClassOrder == <<"job", "update", "feature", "dup", "infarch", "best", "yumobs", "black", "choice", "recommends", "strict">>
RuleClass(sv, i) ==
  LET hit == SelectSeq(ClassOrder, LAMBDA c : i \in Seg(sv, c))
  IN  IF i < sv.pkgend THEN "pkg" ELSE IF hit # <<>> THEN hit[1] ELSE "unknown"
(***************************************************************************)
(* solver_ruleinfo: type, from, to and dependency of any rule.             *)
(***************************************************************************)
Info(t, from, to, d) == [t |-> t, from |-> from, to |-> to, d |-> d]
JobRuleType(r, j) ==
  IF r.l # <<-System>> THEN "job"
  ELSE CASE j.op = "install" /\ j.sel = "name" -> "job_unknown_package"
         [] j.op = "install" /\ j.sel = "provides" -> "job_nothing_provides_dep"
         [] j.op = "erase" /\ j.sel \in {"name", "provides"} -> "job_provided_by_system"
         [] OTHER -> "job_unsupported"
RuleInfo(w, sv, i) ==
  LET r == sv.rules[i]
      c == RuleClass(sv, i)
      k == i - (IF c \in {"pkg", "unknown"} THEN 0 ELSE sv.seg[c][1]) + 1
  IN  CASE c = "pkg" -> BestRuleInfo(PkgRuleInfos(w, sv, r))
        [] c = "job" -> Info(JobRuleType(r, JobOf(sv, i)), sv.r2j[k], 0, NoDep)
        [] c \in {"update", "feature"} -> Info(c, InstSeq(w)[k], 0, NoDep)
        [] c \in {"dup", "infarch"} -> Info(c, -RuleP(r), 0, NameDep(Pk(w, -RuleP(r)).name))
        [] c = "best" -> IF sv.bestinfo[k] > 0 THEN Info(c, sv.bestinfo[k], 0, NoDep)
                         ELSE Info(c, 0, -sv.bestinfo[k], NoDep)
        [] c = "yumobs" -> Info(c, -RuleP(r), r.l[2], sv.yuminfo[k])
        [] c \in {"black", "strict"} -> Info(c, -RuleP(r), 0, NoDep)
        [] c = "choice" -> Info(c, sv.choiceinfo[k], 0, NoDep)
        [] c = "recommends" -> Info(c, sv.recinfo[k], 0, NoDep)
        [] OTHER -> Info("unknown", 0, 0, NoDep)
=============================================================================
