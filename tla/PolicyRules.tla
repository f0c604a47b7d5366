---------------------------- MODULE PolicyRules ----------------------------
(***************************************************************************)
(* rules.c, the policy rules: update and feature rules that keep installed *)
(* packages, and the rules that forbid candidates (inferior architecture,  *)
(* dist upgrade, blacklist, strict repository priority).  Further fields   *)
(* of the solver record sv:                                                *)
(*   seg       class of rules -> <<first rule, end>>                       *)
(*   upd, bestupd, drop, allowun   sets of installed packages, from the    *)
(*             maps of the same purpose and their _all flags               *)
(*   good      dupmap: packages a dist upgrade may install or keep         *)
(*   orphaned  the queue of orphaned packages                              *)
(*   special   installed package -> specialupdaters (a candidate list)     *)
(*   noupd     installed packages whose update is switched off             *)
(*   cdupd     cleandeps_updatepkgs                                        *)
(***************************************************************************)
EXTENDS Policy

Seg(sv, c) == sv.seg[c][1]..(sv.seg[c][2] - 1)
OpenSeg(sv, c) == [sv EXCEPT !.seg[c] = <<Len(sv.rules) + 1, Len(sv.rules) + 1>>]
CloseSeg(sv, c) == [sv EXCEPT !.seg[c][2] = Len(sv.rules) + 1]
AddRules(sv, ls) == FoldLeft(AddRule, sv, ls)
RulesSeg(sv, c, ls) == CloseSeg(AddRules(OpenSeg(sv, c), ls), c)

DupMayKeepInstalled(w, sv, p) ==
  \/ p \in sv.good
  \/ \E q \in sv.good : Indexed(w, q) /\ Identical(w, p, q)

IsLinkedPseudo(w, sv, p) == sv.buddy[p] # 0 /\ Pk(w, p).kind \in {"pattern", "application"}

(***************************************************************************)
(* solver_addfeaturerule: the package or anything that could replace it.   *)
(* An orphan of a dist upgrade has none.                                   *)
(***************************************************************************)
IsOrphan(w, sv, p, q) ==
  /\ p \in sv.dup
  /\ ~DupMayKeepInstalled(w, sv, p)
  /\ \A i \in DOMAIN q : IsInst(w, q[i]) /\ ~DupMayKeepInstalled(w, sv, q[i])
FeatureFrom(w, sv, p, q) == IF IsLinkedPseudo(w, sv, p) \/ IsOrphan(w, sv, p, q) THEN <<>> ELSE <<p>> \o q
FeatureLits(w, sv, p) == FeatureFrom(w, sv, p, FindUpdatePackages(w, sv, p, "all"))
AddFeatureRules(w, sv) == RulesSeg(sv, "feature", [i \in DOMAIN InstSeq(w) |-> FeatureLits(w, sv, InstSeq(w)[i])])

(***************************************************************************)
(* solver_addupdaterule.  Multiversion packages do not update others; if   *)
(* only they could, they are remembered as special updaters.               *)
(***************************************************************************)
MultiversionObsoleted(w, p, q) == /\ Opt(w, "obsoleteusescolors") => ColorMatch(w, p, q)
                                  /\ \E i \in DOMAIN Pk(w, q).obsoletes :
                                       IF Opt(w, "obsoleteusesprovides") THEN p \in ProvSet(w, Pk(w, q).obsoletes[i])
                                       ELSE MatchNevr(w, p, Pk(w, q).obsoletes[i])
KeepsOrphan(w, sv, p) == Opt(w, "keeporphans") /\ p \notin sv.drop
NoteOrphan(sv, p) == [sv EXCEPT !.orphaned = Append(@, p)]
StillUpdates(w, sv, p, x) ==
  \/ x \notin sv.multi
  \/ Opt(w, "keepexplicitobsoletes") /\ MultiversionObsoleted(w, p, x)
  \/ SameNevra(w, p, x)
UpdateFrom(w, sv, p, q, f) ==
  IF /\ \E i \in DOMAIN q : q[i] \in sv.multi
     /\ f = <<>> /\ p \in sv.dup /\ ~DupMayKeepInstalled(w, sv, p)
  THEN AddRule([NoteOrphan(sv, p) EXCEPT !.special[p] = q], IF KeepsOrphan(w, sv, p) THEN <<p>> ELSE <<p>> \o q)
  ELSE AddRule(IF Len(f) < Len(q) /\ p \in sv.upd THEN [sv EXCEPT !.special[p] = q] ELSE sv, <<p>> \o f)
UpdateWith(w, sv, p, q) == UpdateFrom(w, sv, p, q, SelectSeq(q, LAMBDA x : StillUpdates(w, sv, p, x)))
AddUpdateRule(w, sv, p) ==
  IF Disabled(w, p) THEN AddRule(sv, <<p>>)
  ELSE IF RuleP(FeatureRule(w, sv, p)) # 0
       THEN UpdateWith(w, sv, p, FindUpdatePackages(w, sv, p, IF p \in sv.dup THEN "dup" ELSE "policy"))
  ELSE IF IsLinkedPseudo(w, sv, p) THEN AddRule(sv, <<>>)
  ELSE AddRule(NoteOrphan(sv, p), IF KeepsOrphan(w, sv, p) THEN <<p>> ELSE <<>>)

(***************************************************************************)
(* Replacing a rule, and enabling or disabling several.                    *)
(***************************************************************************)
SetRule(sv, i, r) == [sv EXCEPT !.rules[i] = r]
Switch(sv, is, on) == [sv EXCEPT !.rules = [i \in DOMAIN @ |-> IF i \in is THEN [@[i] EXCEPT !.on = on] ELSE @[i]]]

(***************************************************************************)
(* disableupdaterule and reenableupdaterule.  upbest numbers the best      *)
(* rules of updated packages, bestinfo says which package each is of.      *)
(***************************************************************************)
UpdNo(w, sv, p) == sv.seg.update[1] + InstOffset(w, p)
FeatNo(w, sv, p) == sv.seg.feature[1] + InstOffset(w, p)
BestUpRules(sv, p) == {i \in Seg(sv, "best") : i >= sv.bestup /\ sv.bestinfo[i - sv.seg.best[1] + 1] = p}
NonDummy(sv, is) == {i \in is : sv.rules[i].l # <<>>}
DisableUpdateRule(w, sv, p) ==
  Switch([sv EXCEPT !.noupd = @ \cup {p}],
         NonDummy(sv, {UpdNo(w, sv, p), FeatNo(w, sv, p)}) \cup BestUpRules(sv, p), FALSE)
ReenableUpdateRule(w, sv, p) ==
  LET u == UpdNo(w, sv, p)
      f == FeatNo(w, sv, p)
  IN  Switch([sv EXCEPT !.noupd = @ \ {p}],
             (IF sv.rules[u].l # <<>> THEN {u} ELSE NonDummy(sv, {f})) \cup BestUpRules(sv, p), TRUE)

(***************************************************************************)
(* The first added package of every name stands for its group.             *)
(***************************************************************************)
AddedGroup(w, sv, p) == SelectSeq(NameGroup(w, p), LAMBDA q : q \in sv.m)
GroupHeads(w, sv) == SelectSeq(IdSeq(w), LAMBDA p : /\ p # System /\ p \in sv.m
                                                    /\ AddedGroup(w, sv, p) # <<>> /\ AddedGroup(w, sv, p)[1] = p)

(***************************************************************************)
(* solver_addinfarchrules: packages of an architecture worse than the best *)
(* one of their name, unless an installed package has that architecture.   *)
(* With lock-stepping colors a package goes only together with the package *)
(* of the same version in the best architecture.                           *)
(***************************************************************************)
BestScore(S) == IF S \ {0, 1} = {} THEN 0 ELSE CHOOSE a \in S \ {0, 1} : \A b \in S \ {0, 1} : a <= b
InBestClass(a, best) == a # 0 /\ (a = 1 \/ SameClass(a, best))
LockMates(w, g, p, best) ==
  SelectSeq(g, LAMBDA q : /\ q # p /\ Pk(w, q).evr = Pk(w, p).evr /\ Pk(w, q).arch # Pk(w, p).arch
                          /\ InBestClass(Score(w, q), best))
LockSteps(w) == Opt(w, "implicitobsoleteusescolors")
RepoScores(w, g) == {Score(w, g[i]) : i \in {k \in DOMAIN g : ~IsInst(w, g[k]) \/ Score(w, g[k]) = 1}}
KeptArchs(w, sv, g) ==
  {Pk(w, g[i]).arch : i \in {k \in DOMAIN g : IsInst(w, g[k]) /\ Score(w, g[k]) # 1 /\ g[k] \notin sv.dup}}
BestArchOf(w, kept, bestr) ==
  IF bestr = 0 /\ Cardinality(kept) > 1 /\ LockSteps(w) THEN BestScore({w.score[a] : a \in kept}) ELSE bestr
InferiorArchs(w, sv, g, best) ==
  {Pk(w, g[i]).arch :
     i \in {k \in DOMAIN g : /\ IsInst(w, g[k]) /\ g[k] \notin sv.dup
                             /\ ~InBestClass(Score(w, g[k]), best)
                             /\ \/ Score(w, g[k]) = 0
                                \/ LockMates(w, NameGroup(w, g[k]), g[k], best) = <<>>}}
AllowedArchs(w, sv, g, kept, bestr, best) ==
  IF Cardinality(kept) = 1 /\ bestr # 0 /\ \A a \in kept : w.score[a] = bestr THEN {}
  ELSE IF kept # {} /\ LockSteps(w) THEN InferiorArchs(w, sv, g, best) ELSE kept
ArchAllowed(w, p, allowed) ==
  \E a \in allowed : Pk(w, p).arch = a \/ (w.score[a] # 0 /\ SameClass(w.score[a], Score(w, p)))
IsInferiorArch(w, p, best, allowed) ==
  /\ Score(w, p) # 1 /\ ~SameClass(Score(w, p), best)
  /\ IF IsInst(w, p) THEN LockSteps(w) ELSE ~ArchAllowed(w, p, allowed)
InfarchRule(w, p, mates) ==
  IF ~LockSteps(w) THEN << <<-p>> >>
  ELSE IF IsInst(w, p) /\ \A i \in DOMAIN mates : ~IsInst(w, mates[i]) THEN <<>>
  ELSE << <<-p>> \o mates >>
InfarchRulesFor(w, g, best, allowed) ==
  IF best = 0 THEN <<>>
  ELSE ForEach(SelectSeq(g, LAMBDA p : IsInferiorArch(w, p, best, allowed)),
               LAMBDA p : InfarchRule(w, p, LockMates(w, NameGroup(w, p), p, best)))
InfarchBest(w, sv, g, kept, bestr, best) ==
  InfarchRulesFor(w, g, best, AllowedArchs(w, sv, g, kept, bestr, best))
InfarchGroup(w, sv, g, kept, bestr) == InfarchBest(w, sv, g, kept, bestr, BestArchOf(w, kept, bestr))
InfarchFrom(w, sv, g) == InfarchGroup(w, sv, g, KeptArchs(w, sv, g), BestScore(RepoScores(w, g)))
InfarchRulesOf(w, sv, h) == InfarchFrom(w, sv, AddedGroup(w, sv, h))
AddInfarchRules(w, sv) == RulesSeg(sv, "infarch", ForEach(GroupHeads(w, sv), LAMBDA h : InfarchRulesOf(w, sv, h)))

(***************************************************************************)
(* solver_addtodupmaps for one package of a dist upgrade job, targeted if  *)
(* the job names where to go and not what to upgrade.                      *)
(***************************************************************************)
RepoObsoleters(w, p) == IF IsInst(w, p) THEN {q \in ToSet(ObsoleteIndex(w, p)) : ~IsInst(w, q)} ELSE {}
ObsoletedBy(w, p) == {q \in Ids(w) : Indexed(w, q) /\ Obsoletes(w, p, q)}
DupDirect(w, p, targeted) ==
  ToSet(NameGroup(w, p)) \cup (IF targeted /\ ~IsInst(w, p) THEN ObsoletedBy(w, p) ELSE {})
AddDirect(w, sv, p, flags, targeted, direct) ==
  [sv EXCEPT !.dup = @ \cup {p} \cup direct
                       \cup UNION {RepoObsoleters(w, q) : q \in {p} \cup (IF targeted THEN direct ELSE {})},
             !.good = @ \cup (IF targeted THEN {p} ELSE (direct \ InstSet(w)) \cup RepoObsoleters(w, p)),
             !.bestupd = @ \cup (IF "forcebest" \in flags THEN direct \cap InstSet(w) ELSE {}),
             !.cdupd = IF "cleandeps" \in flags
                       THEN PushAllUnique(@, SelectSeq(InstSeq(w), LAMBDA q : q \in direct)) ELSE @]
AddToDupMaps(w, sv, p, flags, targeted) == AddDirect(w, sv, p, flags, targeted, DupDirect(w, p, targeted))
(***************************************************************************)
(* solver_createdupmaps: a job without an installed package is targeted.   *)
(***************************************************************************)
AutoTarget(w) == ~Opt(w, "noautotarget")
IsTargeted(w, j, sel) ==
  \/ "targeted" \in j.flags
  \/ IF j.sel = "repo" THEN j.what # "inst" ELSE AutoTarget(w) /\ \A i \in DOMAIN sel : ~IsInst(w, sel[i])
DupPkgs(w, j, sel, targeted) ==
  IF j.sel = "repo"
  THEN IF j.what # "inst" /\ "targeted" \notin j.flags /\ ~AutoTarget(w) THEN <<>>
       ELSE SelectSeq(RepoSeq(w, j.what), LAMBDA p : IsInst(w, p) \/ Installable(w, p))
  ELSE SelectSeq(sel, LAMBDA p : Pk(w, p).repo # "none" /\ (IsInst(w, p) \/ (targeted /\ Installable(w, p))))
DupAll(w, sv, j) ==
  [sv EXCEPT !.dup = Ids(w), !.good = @ \cup {p \in Ids(w) \ {System} : ~IsInst(w, p) /\ Installable(w, p)},
             !.bestupd = @ \cup (IF "forcebest" \in j.flags THEN InstSet(w) ELSE {}),
             !.cdupd = IF "cleandeps" \in j.flags THEN PushAllUnique(@, InstSeq(w)) ELSE @]
DupSome(w, sv, j, sel, targeted) ==
  FoldLeft(LAMBDA s, p : AddToDupMaps(w, s, p, j.flags, targeted), sv, DupPkgs(w, j, sel, targeted))
DupSelected(w, sv, j, sel) == DupSome(w, sv, j, sel, IsTargeted(w, j, sel))
DupJob(w, sv, j) == IF j.op # "distupgrade" THEN sv
                    ELSE IF j.sel = "all" THEN DupAll(w, sv, j) ELSE DupSelected(w, sv, j, JobSelect(w, j))
DupDone(w, s) == [s EXCEPT !.dup = @ \ {System}, !.upd = @ \cup ((s.dup \ {System}) \cap InstSet(w))]
CreateDupMaps(w, sv, jobs) ==
  DupDone(w, FoldLeft(LAMBDA x, j : DupJob(w, x, j), [sv EXCEPT !.dup = {}, !.good = {}], jobs))

(***************************************************************************)
(* solver_addduprules: of the packages involved only the good ones stay,   *)
(* installed packages also if identical to a good one or orphaned; those   *)
(* become good.                                                            *)
(***************************************************************************)
DupStep(w, sv, p) ==
  LET twin == \E q \in sv.good : Indexed(w, q) /\ Identical(w, p, q)
      u == UpdateRule(w, sv, p).l
      f == FeatureRule(w, sv, p).l
      none == u = <<>> /\ f = <<>>
      alone == (IF u # <<>> THEN u = <<p>> ELSE f = <<p>>) /\ Len(f) <= 1
      Good == [sv EXCEPT !.good = @ \cup {p}]
  IN  IF p \notin sv.dup \/ p \in sv.good THEN sv
      ELSE IF ~IsInst(w, p) THEN AddRule(sv, <<-p>>)
      ELSE IF Disabled(w, p) THEN sv
      ELSE IF twin \/ none THEN Good
      ELSE IF sv.special[p] # <<>> THEN AddRule(sv, <<-p>> \o sv.special[p])
      ELSE IF alone THEN Good
      ELSE AddRule(sv, <<-p>>)
AddDupRules(w, sv) ==
  CloseSeg(FoldLeft(LAMBDA s, p : DupStep(w, s, p), OpenSeg(sv, "dup"),
                    ForEach(GroupHeads(w, sv), LAMBDA h : AddedGroup(w, sv, h))), "dup")

(***************************************************************************)
(* solver_addblackrules and solver_addstrictrepopriorules.                 *)
(***************************************************************************)
Forbid(bad) == [i \in DOMAIN bad |-> <<-bad[i]>>]
Blacklisted(w, jobs) == ForEach(SelectSeq(jobs, LAMBDA j : j.op = "blacklist"), LAMBDA j : JobSelect(w, j))
NotInstalledNames(w, all) ==
  SelectSeq(all, LAMBDA p : ~IsInst(w, p) /\ ~\E i \in DOMAIN all : IsInst(w, all[i]) /\ SameName(w, p, all[i]))
AddBlackRules(w, sv, jobs) == RulesSeg(sv, "black", Forbid(NotInstalledNames(w, Blacklisted(w, jobs))))
TopPrioOfName(w, p) == \A q \in ToSet(NameGroup(w, p)) : Prio(w, q) <= Prio(w, p)
AddStrictRules(w, sv) ==
  RulesSeg(sv, "strict", Forbid(ForEach(GroupHeads(w, sv),
    LAMBDA h : SelectSeq(AddedGroup(w, sv, h), LAMBDA p : ~IsInst(w, p) /\ ~TopPrioOfName(w, p)))))
=============================================================================
