----------------------------- MODULE Cleandeps -----------------------------
(***************************************************************************)
(* cleandeps.c: the installed packages that are no longer needed once the  *)
(* packages of the cleandeps jobs are gone.  Fields of the solver record   *)
(* used here: jobs (the job queue), r2j (ruletojob: job of the k-th job    *)
(* rule), mist (cleandeps_mistakes), clean (the cleandepsmap), hasclean.   *)
(*                                                                         *)
(* The search is a record c:                                               *)
(*   im    the packages still there (the system included)                  *)
(*   iq    the work queue                                                  *)
(*   ui    userinstalled: not to be removed; in the second pass the        *)
(*         packages that are to go                                         *)
(* A remove pass takes away what the removed packages may have dragged in, *)
(* an add back pass puts back what the packages that stay need.            *)
(***************************************************************************)
EXTENDS PolicyRules

(***************************************************************************)
(* dep_pkgcheck: the packages a dependency looks at.                       *)
(***************************************************************************)
RECURSIVE DepPkgs(_, _)
DepPkgs(w, d) ==
  IF IsRel(d) /\ d.op = "and" THEN DepPkgs(w, d.a) \o DepPkgs(w, d.b)
  ELSE IF IsRel(d) /\ d.op \in {"cond", "unless"}
       THEN DepPkgs(w, d.a) \o (IF HasElse(d) THEN DepPkgs(w, d.b.b) ELSE <<>>)
  ELSE IF IsSplit(d) THEN <<>> ELSE Providers(w, d)

(***************************************************************************)
(* check_xsupp: would the supplements hold if the namespaces depq did?     *)
(***************************************************************************)
RECURSIVE CheckXsupp(_, _, _)
CheckXsupp(w, depq, d) ==
  IF IsRel(d) /\ d.op = "and" THEN CheckXsupp(w, depq, d.a) /\ CheckXsupp(w, depq, d.b)
  ELSE IF IsRel(d) /\ d.op = "or" THEN CheckXsupp(w, depq, d.a) \/ CheckXsupp(w, depq, d.b)
  ELSE IF IsSplit(d) THEN FALSE
  ELSE \/ IsRel(d) /\ d.op = "ns" /\ (InSeq(d, depq) \/ InSeq(d.a, depq))
       \/ \E p \in ProvSet(w, d) : p = System \/ IsInst(w, p)
(***************************************************************************)
(* Namespaces an erase job takes away, and the supplements that held only  *)
(* because of them.                                                        *)
(***************************************************************************)
ErasedNamespaces(w, jobs) ==
  LET js == SelectSeq(jobs, LAMBDA j : j.op = "erase" /\ j.sel = "provides" /\ IsRel(j.what) /\ j.what.op = "ns")
      Of(j) == IF j.what.b = NoDep THEN <<j.what.a>>
               ELSE IF Providers(w, j.what) # <<>> THEN <<>> ELSE <<j.what>>
  IN  ForEach(js, Of)
XSupplements(w, jobs) ==
  LET ns == ErasedNamespaces(w, jobs)
      all == ForEach(InstSeq(w), LAMBDA p : Pk(w, p).supplements)
  IN  IF ns = <<>> THEN <<>>
      ELSE SelectSeq(all, LAMBDA d : IsRel(d) /\ CheckXsupp(w, ns, d) /\ ~CheckXsupp(w, <<>>, d))

(***************************************************************************)
(* Enabled job rules, and the job each belongs to.                         *)
(***************************************************************************)
EnabledJobRules(sv) == SelectSeq([i \in 1..(sv.seg.job[2] - sv.seg.job[1]) |-> sv.seg.job[1] + i - 1],
                                 LAMBDA i : sv.rules[i].on)
JobOf(sv, i) == sv.jobs[sv.r2j[i - sv.seg.job[1] + 1]]
IsErase(r) == Len(r.l) = 1 /\ r.l[1] < 0

(***************************************************************************)
(* The userinstalled map: the user's own list, packages behind visible     *)
(* patterns, products with their buddies and the packages jobs ask for.    *)
(***************************************************************************)
UserInstalledJobs(w, jobs) ==
  LET js == {i \in DOMAIN jobs : jobs[i].op = "userinstalled"}
  IN  (IF \E i \in js : SelectsAllInstalled(jobs[i]) THEN InstSet(w) ELSE {})
      \cup {p \in InstSet(w) : \E i \in js : InSeq(p, JobSelect(w, jobs[i]))}
PatternNeeds(w) ==
  {p \in InstSet(w) : /\ Pk(w, p).kind \in {"pattern", "patternpkg"}
                      /\ \E q \in Ids(w) : /\ Pk(w, q).kind = "pattern" /\ Pk(w, q).visible
                                           /\ IsInst(w, q) \/ Installable(w, q)
                                           /\ \E i \in DOMAIN Pk(w, q).requires : p \in ProvSet(w, Pk(w, q).requires[i])}
ProductNeeds(w, sv) ==
  LET prod == {p \in InstSet(w) : Pk(w, p).kind = "product"}
  IN  prod \cup ({sv.buddy[p] : p \in prod} \cap InstSet(w))
JobNeeds(w, sv) ==
  {p \in InstSet(w) : \E k \in DOMAIN EnabledJobRules(sv) :
     LET i == EnabledJobRules(sv)[k]
     IN  "cleandeps" \notin JobOf(sv, i).flags /\ InSeq(p, sv.rules[i].l)}

(***************************************************************************)
(* Cleandeps candidates: what a cleandeps erase job names, and what every  *)
(* literal of a cleandeps install job replaces.  An installed literal met  *)
(* after another one empties the intersection (the queue is cut before it  *)
(* is looked at).                                                          *)
(***************************************************************************)
CandidatesBy(w, sv, p, q) ==
  IF p < 0 THEN <<>>
  ELSE IF IsInst(w, p) THEN (IF q = <<>> THEN <<p>> ELSE <<>>)
  ELSE IntersectObsoleted(w, sv, p, q)
RECURSIVE InstallCandidates(_, _, _, _, _)
InstallCandidates(w, sv, l, q, first) ==
  IF l = <<>> \/ (q = <<>> /\ ~first) THEN q
  ELSE InstallCandidates(w, sv, Tail(l), CandidatesBy(w, sv, l[1], q), FALSE)
RuleCandidates(w, sv, i) ==
  LET r == sv.rules[i]
      j == JobOf(sv, i)
      multi == ~Opt(w, "keepexplicitobsoletes") /\ \E k \in DOMAIN r.l : r.l[k] \in sv.multi
  IN  IF "cleandeps" \notin j.flags THEN <<>>
      ELSE IF IsErase(r) THEN (IF j.op = "erase" /\ IsInst(w, -r.l[1]) THEN <<-r.l[1]>> ELSE <<>>)
      ELSE IF RuleP(r) <= 0 \/ multi \/ (Len(r.l) = 1 /\ IsInst(w, r.l[1])) THEN <<>>
      ELSE InstallCandidates(w, sv, r.l, <<>>, TRUE)
Candidates(w, sv) == ForEach(EnabledJobRules(sv), LAMBDA i : RuleCandidates(w, sv, i))
ErasedByJob(w, sv) == {p \in InstSet(w) : \E k \in DOMAIN EnabledJobRules(sv) : sv.rules[EnabledJobRules(sv)[k]].l = <<-p>>}

(***************************************************************************)
(* filter_unneeded: of a list of packages those that no other of the list  *)
(* drags in.  Edges go from a package to what it requires or recommends    *)
(* and to what supplements it; one pass with all edges, a second without   *)
(* the requires.  The search is the one of prune_obsoleted.                *)
(***************************************************************************)
PositiveOf(x, Met(_)) ==
  IF x.r # -1 THEN <<>> ELSE ForEach(SelectSeq(x.b, Met), LAMBDA b : SelectSeq(b, LAMBDA l : l > 0))
DepCandidates(w, d, Met(_)) ==
  IF IsComplex(d) THEN PositiveOf(NormalizeComplex(w, d, FALSE, FALSE, FALSE), Met) ELSE Providers(w, d)
NegativesIn(S, b) == \A k \in DOMAIN b : b[k] < 0 => -b[k] \in S
EdgesTo(q, others, one) ==
  IF one /\ Len(others) # 1 THEN <<>>
  ELSE ForEach(others, LAMBDA p : SelectSeq([j \in DOMAIN q |-> j], LAMBDA j : q[j] = p))
DragsDep(w, q, i, d, justone) ==
  EdgesTo(q, SelectSeq(DepCandidates(w, d, LAMBDA b : NegativesIn(InstSet(w), b)),
                       LAMBDA p : p # q[i] /\ IsInst(w, p)), justone /\ ~IsComplex(d))
EdgesBy(w, q, i, deps, justone) == ForEach(deps, LAMBDA d : DragsDep(w, q, i, d, justone))
SupplementsEdges(w, q, j, justone) ==
  SelectSeq([i \in DOMAIN q |-> i], LAMBDA i : \E k \in DOMAIN Pk(w, q[i]).supplements :
     LET d == Pk(w, q[i]).supplements[k]
         pk == DepPkgs(w, d)
     IN  /\ DepPossible(w, d, InstSet(w)) /\ (justone => Len(pk) = 1)
         /\ q[j] # q[i] /\ IsInst(w, q[j]) /\ InSeq(q[j], pk))
KeptBy(E, off) == TrjKept(E, {i \in DOMAIN E : E[i] = <<>>}, off)
TwoPasses(weak, req) ==
  KeptBy(weak, DOMAIN weak \ KeptBy([i \in DOMAIN weak |-> req[i] \o weak[i]], {}))
FilterUnneeded(w, q, justone) ==
  IF Len(q) < 2 THEN q
  ELSE At(q, TwoPasses([i \in DOMAIN q |-> SupplementsEdges(w, q, i, justone)
                                             \o EdgesBy(w, q, i, Pk(w, q[i]).recommends, justone)],
                       [i \in DOMAIN q |-> EdgesBy(w, q, i, Pk(w, q[i]).requires, justone)]))
(***************************************************************************)
(* find_update_seeds: of the packages to update with cleandeps those that  *)
(* are not dragged in by others, and the userinstalled ones.               *)
(***************************************************************************)
IsPseudo(w, p) == Pk(w, p).kind \in {"pattern", "application"}
SeedsOf(w, inst, ui) ==
  SelectSeq(FilterUnneeded(w, SelectSeq(inst, LAMBDA p : ~IsPseudo(w, p)), TRUE), LAMBDA p : p \notin ui)
  \o SelectSeq(inst, LAMBDA p : IsPseudo(w, p) \/ p \in ui)
UpdateSeeds(w, sv, ui) == SeedsOf(w, SelectSeq(sv.cdupd, LAMBDA p : IsInst(w, p)), ui)

(***************************************************************************)
(* The start of solver_createcleandepsmap.                                 *)
(***************************************************************************)
UserInstalled(w, sv, iq) ==
  (((UserInstalledJobs(w, sv.jobs) \cup PatternNeeds(w) \cup ProductNeeds(w, sv) \cup JobNeeds(w, sv))
    \ ErasedByJob(w, sv)) \ ToSet(iq)) \cup {p \in InstSet(w) : Disabled(w, p)}
SearchOf(w, sv, unneeded, iq, upd, ui) ==
  [im |-> {System} \cup (IF unneeded THEN ui ELSE InstSet(w)),
   iq |-> iq \o upd, ui |-> ui \ ToSet(upd), iq0 |-> iq, xs |-> XSupplements(w, sv.jobs),
   seeds |-> IF unneeded THEN <<>> ELSE UpdateSeeds(w, sv, ui), unneeded |-> unneeded]
StartFrom(w, sv, unneeded, iq) ==
  SearchOf(w, sv, unneeded, iq, IF unneeded THEN <<>> ELSE SelectSeq(sv.cdupd, LAMBDA p : ~Disabled(w, p)),
           UserInstalled(w, sv, iq))
StartClean(w, sv, unneeded) == StartFrom(w, sv, unneeded, IF unneeded THEN <<>> ELSE Candidates(w, sv))

(***************************************************************************)
(* The remove pass.  A package goes unless it is userinstalled; what it    *)
(* requires or recommends is queued.  When the queue is empty, packages    *)
(* that only supplemented removed packages are queued, and the packages    *)
(* their dependency still looks at are pinned.                             *)
(***************************************************************************)
InstOrSystem(w) == InstSet(w) \cup {System}
DragPkgs(w, im, d) == SelectSeq(DepCandidates(w, d, LAMBDA b : NegativesIn(InstOrSystem(w), b)),
                                LAMBDA p : p # System /\ p \in im)
RemovePkg(w, c, p) ==
  IF p \notin c.im \/ ~IsInst(w, p) \/ p \in c.ui THEN c
  ELSE [c EXCEPT !.im = @ \ {p},
                 !.iq = @ \o ForEach(Pk(w, p).requires \o Pk(w, p).recommends,
                                     LAMBDA d : DragPkgs(w, c.im \ {p}, d))]
RemoveOne(w, c) == RemovePkg(w, [c EXCEPT !.iq = Tail(@)], Head(c.iq))
SupplementsGone(w, c, p) ==
  LET sup == Pk(w, p).supplements
      lost == SelectSeq(sup, LAMBDA d : DepPossible(w, d, InstSet(w) \cup {System}) \/ InSeq(d, c.xs))
      pins == UNION {ToSet(DepPkgs(w, lost[k])) \cap c.im \cap InstSet(w) : k \in DOMAIN lost}
  IN  IF \/ sup = <<>> \/ p \notin c.im \/ p \in c.ui
         \/ \E k \in DOMAIN sup : DepPossible(w, sup[k], c.im)
      THEN c
      ELSE [c EXCEPT !.ui = @ \cup pins, !.iq = @ \o [k \in DOMAIN lost |-> p]]
SupplementsPass(w, c) == FoldLeft(LAMBDA x, p : SupplementsGone(w, x, p), c, InstSeq(w))
RemoveDone(w, c) == c.iq = <<>> /\ (c.unneeded \/ SupplementsPass(w, c).iq = <<>>)
RemoveStep(w, c) == IF c.iq # <<>> THEN RemoveOne(w, c) ELSE SupplementsPass(w, c)

(***************************************************************************)
(* Between the passes: packages erased by jobs leave, and everything that  *)
(* stays or is asked for is queued.                                        *)
(***************************************************************************)
Turn(w, sv, c) ==
  LET erased == {p \in Ids(w) : \E k \in DOMAIN EnabledJobRules(sv) : sv.rules[EnabledJobRules(sv)[k]].l = <<-p>>}
      im == (c.im \ erased) \cup {System}
      asked == ForEach(EnabledJobRules(sv), LAMBDA i : SelectSeq(sv.rules[i].l, LAMBDA l : l > 0))
      direct == SelectSeq(sv.jobs, LAMBDA j : j.op = "userinstalled" /\ j.sel = "solvable" /\ ~IsInst(w, j.what))
  IN  [c EXCEPT !.im = im,
                !.ui = (erased \cap InstSet(w)) \cup (IF c.unneeded THEN {} ELSE ToSet(sv.cdupd) \cap InstSet(w)),
                !.iq = SelectSeq(InstSeq(w), LAMBDA p : p \in im) \o asked \o [i \in DOMAIN direct |-> direct[i].what]]

(***************************************************************************)
(* The add back pass.                                                      *)
(***************************************************************************)
NeedPkgs(w, c, p, d) ==
  SelectSeq(IF ~IsComplex(d) /\ p \in ProvSet(w, d) THEN <<>>
            ELSE DepCandidates(w, d, LAMBDA b : NegativesIn(InstOrSystem(w), b) /\ ~InSeq(p, b)),
            LAMBDA q : q \notin c.im /\ IsInst(w, q) /\ q # p /\ q \notin c.ui)
PutBack(c, qs) == [c EXCEPT !.im = @ \cup ToSet(qs),
                            !.iq = @ \o PushAllUnique(<<>>, SelectSeq(qs, LAMBDA q : q \notin c.im))]
LockStepMates(w, p) ==
  LET best == BestScore({Score(w, q) : q \in {x \in ToSet(NameGroup(w, p)) : ~IsInst(w, x)}})
  IN  IF ~IsInst(w, p) \/ ~Opt(w, "implicitobsoleteusescolors") \/ best = 0 \/ Score(w, p) = best THEN <<>>
      ELSE SelectSeq(NameGroup(w, p), LAMBDA q : /\ IsInst(w, q) /\ Pk(w, q).evr = Pk(w, p).evr
                                                 /\ Pk(w, q).arch # Pk(w, p).arch /\ Score(w, q) = best)
AddBackNeeds(w, c, p, deps) == FoldLeft(LAMBDA x, d : PutBack(x, NeedPkgs(w, x, p, d)), c, deps)
AddBackOneBug(w, c) ==   \* mutant: a required package is not put back
  AddBackNeeds(w, PutBack([c EXCEPT !.iq = Tail(@)], LockStepMates(w, Head(c.iq))), Head(c.iq),
               Pk(w, Head(c.iq)).recommends)
AddBackOne(w, c) ==
  AddBackNeeds(w, PutBack([c EXCEPT !.iq = Tail(@)], LockStepMates(w, Head(c.iq))), Head(c.iq),
               Pk(w, Head(c.iq)).requires \o Pk(w, Head(c.iq)).recommends)
SupplementsBack(w, c) ==
  FoldLeft(LAMBDA x, p : IF /\ p \notin x.ui /\ p \notin x.im
                            /\ \E k \in DOMAIN Pk(w, p).supplements : DepPossible(w, Pk(w, p).supplements[k], x.im)
                         THEN PutBack(x, <<p>>) ELSE x, c, InstSeq(w))
AddBackDone(w, c) == c.iq = <<>> /\ SupplementsBack(w, c).iq = <<>>
AddBackStep(w, c) == IF c.iq # <<>> THEN AddBackOne(w, c) ELSE SupplementsBack(w, c)

(***************************************************************************)
(* The result: installed packages that are neither there nor directly      *)
(* addressed; disabled packages never are.                                 *)
(***************************************************************************)
CleanResult(w, sv, c) ==
  (InstSet(w) \ (c.im \cup ToSet(c.seeds) \cup ToSet(sv.mist) \cup ToSet(c.iq0)))
  \ {p \in InstSet(w) : Disabled(w, p)}
RECURSIVE RunRemove(_, _)
RunRemove(w, c) == IF RemoveDone(w, c) THEN c ELSE RunRemove(w, RemoveStep(w, c))
RECURSIVE RunAddBack(_, _)
RunAddBack(w, c) == IF AddBackDone(w, c) THEN c ELSE RunAddBack(w, AddBackStep(w, c))
CleandepsMap(w, sv, unneeded) ==
  CleanResult(w, sv, RunAddBack(w, Turn(w, sv, RunRemove(w, StartClean(w, sv, unneeded)))))

(***************************************************************************)
(* solver_get_unneeded: nothing is erased; what nobody asked for and       *)
(* nothing needs is listed, or of it those that nothing listed needs.      *)
(***************************************************************************)
UnneededSeq(w, S) == SelectSeq(InstSeq(w), LAMBDA p : p \in S)
GetUnneeded(w, sv, filtered) ==
  LET q == UnneededSeq(w, CleandepsMap(w, sv, TRUE))
  IN  IF filtered THEN FilterUnneeded(w, q, FALSE) ELSE q
=============================================================================
