------------------------------- MODULE Policy -------------------------------
(***************************************************************************)
(* policy.c: which of several candidates the solver prefers, and which     *)
(* package may replace an installed one.  Candidate lists are sequences of *)
(* solvable ids.  Fields of the solver record used here:                   *)
(*   favor   package -> favor value (favormap)                             *)
(*   dup     dupinvolved: the set of installed packages in a dist upgrade  *)
(*   rm      the recommendsmap and suggestsmap with the index up to which  *)
(*           the decision queue is reflected in them, and the postponed    *)
(*           blocks of complex dependencies                                *)
(***************************************************************************)
EXTENDS PkgRules

(***************************************************************************)
(* solver_util.c and solver_private.h: is a dependency fulfilled by what   *)
(* the solver has decided?  The solver record's field dq is the decision   *)
(* queue, a sequence of literals; seg holds where the rule classes start;  *)
(* suppq is installsuppdepq, the namespaces given in the job.              *)
(***************************************************************************)
Decided(sv, p) == IF InSeq(p, sv.dq) THEN 1 ELSE IF InSeq(-p, sv.dq) THEN -1 ELSE 0
Chosen(sv) == {sv.dq[i] : i \in DOMAIN sv.dq}

(***************************************************************************)
(* The feature and update rule of installed package p: rule number of the  *)
(* class plus the offset of p in the installed repository.                 *)
(***************************************************************************)
InstOffset(w, p) == Cardinality({q \in InstSet(w) : q < p})
FeatureRule(w, sv, p) == sv.rules[sv.seg.feature[1] + InstOffset(w, p)]
UpdateRule(w, sv, p) == sv.rules[sv.seg.update[1] + InstOffset(w, p)]

IsUpdating(w, sv, p) ==
  LET r == IF RuleP(FeatureRule(w, sv, p)) # 0 THEN FeatureRule(w, sv, p) ELSE UpdateRule(w, sv, p)
  IN  /\ Decided(sv, p) < 0
      /\ \E i \in DOMAIN r.l : /\ r.l[i] > 0 /\ r.l[i] # p /\ Decided(sv, r.l[i]) > 0
                               /\ ~SameName(w, p, r.l[i]) \/ Pk(w, r.l[i]).evr > Pk(w, p).evr

(***************************************************************************)
(* solver_splitprovides: namespace:splitprovides(pkg with path) holds if   *)
(* an installed pkg contains the path and is being updated; when only the  *)
(* possibility is asked for, the update is not.                            *)
(***************************************************************************)
IsSplit(d) == IsRel(d) /\ d.op = "ns" /\ d.a.n = "splitprovides"
SplitProvides(w, sv, d, possible) ==
  /\ Opt(w, "dosplitprovides")
  /\ IsRel(d) /\ d.op = "with"
  /\ \E p \in ProvSet(w, d) : /\ IsInst(w, p) /\ Pk(w, p).name = d.a.n
                              /\ possible \/ IsUpdating(w, sv, p)

(***************************************************************************)
(* solver_dep_fulfilled and solver_dep_fulfilled_cplx.                     *)
(***************************************************************************)
Boolop(d) == IsRel(d) /\ d.op \in {"and", "or", "cond", "unless"}
HasElse(d) == IsRel(d.b) /\ d.b.op = "else"
RECURSIVE DepFulfilled(_, _, _)
DepFulfilled(w, sv, d) ==
  LET F(x) == DepFulfilled(w, sv, x)
  IN  IF IsSplit(d) THEN SplitProvides(w, sv, d.b, FALSE)
      ELSE IF ~Boolop(d) THEN ProvSet(w, d) \cap Chosen(sv) # {}
      ELSE CASE d.op = "cond" /\ HasElse(d) -> IF F(d.b.a) THEN F(d.a) ELSE F(d.b.b)
             [] d.op = "cond" -> F(d.a) \/ ~F(d.b)
             [] d.op = "unless" /\ HasElse(d) -> IF ~F(d.b.a) THEN F(d.a) ELSE F(d.b.b)
             [] d.op = "unless" -> F(d.a) /\ ~F(d.b)
             [] d.op = "and" -> F(d.a) /\ F(d.b)
             [] d.op = "or" -> F(d.a) \/ F(d.b)
IsSupplementing(w, sv, p) == \E i \in DOMAIN Pk(w, p).supplements : DepFulfilled(w, sv, Pk(w, p).supplements[i])
IsEnhancing(w, sv, p) == \E i \in DOMAIN Pk(w, p).enhances : DepFulfilled(w, sv, Pk(w, p).enhances[i])

(***************************************************************************)
(* solver_add_obsoleted: the installed packages package p replaces, by     *)
(* name and by its obsoletes; only direct repetitions are left out.        *)
(***************************************************************************)
ReplacedByName(w, sv, p) ==
  IF Opt(w, "keepexplicitobsoletes") /\ p \in sv.multi THEN <<>>
  ELSE SelectSeq(NameProviders(w, p),
                 LAMBDA q : /\ IsInst(w, q)
                            /\ Opt(w, "implicitobsoleteusesprovides") \/ SameName(w, p, q)
                            /\ Opt(w, "implicitobsoleteusescolors") => ColorMatch(w, p, q))
ReplacedByObsoletes(w, p) ==
  ForEach(Pk(w, p).obsoletes,
          LAMBDA d : SelectSeq(Providers(w, d),
                       LAMBDA q : IsInst(w, q) /\ ObsMatches(w, p, q, d) /\ ObsColor(w, p, q)))
AddObsoleted(w, sv, p) ==
  FoldLeft(LAMBDA s, q : IF s # <<>> /\ Last(s) = q THEN s ELSE Append(s, q),
           ReplacedByName(w, sv, p), ReplacedByObsoletes(w, p))
(***************************************************************************)
(* solver_intersect_obsoleted; an empty queue q is taken for the first     *)
(* call, whose result is not intersected with anything.                    *)
(***************************************************************************)
IntersectWith(q, o) == IF q = <<>> THEN o ELSE SelectSeq(q, LAMBDA x : InSeq(x, o))
IntersectObsoleted(w, sv, p, q) == IntersectWith(q, AddObsoleted(w, sv, p))

-----------------------------------------------------------------------------
(***************************************************************************)
(* A stable sort by a strict order, and the stable partition that the      *)
(* "bring to back" loops amount to.                                        *)
(***************************************************************************)
StableSort(s, Before(_, _)) ==
  LET Pos(i) == 1 + Cardinality({j \in DOMAIN s : Before(s[j], s[i]) \/ (j < i /\ ~Before(s[i], s[j]))})
  IN  [k \in DOMAIN s |-> s[CHOOSE i \in DOMAIN s : Pos(i) = k]]
FrontBy(s, Good(_)) == SelectSeq(s, Good) \o SelectSeq(s, LAMBDA x : ~Good(x))
Prio(w, p) == w.prio[Pk(w, p).repo]
NameRank(w, p) == CHOOSE i \in DOMAIN w.names : w.names[i] = Pk(w, p).name

(***************************************************************************)
(* prune_to_best_version_sortcmp: by name, then usable architectures by    *)
(* score, installed packages first, subpriority, id.                       *)
(***************************************************************************)
BestVersionBefore(w, a, b) ==
  LET sa == Score(w, a)
      sb == Score(w, b)
      ua == w.sub[Pk(w, a).repo]
      ub == w.sub[Pk(w, b).repo]
  IN  IF NameRank(w, a) # NameRank(w, b) THEN NameRank(w, a) < NameRank(w, b)
      ELSE IF sa # sb /\ sa > 1 /\ sb > 1 THEN sa < sb
      ELSE IF IsInst(w, a) # IsInst(w, b) THEN IsInst(w, a)
      ELSE IF ua # ub THEN ua > ub ELSE a < b

(***************************************************************************)
(* prune_to_highest_prio: installed packages are never pruned.             *)
(***************************************************************************)
PruneHighestPrio(w, s) ==
  LET P == {Prio(w, s[i]) : i \in {k \in DOMAIN s : ~IsInst(w, s[k])}}
  IN  SelectSeq(s, LAMBDA p : IsInst(w, p) \/ \A x \in P : Prio(w, p) >= x)

(***************************************************************************)
(* solver_prune_installed_dup_packages: an installed package of a dist     *)
(* upgrade is kept only if a repository has the identical package in the   *)
(* best priority; one of a better priority throws away what was collected. *)
(***************************************************************************)
DupTwins(w, p, prio) ==
  SelectSeq(NameProviders(w, p), LAMBDA q : /\ ~IsInst(w, q) /\ Prio(w, q) >= prio /\ Identical(w, p, q))
TopPrio(w, prio, twins) == FoldLeft(LAMBDA m, q : IF Prio(w, q) > m THEN Prio(w, q) ELSE m, prio, twins)
KeepTwin(acc, p, top) == [prio |-> top, q |-> IF top > acc.prio THEN <<p>> ELSE Append(acc.q, p)]
KeepIfTwins(w, acc, p, twins) == IF twins = <<>> THEN acc ELSE KeepTwin(acc, p, TopPrio(w, acc.prio, twins))
PruneDupStep(w, sv, acc, p) ==
  IF IF IsInst(w, p) THEN p \notin sv.dup ELSE Prio(w, p) >= acc.prio THEN [acc EXCEPT !.q = Append(@, p)]
  ELSE IF IsInst(w, p) THEN KeepIfTwins(w, acc, p, DupTwins(w, p, acc.prio)) ELSE acc
UnlessEmpty(q, s) == IF q = <<>> THEN s ELSE q
PruneFrom(w, sv, s, prio) ==
  UnlessEmpty(FoldLeft(LAMBDA acc, p : PruneDupStep(w, sv, acc, p), [prio |-> prio, q |-> <<>>], s).q, s)
PruneInstalledDup(w, sv, s) ==
  IF \A i \in DOMAIN s : IsInst(w, s[i]) THEN s
  ELSE PruneFrom(w, sv, s, Prio(w, SelectSeq(s, LAMBDA p : ~IsInst(w, p))[1]))
DupPruned(w, sv, t) ==
  IF Len(t) > 1 /\ HaveInstalled(w) /\ sv.dup # {} THEN PruneInstalledDup(w, sv, t) ELSE t
PruneDupPrio(w, sv, s) == DupPruned(w, sv, PruneHighestPrio(w, s))
(***************************************************************************)
(* solver_prune_to_highest_prio_per_name: groups of one or two packages    *)
(* are left alone.                                                         *)
(***************************************************************************)
OfName(w, t, n) == SelectSeq(t, LAMBDA p : Pk(w, p).name = n)
SortedByName(w, s) == StableSort(s, LAMBDA a, b : BestVersionBefore(w, a, b))
PruneGroup(g, Prune(_)) == IF Len(g) > 2 THEN Prune(g) ELSE g
ByPrioPerName(w, s, mode, Prune(_)) ==
  IF mode # "suggest" THEN Prune(s)
  ELSE ForEach(w.names, LAMBDA n : PruneGroup(OfName(w, SortedByName(w, s), n), Prune))

(***************************************************************************)
(* The recommends and suggests maps.  A block of a complex dependency adds *)
(* its positive literals once all its negated packages are chosen; while   *)
(* one is undecided the dependency is postponed under that package, and    *)
(* checked again when the package is chosen.                               *)
(***************************************************************************)
BlockAddsBug(sv, b) ==   \* mutant: an undecided negative literal counts as chosen
  IF \E i \in DOMAIN b : b[i] < 0 /\ Decided(sv, -b[i]) < 0 THEN {} ELSE {b[i] : i \in DOMAIN b} \cap Nat
BlockAdds(sv, b) ==
  IF \E i \in DOMAIN b : b[i] < 0 /\ Decided(sv, -b[i]) <= 0 THEN {} ELSE {b[i] : i \in DOMAIN b} \cap Nat
BlockPostpones(sv, b) ==
  IF \/ \A i \in DOMAIN b : b[i] < 0
     \/ \E i \in DOMAIN b : b[i] < 0 /\ Decided(sv, -b[i]) < 0
  THEN <<>>
  ELSE LET n == SelectSeq(b, LAMBDA l : l < 0 /\ Decided(sv, -l) = 0) IN [i \in DOMAIN n |-> -n[i]]
PostponeBlock(sv, x, d, b, post) ==
  IF post = <<>> THEN [x EXCEPT !.m = @ \cup BlockAdds(sv, b)]
  ELSE [x EXCEPT !.q = PushAllUnique(@, [i \in DOMAIN post |-> <<post[i], d>>])]
CheckBlocks(sv, x, d, n) ==
  IF n.r # -1 THEN x ELSE FoldLeft(LAMBDA acc, b : PostponeBlock(sv, acc, d, b, BlockPostpones(sv, b)), x, n.b)
CheckComplexDep(w, sv, x, d) == CheckBlocks(sv, x, d, NormalizeComplex(w, d, FALSE, FALSE, FALSE))
AddDepsToMap(w, sv, x, deps) ==
  FoldLeft(LAMBDA acc, d : IF IsComplex(d) THEN CheckComplexDep(w, sv, acc, d)
                           ELSE [acc EXCEPT !.m = @ \cup ProvSet(w, d)], x, deps)
(***************************************************************************)
(* policy_update_recommendsmap_complex: the dependencies postponed under a *)
(* package are checked again before its own are added.                     *)
(***************************************************************************)
Postponed(x, p) == LET e == SelectSeq(x.q, LAMBDA y : y[1] = p) IN [i \in DOMAIN e |-> e[i][2]]
AddChosen(w, sv, x, p, deps) ==
  AddDepsToMap(w, sv, [x EXCEPT !.q = SelectSeq(@, LAMBDA e : e[1] # p)], Postponed(x, p) \o deps)
EmptyMap == [m |-> {}, q |-> <<>>]
EmptyMaps == [idx |-> 0, maps |-> [rec |-> EmptyMap, sug |-> EmptyMap]]
(***************************************************************************)
(* policy_update_recommendsmap: idx < 0 asks for a fresh start (decisions  *)
(* were undone).                                                           *)
(***************************************************************************)
MapDeps == [rec |-> "recommends", sug |-> "suggests"]
MapsFrom(w, sv, start) ==
  FoldLeft(LAMBDA x, p : IF p < 0 THEN x
                         ELSE [x EXCEPT !.maps = [k \in DOMAIN MapDeps |->
                                 AddChosen(w, sv, @[k], p, Pk(w, p)[MapDeps[k]])]],
           [start EXCEPT !.idx = Len(sv.dq)], SubSeq(sv.dq, start.idx + 1, Len(sv.dq)))
UpdateRecommendsMap(w, sv) ==
  [sv EXCEPT !.rm = MapsFrom(w, sv, IF sv.rm.idx < 0 THEN EmptyMaps ELSE sv.rm)]

FrontSuggested(w, sv, s, m) == FrontBy(s, LAMBDA p : IsInst(w, p) \/ p \in m \/ IsEnhancing(w, sv, p))
PreferSuggested(w, sv, s) == FrontSuggested(w, sv, s, UpdateRecommendsMap(w, sv).rm.maps.sug.m)
PreferFavored(sv, s) == StableSort(s, LAMBDA a, b : sv.favor[a] > sv.favor[b])

(***************************************************************************)
(* prune_to_recommended: installed packages count as recommended, but only *)
(* if something else is.                                                   *)
(***************************************************************************)
KeepWith(w, s, rec) ==
  IF Cardinality({i \in DOMAIN s : ~IsInst(w, s[i])}) < 2 \/ rec = {} THEN s
  ELSE SelectSeq(s, LAMBDA p : IsInst(w, p) \/ p \in rec)
KeepRecommended(w, sv, s, m) ==
  KeepWith(w, s, {p \in ToSet(s) : ~IsInst(w, p) /\ (p \in m \/ IsSupplementing(w, sv, p))})
PruneToRecommended(w, sv, s) == KeepRecommended(w, sv, s, UpdateRecommendsMap(w, sv).rm.maps.rec.m)

(***************************************************************************)
(* prune_to_best_arch: the class of the best architecture, and noarch.     *)
(***************************************************************************)
PruneBestArch(w, s) ==
  LET S == {Score(w, s[i]) : i \in DOMAIN s} \ {0, 1}
      best == CHOOSE a \in S : \A b \in S : a <= b
      t == SelectSeq(s, LAMBDA p : Score(w, p) # 0 /\ (Score(w, p) = 1 \/ SameClass(Score(w, p), best)))
  IN  IF Len(s) < 2 \/ S = {} \/ t = <<>> THEN s ELSE t

(***************************************************************************)
(* trj_visit: Tarjan's algorithm on edges E (node -> sequence of nodes).   *)
(* A node has a low value (0 not visited, -1 dropped); stack positions and *)
(* numbers start at 1.  Only the component of the node the search started  *)
(* from survives, until a later search reaches it; a node of leaf that is  *)
(* reached is dropped without a visit.                                     *)
(***************************************************************************)
DropOldComponent(t, l) ==
  LET run == CHOOSE k \in l..Len(t.stack) : /\ \A j \in l..k : t.low[t.stack[j]] = l
                                            /\ k = Len(t.stack) \/ t.low[t.stack[k + 1]] # l
      old == {t.stack[j] : j \in l..run}
  IN  [t EXCEPT !.low = [i \in DOMAIN t.low |-> IF i \in old THEN -1 ELSE t.low[i]]]
PushStack(t, i) == [t EXCEPT !.stack = [k \in 1..(IF Len(@) < t.n THEN t.n ELSE Len(@)) |->
                                          IF k = t.n THEN i ELSE IF k <= Len(@) THEN @[k] ELSE 1],
                             !.n = @ + 1]
TrjBack(t, node, i) ==
  IF t.low[i] < 0 THEN t
  ELSE IF t.low[i] < t.first THEN DropOldComponent(t, t.low[i])
  ELSE IF t.low[i] < t.low[node] THEN [t EXCEPT !.low[node] = t.low[i]] ELSE t
TrjComponent(t, node, me, sp) ==
  IF t.low[node] # me THEN t
  ELSE [t EXCEPT !.low = [i \in DOMAIN @ |-> IF \E k \in sp..(t.n - 1) : t.stack[k] = i
                                              THEN (IF me = t.first THEN me ELSE -1) ELSE @[i]],
                 !.n = sp]
RECURSIVE TrjVisit(_, _, _, _)
TrjVisit(E, leaf, t0, node) ==
  TrjComponent(
    FoldLeft(LAMBDA t, i :
               TrjBack(IF t.low[i] # 0 THEN t
                       ELSE IF i \in leaf THEN [t EXCEPT !.idx = @ + 1, !.low[i] = -1]
                       ELSE TrjVisit(E, leaf, t, i), node, i),
             PushStack([t0 EXCEPT !.low[node] = t0.idx, !.idx = @ + 1], node), E[node]),
    node, t0.idx, t0.n)
TrjKeptBug(E, leaf, off) ==   \* mutant: every component found is kept
  {i \in DOMAIN E : i \notin off}
TrjRoot(E, leaf, t, i) ==
  IF t.low[i] # 0 THEN t
  ELSE IF i \notin leaf THEN TrjVisit(E, leaf, [t EXCEPT !.first = t.idx, !.n = t.idx], i)
  ELSE PushStack([t EXCEPT !.low[i] = t.idx, !.n = t.idx, !.idx = @ + 1], i)
Survivors(low) == {i \in DOMAIN low : low[i] > 0}
TrjKept(E, leaf, off) ==
  Survivors(FoldLeft(LAMBDA t, i : TrjRoot(E, leaf, t, i),
                     [low |-> [i \in DOMAIN E |-> IF i \in off THEN -1 ELSE 0],
                      stack |-> <<>>, n |-> 1, first |-> 1, idx |-> 1],
                     [i \in DOMAIN E |-> i]).low)
(***************************************************************************)
(* The reference: nodes of components that nothing outside reaches.        *)
(***************************************************************************)
Reach(E, N, i) ==
  LET Step(S) == S \cup UNION {ToSet(E[j]) \cap N : j \in S}
      R[k \in 0..Cardinality(N)] == IF k = 0 THEN {i} ELSE Step(R[k - 1])
  IN  R[Cardinality(N)]

(***************************************************************************)
(* prune_obsoleted: packages of the list that others of a different name   *)
(* obsolete go, unless they obsolete each other; two are a special case.   *)
(***************************************************************************)
ObsoletesOther(w, p, q) == ~SameName(w, p, q) /\ Obsoletes(w, p, q)
ObsTargets(w, s, i) ==
  ForEach(Pk(w, s[i]).obsoletes, LAMBDA d :
    ForEach(Providers(w, d), LAMBDA q :
      IF SameName(w, s[i], q) \/ ~ObsMatches(w, s[i], q, d) \/ ~ObsColor(w, s[i], q) THEN <<>>
      ELSE SelectSeq([k \in DOMAIN s |-> k], LAMBDA k : k # i /\ s[k] = q)))
At(s, K) == LET k == SelectSeq([i \in DOMAIN s |-> i], LAMBDA i : i \in K) IN [i \in DOMAIN k |-> s[k[i]]]
PruneObsoleted(w, s) ==
  At(s, TrjKept([i \in DOMAIN s |-> ObsTargets(w, s, i)], {i \in DOMAIN s : Pk(w, s[i]).obsoletes = <<>>}, {}))
Dominant(s, a, b) == IF a = b THEN s ELSE IF a THEN <<s[1]>> ELSE <<s[2]>>
PruneObsoleted2(w, s) == Dominant(s, ObsoletesOther(w, s[1], s[2]), ObsoletesOther(w, s[2], s[1]))

(***************************************************************************)
(* prune_to_best_version: the best package of every name, then those that  *)
(* another one of them obsoletes go.  Conda also compares the number of    *)
(* track features, the channel and the build.                              *)
(***************************************************************************)
Sign(n) == IF n < 0 THEN -1 ELSE IF n > 0 THEN 1 ELSE 0
FirstNonZero(s) == LET n == SelectSeq(s, LAMBDA x : x # 0) IN IF n = <<>> THEN 0 ELSE n[1]
BetterThan(w, a, b) ==
  LET conda == Opt(w, "conda")
      pa == Pk(w, a)
      pb == Pk(w, b)
  IN  FirstNonZero(<<IF conda THEN Sign(pb.features - pa.features) ELSE 0,
                     Sign(pa.evr - pb.evr),
                     IF HasLink(w, b) THEN LinkEvrCmp(w, a, b) ELSE 0,
                     IF conda THEN w.sub[pa.repo] - w.sub[pb.repo] ELSE 0,
                     IF conda THEN Sign(pa.build - pb.build) ELSE 0>>)
BestOf(w, g) ==
  IF g = <<>> THEN <<>>
  ELSE <<FoldLeft(LAMBDA b, p : IF BetterThan(w, b, p) < 0 THEN p ELSE b, g[1], Tail(g))>>
BestOfNames(w, t) == ForEach(w.names, LAMBDA n : BestOf(w, OfName(w, t, n)))
NotObsoleted(w, u) == IF Len(u) = 2 THEN PruneObsoleted2(w, u)
                      ELSE IF Len(u) > 2 THEN PruneObsoleted(w, u) ELSE u
PruneBestVersion(w, s) ==
  IF Len(s) < 2 THEN s
  ELSE NotObsoleted(w, BestOfNames(w, SortedByName(w, s)))

(***************************************************************************)
(* sort_by_common_dep: packages that provide the same thing in an older    *)
(* version (= or <=) count as worse, one point per newer version of the    *)
(* list before them.  Versions that look like a hash are not compared.     *)
(***************************************************************************)
CommonDeps(w, s) ==
  ForEach([i \in DOMAIN s |-> i],
    LAMBDA i : LET pr == SelectSeq(Pk(w, s[i]).provides, LAMBDA d : d.hi < 9 /\ (d.lo = d.hi \/ d.lo = 0))
               IN  [k \in DOMAIN pr |-> [i |-> i, n |-> pr[k].n, evr |-> pr[k].hi]])
EntriesOf(e, n) == StableSort(SelectSeq(e, LAMBDA x : x.n = n), LAMBDA a, b : a.evr > b.evr)
Worse(g, k) == k > 1 /\ g[k].i # g[k - 1].i /\ g[k].evr < g[k - 1].evr
Points(g, i) == FoldLeft(LAMBDA sum, k : IF g[k].i = i THEN sum + Cardinality({j \in 1..k : Worse(g, j)}) ELSE sum,
                         0, [k \in DOMAIN g |-> k])
Badness(w, s, e) ==
  [i \in DOMAIN s |-> IF IsInst(w, s[i]) THEN 0
                      ELSE FoldLeft(LAMBDA sum, n : sum + Points(EntriesOf(e, n), i), 0,
                                    SetToSeq({e[k].n : k \in DOMAIN e}))]
Arranged(s, idx) == [k \in DOMAIN s |-> s[idx[k]]]
SortByKey(s, key) == Arranged(s, StableSort([i \in DOMAIN s |-> i], LAMBDA a, b : key[a] < key[b]))
SortCommonDep(w, s) == SortByKey(s, Badness(w, s, CommonDeps(w, s)))

(***************************************************************************)
(* dislike_old_versions and move_installed_to_front.                       *)
(***************************************************************************)
HasBetter(w, p) ==
  /\ ~IsInst(w, p)
  /\ \E q \in {x \in Ids(w) : SameName(w, p, x) /\ Indexed(w, x)} \ {p} :
       /\ Pk(w, p).arch = Pk(w, q).arch
       /\ IF Prio(w, p) # Prio(w, q) THEN Prio(w, p) < Prio(w, q) ELSE Pk(w, q).evr > Pk(w, p).evr
DislikeOldVersions(w, s) == FrontBy(s, LAMBDA p : ~HasBetter(w, p))
NameInstalled(w, p) == \E q \in InstSet(w) : SameName(w, p, q)

(***************************************************************************)
(* urpm_reorder: a package that goes with a kernel flavor or a locale is   *)
(* preferred as far as those are chosen (4), installed (3) or English (2). *)
(***************************************************************************)
UrpmPresence(w, sv, n, none) ==
  LET P == ProvSet(w, NameDep(n))
  IN  IF \E p \in P : Decided(sv, p) > 0 THEN 4 ELSE IF \E p \in P : IsInst(w, p) THEN 3 ELSE none
LocaleScore(w, sv, locale, k) ==
  IF k # 1 \/ locale = "-" THEN k ELSE IF locale = "en" THEN 2 ELSE UrpmPresence(w, sv, locale, 0)
UrpmScore(w, sv, u) ==
  LocaleScore(w, sv, u.locale, IF u.kernel = "-" THEN 1 ELSE UrpmPresence(w, sv, u.kernel, 1))
UrpmReorder(w, sv, s) ==
  IF ~Opt(w, "urpmreorder") THEN s
  ELSE SortByKey(s, [i \in DOMAIN s |-> -UrpmScore(w, sv, Pk(w, s[i]).urpm)])

(***************************************************************************)
(* policy_filter_unwanted.  Each favor group is pruned together with the   *)
(* groups that are favored more; what survives of the group is kept.       *)
(***************************************************************************)
Reorder(w, sv, s) == PreferFavored(sv, PreferSuggested(w, sv, UrpmReorder(w, sv, s)))
PruneByPrio(w, sv, s, mode) ==
  IF mode = "supplement" THEN s
  ELSE ByPrioPerName(w, s, mode, LAMBDA t : PruneDupPrio(w, sv, t))
PruneArchVersion(w, s, mode) ==
  IF Len(s) > 1 /\ mode # "supplement" THEN PruneBestVersion(w, PruneBestArch(w, s)) ELSE s
PruneToWanted(w, sv, s, mode) ==
  IF Len(s) > 1 /\ mode \in {"choose", "noreorder"} THEN PruneToRecommended(w, sv, s) ELSE s
OrderForChoice(w, sv, s, mode) ==
  IF Len(s) < 2 \/ mode \notin {"choose", "supplement"} THEN s
  ELSE Reorder(w, sv, FrontBy(SortCommonDep(w, DislikeOldVersions(w, s)),
                              LAMBDA p : mode = "choose" /\ NameInstalled(w, p)))
FilterGroup(w, sv, s, mode) ==
  IF Len(s) < 2 THEN s
  ELSE OrderForChoice(w, sv,
         PruneToWanted(w, sv, PruneArchVersion(w, PruneByPrio(w, sv, s, mode), mode), mode), mode)
FavoredUpto(sv, t, f) == SelectSeq(t, LAMBDA p : sv.favor[p] >= f)
Favors(sv, s, mode) == IF mode = "supplement" THEN <<0>> ELSE SetToSortSeq({sv.favor[s[i]] : i \in DOMAIN s}, >)
FilterUnwanted(w, sv, s, mode) ==
  ForEach(Favors(sv, s, mode),
          LAMBDA f : SelectSeq(FilterGroup(w, sv, IF mode = "supplement" THEN s
                                                  ELSE FavoredUpto(sv, PreferFavored(sv, s), f), mode),
                               LAMBDA p : mode = "supplement" \/ sv.favor[p] = f))

(***************************************************************************)
(* What may replace an installed package.                                  *)
(***************************************************************************)
IllegalArchChange(w, p, q) ==
  /\ Pk(w, p).arch # Pk(w, q).arch /\ "noarch" \notin {Pk(w, p).arch, Pk(w, q).arch}
  /\ ~SameClass(Score(w, p), Score(w, q))
IllegalVendorChange(w, p, q) ==
  /\ Pk(w, p).vendor # Pk(w, q).vendor
  /\ w.vclass[Pk(w, p).vendor] \cap w.vclass[Pk(w, q).vendor] = {}
DupFlag == [downgrade |-> "dup_downgrade", arch |-> "dup_arch", vendor |-> "dup_vendor", name |-> "dup_name"]
SolverFlag == [downgrade |-> "allow_downgrade", arch |-> "allow_arch", vendor |-> "allow_vendor", name |-> "allow_name"]
AllowFlag(w, sv, p, f) == Opt(w, IF p \in sv.dup THEN DupFlag[f] ELSE SolverFlag[f])
IsIllegal(w, sv, p, q, ignore) ==
  {f \in {"downgrade", "arch", "vendor", "name"} \ ignore :
     /\ ~AllowFlag(w, sv, p, f)
     /\ CASE f = "downgrade" -> SameName(w, p, q) /\ Pk(w, p).evr > Pk(w, q).evr
          [] f = "arch" -> IllegalArchChange(w, p, q)
          [] f = "vendor" -> IllegalVendorChange(w, p, q)
          [] f = "name" -> ~SameName(w, p, q)}

(***************************************************************************)
(* policy_create_obsolete_index and policy_findupdatepackages; mode is     *)
(* "policy", "all" or "dup".                                               *)
(***************************************************************************)
ObsoleteIndex(w, p) == SelectSeq(IdSeq(w), LAMBDA q : /\ q # System /\ Installable(w, q)
                                                       /\ ObsoletesOther(w, q, p))
ModeAllows(w, mode, f) == CASE mode = "all" -> TRUE
                            [] mode = "dup" -> Opt(w, DupFlag[f])
                            [] OTHER -> Opt(w, SolverFlag[f])
Candidate(w, p, q, mode) ==
  /\ Opt(w, "implicitobsoleteusescolors") => ColorMatch(w, p, q)
  /\ SameName(w, p, q) => (ModeAllows(w, mode, "downgrade") \/ Pk(w, p).evr <= Pk(w, q).evr)
  /\ ModeAllows(w, mode, "arch") \/ ~IllegalArchChange(w, p, q)
  /\ ModeAllows(w, mode, "vendor") \/ ~IllegalVendorChange(w, p, q)
FindUpdatePackages(w, sv, p, mode) ==
  LET namechange == ModeAllows(w, mode, "name")
      prov == SelectSeq(NameProviders(w, p), LAMBDA q : q # p)
      ProvObs(q) == /\ ~SameName(w, p, q) /\ namechange
                    /\ ~Opt(w, "noupdateprovide") \/ Opt(w, "needupdateprovide")
                    /\ Opt(w, "implicitobsoleteusescolors") => ColorMatch(w, p, q)
                    /\ Obsoletes(w, q, p)
      direct == SelectSeq(prov, LAMBDA q : (SameName(w, p, q) \/ ProvObs(q)) /\ Candidate(w, p, q, mode))
      have == \E i \in DOMAIN prov : ProvObs(prov[i])
  IN  IF ~namechange \/ Opt(w, "needupdateprovide") \/ (~Opt(w, "noupdateprovide") /\ have) THEN direct
      ELSE direct \o SelectSeq(ObsoleteIndex(w, p), LAMBDA q : Candidate(w, p, q, mode))
=============================================================================
