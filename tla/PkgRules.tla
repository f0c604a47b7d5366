------------------------------ MODULE PkgRules ------------------------------
(***************************************************************************)
(* rules.c, the package rules: the clauses that stand for the dependencies *)
(* of the packages that may be involved in a solver run.                   *)
(*                                                                         *)
(* The solver is a record sv; this module uses                             *)
(*   rules     a sequence of [l, on]: the literals in the code's order (p  *)
(*             first), and whether the rule is enabled; <<>> is the dummy  *)
(*             rule with p = 0                                             *)
(*   last      lastpkgrule, 0 if the next rule is not compared with one    *)
(*   pkgend    pkgrules_end, 0 while package rules are being added         *)
(*   m, wq     addedmap and the work queue of solver_addpkgrulesforsolvable*)
(*   recq      recommendsruleq                                             *)
(*   multi     the multiversion map                                        *)
(*   fix       the installed packages whose broken dependencies are fixed  *)
(*   buddy     instbuddy: installed package -> 0, 1 (ambiguous) or a buddy *)
(* Rule numbers count from 1 as in the code, where rule 0 is a dummy.      *)
(***************************************************************************)
EXTENDS World

(***************************************************************************)
(* linkedpkg.c: pseudo packages (applications, patterns, products) and the *)
(* real packages they stand for.  A pseudo package has a field link, what  *)
(* the code reads out of its requires and provides:                        *)
(*   application  app the appdata() requires, pkg the other plain          *)
(*                requires (a package name), prv the matching              *)
(*                application-appdata() provides                           *)
(*   pattern      pkg the package named by its autopattern() provides, prv *)
(*                that provides                                            *)
(*   product      app its product(name) = evr dependency, bt its buildtime *)
(* NoDep, "-" and 0 say that there is none.                                *)
(***************************************************************************)
NoDep == [n |-> "-", lo |-> 0, hi |-> 9]
NoLink == [qr |-> <<>>, req |-> NoDep, qp |-> <<>>, prv |-> NoDep]
SameRepo(w, s, d) == SelectSeq(Providers(w, d), LAMBDA p : Pk(w, p).repo = Pk(w, s).repo)

(***************************************************************************)
(* find_application_link: the packages of the same repository behind the   *)
(* appdata requires (or behind the package name), and all applications     *)
(* with that appdata.                                                      *)
(***************************************************************************)
ApplicationLink(w, s) ==
  LET k   == Pk(w, s).link
      req == IF k.app # NoDep THEN k.app ELSE NameDep(k.pkg)
      all == SameRepo(w, s, req)
      named == SelectSeq(all, LAMBDA p : k.pkg = "-" \/ Pk(w, p).name = k.pkg)
  IN  IF (k.app = NoDep /\ k.pkg = "-") \/ k.prv = NoDep THEN NoLink
      ELSE [qr |-> IF named = <<>> /\ k.app # NoDep THEN all ELSE named,
            req |-> req, qp |-> SameRepo(w, s, k.prv), prv |-> k.prv]

(***************************************************************************)
(* find_pattern_link: the package the autopattern() provides names, with   *)
(* the evr and vendor of the pattern.                                      *)
(***************************************************************************)
PatternLink(w, s) ==
  LET k == Pk(w, s).link
      Alike(p) == Pk(w, p).evr = Pk(w, s).evr /\ Pk(w, p).vendor = Pk(w, s).vendor
  IN  IF k.pkg = "-" THEN NoLink
      ELSE [qr |-> SelectSeq(SameRepo(w, s, NameDep(k.pkg)), LAMBDA p : Pk(w, p).name = k.pkg /\ Alike(p)),
            req |-> NameDep(k.pkg),
            qp |-> SelectSeq(SameRepo(w, s, k.prv), Alike), prv |-> k.prv]

(***************************************************************************)
(* find_product_link: the packages that provide product(name) = evr in the *)
(* architecture of the product; several are told apart by their buildtime. *)
(* A product package that is installed and has none is looked up by its    *)
(* reference file (link.ref).                                              *)
(***************************************************************************)
ByBuildtime(w, q, bt) ==
  LET byBt == SelectSeq(q, LAMBDA p : Pk(w, p).build \in {0, bt})
  IN  IF Len(q) < 2 \/ bt = 0 \/ byBt = <<>> THEN [qr |-> q, works |-> FALSE]
      ELSE [qr |-> byBt, works |-> \A i \in DOMAIN q : Pk(w, q[i]).build # 0]
ProductTwins(w, s, works) ==
  SelectSeq(NameGroup(w, s), LAMBDA p : /\ SameNevra(w, s, p)
                                        /\ Pk(w, p).repo = Pk(w, s).repo
                                        /\ works => Pk(w, p).build = Pk(w, s).link.bt)
ProductPair(w, s, ref, t) ==
  IF t.qr = <<>> /\ IsInst(w, s) THEN <<ref, IF ref = <<>> THEN <<>> ELSE <<s>>>>
  ELSE <<t.qr, ProductTwins(w, s, t.works)>>
ProductLink(w, s) ==
  LET k == Pk(w, s).link
      Link(q) == [qr |-> q[1], req |-> k.app, qp |-> q[2],
                  prv |-> [n |-> Pk(w, s).name, lo |-> Pk(w, s).evr, hi |-> Pk(w, s).evr]]
      qr0 == SelectSeq(SameRepo(w, s, k.app), LAMBDA p : Pk(w, p).arch = Pk(w, s).arch)
  IN  Link(ProductPair(w, s, k.ref, ByBuildtime(w, qr0, k.bt)))

HasLink(w, s) == Pk(w, s).kind \in {"application", "pattern", "product"}
PackageLink(w, s) == CASE Pk(w, s).kind = "application" -> ApplicationLink(w, s)
                       [] Pk(w, s).kind = "pattern" -> PatternLink(w, s)
                       [] Pk(w, s).kind = "product" -> ProductLink(w, s)
                       [] OTHER -> NoLink

(***************************************************************************)
(* pool_link_evrcmp: pseudo packages of one name compare as the version    *)
(* ranges of the real packages behind them.                                *)
(***************************************************************************)
MinMax(E) == [lo |-> CHOOSE e \in E : \A f \in E : e <= f,
              hi |-> CHOOSE e \in E : \A f \in E : f <= e]
EvrRange(w, q) ==
  IF q = <<>> \/ \E i \in DOMAIN q : Pk(w, q[i]).name # Pk(w, q[1]).name
  THEN [n |-> "-", range |-> [lo |-> 0, hi |-> 0]]
  ELSE [n |-> Pk(w, q[1]).name, range |-> MinMax({Pk(w, q[i]).evr : i \in DOMAIN q})]
NameMinMax(w, s) == EvrRange(w, PackageLink(w, s).qr)
CompareRanges(a, b) ==
  IF a.n = "-" \/ b.n = "-" \/ a.n # b.n \/ a = b THEN 0
  ELSE IF a.range.lo > b.range.hi THEN 1
  ELSE IF a.range.hi < b.range.lo THEN -1 ELSE 0
LinkEvrCmp(w, s, t) ==
  IF SameName(w, s, t) THEN CompareRanges(NameMinMax(w, s), NameMinMax(w, t)) ELSE 0

-----------------------------------------------------------------------------
NRules(sv) == Len(sv.rules)
Rule(l) == [l |-> l, on |-> TRUE]
RuleP(r) == IF r.l = <<>> THEN 0 ELSE r.l[1]

(***************************************************************************)
(* solver_addrule.  While package rules are added the literals of a binary *)
(* rule are ordered, a repetition of the last package rule is not stored   *)
(* again and a rule with a literal and its negation is dropped.  Any other *)
(* rule is always stored.                                                  *)
(***************************************************************************)
AddRule(sv, lits) ==
  LET l == IF Len(lits) = 2 /\ lits[1] > lits[2] THEN <<lits[2], lits[1]>> ELSE lits
      fulfilled == \E i \in 2..Len(l) : l[i] = -l[1]
  IN  IF sv.pkgend # 0 THEN [sv EXCEPT !.rules = Append(@, Rule(lits))]
      ELSE IF (sv.last # 0 /\ sv.rules[sv.last].l = l) \/ fulfilled THEN sv
      ELSE [sv EXCEPT !.rules = Append(@, Rule(l)), !.last = Len(sv.rules) + 1]

(***************************************************************************)
(* solver_unifyrules: rules sorted by their literals, duplicates removed;  *)
(* a rule stays a recommends rule only if every copy of it was one.        *)
(***************************************************************************)
LitsBefore(a, b) ==
  LET n == IF Len(a) < Len(b) THEN Len(a) ELSE Len(b)
      d == {i \in 1..n : a[i] # b[i]}
      k == IF d = {} THEN 0 ELSE CHOOSE i \in d : \A j \in d : i <= j
  IN  IF a # <<>> /\ b # <<>> /\ a[1] # b[1] THEN a[1] < b[1]
      ELSE IF (Len(a) <= 2) # (Len(b) <= 2) THEN Len(a) <= 2
      ELSE IF k # 0 THEN a[k] < b[k] ELSE Len(a) < Len(b)
UnifyRules(sv) ==
  LET Sorted(q, r) == SelectSeq(q, LAMBDA x : LitsBefore(x, r.l)) \o <<r.l>>
                      \o SelectSeq(q, LAMBDA x : LitsBefore(r.l, x))
      lits == FoldLeft(Sorted, <<>>, sv.rules)
      OnlyRec(l) == \A i \in DOMAIN sv.rules : sv.rules[i].l = l => InSeq(i, sv.recq)
      idx == [i \in DOMAIN lits |-> i]
  IN  [sv EXCEPT !.rules = [i \in DOMAIN lits |-> Rule(lits[i])],
                 !.recq = SelectSeq(idx, LAMBDA i : OnlyRec(lits[i]))]

(***************************************************************************)
(* An emission is what one addpkgrule call passes on: the literals, the    *)
(* type of the rule and the dependency.                                    *)
(***************************************************************************)
Emit(l, t, d) == <<[l |-> l, t |-> t, d |-> d]>>
Concat(ss) == FoldLeft(LAMBDA a, b : a \o b, <<>>, ss)
ForEach(s, Op(_)) == Concat([i \in DOMAIN s |-> Op(s[i])])

DontFix(w, sv, n) == IsInst(w, n) /\ n \notin sv.fix

NotInstallableRule(w, sv, n) ==
  IF ~DontFix(w, sv, n) /\ (IF IsSrc(w, n) THEN Disabled(w, n) ELSE ~Installable(w, n))
  THEN Emit(<<-n>>, "not_installable", NoDep) ELSE <<>>

(***************************************************************************)
(* add_complex_deprules: one rule per block of the normal form.  A package *)
(* whose broken dependencies are left alone gets a block only if the       *)
(* installed system fulfils it already.                                    *)
(***************************************************************************)
InstalledFulfils(w, s) == \E i \in DOMAIN s : IF s[i] > 0 THEN IsInst(w, s[i]) ELSE ~IsInst(w, -s[i])
ComplexBlockRule(w, sv, n, d, t, s) ==
  LET dontfix == DontFix(w, sv, n)
      withme  == IF InSeq(-n, s) THEN s
                 ELSE SelectSeq(s, LAMBDA l : l <= -n) \o <<-n>> \o SelectSeq(s, LAMBDA l : l > -n)
  IN  IF dontfix /\ ~InstalledFulfils(w, s) THEN <<>>
      ELSE IF s = <<-n>> /\ t = "conflicts"
           THEN IF Opt(w, "forbidselfconflicts") THEN Emit(<<-n>>, "self_conflict", d) ELSE <<>>
      ELSE IF s = <<-n>> THEN Emit(s, t, d)
      ELSE IF InSeq(n, s) THEN <<>>
      ELSE Emit(IF Len(s) = 1 THEN <<-n, s[1]>> ELSE withme, t, d)
NormalizedRules(w, sv, n, d, t, x) ==
  CASE x.r = 1 -> <<>>
    [] x.r = 0 -> IF DontFix(w, sv, n) THEN <<>>
                  ELSE Emit(<<-n>>, IF t = "requires" THEN "nothing_provides_dep" ELSE t, d)
    [] OTHER -> ForEach(x.b, LAMBDA s : ComplexBlockRule(w, sv, n, d, t, s))
ComplexDepRules(w, sv, n, d, t) ==
  NormalizedRules(w, sv, n, d, t, NormalizeComplex(w, d, t = "conflicts", t = "conflicts", FALSE))

(***************************************************************************)
(* The requires of a package.  Nothing is asked for a dependency the       *)
(* system or the package itself provides, nor for one that is broken for   *)
(* an installed package that is not being fixed.                           *)
(***************************************************************************)
RequiresRuleBug(w, sv, n, d) ==   \* mutant: broken dependencies are enforced
  LET prov == Providers(w, d)
  IN  IF prov # <<>> /\ prov[1] = System THEN <<>>
      ELSE IF prov = <<>> THEN Emit(<<-n>>, "nothing_provides_dep", d)
      ELSE IF InSeq(n, prov) THEN <<>>
      ELSE Emit(<<-n>> \o prov, "requires", d)
RequiresRule(w, sv, n, d) ==
  LET prov == Providers(w, d)
  IN  IF IsComplex(d) THEN ComplexDepRules(w, sv, n, d, "requires")
      ELSE IF prov # <<>> /\ prov[1] = System THEN <<>>
      ELSE IF DontFix(w, sv, n) /\ \A i \in DOMAIN prov : ~IsInst(w, prov[i]) THEN <<>>
      ELSE IF prov = <<>> THEN Emit(<<-n>>, "nothing_provides_dep", d)
      ELSE IF InSeq(n, prov) THEN <<>>
      ELSE Emit(<<-n>> \o prov, "requires", d)
(***************************************************************************)
(* Requires after the prereq marker that the package lists as satisfied    *)
(* once it is installed are skipped for an installed package.              *)
(***************************************************************************)
Filtered(w, n, d) == IsInst(w, n) /\ InSeq(d, Pk(w, n).ignoreinst)
RequiresRules(w, sv, n) ==
  ForEach(Pk(w, n).requires, LAMBDA d : IF Filtered(w, n, d) THEN <<>> ELSE RequiresRule(w, sv, n, d))

(***************************************************************************)
(* With strongrecommends a recommends becomes a rule of its own.           *)
(***************************************************************************)
RecommendsRule(w, sv, n, d) ==
  LET prov == Providers(w, d)
  IN  IF IsComplex(d) THEN ComplexDepRules(w, sv, n, d, "recommends")
      ELSE IF prov = <<>> \/ InSeq(n, prov) \/ prov[1] = System THEN <<>>
      ELSE Emit(<<-n>> \o prov, "recommends", d)
RecommendsRules(w, sv, n) ==
  IF Opt(w, "strongrecommends")
  THEN ForEach(Pk(w, n).recommends, LAMBDA d : RecommendsRule(w, sv, n, d)) ELSE <<>>

(***************************************************************************)
(* add_conda_constrains_rule: a conflict with every package of the name    *)
(* that does not match the constraint.                                     *)
(***************************************************************************)
ConstrainsRule(w, sv, n, d) ==
  LET others == SelectSeq(Providers(w, NameDep(d.n)), LAMBDA p : /\ p # n
                                                               /\ ~(DontFix(w, sv, n) /\ IsInst(w, p))
                                                               /\ p \notin ProvSet(w, d))
  IN  [i \in DOMAIN others |-> [l |-> <<-n, -others[i]>>, t |-> "constrains", d |-> d]]
ConstrainsRules(w, sv, n) ==
  IF Opt(w, "conda")
  THEN ForEach(SelectSeq(Pk(w, n).constrains, Versioned), LAMBDA d : ConstrainsRule(w, sv, n, d)) ELSE <<>>

(***************************************************************************)
(* makemultiversionconflict: a patch does not conflict with a multiversion *)
(* package while another version of it that does not conflict is there.    *)
(***************************************************************************)
MultiversionConflict(w, sv, p, con) ==
  SelectSeq(NameGroup(w, p), LAMBDA q : /\ Pk(w, q).arch = Pk(w, p).arch
                                        /\ q \in sv.multi
                                        /\ ~MatchNevr(w, q, con))
Against(n, p, t, d) == Emit(IF p = System THEN <<-n>> ELSE <<-n, -p>>, t, d)
ConflictRule(w, sv, n, p, d) ==
  LET ispatch == Pk(w, n).kind = "patch"
      others  == MultiversionConflict(w, sv, p, d)
  IN  IF ispatch /\ ~MatchNevr(w, p, d) THEN <<>>
      ELSE IF DontFix(w, sv, n) /\ IsInst(w, p) THEN <<>>
      ELSE IF p = n THEN IF Opt(w, "forbidselfconflicts") THEN Emit(<<-n>>, "self_conflict", d) ELSE <<>>
      ELSE IF ispatch /\ p \in sv.multi /\ Versioned(d) /\ others # <<>>
           THEN Emit(<<-n, -p>> \o others, "conflicts", d)
      ELSE Against(n, p, "conflicts", d)
ConflictsRules(w, sv, n) ==
  ForEach(Pk(w, n).conflicts,
          LAMBDA d : IF Pk(w, n).kind # "patch" /\ IsComplex(d)
                     THEN ComplexDepRules(w, sv, n, d, "conflicts")
                     ELSE ForEach(Providers(w, d), LAMBDA p : ConflictRule(w, sv, n, p, d)))

(***************************************************************************)
(* Obsoletes of a package, unless it is a multiversion package; those of   *)
(* an installed package unless the pool ignores them.                      *)
(***************************************************************************)
ObsoletesRules(w, sv, n) ==
  LET Skip(p, d) == \/ p = n
                    \/ DontFix(w, sv, n) /\ IsInst(w, p)
                    \/ ~ObsMatches(w, n, p, d)
                    \/ ~ObsColor(w, n, p)
      t == IF IsInst(w, n) THEN "installed_obsoletes" ELSE "obsoletes"
  IN  IF n \in sv.multi /\ ~Opt(w, "keepexplicitobsoletes") THEN <<>>
      ELSE ForEach(Pk(w, n).obsoletes,
             LAMBDA d : ForEach(Providers(w, d), LAMBDA p : IF Skip(p, d) THEN <<>> ELSE Against(n, p, t, d)))

(***************************************************************************)
(* Implicit obsoletes: packages of the same name exclude each other.  With *)
(* an addedmap the rule is left out if the other package added it already. *)
(***************************************************************************)
SameNameRule(w, sv, n, p, map) ==
  LET multi == n \in sv.multi
      inst  == IsInst(w, n)
      kept  == multi /\ ~SameNevra(w, n, p) /\ (inst \/ ~IsInst(w, p) \/ p \in sv.multi)
      added == map /\ ~IsInst(w, p) /\ p \in sv.m /\ ~IsSrc(w, p) /\ p \notin sv.multi /\ p # System
  IN  IF \/ p = n
         \/ inst /\ ~IsInst(w, p)
         \/ kept
         \/ ~Opt(w, "implicitobsoleteusesprovides") /\ ~SameName(w, n, p)
         \/ Opt(w, "implicitobsoleteusescolors") /\ ~ColorMatch(w, n, p)
      THEN <<>>
      ELSE IF ~SameName(w, n, p) THEN Against(n, p, "implicit_obsoletes", NameDep(Pk(w, n).name))
      ELSE IF added THEN <<>>
      ELSE Against(n, p, "same_name", NoDep)
SameNameRulesBug(w, sv, n, map) ==   \* mutant: the other package's map entry alone is trusted
  ForEach(NameProviders(w, n), LAMBDA p : IF p \in sv.m /\ map THEN <<>> ELSE SameNameRule(w, sv, n, p, map))
SameNameRules(w, sv, n, map) ==
  IF DontFix(w, sv, n) THEN <<>>
  ELSE ForEach(NameProviders(w, n), LAMBDA p : SameNameRule(w, sv, n, p, map))

ObsoleteRulesOf(w, sv, n, map) ==
  IF IsInst(w, n) /\ Opt(w, "noinstalledobsoletes") THEN <<>>
  ELSE ObsoletesRules(w, sv, n) \o SameNameRules(w, sv, n, map)
(***************************************************************************)
(* addlinks: a pseudo package requires one of its real packages, and a     *)
(* real package requires a pseudo package of every name linked to it.      *)
(***************************************************************************)
RulesOfLink(w, n, k, qp) ==
  LET names == {Pk(w, qp[i]).name : i \in DOMAIN qp}
      Group(nm) == SelectSeq(qp, LAMBDA p : Pk(w, p).name = nm)
      Back(r) == ForEach(SetToSeq(names), LAMBDA nm : Emit(<<-r>> \o Group(nm), "requires", k.prv))
  IN  IF k.qr = <<>> THEN <<>>
      ELSE Emit(<<-n>> \o k.qr, "requires", k.req) \o ForEach(k.qr, Back)
SortedPkgs(q) == SetToSortSeq({q[i] : i \in DOMAIN q}, LAMBDA a, b : a < b)
LinkRules(w, n) == RulesOfLink(w, n, PackageLink(w, n), SortedPkgs(PackageLink(w, n).qp))
(***************************************************************************)
(* The buddies addlinks records for an installed pseudo package: its real  *)
(* package, and for a real package its pseudo package or 1 if ambiguous.   *)
(***************************************************************************)
RecordLink(w, sv, n, k) ==
  LET mine == IF Len(k.qr) = 1 THEN [sv.buddy EXCEPT ![n] = k.qr[1]] ELSE sv.buddy
      Theirs(b, r) == IF ~IsInst(w, r) THEN b
                      ELSE [b EXCEPT ![r] = IF Len(k.qp) > 1 \/ @ \notin {0, n} THEN 1 ELSE n]
  IN  IF k.qr = <<>> \/ ~IsInst(w, n) THEN sv ELSE [sv EXCEPT !.buddy = FoldLeft(Theirs, mine, k.qr)]
RecordBuddies(w, sv, n) == RecordLink(w, sv, n, PackageLink(w, n))

(***************************************************************************)
(* One solvable of solver_addpkgrulesforsolvable: everything it emits.     *)
(* Source packages stop after their requires.                              *)
(***************************************************************************)
RulesBefore(w, sv, n) == NotInstallableRule(w, sv, n) \o LinkRules(w, n) \o RequiresRules(w, sv, n)
RulesAfter(w, sv, n, map) ==
  ConstrainsRules(w, sv, n)
  \o (IF IsSrc(w, n) THEN <<>> ELSE ConflictsRules(w, sv, n) \o ObsoleteRulesOf(w, sv, n, map))

(***************************************************************************)
(* What it pushes on the work queue: the providers of its rules, lock-step *)
(* candidates of a better architecture, and what it recommends or suggests.*)
(***************************************************************************)
EmittedPkgs(e) == ForEach(e, LAMBDA x : SelectSeq(x.l, LAMBDA l : l > 0))
WeakPkgs(w, deps) ==
  ForEach(deps, LAMBDA d : IF IsComplex(d) THEN PosLiterals(w, d, FALSE) ELSE Providers(w, d))
LockStep(w, n) ==
  IF ~Opt(w, "implicitobsoleteusescolors") \/ Score(w, n) <= 1 THEN <<>>
  ELSE SelectSeq(NameGroup(w, n), LAMBDA p : /\ Pk(w, p).evr = Pk(w, n).evr
                                             /\ Score(w, p) > 1 /\ Score(w, p) < Score(w, n))
PkgsOfLink(k) == k.qr \o k.qp
Pushed(w, sv, n) ==
  PkgsOfLink(PackageLink(w, n)) \o EmittedPkgs(RequiresRules(w, sv, n)) \o EmittedPkgs(RecommendsRules(w, sv, n))
      \o (IF IsSrc(w, n) THEN <<>>
          ELSE EmittedPkgs(SelectSeq(ConflictsRules(w, sv, n), LAMBDA e : IsComplex(e.d)))
               \o LockStep(w, n) \o WeakPkgs(w, Pk(w, n).recommends) \o WeakPkgs(w, Pk(w, n).suggests))

AddEmitted(sv, e) == FoldLeft(LAMBDA s, x : AddRule(s, x.l), sv, e)
RequiresStage(w, sv, n) == RecordBuddies(w, AddEmitted(sv, RulesBefore(w, sv, n)), n)
NoteRecommends(sv, first) ==
  [sv EXCEPT !.recq = @ \o [i \in 1..(NRules(sv) - first) |-> first + i], !.last = 0]
RecommendsStage(w, sv, n) ==
  IF Opt(w, "strongrecommends") /\ Pk(w, n).recommends # <<>>
  THEN NoteRecommends(AddEmitted([sv EXCEPT !.last = 0], RecommendsRules(w, sv, n)), NRules(sv))
  ELSE sv
ConflictsStage(w, sv, n) == AddEmitted(sv, RulesAfter(w, sv, n, TRUE))
PushStage(w, sv, n, m) == [sv EXCEPT !.wq = @ \o SelectSeq(Pushed(w, sv, n), LAMBDA p : p \notin m)]
AddSolvable(w, sv, n) ==
  LET s0 == [sv EXCEPT !.m = @ \cup {n}]
  IN  PushStage(w, ConflictsStage(w, RecommendsStage(w, RequiresStage(w, s0, n), n), n), n, s0.m)

(***************************************************************************)
(* solver_dep_possible and the test of solver_addpkgrulesforweak: could a  *)
(* supplements or enhances of the package be fulfilled by added packages?  *)
(***************************************************************************)
RECURSIVE DepPossible(_, _, _)
DepPossible(w, d, m) ==
  IF IsRel(d) /\ d.op = "and" THEN DepPossible(w, d.a, m) /\ DepPossible(w, d.b, m)
  ELSE IF IsRel(d) /\ d.op = "or" THEN DepPossible(w, d.a, m) \/ DepPossible(w, d.b, m)
  ELSE IF IsRel(d) /\ d.op \in {"cond", "unless"} THEN TRUE
  ELSE ProvSet(w, d) \cap m # {}
WeakPossible(w, sv, p) ==
  /\ p \notin sv.m /\ Pk(w, p).repo # "none"
  /\ IsInst(w, p) \/ Installable(w, p)
  /\ \/ \E i \in DOMAIN Pk(w, p).supplements : DepPossible(w, Pk(w, p).supplements[i], sv.m)
     \/ \E i \in DOMAIN Pk(w, p).enhances : DepPossible(w, Pk(w, p).enhances[i], sv.m)
(***************************************************************************)
(* solver_addpkgrulesforlinked: an installable pseudo package one of whose *)
(* real packages was added.                                                *)
(***************************************************************************)
LinkedPossible(w, sv, p) ==
  /\ p \notin sv.m /\ ~IsInst(w, p) /\ HasLink(w, p) /\ Installable(w, p)
  /\ LET k == PackageLink(w, p) IN \E i \in DOMAIN k.qr : k.qr[i] \in sv.m

(***************************************************************************)
(* getpkgruleinfos: the rules of the packages that occur negated in rule r *)
(* are made again, without an addedmap, and those equal to r explain it.   *)
(* So are the links of the pseudo packages right behind them.  An          *)
(* explanation is a record of type, from and to package and dependency.    *)
(***************************************************************************)
RulesOf(w, sv, n) ==
  RulesBefore(w, sv, n) \o RecommendsRules(w, sv, n) \o RulesAfter(w, sv, n, FALSE)
RuleInfoMatch(r, e) ==
  LET l == IF Len(e.l) = 2 /\ e.l[1] > e.l[2] THEN <<e.l[2], e.l[1]>> ELSE e.l
  IN  IF Len(l) <= 2 THEN r.l = l
      ELSE Len(r.l) > 2 /\ Tail(r.l) = Tail(l)
RuleInfoOf(e) ==
  LET swap == e.t = "same_name" /\ Len(e.l) = 2 /\ e.l[1] > e.l[2]
      l    == IF swap THEN <<e.l[2], e.l[1]>> ELSE e.l
      to   == IF Len(l) = 1 THEN (IF e.t = "conflicts" THEN System ELSE 0)
              ELSE IF Len(l) = 2 THEN (IF l[2] < 0 THEN -l[2] ELSE 0)
              ELSE IF e.t = "conflicts" /\ l[1] < 0 /\ l[2] < 0 /\ l[3] > 0 THEN -l[2] ELSE 0
  IN  [t |-> e.t, from |-> IF l[1] < 0 THEN -l[1] ELSE 0, to |-> to, d |-> e.d]
NegPrefix(l) == SelectSeq(l, LAMBDA x : x < 0)
PkgRuleInfosBug(w, sv, r) ==   \* mutant: only the package the rule starts with is asked
  LET h == SelectSeq(RulesOf(w, sv, -RuleP(r)), LAMBDA x : RuleInfoMatch(r, x))
  IN  [i \in DOMAIN h |-> RuleInfoOf(h[i])]
PkgRuleInfos(w, sv, r) ==
  LET neg  == NegPrefix(r.l)
      rest == SubSeq(r.l, 2, Len(r.l))
      stop == {i \in DOMAIN rest : rest[i] < 0 \/ ~HasLink(w, Lit2Pkg(rest[i]))}
      linked == SelectSeq(rest, LAMBDA x : \A i \in stop : \E k \in 1..(i - 1) : rest[k] = x)
      Hits(e) == LET h == SelectSeq(e, LAMBDA x : RuleInfoMatch(r, x)) IN [i \in DOMAIN h |-> RuleInfoOf(h[i])]
  IN  IF RuleP(r) >= 0 THEN <<>>
      ELSE ForEach(neg, LAMBDA x : Hits(RulesOf(w, sv, -x)))
           \o ForEach(linked, LAMBDA x : Hits(LinkRules(w, x)))
(***************************************************************************)
(* solver_ruleinfo for a package rule: the explanation of the lowest type, *)
(* a same-name conflict before all others.                                 *)
(***************************************************************************)
TypeRank == [not_installable |-> 1, nothing_provides_dep |-> 2, requires |-> 3, self_conflict |-> 4,
             conflicts |-> 5, same_name |-> 6, obsoletes |-> 7, implicit_obsoletes |-> 8,
             installed_obsoletes |-> 9, recommends |-> 10, constrains |-> 11]
BestRuleInfo(infos) ==
  LET same == {i \in DOMAIN infos : infos[i].t = "same_name"}
      Low(S) == CHOOSE i \in S : \A j \in S : i <= j
      best == {i \in DOMAIN infos : \A j \in DOMAIN infos : TypeRank[infos[i].t] <= TypeRank[infos[j].t]}
  IN  IF infos = <<>> THEN [t |-> "pkg", from |-> 0, to |-> 0, d |-> NoDep]
      ELSE infos[Low(IF same # {} THEN same ELSE best)]
=============================================================================
