----------------------------- MODULE Selection ------------------------------
(***************************************************************************)
(* Selections (selection.c): a text, a dependency or a package is turned   *)
(* into a list of jobs that together select packages.                      *)
(*                                                                         *)
(* A job is [sel, how, id, list]: what it selects by, the flags that say   *)
(* how much of it the user has set, and a package, a dependency, a         *)
(* repository or (sel = "one_of") a list of packages.  The providers of a  *)
(* dependency are what module Pool shows the index to hold, ProviderSet;   *)
(* the relations a selection makes are in pl.rels already.  The pool of    *)
(* module Provides has two more fields here: disabled, the packages that   *)
(* the application or their repository disables, and badarch.              *)
(*                                                                         *)
(* A text is a sequence of tokens: words, and the characters below that    *)
(* selections look for.  100 and up are words in upper case, 50 to 59 the  *)
(* digits of versions.  A version is 100 * epoch + 10 * version + release. *)
(***************************************************************************)
EXTENDS Provides

CONSTANTS Spelling,    \* string -> its text
          Archs,       \* the strings that are known architectures
          NoArch       \* ARCH_NOARCH

DotTok == -1
DashTok == -2
ColonTok == -3
Slash == -4
Star == -5
Lt == -6
Eq == -7
Gt == -8
Bang == -9
Under == -10
RelTokens == {Lt, Eq, Gt}

TextId(t) == IF \E s \in Strings : Spelling[s] = t THEN CHOOSE s \in Strings : Spelling[s] = t ELSE 0
Before(t, i) == SubSeq(t, 1, i - 1)
After(t, i) == SubSeq(t, i + 1, Len(t))
LastOf(t, c) == Max({0} \cup {i \in DOMAIN t : t[i] = c})
FirstOf(t, C) == Min({Len(t) + 1} \cup {i \in DOMAIN t : t[i] \in C})
Fold(t) == [i \in DOMAIN t |-> IF t[i] > 100 THEN t[i] - 100 ELSE t[i]]
\* a text as a version; other texts are newer than all of them
HasEpochText(t) == Len(t) > 2 /\ t[1] \in 50..59 /\ t[2] = ColonTok
Digit(t, i) == IF i <= Len(t) /\ t[i] \in 50..59 THEN t[i] - 50 ELSE 9
EvrOf(t) ==
    LET v == IF HasEpochText(t) THEN SubSeq(t, 3, Len(t)) ELSE t
    IN  (IF HasEpochText(t) THEN 100 * Digit(t, 1) ELSE 0) + 10 * Digit(v, 1) + (IF Len(v) = 3 /\ v[2] = DashTok THEN Digit(v, 3) ELSE 0)
EvrText(e) ==
    (IF e >= 100 THEN <<50 + e \div 100, ColonTok>> ELSE <<>>) \o <<50 + ((e \div 10) % 10)>> \o
    (IF e % 10 = 0 THEN <<>> ELSE <<DashTok, 50 + (e % 10)>>)
CmpText(cmp) == SelectSeq(<<Lt, Gt, Eq>>, LAMBDA c : c \in {IF x = "lt" THEN Lt ELSE IF x = "eq" THEN Eq ELSE Gt : x \in cmp})

\* strcmp, strcasecmp and fnmatch with one star
Same(t, u, nocase) == IF nocase THEN Fold(t) = Fold(u) ELSE t = u
Fnmatch(t, u, nocase) ==
    LET i == FirstOf(t, {Star})
        n == Len(t) - i
    IN  /\ Len(u) >= Len(t) - 1
        /\ Same(Before(t, i), SubSeq(u, 1, i - 1), nocase)
        /\ Same(After(t, i), SubSeq(u, Len(u) - n + 1, Len(u)), nocase)
DoGlob(t, f) == "glob" \in f /\ In(Star, t)
MatchesText(t, u, f) == IF DoGlob(t, f) THEN Fnmatch(t, u, "nocase" \in f) ELSE Same(t, u, "nocase" \in f)
Skipkind(u) == IF Len(u) > 2 /\ u[1] \in 1..40 /\ u[2] = ColonTok THEN After(u, 2) ELSE u
Str2archid(t) == IF TextId(t) \in Archs \cup {Src, NoSrc, NoArch} THEN TextId(t) ELSE 0

(***************************************************************************)
(* Jobs                                                                    *)
(***************************************************************************)
Job(sel, id) == [sel |-> sel, how |-> {}, id |-> id, list |-> <<>>]
SolvableJob(p) == [Job("solvable", p) EXCEPT !.how = {"noautoset"}]
PackList(q, how) ==
    IF Len(q) = 1 THEN [Job("solvable", q[1]) EXCEPT !.how = how \cup {"noautoset"}]
    ELSE [Job("one_of", 0) EXCEPT !.how = how, !.list = q]
RelId(pl, name, evr, op, cmp) == -(CHOOSE r \in DOMAIN pl.rels : pl.rels[r] = [op |-> op, name |-> name, evr |-> evr, cmp |-> cmp])
SrcRel(pl, id) == RelId(pl, id, Src, "arch", {})
IsInstalled(pl, p) == pl.inst # 0 /\ RepoOf(pl, p) = pl.inst
RepoPackages(pl, r) == {p \in Solvables(pl) : RepoOf(pl, p) = r}

\* FOR_JOB_SELECT
JobPkgs(pl, j) ==
    CASE j.sel = "solvable" -> <<j.id>>
      [] j.sel = "one_of" -> j.list
      [] j.sel = "provides" -> Ascending(ProviderSet(pl, j.id))
      [] j.sel = "name" -> SelectSeq(Ascending(ProviderSet(pl, j.id)), LAMBDA p : MatchNevr(pl, pl.solv[p], j.id))
      [] OTHER -> <<>>
AllPkgs(pl, j) ==
    CASE j.sel = "all" -> Ascending(Solvables(pl))
      [] j.sel = "repo" -> Ascending(RepoPackages(pl, j.id))
      [] OTHER -> JobPkgs(pl, j)
\* selection_prune, selection_solvables
Prune(pl, sel) == SelectSeq(sel, LAMBDA j : AllPkgs(pl, j) # <<>>)
SelSolvables(pl, sel) == UNION {ToSet(AllPkgs(pl, sel[i])) : i \in DOMAIN sel}

FlatList(q) == IF q = {} THEN <<>> ELSE <<PackList(Ascending(q), {})>>
Flatten(pl, sel) ==
    LET alls == {i \in DOMAIN sel : sel[i].sel = "all"}
    IN  IF Len(sel) < 2 THEN sel
        ELSE IF alls # {} THEN <<sel[Min(alls)]>>
        ELSE FlatList(SelSolvables(pl, sel))

(***************************************************************************)
(* Filters: by a relation [op, cmp, evr] and by a repository.              *)
(***************************************************************************)
ArchFits(a, evr) == a = evr \/ (evr = Src /\ a = NoSrc)
MatchNevrRel(pl, s, r) == IF r.op = "arch" THEN ArchFits(s.arch, r.evr) ELSE MatchFlagsEvr(pl.deb, {"eq"}, s.evr, r.cmp, r.evr)
Unstacked(pl, id, r) ==
    IF /\ r.op = "arch" /\ r.evr \in {Src, NoSrc} /\ IsReldep(id)
       /\ pl.rels[-id].op = "arch" /\ pl.rels[-id].evr = Src
    THEN pl.rels[-id].name ELSE id
GainedFlags(pl, j, r) ==
    CASE r.op = "arch" -> {"setarch"}
      [] r.op = "ver" /\ r.cmp = {"eq"} /\ j.sel # "provides" -> {IF pl.deb \/ r.evr % 10 # 0 THEN "setevr" ELSE "setev"}
      [] OTHER -> {}
KeepMatching(j, pkgs, q) == IF Len(q) = Len(pkgs) THEN j ELSE PackList(q, {})
RelJob(pl, j, r) ==
    IF j.sel \in {"solvable", "one_of"} THEN KeepMatching(j, JobPkgs(pl, j), SelectSeq(JobPkgs(pl, j), LAMBDA p : MatchNevrRel(pl, pl.solv[p], r)))
    ELSE [j EXCEPT !.id = RelId(pl, Unstacked(pl, j.id, r), r.evr, r.op, r.cmp)]
FilterRelNoprune(pl, sel, r) ==
    [i \in DOMAIN sel |-> [RelJob(pl, sel[i], r) EXCEPT !.how = @ \cup GainedFlags(pl, sel[i], r)]]
FilterRel(pl, sel, r) == Prune(pl, FilterRelNoprune(pl, sel, r))
ArchRel(a) == [op |-> "arch", cmp |-> {}, evr |-> a]
VerRel(cmp, e) == [op |-> "ver", cmp |-> cmp, evr |-> e]

RepoJob(j, pkgs, q, repo) ==
    CASE j.sel = "all" -> [j EXCEPT !.sel = "repo", !.id = repo]
      [] j.sel \in {"repo", "solvable"} \/ Len(q) = Len(pkgs) -> j
      [] OTHER -> PackList(q, j.how)
FilterRepoJob(pl, j, repo, set) ==
    LET q == SelectSeq(AllPkgs(pl, j), LAMBDA p : RepoOf(pl, p) = repo)
    IN  IF q = <<>> THEN <<>> ELSE <<[RepoJob(j, AllPkgs(pl, j), q, repo) EXCEPT !.how = @ \cup set]>>
FilterRepo(pl, sel, repo, set) ==
    IF repo = 0 THEN <<>> ELSE FlattenSeq([i \in DOMAIN sel |-> FilterRepoJob(pl, sel[i], repo, set)])

(***************************************************************************)
(* pool_match_dep: two dependencies can be met by the same package.        *)
(***************************************************************************)
Complex == {"and", "or", "with", "without", "cond", "unless"}
IsIntervalDep(pl, d1, d2) ==
    /\ IsReldep(d1) /\ IsReldep(d2)
    /\ LET a == pl.rels[-d1]
           b == pl.rels[-d2]
       IN  /\ a.name = b.name /\ a.op = "ver" /\ b.op = "ver"
           /\ \A c \in {"lt", "gt"} : (c \in a.cmp) # (c \in b.cmp)
\* the second part of a complex dependency that can match
OtherPart(pl, rd) ==
    CASE rd.op \in {"and", "or", "with"} -> rd.evr
      [] rd.op \in {"cond", "unless"} /\ IsReldep(rd.evr) -> IF pl.rels[-rd.evr].op = "else" THEN pl.rels[-rd.evr].evr ELSE 0
      [] OTHER -> 0
OpOf(pl, d) == IF IsReldep(d) THEN pl.rels[-d].op ELSE "string"
RECURSIVE MatchDep(_, _, _)
MatchDep(pl, d1, d2) ==
    LET r1 == pl.rels[-d1]
        r2 == pl.rels[-d2]
    IN  CASE d1 = d2 -> TRUE
          [] d1 # d2 /\ OpOf(pl, d1) \in Complex ->
               IF r1.op = "with" /\ IsIntervalDep(pl, r1.name, r1.evr) THEN MatchDep(pl, r1.name, d2) /\ MatchDep(pl, r1.evr, d2)
               ELSE MatchDep(pl, r1.name, d2) \/ (OtherPart(pl, r1) # 0 /\ MatchDep(pl, OtherPart(pl, r1), d2))
          [] d1 # d2 /\ OpOf(pl, d1) \notin Complex /\ OpOf(pl, d2) \in Complex ->
               IF r2.op = "with" /\ IsIntervalDep(pl, r2.name, r2.evr) THEN MatchDep(pl, d1, r2.name) /\ MatchDep(pl, d1, r2.evr)
               ELSE MatchDep(pl, d1, r2.name) \/ (OtherPart(pl, r2) # 0 /\ MatchDep(pl, d1, OtherPart(pl, r2)))
          [] OTHER -> CASE ~IsReldep(d1) -> IsReldep(d2) /\ MatchDep(pl, d1, r2.name)
                        [] IsReldep(d1) /\ ~IsReldep(d2) -> MatchDep(pl, r1.name, d2)
                        [] OTHER -> /\ MatchDep(pl, r1.name, r2.name)
                                    /\ r1.op = "ver" /\ r2.op = "ver" /\ MatchFlagsEvr(pl.deb, r1.cmp, r1.evr, r2.cmp, r2.evr)

(***************************************************************************)
(* The packages that only the with_ flags bring in: sources, and packages  *)
(* that are disabled or of a foreign architecture.                         *)
(***************************************************************************)
WithFlags == {"with_source", "with_disabled", "with_badarch"}
IsSource(pl, p) == IsSrc(pl.solv[p])
NotAllowed(pl, p, f) == \/ p \in pl.disabled /\ "with_disabled" \notin f
                        \/ p \in pl.badarch /\ "with_badarch" \notin f
\* solvable_matches_selection_flags
MatchesFlags(pl, p, f) ==
    IF IsSource(pl, p) THEN f \cap {"source_only", "with_source"} # {} /\ (p \in pl.disabled => "with_disabled" \in f)
    ELSE "source_only" \notin f /\ (IsInstalled(pl, p) \/ ~NotAllowed(pl, p, f))
IsExtra(pl, p, f) ==
    IF IsSource(pl, p) THEN "source_only" \notin f \/ p \in pl.disabled
    ELSE ~IsInstalled(pl, p) /\ p \in pl.disabled \cup pl.badarch
InstalledOK(pl, p, f) == "installed_only" \in f => IsInstalled(pl, p)
Matchprovides(pl, p, d) == \E i \in DOMAIN pl.solv[p].provides : MatchDep(pl, pl.solv[p].provides[i], d)

\* selection_addextra
ExtrasOf(pl, j, f) ==
    {p \in Solvables(pl) :
        /\ j.sel = "name" => MatchNevr(pl, pl.solv[p], j.id)
        /\ InstalledOK(pl, p, f) /\ MatchesFlags(pl, p, f)
        /\ j.sel = "provides" => IsExtra(pl, p, f) /\ Matchprovides(pl, p, j.id)}
WidenJob(pl, j, extras, f) ==
    IF ~\E p \in extras : IsExtra(pl, p, f) THEN j
    ELSE PackList(Ascending(extras \cup (IF j.sel = "name" THEN {} ELSE {p \in ProviderSet(pl, j.id) : InstalledOK(pl, p, f)})), j.how)
AddextraWith(pl, sel, f) ==
    IF f \cap WithFlags = {} THEN sel
    ELSE [i \in DOMAIN sel |-> IF sel[i].sel \in {"name", "provides"} /\ sel[i].how = {}
                               THEN WidenJob(pl, sel[i], ExtrasOf(pl, sel[i], f), f) ELSE sel[i]]
Addextra(pl, sel, f) == AddextraWith(pl, sel, IF "installed_only" \in f THEN f \ {"with_source"} ELSE f)
WantsExtras(f) == f \cap {"with_badarch", "with_disabled"} # {}

(***************************************************************************)
(* Matching provides, and names: first as an id, then one by one.          *)
(***************************************************************************)
ProvidesId(pl, id, f) ==
    IF \E p \in ProviderSet(pl, id) : InstalledOK(pl, p, f) THEN <<Job("provides", id)>>
    ELSE IF WantsExtras(f) /\ Addextra(pl, <<Job("provides", id)>>, f)[1].sel # "provides" THEN <<Job("provides", id)>>
    ELSE <<>>
\* selection_addextra_provides: strings that only extra packages provide
AddextraProvides(pl, t, f) ==
    {s \in Strings : /\ ProviderSet(pl, s) = {} /\ MatchesText(t, Spelling[s], f)
                     /\ \E p \in Solvables(pl) :
                           /\ ~IsSource(pl, p) /\ ~IsInstalled(pl, p) /\ "installed_only" \notin f
                           /\ p \in pl.disabled \cup pl.badarch /\ ~NotAllowed(pl, p, f)
                           /\ \E i \in DOMAIN pl.solv[p].provides : NameOf(pl, pl.solv[p].provides[i]) = s}
ProvidesScan(pl, t, f) ==
    {s \in Strings : MatchesText(t, Spelling[s], f) /\ \E p \in ProviderSet(pl, s) : InstalledOK(pl, p, f)}
JobsOf(sel, ids) == [i \in DOMAIN Ascending(ids) |-> Job(sel, Ascending(ids)[i])]
ProvidesJobs(pl, t, f, fast) ==
    CASE "source_only" \in f -> <<>>
      [] "source_only" \notin f /\ fast # <<>> -> fast
      [] "source_only" \notin f /\ fast = <<>> /\ "nocase" \notin f /\ ~DoGlob(t, f) -> <<>>
      [] OTHER -> JobsOf("provides", ProvidesScan(pl, t, f)) \o
                  (IF WantsExtras(f) THEN JobsOf("provides", AddextraProvides(pl, t, f)) ELSE <<>>)
SelectionProvides(pl, t, f) ==
    ProvidesJobs(pl, t, f, IF "nocase" \in f \/ TextId(t) = 0 THEN <<>> ELSE ProvidesId(pl, TextId(t), f))

Named(pl, m, id, f) == \E p \in ProviderSet(pl, m) : pl.solv[p].name = id /\ InstalledOK(pl, p, f)
Widened(s) == IF s[1].sel = "name" THEN <<>> ELSE s
NameIdMatch(pl, m, id, f) ==
    CASE Named(pl, m, id, f) -> Addextra(pl, <<Job("name", m)>>, f)
      [] ~Named(pl, m, id, f) /\ WantsExtras(f) -> Widened(Addextra(pl, <<Job("name", m)>>, f))
      [] OTHER -> IF /\ "with_source" \in f /\ "installed_only" \notin f
                     /\ \E p \in ProviderSet(pl, SrcRel(pl, id)) : pl.solv[p].name = id
                  THEN <<Job("name", SrcRel(pl, id))>> ELSE <<>>
NameId(pl, id, f) ==
    IF "source_only" \notin f THEN NameIdMatch(pl, id, id, f)
    ELSE IF "installed_only" \in f THEN <<>> ELSE NameIdMatch(pl, SrcRel(pl, id), id, f \ {"with_source"})
PushUnique(q, x) == IF In(x, q) THEN q ELSE Append(q, x)
MatchesName(pl, p, t, f) ==
    LET name == Spelling[pl.solv[p].name] IN MatchesText(t, IF "skip_kind" \in f THEN Skipkind(name) ELSE name, f)
NameScan(pl, t, f) ==
    FoldLeft(LAMBDA q, p : IF InstalledOK(pl, p, f) /\ MatchesFlags(pl, p, f) /\ MatchesName(pl, p, t, f)
                           THEN PushUnique(q, pl.solv[p].name) ELSE q,
             <<>>, Ascending(Solvables(pl)))
ScannedNames(pl, ids, f) ==
    Addextra(pl, [i \in DOMAIN ids |-> Job("name", IF "source_only" \in f THEN SrcRel(pl, ids[i]) ELSE ids[i])], f)
NameJobs(pl, t, f, fast) ==
    IF fast # <<>> THEN fast
    ELSE IF f \cap {"nocase", "skip_kind"} = {} /\ ~DoGlob(t, f) THEN <<>>
    ELSE ScannedNames(pl, NameScan(pl, t, f), f)
NameMatches(pl, t, f) ==
    NameJobs(pl, t, f, IF f \cap {"nocase", "skip_kind"} # {} \/ TextId(t) = 0 THEN <<>> ELSE NameId(pl, TextId(t), f))
SelectionName(pl, t, f) == NameMatches(pl, t, IF "source_only" \in f THEN f \ {"with_source"} ELSE f)

(***************************************************************************)
(* A .arch suffix and a relation behind the name                           *)
(***************************************************************************)
MatchName(pl, t, f, provides) == IF provides THEN SelectionProvides(pl, t, f) ELSE SelectionName(pl, t, f)
DotArch(t) == IF LastOf(t, DotTok) = 0 THEN 0 ELSE Str2archid(After(t, LastOf(t, DotTok)))
ArchFlags(f, a) == IF a \in {Src, NoSrc} THEN f \cup {"source_only"} ELSE f
PruneUnless(pl, noprune, sel) == IF noprune THEN sel ELSE Prune(pl, sel)
NameArch(pl, t, f, provides, noprune, plain) ==
    CASE plain # <<>> -> plain
      [] plain = <<>> /\ ("dotarch" \notin f \/ DotArch(t) = 0) -> <<>>
      [] OTHER -> PruneUnless(pl, noprune, FilterRelNoprune(pl, MatchName(pl, Before(t, LastOf(t, DotTok)), ArchFlags(f, DotArch(t)), provides),
                                                            ArchRel(DotArch(t))))
SelectionNameArch(pl, t, f, provides, noprune) == NameArch(pl, t, f, provides, noprune, MatchName(pl, t, f, provides))

\* splitrel: the tokens <, = and > and what is around them; ! before =
RelEnd(t, i) == Min({Len(t) + 1} \cup {k \in i..Len(t) : t[k] \notin RelTokens})
RelCmp(t, i) ==
    {CASE t[k] = Lt -> "lt" [] t[k] = Eq -> "eq" [] OTHER -> "gt" : k \in i..(RelEnd(t, i) - 1)}
Splitrel(t) ==
    LET i == FirstOf(t, RelTokens)
        unequal == i > 1 /\ i <= Len(t) /\ t[i] = Eq /\ t[i - 1] = Bang
    IN  [name |-> Before(t, IF unequal THEN i - 1 ELSE i),
         cmp |-> IF unequal THEN {"lt", "gt"} \cup RelCmp(t, i + 1) ELSE RelCmp(t, i),
         evr |-> SubSeq(t, RelEnd(t, i), Len(t))]
CanSplit(t) == FirstOf(t, RelTokens) <= Len(t) /\ Splitrel(t).name # <<>> /\ Splitrel(t).evr # <<>>
RelFiltered(pl, sel, rel) == IF rel.cmp = {} THEN sel ELSE FilterRelNoprune(pl, sel, rel)
ExtrasIf(pl, sel, f, extras) == IF extras THEN Addextra(pl, sel, f) ELSE sel
NameArchRel(pl, f, sel, rel, extras) ==
    PruneUnless(pl, ~extras /\ rel.cmp = {}, ExtrasIf(pl, RelFiltered(pl, sel, rel), f, extras))
SelectionNameArchRel(pl, t, f, provides) ==
    LET split == "rel" \in f /\ CanSplit(t)
        extras == provides /\ WantsExtras(f)
    IN  NameArchRel(pl, f, SelectionNameArch(pl, IF split THEN Splitrel(t).name ELSE t, f, provides, extras),
                    IF split THEN VerRel(Splitrel(t).cmp, EvrOf(Splitrel(t).evr)) ELSE VerRel({}, 0), extras)

(***************************************************************************)
(* Files.  The owners of each file become one job; an owner is left out if *)
(* the package before it has the number of the file's string.              *)
(***************************************************************************)
FileText(t, f) == t # <<>> /\ (t[1] = Slash \/ ("glob" \in f /\ t[1] = Star))
HasFile(pl, p, s, f) == s \in FilesOf(pl, p) /\ InstalledOK(pl, p, f) /\ MatchesFlags(pl, p, f)
FileOwners(pl, s, f) == SelectSeq(Ascending(Solvables(pl)), LAMBDA p : HasFile(pl, p, s, f))
OwnerList(owners, s) == FoldLeft(LAMBDA q, p : IF q = <<>> \/ Last(q) # s THEN Append(q, p) ELSE q, <<>>, owners)
FileJobs(pl, ids, f) ==
    FoldLeft(LAMBDA sel, s : LET j == PackList(OwnerList(FileOwners(pl, s, f), s), {}) IN PushUnique(sel, j), <<>>, ids)
SelectionFilelist(pl, t, f) ==
    LET ids == {s \in Files : MatchesText(t, Spelling[s], f) /\ FileOwners(pl, s, f) # <<>>}
        pkgs == {p \in Solvables(pl) : \E s \in ids : HasFile(pl, p, s, f)}
    IN  CASE ~FileText(t, f) -> <<>>
          [] FileText(t, f) /\ "flat" \in f -> [i \in DOMAIN Ascending(pkgs) |-> SolvableJob(Ascending(pkgs)[i])]
          [] OTHER -> FileJobs(pl, Ascending(ids), f)

(***************************************************************************)
(* selection_filter_evr: a version without an epoch gets the one epoch the *)
(* packages that match have.                                               *)
(***************************************************************************)
EpochJobBug(pl, j, e, q, epochs) ==   \* mutant: the largest of several epochs is taken
    FilterRel(pl, <<j>>, VerRel({"eq"}, e + 100 * Max(epochs \cup {0})))

EpochJob(pl, j, e, q, epochs) ==
    CASE epochs \in {{}, {0}} -> FilterRel(pl, <<j>>, VerRel({"eq"}, e))
      [] Cardinality(epochs) = 1 /\ epochs # {0} -> FilterRel(pl, <<j>>, VerRel({"eq"}, e + 100 * Max(epochs)))
      [] OTHER -> <<[Job("one_of", 0) EXCEPT !.how = j.how, !.list = q]>>
VrMatches(pl, j, e) == SelectSeq(JobPkgs(pl, j), LAMBDA p : DepCmp(pl.deb, pl.solv[p].evr % 100, e) \notin {-1, 1})
PromoteJob(pl, j, e, q) == EpochJob(pl, j, e, q, {pl.solv[q[i]].evr \div 100 : i \in DOMAIN q})
FilterEvr(pl, sel, t) ==
    IF HasEpochText(t) THEN FilterRel(pl, sel, VerRel({"eq"}, EvrOf(t)))
    ELSE FlattenSeq([i \in DOMAIN sel |-> PromoteJob(pl, sel[i], EvrOf(t), VrMatches(pl, sel[i], EvrOf(t)))])

\* selection_canon: name_version_arch; name-version.arch or name-version-release.arch
FilterArch(pl, sel, a) == IF a = 0 THEN sel ELSE FilterRel(pl, sel, ArchRel(a))
DebCanon(pl, t, f) ==
    LET i == FirstOf(t, {Under})
        v == After(t, i)
        k == LastOf(v, Under)
        arch == IF k = 0 THEN 0 ELSE Str2archid(After(v, k))
    IN  IF i > Len(t) THEN <<>>
        ELSE FilterRel(pl, FilterArch(pl, SelectionName(pl, Before(t, i), f), arch),
                       VerRel({"eq"}, EvrOf(IF arch = 0 THEN v ELSE Before(v, k))))
VersionPart(t, arch) == IF arch = 0 THEN t ELSE Before(t, LastOf(t, DotTok))
\* the name ends at the last dash, or at the one before it
RpmName(pl, t, f, k, named) ==
    IF named.sel # <<>> \/ k = 0 THEN named ELSE [sel |-> SelectionName(pl, Before(t, k), f), at |-> k]
RpmRest(pl, t, arch, named) == FilterEvr(pl, FilterArch(pl, named.sel, arch), VersionPart(After(t, named.at), arch))
RpmCanon(pl, t, f, i) ==
    LET arch == IF LastOf(After(t, i), DotTok) = 0 THEN 0 ELSE DotArch(t)
        k == LastOf(Before(t, i), DashTok)
    IN  IF i = 0 THEN <<>>
        ELSE RpmRest(pl, t, arch, RpmName(pl, t, ArchFlags(f, arch), k, [sel |-> SelectionName(pl, Before(t, i), ArchFlags(f, arch)), at |-> i]))
SelectionCanon(pl, t, f) == IF pl.deb THEN DebCanon(pl, t, f) ELSE RpmCanon(pl, t, f, LastOf(t, DashTok))

(***************************************************************************)
(* selection_make without a mode: the ways to match, one after the other.  *)
(***************************************************************************)
OrElse(sel, next) == IF sel # <<>> THEN sel ELSE next
AsFilelist(pl, t, f) == IF "filelist" \in f THEN SelectionFilelist(pl, t, f) ELSE <<>>
AsName(pl, t, f) == IF "name" \in f THEN SelectionNameArchRel(pl, t, f, FALSE) ELSE <<>>
AsProvides(pl, t, f) == IF "provides" \in f THEN SelectionNameArchRel(pl, t, f, TRUE) ELSE <<>>
AsCanon(pl, t, f) == IF "canon" \in f THEN SelectionCanon(pl, t, f) ELSE <<>>
FirstMatch(pl, t, f) == OrElse(AsFilelist(pl, t, f), OrElse(AsName(pl, t, f), OrElse(AsProvides(pl, t, f), AsCanon(pl, t, f))))
FlattenIf(pl, f, sel) == IF "flat" \in f THEN Flatten(pl, sel) ELSE sel
InstalledIf(pl, f, sel) == IF "installed_only" \in f THEN FilterRepo(pl, sel, pl.inst, {"setrepo"}) ELSE sel
MakeSelection(pl, t, f) ==
    IF "installed_only" \in f /\ pl.inst = 0 THEN <<>>
    ELSE FlattenIf(pl, f, InstalledIf(pl, f, FirstMatch(pl, t, f)))

(***************************************************************************)
(* selection_filter and selection_subtract                                 *)
(***************************************************************************)
MapJob(j, pkgs, q, set) ==
    CASE q = <<>> -> <<>>
      [] q # <<>> /\ (j.sel = "solvable" \/ Len(pkgs) = Len(q)) -> <<[j EXCEPT !.how = @ \cup set]>>
      [] OTHER -> <<PackList(q, j.how \cup set)>>
FilterMap(pl, sel, m, set) ==
    FlattenSeq([i \in DOMAIN sel |-> MapJob(sel[i], AllPkgs(pl, sel[i]), SelectSeq(AllPkgs(pl, sel[i]), LAMBDA p : p \in m), set)])
\* what the second selection stands for; "any name, this arch" is tested on the packages of the first
Nameless(pl, j) == /\ j.sel \in {"name", "provides"} /\ IsReldep(j.id)
                   /\ pl.rels[-j.id].name = 0 /\ pl.rels[-j.id].op \in {"arch", "kind"}
NamelessFits(s, rd) == IF rd.op = "arch" THEN ArchFits(s.arch, rd.evr) ELSE IsKind(s.name, rd.evr)
MapOf(pl, sel1, sel2) ==
    UNION {IF Nameless(pl, sel2[i]) THEN {p \in SelSolvables(pl, sel1) : NamelessFits(pl.solv[p], pl.rels[-sel2[i].id])}
           ELSE ToSet(AllPkgs(pl, sel2[i])) : i \in DOMAIN sel2}
OnlyAll(sel) == Len(sel) = 1 /\ sel[1].sel = "all"
OnlyRepo(sel) == Len(sel) = 1 /\ sel[1].sel = "repo"
SetOf(j) == j.how \ {"noautoset"}
FilterWithMap(pl, sel1, sel2, invert) ==
    FilterMap(pl, sel1, IF invert THEN Solvables(pl) \ MapOf(pl, sel1, sel2) ELSE MapOf(pl, sel1, sel2),
              IF Len(sel2) = 1 THEN SetOf(sel2[1]) ELSE {})
FilterInt(pl, sel1, sel2, invert) ==
    CASE sel1 = <<>> \/ sel2 = <<>> -> IF invert THEN sel1 ELSE <<>>
      [] sel1 # <<>> /\ sel2 # <<>> /\ OnlyAll(sel1) /\ ~invert -> sel2
      [] sel1 # <<>> /\ sel2 # <<>> /\ OnlyRepo(sel1) /\ ~invert -> FilterRepo(pl, sel2, sel1[1].id, SetOf(sel1[1]))
      [] OTHER ->
           CASE \E i \in DOMAIN sel2 : sel2[i].sel = "all" -> IF invert THEN <<>> ELSE sel1
             [] OnlyRepo(sel2) /\ ~invert -> FilterRepo(pl, sel1, sel2[1].id, SetOf(sel2[1]))
             [] OTHER -> FilterWithMap(pl, sel1, sel2, invert)
Swapped(mode, f) == mode = "filter" /\ "swapped" \in f
Combine(pl, sel1, sel2, mode, f) ==
    CASE mode = "add" -> sel1 \o sel2
      [] mode = "replace" -> sel2
      [] mode = "filter" /\ sel2 = <<>> /\ "keep_ifempty" \in f -> sel1
      [] OTHER -> FilterInt(pl, IF Swapped(mode, f) THEN sel2 ELSE sel1, IF Swapped(mode, f) THEN sel1 ELSE sel2, mode = "subtract")

\* selection_extrabits: the with_ flags some package of the selection needs
NeededFlags(pl, p, f) ==
    CASE "installed_only" \in f /\ ~IsInstalled(pl, p) -> {}
      [] IsSource(pl, p) -> IF "with_source" \notin f \/ (p \in pl.disabled /\ "with_disabled" \notin f) THEN {}
                            ELSE {"with_source"} \cup {x \in {"with_disabled"} : p \in pl.disabled}
      [] OTHER -> IF "source_only" \in f \/ IsInstalled(pl, p) \/ NotAllowed(pl, p, f) THEN {}
                  ELSE {x \in WithFlags : (x = "with_disabled" /\ p \in pl.disabled) \/ (x = "with_badarch" /\ p \in pl.badarch)}
Extrabits(pl, sel, f) ==
    IF sel = <<>> \/ (OnlyAll(sel) /\ sel[1].how = {}) THEN f \cap WithFlags
    ELSE UNION {NeededFlags(pl, p, f) : p \in SelSolvables(pl, sel)}
Limits(mode) == mode \in {"subtract", "filter"}
SelectionMake(pl, sel, t, f, mode) ==
    IF Limits(mode) /\ sel = <<>> THEN <<>>
    ELSE Combine(pl, sel, MakeSelection(pl, t, IF Limits(mode) THEN (f \ WithFlags) \cup Extrabits(pl, sel, f) ELSE f), mode, f)

-----------------------------------------------------------------------------
(***************************************************************************)
(* Selecting by dependencies, and what an application does with a          *)
(* selection: it makes one, adds to it, subtracts from it and filters it.  *)
(* A dependency field is "name", the package itself, "provides", or        *)
(* "requires", the other dependencies of module Provides.                  *)
(***************************************************************************)
CONSTANTS SelPools,    \* the pools
          Starts,      \* selections of an application: all packages, a repository
          Asked,       \* mode -> what is asked for: [by, text, dep, key, pkgs, flags]
          Filters,     \* selections to filter with
          MaxSelect    \* bound on the operations

DepsOf(pl, p, key) == IF key = "provides" THEN pl.solv[p].provides ELSE pl.solv[p].deps

\* setup_limiter: the packages that need to be looked at
RepoLimit(pl, r) == IF r = 0 THEN <<>> ELSE Ascending(RepoPackages(pl, r))
Limiter(pl, sel, f, mode) ==
    LET inst == "installed_only" \in f
        whole == IF inst THEN RepoLimit(pl, pl.inst) ELSE Ascending(Solvables(pl))
    IN  CASE ~Limits(mode) \/ (sel # <<>> /\ OnlyAll(sel)) -> whole
          [] Limits(mode) /\ (sel = <<>> \/ whole = <<>>) -> <<>>
          [] Limits(mode) /\ sel # <<>> /\ whole # <<>> /\ OnlyRepo(sel) -> IF inst /\ sel[1].id # pl.inst THEN <<>> ELSE RepoLimit(pl, sel[1].id)
          [] OTHER -> SelectSeq(Ascending(SelSolvables(pl, sel)), LAMBDA p : InstalledOK(pl, p, f))

(***************************************************************************)
(* selection_make_matchdeps: a text is looked up as a dependency if it can *)
(* be, else its name is matched with all dependencies.                     *)
(***************************************************************************)
RECURSIVE DepText(_, _)
DepText(pl, d) ==
    IF ~IsReldep(d) THEN Spelling[d]
    ELSE LET rd == pl.rels[-d] IN DepText(pl, rd.name) \o (IF rd.op = "ver" THEN CmpText(rd.cmp) \o EvrText(rd.evr) ELSE <<Bang>>)
RECURSIVE MatchdepText(_, _, _, _)
MatchdepText(pl, d, s, f) ==
    IF ~IsReldep(d) THEN MatchesText(s.name, Spelling[d], f)
    ELSE LET rd == pl.rels[-d]
         IN  CASE rd.op \in Complex -> MatchdepText(pl, rd.name, s, f) \/ (OtherPart(pl, rd) # 0 /\ MatchdepText(pl, OtherPart(pl, rd), s, f))
               [] rd.op = "arch" -> MatchdepText(pl, rd.name, s, f)
               [] OTHER -> /\ MatchdepText(pl, rd.name, s, f)
                           /\ s.cmp # {} => rd.op = "ver" /\ MatchFlagsEvr(pl.deb, rd.cmp, rd.evr, s.cmp, s.evr)
NevrText(pl, p) == Spelling[pl.solv[p].name] \o <<Eq>> \o EvrText(pl.solv[p].evr)
TextMatches(pl, p, s, f, key) ==
    CASE key = "name" /\ "depstr" \in f -> MatchesText(s.name, NevrText(pl, p), f)
      [] key = "name" /\ "depstr" \notin f -> /\ MatchdepText(pl, pl.solv[p].name, s, f)
                                              /\ s.cmp # {} => MatchFlagsEvr(pl.deb, s.cmp, s.evr, {"eq"}, pl.solv[p].evr)
      [] key # "name" /\ "depstr" \in f -> \E i \in DOMAIN DepsOf(pl, p, key) : MatchesText(s.name, DepText(pl, DepsOf(pl, p, key)[i]), f)
      [] OTHER -> \E i \in DOMAIN DepsOf(pl, p, key) : MatchdepText(pl, DepsOf(pl, p, key)[i], s, f)
DepMatches(pl, p, d, f, key) ==
    CASE key = "name" /\ "depstr" \in f ->
           IsReldep(d) /\ pl.rels[-d].op = "ver" /\ pl.rels[-d].cmp = {"eq"} /\ pl.solv[p].name = pl.rels[-d].name /\ pl.solv[p].evr = pl.rels[-d].evr
      [] key = "name" /\ "depstr" \notin f -> MatchNevr(pl, pl.solv[p], d)
      [] key # "name" /\ "depstr" \in f -> In(d, DepsOf(pl, p, key))
      [] OTHER -> \E i \in DOMAIN DepsOf(pl, p, key) : MatchDep(pl, DepsOf(pl, p, key)[i], d)
\* without the relation, unless that is asked for; an unknown name is in no dependency
TextParts(t, f) ==
    IF "rel" \in f \ (IF "depstr" \in f THEN {"rel"} ELSE {}) /\ CanSplit(t)
    THEN [name |-> Splitrel(t).name, cmp |-> Splitrel(t).cmp, evr |-> EvrOf(Splitrel(t).evr)]
    ELSE [name |-> t, cmp |-> {}, evr |-> 0]
Unsplittable(t, f) == "rel" \in f /\ "depstr" \notin f /\ FirstOf(t, RelTokens) <= Len(t) /\ ~CanSplit(t)
AsDep(pl, s) == IF s.cmp = {} \/ TextId(s.name) = 0 THEN TextId(s.name) ELSE RelId(pl, TextId(s.name), s.evr, "ver", s.cmp)
TextFits(pl, p, s, f, key) ==
    IF DoGlob(s.name, f) \/ f \cap {"nocase", "depstr"} # {} THEN TextMatches(pl, p, s, f, key)
    ELSE TextId(s.name) # 0 /\ DepMatches(pl, p, AsDep(pl, s), f, key)
PackageJobs(pl, f, pkgs) == FlattenIf(pl, f, [i \in DOMAIN pkgs |-> SolvableJob(pkgs[i])])
MatchdepsText(pl, t, f, key, limit) ==
    IF Unsplittable(t, f) THEN <<>>
    ELSE PackageJobs(pl, f, SelectSeq(limit, LAMBDA p : MatchesFlags(pl, p, f) /\ TextFits(pl, p, TextParts(t, f), f, key)))
MatchdepsId(pl, d, f, key, limit) ==
    PackageJobs(pl, f, SelectSeq(limit, LAMBDA p : MatchesFlags(pl, p, f) /\ DepMatches(pl, p, d, f, key)))

(***************************************************************************)
(* solvable_matchessolvable_int: does a dependency of p name one of pkgs?  *)
(* miss are the dependencies known not to; a simple relation is not looked *)
(* at if its name is one of them.  st is [hit, miss].                      *)
(***************************************************************************)
Hits(pl, d, pkgs) == ProviderSet(pl, d) \cap pkgs # {}
BaseMisses(pl, d, pkgs) == IsReldep(d) /\ pl.rels[-d].op = "ver" /\ ~IsReldep(pl.rels[-d].name) /\ ~Hits(pl, pl.rels[-d].name, pkgs)
MatchOne(pl, d, pkgs, st) ==
    CASE st.hit \/ d \in st.miss -> st
      [] ~st.hit /\ d \notin st.miss /\ BaseMisses(pl, d, pkgs) -> [st EXCEPT !.miss = @ \cup {d, pl.rels[-d].name}]
      [] OTHER -> IF Hits(pl, d, pkgs) THEN [st EXCEPT !.hit = TRUE] ELSE [st EXCEPT !.miss = @ \cup {d}]
Matchessolvable(pl, p, key, pkgs, miss) ==
    FoldLeft(LAMBDA st, d : MatchOne(pl, d, pkgs, st), [hit |-> FALSE, miss |-> miss], DepsOf(pl, p, key))
MatchNext(pl, acc, p, key, pkgs) ==
    LET st == Matchessolvable(pl, p, key, pkgs, acc.miss)
    IN  [miss |-> st.miss, found |-> IF st.hit THEN Append(acc.found, p) ELSE acc.found]
MatchAll(pl, key, pkgs, cands) ==
    FoldLeft(LAMBDA acc, p : MatchNext(pl, acc, p, key, pkgs), [miss |-> {}, found |-> <<>>], cands).found
MatchSolvables(pl, pkgs, f, key, limit) ==
    PackageJobs(pl, f, MatchAll(pl, key, pkgs, SelectSeq(limit, LAMBDA p : p \notin pkgs /\ MatchesFlags(pl, p, f))))

(***************************************************************************)
(* The queries of the pool: pool_whatmatchesdep, pool_whatcontainsdep and  *)
(* pool_whatmatchessolvable                                                *)
(***************************************************************************)
Usual(pl, p) == IsInstalled(pl, p) \/ Installable(pl, p)
Whatmatchesdep(pl, key, d) ==
    IF key = "name" THEN {p \in ProviderSet(pl, d) : MatchNevr(pl, pl.solv[p], d)}
    ELSE {p \in Solvables(pl) : Usual(pl, p) /\ \E i \in DOMAIN DepsOf(pl, p, key) : MatchDep(pl, DepsOf(pl, p, key)[i], d)}
Whatcontainsdep(pl, key, d) == {p \in Solvables(pl) : Usual(pl, p) /\ In(d, DepsOf(pl, p, key))}
Whatmatchessolvable(pl, key, q) == ToSet(MatchAll(pl, key, {q}, SelectSeq(Ascending(Solvables(pl)), LAMBDA p : p # q /\ Usual(pl, p))))

(***************************************************************************)
(* The application.  want is the set of packages that it should have.      *)
(***************************************************************************)
VARIABLES selpool, sel, want, last, ops
selVars == <<selpool, sel, want, last, ops>>
Sel == SelPools[selpool]

FindDeps(pl, s, q, mode) ==
    CASE q.by = "dep" /\ q.dep = 0 -> MatchdepsText(pl, q.text, q.flags, q.key, Limiter(pl, s, q.flags, mode))
      [] q.by = "dep" /\ q.dep # 0 -> MatchdepsId(pl, q.dep, q.flags, q.key, Limiter(pl, s, q.flags, mode))
      [] OTHER -> MatchSolvables(pl, q.pkgs, q.flags, q.key, Limiter(pl, s, q.flags, mode))
Make(pl, s, q, mode) ==
    IF q.by = "text" THEN SelectionMake(pl, s, q.text, q.flags, mode) ELSE Combine(pl, s, FindDeps(pl, s, q, mode), mode, q.flags)

\* what a query means, one package at a time
Fits(pl, p, f) == InstalledOK(pl, p, f) /\ MatchesFlags(pl, p, f)
ByName(pl, t, f, provides) ==
    {p \in Solvables(pl) : /\ Fits(pl, p, f)
                           /\ IF provides THEN ~IsSource(pl, p) /\ \E i \in DOMAIN pl.solv[p].provides :
                                                   MatchesText(t, Spelling[NameOf(pl, pl.solv[p].provides[i])], f)
                              ELSE MatchesName(pl, p, t, f)}
ByNameArch(pl, t, f, provides) ==
    LET plain == ByName(pl, t, f, provides)
    IN  IF plain # {} \/ "dotarch" \notin f \/ DotArch(t) = 0 THEN plain
        ELSE {p \in ByName(pl, Before(t, LastOf(t, DotTok)), ArchFlags(f, DotArch(t)), provides) : ArchFits(pl.solv[p].arch, DotArch(t))}
ProvidesVersion(pl, p, t, f, cmp, e) ==
    \E i \in DOMAIN pl.solv[p].provides :
        LET d == pl.solv[p].provides[i]
        IN  /\ MatchesText(t, Spelling[NameOf(pl, d)], f)
            /\ IF IsReldep(d) THEN MatchFlagsEvr(pl.deb, pl.rels[-d].cmp, pl.rels[-d].evr, cmp, e) ELSE ~pl.deb
ByNameRel(pl, t, f, provides) ==
    IF "rel" \notin f \/ ~CanSplit(t) THEN ByNameArch(pl, t, f, provides)
    ELSE LET s == Splitrel(t)
         IN  {p \in ByNameArch(pl, s.name, f, provides) :
                 IF provides THEN ProvidesVersion(pl, p, s.name, f, s.cmp, EvrOf(s.evr))
                 ELSE MatchFlagsEvr(pl.deb, {"eq"}, pl.solv[p].evr, s.cmp, EvrOf(s.evr))}
ByFile(pl, t, f) == {p \in Solvables(pl) : Fits(pl, p, f) /\ FileText(t, f) /\ \E s \in FilesOf(pl, p) : MatchesText(t, Spelling[s], f)}
CanonFits(pl, p, v) ==
    LET e == pl.solv[p].evr IN DepCmp(pl.deb, IF HasEpochText(v) THEN e ELSE e % 100, EvrOf(v)) \notin {-1, 1}
ByCanonSplit(pl, t, i, f) ==
    LET v == After(t, i)
        a == DotArch(v)
    IN  {p \in ByName(pl, Before(t, i), ArchFlags(f, a), FALSE) :
            (a = 0 \/ ArchFits(pl.solv[p].arch, a)) /\ CanonFits(pl, p, IF a = 0 THEN v ELSE Before(v, LastOf(v, DotTok)))}
ByCanon(pl, t, f) ==
    LET i == LastOf(t, DashTok)
        k == LastOf(Before(t, i), DashTok)
    IN  CASE i = 0 -> {}
          [] i # 0 /\ (k = 0 \/ ByName(pl, Before(t, i), ArchFlags(f, DotArch(After(t, i))), FALSE) # {}) -> ByCanonSplit(pl, t, i, f)
          [] OTHER -> ByCanonSplit(pl, t, k, f)
FirstFound(S1, S2, S3, S4) == IF S1 # {} THEN S1 ELSE IF S2 # {} THEN S2 ELSE IF S3 # {} THEN S3 ELSE S4
If(b, S) == IF b THEN S ELSE {}
Meaning(pl, q) ==
    LET f == q.flags
    IN  CASE q.by = "text" -> FirstFound(If("filelist" \in f, ByFile(pl, q.text, f)), If("name" \in f, ByNameRel(pl, q.text, f, FALSE)),
                                         If("provides" \in f, ByNameRel(pl, q.text, f, TRUE)), If("canon" \in f, ByCanon(pl, q.text, f)))
          [] q.by = "dep" /\ q.dep = 0 -> {p \in Solvables(pl) : Fits(pl, p, f) /\ TextMatches(pl, p, TextParts(q.text, f), f, q.key)}
          [] q.by = "dep" /\ q.dep # 0 -> {p \in Solvables(pl) : Fits(pl, p, f) /\ DepMatches(pl, p, q.dep, f, q.key)}
          [] OTHER -> {p \in Solvables(pl) \ q.pkgs : Fits(pl, p, f) /\ \E i \in DOMAIN DepsOf(pl, p, q.key) : ProviderSet(pl, DepsOf(pl, p, q.key)[i]) \cap q.pkgs # {}}
Merged(S, T, mode, f) ==
    CASE mode = "add" -> S \cup T
      [] mode = "subtract" -> S \ T
      [] mode = "filter" -> IF T = {} /\ "keep_ifempty" \in f THEN S ELSE S \cap T
      [] OTHER -> T

NothingAsked == [by |-> "none"]
SelInit == /\ selpool \in DOMAIN SelPools /\ ops = 0 /\ last = NothingAsked
           /\ sel \in Starts /\ want = SelSolvables(Sel, sel)
Choose ==
    /\ ops < MaxSelect
    /\ \E mode \in DOMAIN Asked : \E q \in Asked[mode] :
          /\ mode = "replace" => ops = 0   \* replacing a selection starts over, so it comes first
          /\ sel' = Make(Sel, sel, q, mode)
          /\ want' = Merged(want, Meaning(Sel, q), mode, q.flags)
          /\ last' = IF mode = "replace" THEN q ELSE NothingAsked
    /\ ops' = ops + 1 /\ UNCHANGED selpool
\* selection_filter and selection_subtract with a selection the application has
FilterMeaning(pl, S, s2) == S \cap MapOf(pl, [i \in 1..1 |-> [Job("one_of", 0) EXCEPT !.list = Ascending(S)]], s2)
FilterSelection ==
    /\ ops < MaxSelect
    /\ \E s2 \in Filters, invert \in BOOLEAN :
          /\ sel' = FilterInt(Sel, sel, s2, invert)
          /\ want' = IF invert THEN want \ FilterMeaning(Sel, want, s2) ELSE FilterMeaning(Sel, want, s2)
    /\ ops' = ops + 1 /\ last' = NothingAsked /\ UNCHANGED selpool
SelNext == Choose \/ FilterSelection
SelSpec == SelInit /\ [][SelNext]_selVars

QueriesAgree ==
    last.by \in {"dep", "pkgs"} /\ last.flags \subseteq {"depstr"} /\ (last.key = "name" => last.flags = {}) =>
        SelSolvables(Sel, sel) =
            CASE last.by = "pkgs" /\ Cardinality(last.pkgs) = 1 -> Whatmatchessolvable(Sel, last.key, Max(last.pkgs))
              [] last.by = "dep" /\ last.dep # 0 ->
                   IF "depstr" \in last.flags THEN Whatcontainsdep(Sel, last.key, last.dep) ELSE Whatmatchesdep(Sel, last.key, last.dep)
              [] OTHER -> SelSolvables(Sel, sel)

(***************************************************************************)
(* However a selection was put together, it selects exactly the packages   *)
(* the queries match: the shortcuts for known names, the packages left out *)
(* of the index, the epochs and the limits lose and add nothing.  No job   *)
(* of it is empty, and it is one job if it was asked to be flat.  The      *)
(* queries of the pool find the packages a selection by the same           *)
(* dependency or package finds.                                            *)
(***************************************************************************)
SelectionExact ==
    /\ SelSolvables(Sel, sel) = want
    /\ \A i \in DOMAIN sel : AllPkgs(Sel, sel[i]) # <<>>
    /\ last.by \in {"text", "dep", "pkgs"} /\ "flat" \in last.flags => Len(sel) <= 1
    /\ QueriesAgree
=============================================================================
