---------------------------- MODULE MCPoolParts -----------------------------
(***************************************************************************)
(* The parts of the pool, one at a time: the tables of strings and         *)
(* relations, the comparison of versions, the index of providers, the      *)
(* selections and the search for file conflicts.                           *)
(***************************************************************************)
EXTENDS Ids, Evr, Pool, Selection, FileConflicts

MCPredefined == <<1, 2, 3, 4, 5>>
MCTexts == {1, 3, 6, 7}
MCStrHash == [t \in 2..8 |-> IF t = 5 THEN 7 ELSE 0]
MCLists == {<<1, 8, 6>>, <<7, 3>>}
MCRelParts == {<<1, 1>>, <<2, 1>>}
MCRelLists == {<<<<1, 2, 2>>, <<1, 3, 2>>, <<2, 2, 2>>, <<1, 1, 2>>>>, <<<<3, 1, 2>>, <<1, 3, 2>>>>}

\* (none) 1 1.0 1-1 1-2 2-1 1:1-1 0:1-1 1~a-1 1^a-1 1a-1 01-1 1- 1:1 10 1.9 1~ a 1+b 1.a
MCVersions ==
    {<<>>, <<49>>, <<49, 46, 48>>, <<49, 45, 49>>, <<49, 45, 50>>, <<50, 45, 49>>, <<49, 58, 49, 45, 49>>,
     <<48, 58, 49, 45, 49>>, <<49, 126, 97, 45, 49>>, <<49, 94, 97, 45, 49>>, <<49, 97, 45, 49>>, <<48, 49, 45, 49>>, <<49, 45>>,
     <<49, 58, 49>>, <<49, 48>>, <<49, 46, 57>>, <<49, 126>>, <<97>>, <<49, 43, 98>>, <<49, 46, 97>>}

\* 2 foo, 3 bar, 4 rpmlib(x), 5 /std, 6 /odd, 7 /other, 8 marker, 9 splitprovides,
\* 10 otherproviders, 11 language, 12 src, 13 nosrc, 14 any, 15 noarch, 16 i586, 17 ppc,
\* 18 pattern:foo, 19 FOO, 20 foo-1
MCStrings == 2..20
MCFiles == {5, 6, 7}
MCStdFiles == {5}
MCKindOf == [s \in 1..20 |-> IF s = 3 THEN 3 ELSE 1]
Ver(n, cmp, v) == [op |-> "ver", name |-> n, evr |-> v, cmp |-> cmp]
Rel(op, n, e) == [op |-> op, name |-> n, evr |-> e, cmp |-> {}]
EQ == {"eq"}
GE == {"eq", "gt"}
LT == {"lt"}
Pkg(r, n, v, a, prov, deps) == [repo |-> r, name |-> n, evr |-> v, arch |-> a, provides |-> prov, deps |-> deps]
SystemPkg == Pkg(0, 1, 0, 15, <<>>, <<>>)
ListsOf(S) == [p \in {q \in 2..9 : \E x \in S : x[1] = q} |-> {x[2] : x \in {y \in S : y[1] = p /\ y[2] # 0}}]
AreaOf(s, e, type, state, data, lists, prov) ==
    [start |-> s, end |-> e, type |-> type, state |-> state, data |-> data, lists |-> ListsOf(lists), prov |-> prov]
MakePool(solv, rels, areas, asks, ns) ==
    [solv |-> <<SystemPkg>> \o solv, rels |-> rels, areas |-> areas, inst |-> 0, afp |-> 0, nonstd |-> <<>>, index |-> NoIndex,
     deb |-> FALSE, bad |-> {}, asks |-> asks, conf |-> {}, filtered |-> {}, ns |-> ns, set |-> [r \in DOMAIN ns |-> 0],
     own |-> [p \in 1..(Len(solv) + 1) |-> <<>>]]
Plain(s, e) == <<AreaOf(s, e, "full", "available", {}, {}, {})>>

\* names, versions and operators
VerRels == <<Ver(2, EQ, 11), Ver(2, EQ, 20), Ver(2, GE, 20), Ver(3, EQ, 10), Ver(2, LT, 20), Ver(4, EQ, 10),
             Rel("and", -5, -3), Rel("with", 2, -3), Rel("without", 2, -3), Rel("arch", 2, 16), Ver(-10, GE, 11),
             Ver(2, EQ, 10)>>
VerPkgs == <<Pkg(1, 2, 11, 15, <<-1>>, <<>>), Pkg(1, 2, 20, 16, <<-2, 3, -1>>, <<>>), Pkg(1, 3, 10, 15, <<-4, 2>>, <<>>),
             Pkg(2, 2, 20, 16, <<-2>>, <<>>), Pkg(2, 2, 11, 12, <<>>, <<>>)>>
VerPool == MakePool(VerPkgs, VerRels, <<Plain(2, 5), Plain(5, 7)>>, {2, 3, -3, -6, -7, -8, -9, -11, -12}, [r \in {} |-> <<>>])
DebPool == [VerPool EXCEPT !.deb = TRUE, !.bad = {3}]

\* the other operators and namespaces
NsRels == <<Ver(2, EQ, 11), Rel("ns", 11, 2), Rel("or", -2, 3), Rel("cond", -3, 4), Rel("else", 2, 3), Rel("unless", 4, -5),
            Rel("ns", 10, -2), Rel("kind", 0, 3), Rel("kind", -3, 1), Rel("arch", 2, 12), Rel("arch", 0, 15),
            Rel("multiarch", -3, 14), Rel("multiarch", 2, 15), Ver(-3, GE, 11)>>
NsPkgs == <<Pkg(1, 2, 11, 15, <<-1>>, <<>>), Pkg(1, 3, 10, 15, <<3>>, <<>>), Pkg(2, 2, 11, 13, <<>>, <<>>)>>
NsPool == MakePool(NsPkgs, NsRels, <<Plain(2, 4), Plain(4, 5)>>, {-4, -6, -7, -8, -9, -10, -11, -12, -13, -14}, [r \in {2} |-> <<System>>])

\* files: filtered lists, extensions, a list on top, one that cannot be read
FileRels == <<Ver(2, EQ, 11), Rel("and", 5, 6), Rel("ns", 9, -4), Rel("with", 2, 7), Rel("fileconflict", 5, 17), Ver(5, GE, 10),
              Rel("or", 5, 7), Rel("fileconflict", 5, 16)>>
FilePkgs == <<Pkg(1, 2, 11, 15, <<-1>>, <<-2>>), Pkg(1, 3, 10, 15, <<7, 3>>, <<5, -3>>), Pkg(1, 3, 10, 15, <<3>>, <<-6>>),
              Pkg(2, 2, 11, 15, <<-1>>, <<>>)>>
Truth == {<<2, 5>>, <<2, 6>>, <<3, 5>>, <<3, 7>>, <<4, 6>>, <<5, 5>>, <<5, 7>>}
Std(S) == {x \in S : x[2] \in MCStdFiles} \cup {<<x[1], 0>> : x \in S}
FirstRepo(S) == {x \in S : x[1] < 5}
SecondRepo(S) == S \ FirstRepo(S)
Full(state) == AreaOf(2, 5, "full", state, {2, 3, 4}, FirstRepo(Truth), {})
Filtered(state, prov) == AreaOf(2, 5, "filtered", state, {2, 3, 4}, Std(FirstRepo(Truth)), prov)
Extension(state) == AreaOf(2, 5, "extension", state, {2, 3, 4}, FirstRepo(Truth), {})
OnTop == AreaOf(3, 4, "full", "available", {3}, {<<3, 6>>}, {})
Empty == AreaOf(2, 5, "full", "available", {}, {}, {})
Other == <<AreaOf(5, 6, "full", "stub", {5}, SecondRepo(Truth), {})>>
FilePool(areas) == [MakePool(FilePkgs, FileRels, <<areas, Other>>, {5, 6, 7, -4, -6, -7}, [r \in {} |-> <<>>])
                    EXCEPT !.filtered = BOOLEAN, !.own = [p \in 1..5 |-> IF p = 3 THEN <<7>> ELSE <<>>]]
FilePools == {FilePool(a) : a \in {<<Full("stub")>>, <<Full("broken"), Full("available")>>, <<Empty, Filtered("available", {}), Extension("stub")>>,
                                    <<Filtered("stub", {}), Extension("broken"), OnTop>>, <<Filtered("available", {}), Extension("stub"), OnTop>>}}
\* an earlier call has added /std to the first two packages
AddedPool == [FilePool(<<[Full("available") EXCEPT !.end = 4, !.prov = {5}, !.lists = ListsOf({x \in FirstRepo(Truth) : x[1] < 4})],
                         AreaOf(4, 5, "full", "available", {4}, {<<4, 6>>, <<4, 5>>}, {})>>)
              EXCEPT !.solv[2].provides = <<-1, 8, 5>>, !.solv[3].provides = <<7, 3, 8, 5>>]
ConflictPool == [AddfileprovidesQueue(FilePool(<<Full("available")>>), FALSE) EXCEPT !.conf = {<<2, 3, -5>>, <<4, 5, -8>>}]
MCPools == {VerPool, DebPool, NsPool, AddedPool} \cup FilePools \cup {ConflictPool}

\* words: 1 foo, 2 bar, 3 i586, 4 src, 5 nosrc, 6 noarch, 7 pattern, 8 std, 9 odd, 10 other, 11 ppc, 101 FOO
MCSpelling == [s \in MCStrings |->
    CASE s = 2 -> <<1>> [] s = 3 -> <<2>> [] s = 5 -> <<Slash, 8>> [] s = 6 -> <<Slash, 9>> [] s = 7 -> <<Slash, 10>>
      [] s = 12 -> <<4>> [] s = 13 -> <<5>> [] s = 15 -> <<6>> [] s = 16 -> <<3>> [] s = 17 -> <<11>>
      [] s = 18 -> <<7, ColonTok, 1>> [] s = 19 -> <<101>> [] s = 20 -> <<1, DashTok, 51>> [] OTHER -> <<20 + s>>]
SelNames == <<2, 3, 18, 19, 20>>
SelArchs == <<12, 13, 15, 16>>
SelEvrs == <<10, 11, 20, 110, 111>>
SelBase == [i \in 1..5 |-> Ver(SelNames[i], EQ, 11)] \o <<Ver(2, EQ, 111), Ver(2, EQ, 21), Ver(2, GE, 11), Rel("or", 3, -8), Rel("arch", 0, 15),
             Ver(2, GE, 10), Ver(2, LT, 20), Rel("with", -11, -12), Rel("cond", 3, 19), Rel("arch", 0, 12), Rel("kind", 0, 3)>>
SelArchRels == [i \in 1..20 |-> Rel("arch", SelNames[1 + (i - 1) \div 4], SelArchs[1 + ((i - 1) % 4)])]
SelBases == [i \in 1..25 |-> IF i <= 5 THEN SelNames[i] ELSE -(Len(SelBase) + i - 5)]
SelVers == FlattenSeq([i \in 1..25 |-> FlattenSeq([k \in 1..5 |-> <<Ver(SelBases[i], EQ, SelEvrs[k]), Ver(SelBases[i], GE, SelEvrs[k])>>])])
SelStacked == <<Rel("arch", SelBases[6], 15), Rel("arch", SelBases[6], 16)>>
\* installed foo and pattern:foo; a foo with an epoch, a source, one disabled, one of a foreign arch, one both
SelPkgs == <<Pkg(1, 2, 11, 16, <<-1>>, <<3>>), Pkg(2, 2, 111, 15, <<-6>>, <<-9>>), Pkg(2, 2, 21, 12, <<>>, <<-5, 19>>),
             Pkg(2, 3, 11, 16, <<-2, 2>>, <<-13, 19>>), Pkg(2, 2, 21, 17, <<-7>>, <<-4>>), Pkg(2, 19, 11, 15, <<-4>>, <<-8, -14>>),
             Pkg(1, 18, 11, 15, <<-3>>, <<2>>), Pkg(2, 20, 11, 17, <<-5, 3>>, <<20>>)>>
FilesArea(s, e, S) == <<AreaOf(s, e, "full", "available", s..(e - 1), S, {})>>
SelOwned == {<<2, 5>>, <<3, 5>>, <<3, 7>>, <<4, 6>>, <<5, 7>>, <<6, 7>>, <<6, 5>>, <<7, 6>>, <<8, 6>>, <<9, 6>>}
SelPool == [MakePool(SelPkgs, SelBase \o SelArchRels \o SelVers \o SelStacked, <<FilesArea(2, 3, SelOwned), FilesArea(3, 10, SelOwned)>>, {}, [r \in {} |-> <<>>])
            EXCEPT !.inst = 1, !.afp = 2, !.bad = {5, 6, 9}] @@ [disabled |-> {5, 9}, badarch |-> {6, 9}]
MCSelPools == <<SelPool>>
MCStarts == {<<>>, <<Job("all", 0)>>, <<Job("repo", 2)>>}
MCFilters == {<<Job("provides", -10)>>, <<Job("name", 2)>>, <<Job("repo", 1)>>, <<Job("all", 0)>>, <<Job("provides", 19), Job("repo", 1)>>,
              <<Job("provides", -15)>>}
TextQuery(t, f) == [by |-> "text", text |-> t, dep |-> 0, key |-> "name", pkgs |-> {}, flags |-> f]
Dep(t, d, k, f) == [by |-> "dep", text |-> t, dep |-> d, key |-> k, pkgs |-> {}, flags |-> f]
Pkgs(S, k, f) == [by |-> "pkgs", text |-> <<>>, dep |-> 0, key |-> k, pkgs |-> S, flags |-> f]
Foo == <<1>>
NameTexts == {Foo, <<101>>, <<2>>, <<1, Star>>, <<Star>>, <<7, ColonTok, 1>>}
ArchTexts == {<<1, DotTok, a>> : a \in {3, 4, 6, 11}}
RelTexts == {<<1, Gt, Eq, 51, DashTok, 51>>, <<1, Eq, 51>>, <<Star, Eq, 51, DashTok, 51>>}
CanonTexts == {<<1, DashTok, 51, DashTok, 51>>, <<1, DashTok, 51>>, <<1, DashTok, 51, ColonTok, 51>>, <<1, DashTok, 51, DashTok, 51, DotTok, 6>>, <<1, DashTok, 52, DotTok, 4>>,
               <<Star, DashTok, 51>>}
FileTexts == {<<Slash, 8>>, <<Slash, 9>>, <<Slash, Star>>}
WithSets == {{}, {"with_source"}, {"with_disabled"}, WithFlags, {"source_only"}, {"installed_only"}}
Opts == {{}, {"glob"}, {"nocase", "glob"}, {"skip_kind"}, {"flat", "glob"}}
TextQueries(T, W, O, Ws) == {TextQuery(t, W \cup o \cup w) : t \in T, o \in O, w \in Ws}
NewQueries ==
    TextQueries(NameTexts, {"name"}, Opts, WithSets \cup {{"source_only", "with_disabled"}}) \cup TextQueries(NameTexts, {"provides"}, Opts, WithSets)
    \cup TextQueries(ArchTexts, {"name", "dotarch"}, {{}, {"flat"}}, WithSets) \cup TextQueries(ArchTexts, {"provides", "dotarch"}, {{}}, {{}, {"installed_only"}})
    \cup TextQueries(RelTexts, {"name", "rel"}, {{}, {"glob"}}, WithSets) \cup TextQueries(RelTexts, {"provides", "rel"}, {{}, {"glob"}}, WithSets)
    \cup TextQueries(CanonTexts, {"canon"}, {{}, {"glob"}}, WithSets) \cup TextQueries(FileTexts, {"filelist"}, {{}, {"glob"}, {"flat", "glob"}}, WithSets)
    \cup TextQueries(NameTexts \cup ArchTexts, {"name", "provides", "dotarch"}, {{}}, {{}, {"installed_only"}})
    \cup {Dep(t, 0, k, o \cup w) : t \in {Foo, <<101>>, <<1, Gt, Eq, 51, DashTok, 51>>, <<1, Star>>}, k \in {"name", "requires", "provides"},
                                   o \in {{}, {"rel"}, {"nocase"}, {"glob", "rel"}, {"depstr", "glob"}}, w \in {{}, WithFlags}}
    \cup {Dep(<<>>, d, k, o) : d \in {2, 19, -1, -8, -13}, k \in {"name", "requires", "provides"}, o \in {{}, {"depstr"}, {"flat"}}}
    \cup {Pkgs(S, "requires", o) : S \in {{2}, {3}, {6}, {7, 8}}, o \in {{}, WithFlags}}
FewQueries ==
    {TextQuery(Foo, {"name"} \cup w) : w \in WithSets} \cup {TextQuery(<<1, Star>>, {"name", "glob"} \cup w) : w \in {{}, {"with_disabled"}, {"with_source"}}}
    \cup {TextQuery(Foo, {"provides"} \cup w) : w \in {{}, WithFlags}} \cup {TextQuery(<<1, DotTok, 3>>, {"name", "dotarch"}), TextQuery(<<1, DashTok, 51, DashTok, 51>>, {"canon"}),
          TextQuery(<<Slash, 8>>, {"filelist"}), TextQuery(<<Slash, 9>>, {"filelist", "keep_ifempty"}), TextQuery(<<2>>, {"name", "swapped"})}
    \cup {Dep(<<>>, 19, "requires", w) : w \in {{}, WithFlags}} \cup {Pkgs({2}, "requires", {}), Dep(<<>>, 2, "requires", {"installed_only"})}
MCAsked == [mode \in {"replace", "add", "subtract", "filter"} |-> IF mode = "replace" THEN NewQueries ELSE FewQueries]

\* file conflicts: names 5 and 5 + HashMod have the same hash, as have /2/S/ and /3/2/ where S = 83
DirA == <<1>>
DirB == <<2>>
OneFile(di, b, digest) == [di |-> di, base |-> b, isdir |-> digest = 0, digest |-> digest, color |-> {}, ghost |-> FALSE]
RpmOf(dirs, fs) == [dirs |-> dirs, files |-> fs, inst |-> FALSE, bad |-> FALSE]
Installed(pkg) == [pkg EXCEPT !.inst = TRUE]
LinkTo(abs, to) == [abs |-> abs, to |-> to, readable |-> TRUE]
Links == (DirB :> LinkTo(FALSE, <<1>>)) @@ (<<3>> :> LinkTo(TRUE, <<2, DotName>>)) @@ (<<1, 4>> :> LinkTo(FALSE, <<83>>))
         @@ (<<6>> :> LinkTo(FALSE, <<7>>)) @@ (<<7>> :> LinkTo(TRUE, <<6>>)) @@ (<<8>> :> [LinkTo(FALSE, <<1>>) EXCEPT !.readable = FALSE])
         @@ (<<1, 5>> :> LinkTo(FALSE, <<>>)) @@ (<<9>> :> LinkTo(FALSE, <<1, 5, DotDot, 3>>)) @@ (<<9, 1>> :> LinkTo(TRUE, <<>>))
Inodes == (<<>> :> 1) @@ (DirA :> 2) @@ (DirB :> 2) @@ (<<3>> :> 2)
Calling(pkgs, cutoff, mode) == [pkgs |-> pkgs, cutoff |-> cutoff, mode |-> mode, colors |-> FALSE, links |-> Links, inodes |-> Inodes, flaky |-> {}, listed |-> FALSE]
Entries == {OneFile(di, b, x) : di \in {1, 2}, b \in {5, 5 + HashMod}, x \in 0..1} \cup {OneFile(di, 5, 2) : di \in {1, 2}}
Singles == {<<f>> : f \in Entries}
Doubles == {<<OneFile(1, 5, 0), OneFile(2, 5, 1)>>, <<OneFile(2, 5 + HashMod, 1), OneFile(2, 5, 1), OneFile(1, 5, 1)>>, <<OneFile(1, 5, 1), OneFile(1, 5, 0)>>,
            <<OneFile(2, 5, 0), OneFile(1, 6, 2), OneFile(1, 5, 0)>>}
AandB(fs) == RpmOf(<<DirA, DirB>>, fs)
Srpm(fs) == RpmOf(<<DirA, DirB, NoDir>>, fs)
OrderCases == {Calling(<<AandB(f), AandB(g), AandB(h)>>, k, m) : f \in Singles \cup Doubles, g \in Singles, h \in Doubles \cup {<<OneFile(1, 5, 2)>>, <<OneFile(2, 5, 0)>>}, k \in {0, 2}, m \in {"plain", "stat", "canon"}}
Spelled == {<<>>, <<3>>, <<2, 83>>, <<3, 2>>, <<1, 83>>, <<1, 4>>, <<6>>, <<7, 1>>, <<8>>, <<1, 5>>, <<9>>, <<9, 1>>, <<9, 1, DotDot, DotDot, 3, DotName>>}
LinkCases == {Calling(<<RpmOf(<<d, e>>, <<OneFile(1, 5, 1), OneFile(2, 5, 1)>>), RpmOf(<<e, g>>, <<OneFile(1, 5, 2), OneFile(2, 5, 1)>>)>>, 1, m) :
              d \in Spelled, e \in Spelled, g \in {<<6>>, <<7>>, DirA, <<2, 83>>}, m \in {"canon", "plain", "stat"}}
Odd(f, S, g) == [f EXCEPT !.color = S, !.ghost = g]
OddFiles == {<<Odd(OneFile(1, 5, 1), S, g), OneFile(4, 5, 2), OneFile(3, 5, 2)>> : S \in SUBSET {1, 2}, g \in BOOLEAN}
OddCases == {[Calling(<<[Srpm(<<Odd(OneFile(2, 5, 2), S, FALSE), OneFile(3, 5, 1)>>) EXCEPT !.bad = b], Installed(Srpm(f)), Installed(AandB(<<OneFile(1, 6, 3), OneFile(1, 5, 3)>>))>>, k, m)
              EXCEPT !.colors = TRUE, !.flaky = fl, !.listed = li] :
             S \in {{1}, {}}, b \in BOOLEAN, f \in OddFiles, fl \in {{}, {1}, {2}, {1, 3}}, li \in BOOLEAN, k \in {1, 2}, m \in {"plain", "stat", "canon"}}
NoCase == Calling(<<>>, 0, "plain")
MCFcCases == OrderCases \cup LinkCases \cup OddCases \cup {NoCase}

-----------------------------------------------------------------------------
VARIABLE part
partVars == <<part, idsVars, met, poolVars, selVars, fc>>
PartsInit ==
    /\ IdsInit /\ EvrInit
    /\ \/ part \in {"ids", "evr"} /\ pool = VerPool /\ step = 0 /\ SelInit /\ sel = <<>> /\ fc = Start(NoCase)
       \/ part = "pool" /\ PoolInit /\ SelInit /\ sel = <<>> /\ fc = Start(NoCase)
       \/ part = "select" /\ pool = VerPool /\ step = 0 /\ SelInit /\ fc = Start(NoCase)
       \/ part = "conflicts" /\ pool = VerPool /\ step = 0 /\ SelInit /\ sel = <<>> /\ FcInit
IdsPart == part = "ids" /\ IdsNext /\ UNCHANGED <<part, met, poolVars, selVars, fc>>
EvrPart == part = "evr" /\ Meet /\ UNCHANGED <<part, idsVars, poolVars, selVars, fc>>
PoolPart == part = "pool" /\ PoolNext /\ UNCHANGED <<part, idsVars, met, selVars, fc>>
SelectPart == part = "select" /\ SelNext /\ UNCHANGED <<part, idsVars, met, poolVars, fc>>
ConflictsPart == part = "conflicts" /\ FcNext /\ UNCHANGED <<part, idsVars, met, poolVars, selVars>>
PartsNext == IdsPart \/ EvrPart \/ PoolPart \/ SelectPart \/ ConflictsPart
PartsSpec == PartsInit /\ [][PartsNext]_partVars
ConflictsSpec == PartsInit /\ part = "conflicts" /\ [][PartsNext]_partVars
=============================================================================
