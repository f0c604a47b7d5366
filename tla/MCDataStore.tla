---------------------------- MODULE MCDataStore -----------------------------
(***************************************************************************)
(* The parts of the data store, one at a time: attributes that are set and *)
(* internalized, dependency arrays, the iterator, solv files that are      *)
(* written and read, the bytes of values, and pages.  The parts that wait  *)
(* are in one of their first states.                                       *)
(***************************************************************************)
EXTENDS Overlay, RepoEdit, DataIter, SolvFile, ByteCodec, Repopage, DepArray

(***************************************************************************)
(* Building repodata areas for the models: a list of calls, internalized.  *)
(* A call is <<handle, name, type, value>>.                                *)
(***************************************************************************)
Adds(d, calls) == FoldLeft(LAMBDA e, c : IF c[3] \in ArrayTypes \cup StructTypes THEN AddArray(e, c[1], c[2], c[3], c[4])
                                         ELSE Set(e, c[1], c[2], c[3], c[4][1]), d, calls)
BuildIn(d, calls) == Internalize(Adds([d EXCEPT !.nx = 4], calls))
Build(keys, dirs, calls) == BuildIn([NewData(FALSE) EXCEPT !.keys = keys, !.dirs = dirs], calls)

Plain == NewData(FALSE)
Arrays == [area |-> Plain, handles |-> {1, 2}, names |-> {1, 2},
           items |-> {<<"idarray", <<2>>>>, <<"idarray", <<3>>>>, <<"num", <<5>>>>},
           ops |-> {"set", "add", "unset", "forget", "merge", "swap", "internalize"}, depth |-> 4]
Structures == [area |-> Plain, handles |-> {1, Meta, -2, -3}, names |-> {1},
               items |-> {<<"flex", <<-2>>>>, <<"fix", <<-2>>>>, <<"flex", <<-3>>>>, <<"fix", <<-3>>>>, <<"num", <<5>>>>,
                          <<"idarray", <<2>>>>},
               ops |-> {"set", "add", "handle", "internalize"}, depth |-> 5]
Ranges == [area |-> Plain, handles |-> {1, 2, 3}, names |-> {1, 2}, items |-> {<<"num", <<5>>>>, <<"constid", <<3>>>>},
           ops |-> {"set", "internalize", "free"}, depth |-> 4]
\* an area that was read from a file with a vertical key
Loaded == [Plain EXCEPT !.keys = <<[KeyRec(1, "num", 0) EXCEPT !.storage = "vertical"], KeyRec(2, "void", 0), KeyRec(2, "dirstr", 0)>>,
                        !.schemata = <<<<1, 2>>, <<3, 1>>>>, !.start = 1, !.end = 3, !.loaded = TRUE,
                        !.dirs = <<0, 1, -1, 4>>,
                        !.inc = (Meta :> [schema |-> 0, cells |-> <<>>]) @@ (1 :> [schema |-> 1, cells |-> <<Leaf(<<<<1>>>>)>>])
                                 @@ (2 :> [schema |-> 2, cells |-> <<Leaf(<<<<3, 7>>>>), Leaf(<<<<2>>>>)>>]),
                        !.store = <<Leaf(<<<<6>>>>), Leaf(<<<<4>>>>)>>]
Overlays == [area |-> Loaded, handles |-> {1, 2}, names |-> {1, 2},
             items |-> {<<"num", <<5>>>>, <<"void", <<0>>>>, <<"constid", <<3>>>>, <<"dirstr", <<14, 7>>>>, <<"dirstr", <<45, 7>>>>, <<"dirstr", <<145, 8>>>>},
             ops |-> {"set", "add", "unset", "internalize"}, depth |-> 3]
AllMenus == {Arrays, Structures, Ranges, Overlays}
Solvs == {1, 2, 3}
Subs == {-2, -3}
KeyNames == {1, 2}
AllItems == UNION {m.items : m \in AllMenus}

\* names: 1 a number, 2 an array (vertical in the first area), 3 structures, 9 shares its keybit with 1
Primary ==
    [Build(<<[KeyRec(2, "idarray", 0) EXCEPT !.storage = "vertical"]>>, <<0, 1, -1, 5>>,
           <<<<1, 1, "num", <<11>>>>, <<1, 2, "idarray", <<12>>>>, <<1, 2, "idarray", <<13>>>>,
             <<-2, 4, "num", <<14>>>>, <<-2, 1, "idarray", <<15>>>>, <<-2, 1, "idarray", <<16>>>>, <<-3, 4, "num", <<17>>>>,
             <<1, 3, "flex", <<-2>>>>, <<1, 3, "flex", <<-3>>>>,
             <<1, FilelistKey, "dirstr", <<3, 7>>>>,
             <<2, 1, "num", <<18>>>>, <<2, FilelistKey, "dirstr", <<3, 7>>>>, <<2, 6, "void", <<0>>>>,
             <<Meta, 1, "num", <<19>>>>, <<Meta, 3, "flex", <<-2>>>>>>)
     EXCEPT !.filelist = "filtered", !.filter = {7}]
Extension ==
    [Build(<<>>, <<0, 1, -1, 5>>,
           <<<<1, FilelistKey, "dirstr", <<3, 8>>>>, <<1, FilelistKey, "dirstr", <<3, 7>>>>, <<2, FilelistKey, "dirstr", <<3, 7>>>>,
             <<1, 9, "constid", <<21>>>>, <<2, 2, "deleted", <<0>>>>>>)
     EXCEPT !.filelist = "extension"]
Addition ==
    Build(<<>>, <<>>, <<<<1, 1, "num", <<31>>>>, <<1, 3, "deleted", <<0>>>>, <<2, 2, "idarray", <<32>>>>, <<Meta, 1, "num", <<33>>>>>>)
Stub(d, keys) == [NewData(FALSE) EXCEPT !.keys = keys, !.start = 1, !.end = 3, !.state = "stub", !.filelist = d.filelist]
Failed == [NewData(FALSE) EXCEPT !.state = "error", !.start = 1, !.end = 3]
StubKeys == <<KeyRec(FilelistKey, "dirstr", 0), KeyRec(9, "constid", 0), KeyRec(2, "deleted", 0)>>

Repo1(as, fs) == [areas |-> as, file |-> fs, first |-> 1, last |-> 4, disabled |-> FALSE, gen |-> 0]
Repo2(disabled) == [areas |-> <<Build(<<>>, <<>>, <<<<3, 1, "num", <<41>>>>, <<3, 2, "idarray", <<42>>>>, <<3, 2, "idarray", <<43>>>>>>)>>, file |-> <<Failed>>,
                    first |-> 3, last |-> 3, disabled |-> disabled, gen |-> 0]
Pool(prim, r, disabled) ==
    [repos |-> <<r, Repo2(disabled)>>, owner |-> <<1, 1, 2, 1>>,
     solv |-> [p \in 1..4 |-> IF p = 4 THEN [n \in SolvKeySet |-> <<>>]
                              ELSE (60 :> <<50 + p>>) @@ (61 :> <<50, 55 + p>>) @@ (62 :> <<>>)],
     pos |-> [repo |-> 1, data |-> 1, p |-> 1, schema |-> prim.inc[1].cells[3].subs[1][1],
              cells |-> [j \in 1..2 |-> Leaf(prim.inc[1].cells[3].subs[1][2][j])]]]

\* only the primary area; a stub over it; another area over the stub; a stub that cannot be loaded
WorldsOf(prim, ext, add) ==
    LET stub == Stub(ext, StubKeys)
    IN  <<Pool(prim, Repo1(<<prim>>, <<Failed>>), FALSE), Pool(prim, Repo1(<<prim, stub>>, <<Failed, ext>>), FALSE),
          Pool(prim, Repo1(<<prim, stub, add>>, <<Failed, ext, Failed>>), FALSE),
          Pool(prim, Repo1(<<prim, add, stub>>, <<Failed, Failed, Failed>>), FALSE),
          Pool(prim, Repo1(<<prim>>, <<Failed>>), TRUE)>>
MCWorlds == WorldsOf(Primary, Extension, Addition)

Q(wd, path, flags, match, repo, p, user) ==
    [world |-> wd, path |-> path, flags |-> flags, match |-> match, repo |-> repo, p |-> p, user |-> user]
MCQueries ==
    {Q(wd, <<0>>, {"nosolvable"}, <<>>, 1, p, "none") : wd \in 1..4, p \in {0, Meta}}
    \cup {Q(wd, <<0>>, {"deleted"}, <<>>, 0, 0, "none") : wd \in 3..4}
    \cup {Q(wd, <<n>>, {}, <<>>, 0, 0, "none") : wd \in 1..4, n \in {1, 2, 9, 61, FilelistKey}}
    \cup {Q(wd, <<3>>, f, <<>>, 1, 1, u) : wd \in 1..2, f \in {{}, {"sub"}, {"sub", "sentinel"}}, u \in {"none", "enter", "skipattr"}}
    \cup {Q(wd, <<3, n>>, f, m, 1, p, "none") : wd \in {1, 4}, f \in {{}, {"sentinel"}}, n \in {0, 1}, m \in {<<>>, <<"exact", 15>>}, p \in {1, Meta}}
    \cup {Q(wd, <<FilelistKey>>, {}, <<k, m>>, 1, 0, "none") : wd \in 1..4, k \in {"exact", "sub"}, m \in {7, 8}}
    \cup {Q(2, <<0>>, {}, <<>>, 0, 0, u) : u \in {"skiprest", "skipsolvable", "skiprepo", "final"}}
    \cup {Q(2, <<0>>, {"nosolvable"}, <<>>, 0, 0, "skipattr")}
    \cup {Q(2, <<n>>, {}, <<>>, 0, 0, u) : n \in {2, 60, 61, FilelistKey}, u \in {"skipattr", "skiprest"}}
    \cup {Q(1, <<n, 4>>, {}, <<>>, 1, p, "none") : n \in {0, 60}, p \in {0, 1}}
    \cup {Q(1, <<0>>, {}, <<"exact", m>>, 1, 0, "none") : m \in {11, 13, 52}}
    \cup {Q(1, <<n>>, {}, <<>>, 1, -2, "none") : n \in {0, 1}}
    \cup {Q(1, <<1, 4>>, {}, <<>>, 1, 1, "none")}
    \cup {Q(5, <<1>>, f, <<>>, 0, 0, "none") : f \in {{}, {"disabled"}}}

R(n) == RelBase + n
\* relations inside relations; the numbers of the strings of the other pool differ
Pool1 == [ss |-> [n \in 1..99 |-> n], rels |-> <<<<10, 11, 4>>, <<R(1), 12, 16>>, <<13, R(1), 17>>, <<R(2), R(3), 18>>, <<15, 16, 4>>, <<17, R(5), 16>>>>,
          solv |-> <<(60 :> <<20>>) @@ (61 :> <<23, R(2), FileMarker, 22, 21>>) @@ (62 :> <<R(4), 24, PrereqMarker>>),
                     (60 :> <<25>>) @@ (61 :> <<R(6)>>) @@ (62 :> <<PrereqMarker, 24, R(1)>>),
                     (60 :> <<26>>) @@ (61 :> <<27>>) @@ (62 :> <<>>),
                     (60 :> <<20>>) @@ (61 :> <<R(6)>>) @@ (62 :> <<R(6)>>)>>]
Pool2 == [ss |-> [n \in 1..99 |-> IF n \in 10..49 THEN 59 - n ELSE n], rels |-> <<<<13, 12, 1>>, <<49, 48, 4>>>>,
          solv |-> <<NoFields, NoFields, NoFields>>]

\* 3: /30, 5: /30/32, 7: /31 in a second block
DirsA == <<0, 1, -1, 30, -3, 32, -1, 31>>
AreaA == Build(<<>>, DirsA,
    <<<<1, 1, "num", <<11>>>>, <<1, 2, "num", <<12>>>>, <<1, 5, "idarray", <<14>>>>, <<1, 5, "idarray", <<R(3)>>>>, <<1, 6, "id", <<15>>>>,
      <<1, 7, "constid", <<16>>>>, <<1, FilelistKey, "dirstr", <<5, 40>>>>, <<1, FilelistKey, "dirstr", <<7, 41>>>>,
      <<-2, 6, "id", <<17>>>>, <<-2, 1, "num", <<18>>>>, <<-3, FilelistKey, "dirstr", <<3, 42>>>>, <<-3, 2, "num", <<19>>>>,
      <<1, 3, "flex", <<-2>>>>, <<1, 3, "flex", <<-3>>>>, <<2, 2, "num", <<13>>>>, <<2, FilelistKey, "dirstr", <<3, 43>>>>,
      <<Meta, 1, "num", <<44>>>>, <<Meta, 4, "fix", <<-2>>>>, <<Meta, 4, "fix", <<-2>>>>, <<Meta, 3, "flex", <<-3>>>>, <<Meta, FilelistKey, "dirstr", <<7, 45>>>>>>)
\* own strings: 3 is 31 and 4 is not in the pool
AreaB == BuildIn([NewData(TRUE) EXCEPT !.spool = <<1, 30, 31, 120, 14>>, !.dirs = <<0, 1, -1, 3, -3, 4>>],
    <<<<1, 6, "id", <<4>>>>, <<1, FilelistKey, "dirstr", <<5, 46>>>>, <<2, 5, "idarray", <<5>>>>, <<2, 5, "idarray", <<4>>>>, <<2, 7, "constid", <<2>>>>,
      <<2, 1, "deleted", <<0>>>>, <<4, 2, "num", <<47>>>>, <<4, FilelistKey, "dirstr", <<3, 48>>>>, <<Meta, 1, "deleted", <<0>>>>>>)
AreaC == Build(<<>>, <<0, 1, -1, 33>>,
    <<<<1, 2, "deleted", <<0>>>>, <<2, 2, "num", <<49>>>>, <<2, 8, "void", <<0>>>>, <<4, FilelistKey, "dirstr", <<3, 38>>>>, <<Meta, 2, "num", <<39>>>>>>)
\* says that there is another part, and that the file list is filtered
AreaX == Build(<<>>, <<>>,
    <<<<1, 1, "num", <<11>>>>, <<-2, KeysKey, "idarray", <<FilelistKey>>>>, <<-2, KeysKey, "idarray", <<TypeId("dirstr")>>>>,
      <<-2, KeysKey, "idarray", <<2>>>>, <<-2, KeysKey, "idarray", <<TypeId("num")>>>>, <<Meta, ExternalKey, "flex", <<-2>>>>, <<Meta, FilteredKey, "void", <<0>>>>>>)
StubC == [NewData(FALSE) EXCEPT !.state = "stub", !.start = 1, !.end = 5, !.keys = <<KeyRec(2, "num", 0), KeyRec(8, "void", 0), KeyRec(FilelistKey, "dirstr", 0)>>]
NoFile == [NewData(FALSE) EXCEPT !.state = "error", !.keys = <<KeyRec(2, "num", 0)>>]

RepoOf(areas, files, own) == [areas |-> areas, file |-> files, first |-> 1, last |-> 4, own |-> own, disabled |-> FALSE, gen |-> 0]
Empty == [areas |-> <<>>, file |-> <<>>, first |-> 0, last |-> 0, own |-> {}, disabled |-> FALSE, gen |-> 0]
Holes == {1, 2, 4}

AllOwn == 1..4
Into(to, areas, own) == [pool |-> to, repo |-> RepoOf(areas, [n \in DOMAIN areas |-> NoFile], own)]
Fresh == [pool |-> Pool2, repo |-> Empty]
Filters == {<<>>, (FilelistKey :> "vertical"), (FilelistKey :> "vertical") @@ (2 :> "vertical"), (FilelistKey :> "dropped") @@ (5 :> "dropped"),
            (5 :> "vertical"), (60 :> "dropped") @@ (62 :> "dropped")}
Opts(filter, flags, lo, hi) == [filter |-> filter, flags |-> flags, from |-> lo, to |-> hi]
Case(repo, opts, how, into, rounds) == [pool |-> Pool1, repo |-> repo, opts |-> opts, how |-> how, into |-> into, rounds |-> rounds]
Files(s, c) == [n \in DOMAIN s |-> IF s[n].state = "stub" THEN c ELSE NoFile]

\* whole repositories, read into another pool and written again
Whole(a, b, c, x) ==
    LET sets == {<<a>>, <<a, b>>, <<b, a, c>>, <<b>>, <<a, StubC>>, <<x>>, <<>>}
    IN  {Case(RepoOf(s, Files(s, c), Holes), Opts(f, fl, 1, Len(s)), {}, Fresh, 2) : s \in sets, f \in Filters, fl \in {{}, {"keepdeleted"}}}
\* parts, kept with their own strings
Locals(a, b, c, x) ==
    LET sets == {<<a>>, <<b>>, <<b, x, c>>, <<b, c>>}
    IN  {Case(RepoOf(s, Files(s, c), Holes), Opts(f, {"nosolvable"}, 1, Len(s)), {"local"}, Fresh, 2) : s \in sets, f \in Filters}
\* parts that extend solvables which are there already, or take the place of a stub
Extensions(a, b, c, x) ==
    LET loading == [StubC EXCEPT !.state = "loading"]
    IN  {Case(RepoOf(<<b, a, c>>, <<NoFile, NoFile, NoFile>>, own), Opts(f, {"nosolvable"}, r[1], r[2]), how, into, 1) :
            own \in {AllOwn, Holes}, f \in Filters, r \in {<<1, 1>>, <<2, 2>>, <<2, 3>>},
            how \in {{"extend"}, {"extend", "local"}}, into \in {Into(Pool1, <<x>>, AllOwn), Into(Pool1, <<x>>, Holes)}}
        \cup {Case(RepoOf(<<b, a, c>>, <<NoFile, NoFile, NoFile>>, own), Opts(f, {"nosolvable"}, 2, 3), {"loading"}, Into(Pool1, <<x, loading>>, AllOwn), 1) :
                own \in {AllOwn, Holes}, f \in Filters}
CasesOf(a, b, c, x) == Whole(a, b, c, x) \cup Locals(a, b, c, x) \cup Extensions(a, b, c, x)
MCCases == CasesOf(AreaA, AreaB, AreaC, AreaX)

(***************************************************************************)
(* Rows of values, cut files, id blocks and pages of the byte level.       *)
(***************************************************************************)
MCHash(a, b, c) == (a + 2 * b + c) % 3
Bounds == {0, 1, 63, 64, 127, 128, 8191, 8192, 16383, 16384, 2^20 - 1, 2^20, 2^21 - 1, 2^21,
           2^27 - 1, 2^27, 2^28 - 1, 2^28, 2^30 - 1}
Words == {NoNum} \cup [hx : {0, 1, 7, 8, 1023, 1024, 2^24 - 1}, top : {0, 1, 15}, y : {0, 127, 2^14, 2^28 - 1}]
Sizes == {[hx |-> n \div 2^22, top |-> (n \div 2^18) % 16, y |-> (n % 2^18) * 1024] :
              n \in {0, 1, 2^18 - 1, 2^18, 2^22 - 1, 2^22, 2^22 + 5, 2^25 - 1, 2^25, 2^28 + 7}}
One(type, e) == [type |-> type, size |-> 0, es |-> <<e>>]
IdE(x) == [NoElement EXCEPT !.id = x]
StrE(x, s) == [NoElement EXCEPT !.id = x, !.str = s]
Val(type, es) == [type |-> type, size |-> 0, es |-> es]
SomeIds == {0, 63, 64, 127, 8192, 2^20, 2^27}
\* what comes behind each of them: if a length is wrong the next one is misread
Behind == <<One("str", StrE(0, <<65, 200>>)),
            [type |-> "constant", size |-> 7, es |-> <<[NoElement EXCEPT !.num = Small(7)]>>],
            [type |-> "constantid", size |-> 9, es |-> <<IdE(9)>>],
            Val("void", <<NoElement>>),
            One("checksum", StrE(0, <<0, 255>>)), One("dir", IdE(300))>>
FirstVals ==
    {One("id", IdE(x)) : x \in Bounds} \cup {One("num", [NoElement EXCEPT !.num = n]) : n \in Words}
    \cup {One("sizek", [NoElement EXCEPT !.num = n]) : n \in Sizes}
    \cup {One("binary", StrE(0, [j \in 1..n |-> 0])) : n \in {0, 1, 128}}
    \cup {Val("idarray", <<IdE(x), IdE(y), IdE(z)>>) : x \in Bounds, y \in Bounds, z \in {5, 64}}
    \cup {Val("dirstrarray", <<StrE(x, <<>>), StrE(y, <<64, 128>>), StrE(1, <<7>>)>>) : x \in SomeIds, y \in SomeIds}
    \cup {Val("dirnumnumarray", <<[NoElement EXCEPT !.id = x, !.num = Small(y), !.num2 = z],
                                  [NoElement EXCEPT !.id = y, !.num = Small(z), !.num2 = x]>>) :
             x \in SomeIds, y \in {1, 128, 2^21}, z \in SomeIds}
MCBytes ==
    {[mode |-> "values", vals |-> <<v>> \o Behind] : v \in FirstVals}
    \cup {[mode |-> "ids", ids |-> <<x, y>>, arr |-> a, cut |-> c, max |-> m, room |-> r] :
             x \in {1, 128, 2^28}, y \in {127, 2^14}, a \in {<<>>, <<3>>, <<64, 1, 8192>>}, c \in 0..2, m \in {0, 130}, r \in {1, 2, 4}}
    \cup {[mode |-> "block", arrays |-> a] :
             a \in {<<<<x, y>>, <<z>>, <<y, x, 70>>>> : x \in {1, 60, 70, 8200, 2^20}, y \in {2, 64, 141, 2^28}, z \in {1, 2^21}}
                   \cup {<<<<1, 2, 3, 4, 5, 6, 7, 8>>>>, <<<<9, 8, 7, 6, 5, 4, 3>>>>, <<[j \in 1..9 |-> 200]>>}}

\* Every page of up to nine bytes of two kinds, and five pages of two keys
\* whose values lie on one page, on two and on three.
OnePage == {<<<<s>>>> : s \in UNION {[1..n -> {1, 200}] : n \in 1..9}}
FivePages ==
    {<< << [j \in 1..7 |-> j], [j \in 1..12 |-> 100 + j], <<5>> >>,
        << [j \in 1..10 |-> 9], [j \in 1..4 |-> 20 + j], [j \in 1..6 |-> 200 + j] >> >>}
MCPageFiles == OnePage \cup FivePages

-----------------------------------------------------------------------------
VARIABLE part
dataVars == <<part, editVars, dep, iterVars, solvVars, bc, pg>>
PartNames == {"edit", "deps", "iter", "file", "bytes", "pages"}
IterWaits == query.world = 5 /\ query.flags = {}
SolvWaits == case.repo.areas = <<>> /\ case.opts.filter = <<>> /\ case.opts.flags = {}
DataInit ==
    /\ part \in PartNames
    /\ \/ part = "file" /\ IterInit /\ IterWaits /\ SolvInit
       \/ part # "file" /\ SolvInit /\ SolvWaits /\ IterInit /\ (part # "iter" => IterWaits)
    /\ DepInit
    /\ EditInit /\ (part # "edit" => menu = Ranges)
    /\ IF part = "bytes" THEN ByteInit ELSE bc = StartCase([mode |-> "values", vals |-> <<>>])
    /\ IF part = "pages" THEN PageInit ELSE pg = StartPages(<<<<<<1>>>>>>)
EditPart == part = "edit" /\ EditNext /\ UNCHANGED <<part, dep, iterVars, solvVars, bc, pg>>
DepPart == part = "deps" /\ DepNext /\ UNCHANGED <<part, editVars, iterVars, solvVars, bc, pg>>
IterPart == part = "iter" /\ IterNext /\ UNCHANGED <<part, editVars, dep, solvVars, bc, pg>>
FilePart == part = "file" /\ SolvNext /\ UNCHANGED <<part, editVars, dep, iterVars, bc, pg>>
BytePart == part = "bytes" /\ ByteNext /\ UNCHANGED <<part, editVars, dep, iterVars, solvVars, pg>>
PagePart == part = "pages" /\ PageNext /\ UNCHANGED <<part, editVars, dep, iterVars, solvVars, bc>>
DataNext == EditPart \/ DepPart \/ IterPart \/ FilePart \/ BytePart \/ PagePart
DataSpec == DataInit /\ [][DataNext]_dataVars

-----------------------------------------------------------------------------
\* What was written as bytes comes back: values of every type read element by
\* element or skipped (repopack.h), ids of a file that is cut off
\* (repo_solv.c), blocks of ids whose chunks cut through them, and vertical
\* data whatever pages were moved, evicted or not readable (repopage.c).
BytesComeBack == ValuesRight /\ FileIdsRight /\ BlocksRight /\ PagesRight
=============================================================================
