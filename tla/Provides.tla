------------------------------ MODULE Provides ------------------------------
(***************************************************************************)
(* pool_addfileprovides: the files that some dependency names are looked   *)
(* up in the file lists of all packages, and become provides of the        *)
(* packages that hold them (fileprovides.c).                               *)
(*                                                                         *)
(* A pool is a record of                                                   *)
(*   solv   the solvables; the index is the id, 1 the system solvable      *)
(*   rels   the relations [op, name, evr, cmp]                             *)
(*   areas  repository -> its areas of data, the later ones hide the       *)
(*          earlier ones; an area is [start, end, type, state, data,       *)
(*          lists, prov]: its range of solvables, whether its file lists   *)
(*          are "full", "filtered" or an "extension" of filtered ones, the *)
(*          solvables it has data of, solvable -> its files, and           *)
(*          REPOSITORY_ADDEDFILEPROVIDES                                   *)
(*   inst   the installed repository                                       *)
(*   afp    addedfileprovides                                              *)
(*   nonstd nonstd_ids                                                     *)
(*   index  the index of providers, described where it is built           *)
(* A solvable is [repo, name, evr, arch, provides, deps], deps being its   *)
(* other dependencies in the order of the fields.  A dependency d > 0 is a *)
(* string, d < 0 the relation -d, 0 is none.  Files are the strings that   *)
(* start with a slash, StdFiles the ones the standard filter lets through. *)
(***************************************************************************)
EXTENDS Integers, Sequences, FiniteSets, SequencesExt, FiniteSetsExt

CONSTANTS Files, StdFiles,
          Marker,         \* SOLVABLE_FILEMARKER
          SplitProvides   \* NAMESPACE_SPLITPROVIDES

In(x, s) == \E i \in DOMAIN s : s[i] = x
IsReldep(d) == d < 0
Larger(a, b) == IF a > b THEN a ELSE b
Smaller(a, b) == IF a < b THEN a ELSE b
Ascending(S) == IF S = {} THEN <<>> ELSE SelectSeq([i \in 1..Max(S) |-> i], LAMBDA i : i \in S)
RepoOf(pl, p) == pl.solv[p].repo
Solvables(pl) == {p \in DOMAIN pl.solv : RepoOf(pl, p) # 0}

(***************************************************************************)
(* The files to look for.  w is [seen, iseen, ids, iids, nonstd]: iids is  *)
(* for the installed packages only, where splitprovides looks.             *)
(***************************************************************************)
NotSeen(w, inst, d) == d \notin (IF inst THEN w.iseen ELSE w.seen)
See(w, inst, d) == IF inst THEN [w EXCEPT !.iseen = @ \cup {d}] ELSE [w EXCEPT !.seen = @ \cup {d}]
WantFile(pl, w, inst, d) ==
    CASE d \notin Files -> w
      [] d \in Files /\ ~inst /\ pl.afp = 1 /\ d \notin StdFiles -> [w EXCEPT !.nonstd = Append(@, d)]
      [] d \in Files /\ inst -> [w EXCEPT !.iids = Append(@, d)]
      [] OTHER -> [w EXCEPT !.ids = Append(@, d)]

RECURSIVE AddfileprovidesDep(_, _, _, _)
AddfileprovidesDep(pl, w, inst, d) ==
    IF d = 0 \/ ~NotSeen(w, inst, d) THEN w
    ELSE IF ~IsReldep(d) THEN WantFile(pl, See(w, inst, d), inst, d)
    ELSE LET rd == pl.rels[-d]
             w1 == See(w, inst, d)
         IN  CASE rd.op = "ver" -> AddfileprovidesDep(pl, w1, inst, rd.name)
               [] rd.op = "ns" /\ rd.name = SplitProvides ->
                    IF pl.inst = 0 \/ ~NotSeen(w1, TRUE, d) THEN w1
                    ELSE AddfileprovidesDep(pl, See(w1, TRUE, d), TRUE, rd.evr)
               [] rd.op = "ns" /\ rd.name # SplitProvides -> AddfileprovidesDep(pl, w1, inst, rd.evr)
               [] rd.op = "fileconflict" -> w1
               [] OTHER -> AddfileprovidesDep(pl, AddfileprovidesDep(pl, w1, inst, rd.name), inst, rd.evr)

NothingWanted == [seen |-> {}, iseen |-> {}, ids |-> <<>>, iids |-> <<>>, nonstd |-> <<>>]
Wanted(pl) ==
    FoldLeft(LAMBDA w, p : FoldLeft(LAMBDA v, d : AddfileprovidesDep(pl, v, FALSE, d), w, pl.solv[p].deps),
             NothingWanted, Ascending(Solvables(pl)))

(***************************************************************************)
(* The search of one repository.  c is [pl, repo, ids, todo, lo, hi, prov, *)
(* plo, phi]: the packages still to do, the range they lie in, and what    *)
(* an earlier call has added to the packages of a range already.  The      *)
(* range of an earlier call is empty if there was none.                    *)
(***************************************************************************)
Area(c, i) == c.pl.areas[c.repo][i]
AreaIds(c) == [i \in DOMAIN c.pl.areas[c.repo] |-> i]
InRange(c, S) == {p \in S : c.lo <= p /\ p < c.hi}
PruneTodoRange(c) ==
    LET S == InRange(c, c.todo)
    IN  IF S = {} THEN [c EXCEPT !.lo = c.hi] ELSE [c EXCEPT !.lo = Min(S), !.hi = Max(S) + 1]
IntersectsTodo(c, a) == \E p \in InRange(c, c.todo) : a.start <= p /\ p < a.end

\* repodata_load of a stub; a broken one ends in an error state
LoadedState(s) == CASE s = "stub" -> "available" [] s = "broken" -> "error" [] OTHER -> s
LoadArea(c, i) == [c EXCEPT !.pl.areas[c.repo][i].state = LoadedState(@)]
HasFilelist(a, p) == p \in DOMAIN a.lists
HasKeyFilelist(a) == DOMAIN a.lists # {}

\* repo_addid_dep into the part behind the file marker
AddFileId(provides, f) ==
    IF In(f, provides) THEN provides
    ELSE IF In(Marker, provides) THEN Append(provides, f) ELSE provides \o <<Marker, f>>
AddHits(pl, p, hits) == [pl EXCEPT !.solv[p].provides = FoldLeft(AddFileId, @, hits)]

SearchSpan(c, i, from, to, skip) ==
    LET a == Area(c, i)
        done == {p \in from..(to - 1) : p \in c.todo /\ HasFilelist(a, p)}
        want == {f \in ToSet(c.ids) : f \notin skip}
    IN  [c EXCEPT !.todo = @ \ done,
                  !.pl = FoldLeft(LAMBDA pl, p : AddHits(pl, p, Ascending(a.lists[p] \cap want)), @, Ascending(done))]

\* repodata_addfileprovides_search_limited: a part of the range that lies within or outside of the provided one
SearchLimited(c, i, from, to, skip) ==
    LET f == Larger(from, c.lo)
        t == Smaller(to, c.hi)
    IN  IF f >= t THEN c ELSE PruneTodoRange(SearchSpan(c, i, f, t, skip))

SearchParts(c, i, from, to) ==
    CASE from >= c.plo /\ to <= c.phi -> PruneTodoRange(SearchSpan(c, i, from, to, c.prov))
      [] ~(from >= c.plo /\ to <= c.phi) /\ from < c.phi /\ to > c.plo ->
           LET below == IF from < c.plo THEN SearchLimited(c, i, from, c.plo, {}) ELSE c
               above == IF to > c.phi THEN SearchLimited(below, i, c.phi, to, {}) ELSE below
           IN  SearchLimited(above, i, Larger(from, c.plo), Smaller(to, c.phi), c.prov)
      [] OTHER -> PruneTodoRange(SearchSpan(c, i, from, to, {}))

RepodataSearch(c0, i) ==
    LET c == LoadArea(c0, i)
        a == Area(c, i)
        from == Larger(c.lo, a.start)
        to == Smaller(c.hi, a.end)
    IN  IF a.state # "available" \/ ~HasKeyFilelist(a) \/ from >= to THEN c ELSE SearchParts(c, i, from, to)

(***************************************************************************)
(* A filtered list is enough if all the files pass its filter, unless a    *)
(* later area without the extension mark has another list; else the        *)
(* packages are postponed to the search of all the areas.                  *)
(***************************************************************************)
HasDataIn(c, a) == InRange(c, c.todo) \cap a.data
Postpone(st, S) == [st EXCEPT !.c = PruneTodoRange([@ EXCEPT !.todo = @ \ S]), !.postponed = @ \cup S]
PruneIds(c, a) ==
    LET from == Larger(c.lo, a.start)
        to == Smaller(c.hi, a.end)
    IN  IF (from < c.plo \/ to > c.phi) /\ (\E p \in HasDataIn(c, a) : p < c.plo \/ p >= c.phi) THEN {} ELSE c.prov
FilterEnoughBug(c, a) == \E f \in ToSet(c.ids) \ PruneIds(c, a) : f \in StdFiles   \* mutant: one file that passes is enough

FilterEnough(c, a) == \A f \in ToSet(c.ids) \ PruneIds(c, a) : f \in StdFiles

LaterList(c, i, j) ==
    {p \in InRange(c, c.todo) : /\ j > i
                                /\ Area(c, j).type # "extension"
                                /\ Area(c, j).start <= p /\ p < Area(c, j).end
                                /\ HasFilelist(Area(c, j), p)}
\* only the packages of the filtered area are to do; then the others are put back
SearchOnly(st, i, S) ==
    LET lim == PruneTodoRange([st.c EXCEPT !.todo = S])
        kept == FoldRight(LAMBDA j, s : Postpone(s, LaterList(s.c, i, j)), AreaIds(lim), [c |-> lim, postponed |-> st.postponed])
        found == IF kept.c.lo < kept.c.hi THEN RepodataSearch(kept.c, i) ELSE kept.c
    IN  [c |-> PruneTodoRange([found EXCEPT !.todo = st.c.todo \ S, !.lo = st.c.lo, !.hi = st.c.hi]),
         postponed |-> kept.postponed]
SearchFiltered(st, i) ==
    LET S == HasDataIn(st.c, Area(st.c, i))
    IN  IF FilterEnough(st.c, Area(st.c, i)) THEN SearchOnly(st, i, S) ELSE Postpone(st, S)

TryFiltered(st, i) ==
    IF Area(st.c, i).type # "filtered" \/ ~IntersectsTodo(st.c, Area(st.c, i)) THEN st
    ELSE LET loaded == [st EXCEPT !.c = LoadArea(@, i)]
         IN  IF Area(loaded.c, i).state # "available" THEN loaded ELSE SearchFiltered(loaded, i)

IsFilteredRepo(areas) == \E i, j \in DOMAIN areas : i < j /\ areas[i].type = "filtered" /\ areas[j].type = "extension"
BackToTodo(st, lo, hi) ==
    IF st.postponed = {} THEN st.c
    ELSE PruneTodoRange([st.c EXCEPT !.todo = @ \cup st.postponed, !.lo = lo, !.hi = hi])
FilteredFirst(c) ==
    IF ~IsFilteredRepo(c.pl.areas[c.repo]) THEN c
    ELSE BackToTodo(FoldRight(LAMBDA i, st : TryFiltered(st, i), AreaIds(c), [c |-> c, postponed |-> {}]), c.lo, c.hi)

StdSearch(c) ==
    FoldRight(LAMBDA i, d : IF d.lo >= d.hi \/ ~HasKeyFilelist(Area(d, i)) \/ ~IntersectsTodo(d, Area(d, i)) THEN d
                            ELSE RepodataSearch(d, i),
              AreaIds(c), c)

RepoPkgs(pl, repo) == {p \in DOMAIN pl.solv : RepoOf(pl, p) = repo}
\* repo_lookup_repodata(SOLVID_META): the last area that says what has been added
ProvArea(areas) == LET S == {i \in DOMAIN areas : areas[i].prov # {}} IN IF S = {} THEN 0 ELSE Max(S)
StartSearch(pl, repo, ids) ==
    LET todo == RepoPkgs(pl, repo)
        i == ProvArea(pl.areas[repo])
        a == pl.areas[repo][i]
        c == [pl |-> pl, repo |-> repo, ids |-> ids, todo |-> todo, lo |-> Min(todo), hi |-> Max(todo) + 1,
              prov |-> {}, plo |-> 0, phi |-> 0]
    IN  IF i = 0 THEN c
        ELSE LET d == [c EXCEPT !.prov = a.prov, !.plo = a.start, !.phi = a.end]
             IN  IF ~(ToSet(ids) \subseteq a.prov) THEN d
                 ELSE PruneTodoRange([d EXCEPT !.todo = @ \ (a.start..(a.end - 1))])

RepoSearch(pl, repo, ids) ==
    IF RepoPkgs(pl, repo) = {} \/ ids = <<>> THEN pl
    ELSE LET c == StartSearch(pl, repo, ids)
         IN  IF c.lo >= c.hi THEN pl ELSE StdSearch(FilteredFirst(c)).pl

NoIndex == [built |-> FALSE]
AddfileprovidesQueue(pl0, filtered) ==
    LET pl == [pl0 EXCEPT !.afp = IF filtered THEN 1 ELSE 2]
        w == Wanted(pl)
        all == FoldLeft(LAMBDA q, r : RepoSearch(q, r, w.ids), pl, Ascending(DOMAIN pl.areas))
        done == IF pl.inst = 0 THEN all ELSE RepoSearch(all, pl.inst, w.iids)
    IN  [done EXCEPT !.nonstd = Ascending(ToSet(w.nonstd)), !.index = NoIndex]

(***************************************************************************)
(* What it is for: the files a package really holds.                       *)
(***************************************************************************)
Usable(a, p) == a.state \in {"available", "stub"} /\ HasFilelist(a, p)
FilesOf(pl, p) ==
    LET areas == pl.areas[RepoOf(pl, p)]
        S == {i \in DOMAIN areas : Usable(areas[i], p)}
    IN  IF S = {} THEN {} ELSE areas[Max(S)].lists[p]

RECURSIVE FilesIn(_, _)
FilesIn(pl, d) ==
    IF d = 0 THEN {}
    ELSE IF ~IsReldep(d) THEN {d} \cap Files
    ELSE LET rd == pl.rels[-d]
         IN  CASE rd.op = "ver" -> FilesIn(pl, rd.name)
               [] rd.op = "ns" -> IF rd.name = SplitProvides THEN {} ELSE FilesIn(pl, rd.evr)
               [] rd.op = "fileconflict" -> {}
               [] OTHER -> FilesIn(pl, rd.name) \cup FilesIn(pl, rd.evr)
DepFiles(pl) == UNION {FilesIn(pl, pl.solv[p].deps[i]) : <<p, i>> \in {x \in Solvables(pl) \X (1..4) : x[2] \in DOMAIN pl.solv[x[1]].deps}}

-----------------------------------------------------------------------------
(***************************************************************************)
(* The index of providers (poolwhatprovides.c): for every string and every *)
(* relation a list of solvables in one array of zero terminated lists.     *)
(* The lists of the strings are built at once, the ones of files and of    *)
(* relations when they are asked for, and stay until something they are    *)
(* made from changes.                                                      *)
(*                                                                         *)
(* The index is a record of wp and wprel, the offsets of the lists, 0 for  *)
(* one not made yet; data; off and left, the end of data and the space     *)
(* behind it; aux and auxdata, the dependency that made a solvable a       *)
(* provider, 1 for several; and lazy, the lists of lazywhatprovidesq.      *)
(* Offset 1 is the empty list, 2 the system solvable, lists start at 4.    *)
(* For it the pool has three more fields than the above: bad, the          *)
(* solvables whose architecture the system lacks or the application does   *)
(* not consider; ns, a namespace relation -> the packages the application  *)
(* answers with; and set, the answers it has put into the index itself.    *)
(***************************************************************************)

CONSTANTS Strings,        \* the ids 2..n of the strings
          Src, NoSrc,     \* ARCH_SRC, ARCH_NOSRC
          AnyArch,        \* ARCH_ANY
          KindOf,         \* string -> the kind its text starts with, 1 for none
          Rpmlib,         \* the strings that start with rpmlib(
          OtherProviders, \* NAMESPACE_OTHERPROVIDERS
          Extra           \* the space reserved for lists made later

System == 1
Multiple == 1
RelIds(pl) == DOMAIN pl.rels
NameOf(pl, d) == LET n[e \in Int] == IF IsReldep(e) THEN n[pl.rels[-e].name] ELSE e IN n[d]
IsSrc(s) == s.arch \in {Src, NoSrc}
\* pool_installable_whatprovides
Indexed(pl, p) == RepoOf(pl, p) = pl.inst \/ (~IsSrc(pl.solv[p]) /\ p \notin pl.bad)
Installable(pl, p) == ~IsSrc(pl.solv[p]) /\ p \notin pl.bad
IndexedPkgs(pl) == {p \in Solvables(pl) : pl.solv[p].provides # <<>> /\ Indexed(pl, p)}

List(data, o) ==
    LET end[i \in Nat] == IF data[i] = 0 THEN i ELSE end[i + 1]
    IN  [k \in 1..(end[o] - o) |-> data[o + k - 1]]

(***************************************************************************)
(* pool_createwhatprovides: count, lay out, fill from the back, then       *)
(* squeeze out the places of packages counted twice and share equal lists. *)
(***************************************************************************)
Providing(pl, s) == {<<p, i>> \in IndexedPkgs(pl) \X (1..6) :
                        i \in DOMAIN pl.solv[p].provides /\ NameOf(pl, pl.solv[p].provides[i]) = s}
LayOut(st, s, n) == IF n = 0 THEN [st EXCEPT !.wp[s] = 1] ELSE [wp |-> [st.wp EXCEPT ![s] = st.off + n], off |-> st.off + n + 1]
Layout(pl) ==
    FoldLeft(LAMBDA st, s : LayOut(st, s, Cardinality(Providing(pl, s))),
             [wp |-> [s \in Strings |-> 0], off |-> 4], Ascending(Strings))
FillOne(st, p, d, s) ==
    LET o == st.wp[s]
    IN  IF st.data[o] # p THEN [st EXCEPT !.data[o - 1] = p, !.wp[s] = o - 1, !.auxdata[o - 1] = d]
        ELSE [st EXCEPT !.auxdata[o] = Multiple]
Fill(pl, lay) ==
    FoldRight(LAMBDA p, st : FoldLeft(LAMBDA t, d : FillOne(t, p, d, NameOf(pl, d)), st, pl.solv[p].provides),
              Ascending(IndexedPkgs(pl)),
              [wp |-> lay.wp, data |-> [i \in 0..(lay.off + Extra - 1) |-> IF i = 2 THEN System ELSE 0],
               auxdata |-> [i \in 0..(lay.off - 1) |-> 0]])

\* pool_shrink_whatprovides: the first string with the same list, in the order of the ids
FirstEqual(st, s) == Min({t \in Strings : st.wp[t] >= 4 /\ List(st.data, st.wp[t]) = List(st.data, st.wp[s])})
CopyList(data, list, o) == [i \in DOMAIN data |-> IF i \in o..(o + Len(list) - 1) THEN list[i - o + 1]
                                                 ELSE IF i = o + Len(list) THEN 0 ELSE data[i]]
ShrinkOne(st, s, first, list) ==
    IF st.wp[s] < 4 THEN st
    ELSE IF first < s THEN [st EXCEPT !.wp[s] = st.wp[first]]
    ELSE [wp |-> [st.wp EXCEPT ![s] = st.to], data |-> CopyList(st.data, list, st.to), to |-> st.to + Len(list) + 1]
Firsts(f) == [s \in {t \in Strings : f.wp[t] >= 4} |-> FirstEqual(f, s)]
ShrinkAll(f, first) ==
    FoldLeft(LAMBDA st, s : ShrinkOne(st, s, IF s \in DOMAIN first THEN first[s] ELSE s, List(st.data, st.wp[s])),
             [wp |-> f.wp, data |-> f.data, to |-> 4], Ascending(Strings))
ShrinkWhatprovides(f) == ShrinkAll(f, Firsts(f))

\* pool_shrink_whatprovidesaux: without the zeros
AuxOne(st, s) ==
    LET list == List(st.auxdata, st.aux[s])
    IN  IF st.aux[s] < 2 THEN st
        ELSE [aux |-> [st.aux EXCEPT ![s] = st.to], to |-> st.to + Len(list),
              auxdata |-> [i \in DOMAIN st.auxdata |-> IF i \in st.to..(st.to + Len(list) - 1) THEN list[i - st.to + 1] ELSE st.auxdata[i]]]
ShrinkAux(f) == FoldLeft(AuxOne, [aux |-> f.wp, auxdata |-> f.auxdata, to |-> 1], Ascending(Strings))

\* the lists of files are made when they are asked for
LazyFiles(pl) == CASE pl.afp = 1 -> ToSet(pl.nonstd)
                   [] pl.afp = 0 /\ ~pl.deb -> Files
                   [] OTHER -> {}
Assemble(pl, sh, ax) ==
    LET L == LazyFiles(pl)
    IN  [built |-> TRUE,
         wp |-> [s \in Strings |-> IF s \in L THEN 0 ELSE sh.wp[s]],
         wprel |-> [r \in RelIds(pl) |-> 0],
         data |-> [i \in 0..(sh.to + Extra - 1) |-> IF i < sh.to THEN sh.data[i] ELSE 0], off |-> sh.to, left |-> Extra,
         aux |-> [s \in Strings |-> IF s \in L THEN 0 ELSE ax.aux[s]],
         auxdata |-> [i \in 0..(ax.to - 1) |-> ax.auxdata[i]],
         lazy |-> [s \in L |-> IF sh.wp[s] > 1 THEN sh.wp[s] ELSE 0]]
Filled(pl, f) == Assemble(pl, ShrinkWhatprovides(f), ShrinkAux(f))
Createwhatprovides(pl) == [pl EXCEPT !.index = Filled(pl, Fill(pl, Layout(pl))), !.set = [r \in DOMAIN @ |-> 0]]
Freewhatprovides(pl) == [pl EXCEPT !.index = NoIndex]

(***************************************************************************)
(* pool_ids2whatprovides puts a list at the end of the array.              *)
(***************************************************************************)
Room(ix, n) ==
    IF ix.left >= n THEN ix
    ELSE [ix EXCEPT !.data = [i \in 0..(ix.off + n + Extra - 1) |-> IF i < ix.off THEN ix.data[i] ELSE 0], !.left = n + Extra]
PutList(ix, list) == [ix EXCEPT !.data = CopyList(@, list, ix.off), !.off = @ + Len(list) + 1, !.left = @ - Len(list) - 1]
Ids2whatprovides(ix, list) ==
    CASE list = <<>> -> [ix |-> ix, o |-> 1]
      [] list = <<System>> -> [ix |-> ix, o |-> 2]
      [] OTHER -> [ix |-> PutList(Room(ix, Len(list) + 1), list), o |-> ix.off]

SetOffset(ix, d, o) == IF IsReldep(d) THEN [ix EXCEPT !.wprel[-d] = o] ELSE [ix EXCEPT !.wp[d] = o]
Offset(pl, d) == IF IsReldep(d) THEN pl.index.wprel[-d] ELSE pl.index.wp[d]
ListOf(pl, d) == List(pl.index.data, Offset(pl, d))
Reuse(pl, d, o) == [pl EXCEPT !.index = SetOffset(@, d, o)]
StoreAt(pl, d, put) == [pl EXCEPT !.index = SetOffset(put.ix, d, put.o)]
Store(pl, d, list) == StoreAt(pl, d, Ids2whatprovides(pl.index, list))

(***************************************************************************)
(* pool_addstdproviders: a file.  The data iterator goes through the       *)
(* repositories in turn; a list made from provides is merged in.           *)
(***************************************************************************)
Owners(pl, d) ==
    FlattenSeq([r \in DOMAIN pl.areas |->
        SelectSeq(Ascending(RepoPkgs(pl, r)), LAMBDA p : d \in FilesOf(pl, p) /\ Indexed(pl, p))])
Unify(q, old) ==
    LET u[i \in Nat, k \in Nat, s \in Seq(Nat)] ==
            IF k > Len(old) THEN s
            ELSE IF i > Len(s) THEN s \o SubSeq(old, k, Len(old))
            ELSE IF old[k] > s[i] THEN u[i + 1, k, s]
            ELSE u[i + 1, k + 1, IF old[k] < s[i] THEN InsertAt(s, i, old[k]) ELSE s]
    IN  u[1, 1, q]
AddOwners(pl, d, q, old) ==
    CASE q = <<>> -> Reuse(pl, d, IF old # 0 THEN old ELSE 1)
      [] q # <<>> /\ old # 0 ->
           LET all == Unify(q, List(pl.index.data, old))
           IN  IF Len(all) = Len(List(pl.index.data, old)) THEN Reuse(pl, d, old) ELSE Store(pl, d, all)
      [] OTHER -> Store(pl, d, q)
Addstdproviders(pl, d) ==
    IF pl.afp = 2 \/ d \notin Files THEN Reuse(pl, d, 1)
    ELSE AddOwners(pl, d, Owners(pl, d), IF d \in DOMAIN pl.index.lazy THEN pl.index.lazy[d] ELSE 0)

(***************************************************************************)
(* Versions.  10 * v + r is version v, release r; release 0 is none.  deb  *)
(* compares versions as they are, rpm lets a missing release match any.    *)
(***************************************************************************)
Sign(a, b) == IF a < b THEN -1 ELSE IF a > b THEN 1 ELSE 0
DepCmp(deb, a, b) ==
    CASE deb \/ a \div 10 # b \div 10 -> Sign(a, b)
      [] ~deb /\ a \div 10 = b \div 10 /\ a % 10 = 0 /\ b % 10 # 0 -> -2
      [] ~deb /\ a \div 10 = b \div 10 /\ a % 10 # 0 /\ b % 10 = 0 -> 2
      [] OTHER -> Sign(a, b)
AnyVersion == {"lt", "eq", "gt"}
\* pool_match_flags_evr
MatchFlagsEvr(deb, pcmp, pevr, cmp, evr) ==
    CASE pcmp = {} \/ cmp = {} -> FALSE
      [] AnyVersion \in {pcmp, cmp} -> TRUE
      [] pcmp \cap cmp \cap {"lt", "gt"} # {} -> TRUE
      [] OTHER -> CASE DepCmp(deb, pevr, evr) = -2 -> "eq" \in pcmp
                    [] DepCmp(deb, pevr, evr) = -1 -> "lt" \in cmp \/ "gt" \in pcmp
                    [] DepCmp(deb, pevr, evr) = 0  -> "eq" \in pcmp \cap cmp
                    [] DepCmp(deb, pevr, evr) = 1  -> "gt" \in cmp \/ "lt" \in pcmp
                    [] DepCmp(deb, pevr, evr) = 2  -> "eq" \in cmp

\* pool_match_nevr, pool_match_nevr_rel: the package itself
NevrFlags(deb, evr, rd) ==
    CASE rd.evr = evr -> "eq" \in rd.cmp
      [] rd.evr # evr /\ rd.cmp \in {{}, AnyVersion} -> rd.cmp # {}
      [] OTHER -> CASE DepCmp(deb, evr, rd.evr) = -2 -> TRUE
                    [] DepCmp(deb, evr, rd.evr) = -1 -> "lt" \in rd.cmp
                    [] DepCmp(deb, evr, rd.evr) \in {0, 2} -> "eq" \in rd.cmp
                    [] DepCmp(deb, evr, rd.evr) = 1  -> "gt" \in rd.cmp
RECURSIVE MatchNevr(_, _, _)
MatchNevr(pl, s, d) ==
    IF ~IsReldep(d) THEN s.name = d
    ELSE LET rd == pl.rels[-d]
         IN  CASE rd.op = "arch" -> (s.arch = rd.evr \/ (rd.evr = Src /\ s.arch = NoSrc)) /\ MatchNevr(pl, s, rd.name)
               [] rd.op = "or" -> MatchNevr(pl, s, rd.name) \/ MatchNevr(pl, s, rd.evr)
               [] rd.op \in {"and", "with"} -> MatchNevr(pl, s, rd.name) /\ MatchNevr(pl, s, rd.evr)
               [] rd.op = "without" -> MatchNevr(pl, s, rd.name) /\ ~MatchNevr(pl, s, rd.evr)
               [] rd.op = "multiarch" -> rd.evr = AnyArch /\ MatchNevr(pl, s, rd.name)
               [] rd.op = "ver" -> MatchNevr(pl, s, rd.name) /\ NevrFlags(pl.deb, s.evr, rd)
               [] OTHER -> FALSE

(***************************************************************************)
(* pool_addrelproviders: the versions a package provides a name in, from   *)
(* aux if that says it, else from all its provides.                        *)
(***************************************************************************)
PidMatches(pl, pid, base, rd) ==
    IF ~IsReldep(pid) THEN pid = base /\ ~pl.deb
    ELSE LET prd == pl.rels[-pid]
         IN  prd.name = base /\ prd.op = "ver" /\ MatchFlagsEvr(pl.deb, prd.cmp, prd.evr, rd.cmp, rd.evr)
ProvidesMatches(pl, p, d, base, rd) ==
    LET s == pl.solv[p]
    IN  IF s.provides = <<>> \/ IsSrc(s) THEN MatchNevr(pl, s, d)
        ELSE \E i \in DOMAIN s.provides : PidMatches(pl, s.provides[i], base, rd)
AuxOf(pl, name, k) ==
    IF IsReldep(name) \/ pl.index.aux[name] = 0 THEN Multiple ELSE pl.index.auxdata[pl.index.aux[name] + k - 1]
VersionMatches(pl, k, p, d, rd, pid, base) ==
    IF pid \notin {0, Multiple} THEN PidMatches(pl, pid, base, rd) ELSE ProvidesMatches(pl, p, d, base, rd)
Versioned(pl, list, d, rd, base) ==
    LET ok == [k \in DOMAIN list |-> VersionMatches(pl, k, list[k], d, rd, AuxOf(pl, rd.name, k), base)]
        got == SelectSeq([k \in DOMAIN list |-> k], LAMBDA k : ok[k])
        sel == [k \in DOMAIN got |-> list[got[k]]]
    IN  IF sel = <<>> /\ base \in Rpmlib THEN <<System>> ELSE sel

\* filters of a list: the old list is used again if nothing is left out
FilterList(pl, d, o, list, sel) == IF Len(sel) = Len(list) THEN Reuse(pl, d, o) ELSE Store(pl, d, sel)
MergeSorted(a, b) ==
    LET m[i \in Nat, j \in Nat] ==
            CASE i > Len(a) -> SubSeq(b, j, Len(b))
              [] i <= Len(a) /\ j > Len(b) -> SubSeq(a, i, Len(a))
              [] i <= Len(a) /\ j <= Len(b) /\ a[i] < b[j] -> <<a[i]>> \o m[i + 1, j]
              [] OTHER -> <<b[j]>> \o m[IF a[i] = b[j] THEN i + 1 ELSE i, j + 1]
    IN  m[1, 1]
MergedList(pl, d, o, a, b) == FilterList(pl, d, o, a, MergeSorted(a, b))

\* pool_is_kind, a search through all solvables
IsKind(name, kind) == kind = 0 \/ KindOf[name] = kind
SrcMatches(pl, p, rd) == /\ pl.solv[p].arch \in {rd.evr, NoSrc} /\ p \notin pl.bad
                         /\ rd.name = 0 \/ MatchNevr(pl, pl.solv[p], rd.name)
AllOf(pl, rd) ==
    CASE rd.op = "arch" /\ rd.evr \in {Src, NoSrc} -> {p \in Solvables(pl) : SrcMatches(pl, p, rd)}
      [] rd.op = "arch" /\ rd.evr \notin {Src, NoSrc} -> {p \in Solvables(pl) : Indexed(pl, p) /\ pl.solv[p].arch = rd.evr}
      [] rd.op = "kind" -> {p \in Solvables(pl) : (RepoOf(pl, p) = pl.inst \/ Installable(pl, p)) /\ IsKind(pl.solv[p].name, rd.evr)}

ElseOf(pl, rd) ==
    IF rd.op \in {"and", "or"} THEN rd.evr
    ELSE IF IsReldep(rd.evr) /\ pl.rels[-rd.evr].op = "else" THEN pl.rels[-rd.evr].evr ELSE 0
NoNames(rd) == rd.name = 0 \/ (rd.op = "arch" /\ rd.evr \in {Src, NoSrc})

RECURSIVE Whatprovides(_, _)
Both(pl, rd) == Whatprovides(Whatprovides(pl, rd.name), rd.evr)
WithLists(pl, d, rd) ==
    FilterList(pl, d, Offset(pl, rd.name), ListOf(pl, rd.name),
               SelectSeq(ListOf(pl, rd.name), LAMBDA p : In(p, ListOf(pl, rd.evr)) = (rd.op = "with")))
OrMerge(pl, d, name, evr) == MergedList(pl, d, Offset(pl, name), ListOf(pl, name), ListOf(pl, evr))
OrLists(pl, d, name, evr) ==
    CASE ListOf(pl, name) = <<>> /\ evr = 0 -> Reuse(pl, d, 1)
      [] ListOf(pl, name) # <<>> /\ evr = 0 -> Reuse(pl, d, Offset(pl, name))
      [] ListOf(pl, name) = <<>> /\ evr # 0 -> LET q == Whatprovides(pl, evr) IN Reuse(q, d, Offset(q, evr))
      [] OTHER -> OrMerge(Whatprovides(pl, evr), d, name, evr)
SameOffset(pl, d, e) == Reuse(pl, d, Offset(pl, e))
NamedList(pl, d, rd) ==
    FilterList(pl, d, Offset(pl, rd.name), ListOf(pl, rd.name),
               SelectSeq(ListOf(pl, rd.name), LAMBDA p : IF rd.op = "arch" THEN pl.solv[p].arch = rd.evr
                                                         ELSE IsKind(pl.solv[p].name, rd.evr)))
FileConflictList(pl, d, rd) == Store(pl, d, SelectSeq(ListOf(pl, rd.name), LAMBDA p : In(d, pl.solv[p].provides)))
VersionedList(pl, d, rd) == Store(pl, d, Versioned(pl, ListOf(pl, rd.name), d, rd, NameOf(pl, rd.name)))

Addrelproviders(pl, d, rd) ==
    CASE rd.op \in {"with", "without"} -> WithLists(Both(pl, rd), d, rd)
      [] rd.op \in {"and", "or", "cond", "unless"} -> OrLists(Whatprovides(pl, rd.name), d, rd.name, ElseOf(pl, rd))
      [] rd.op = "ns" /\ rd.name = OtherProviders -> SameOffset(Whatprovides(pl, rd.evr), d, rd.evr)
      [] rd.op = "ns" /\ rd.name # OtherProviders -> Store(pl, d, pl.ns[-d])
      [] rd.op \in {"arch", "kind"} /\ NoNames(rd) -> Store(pl, d, Ascending(AllOf(pl, rd)))
      [] rd.op \in {"arch", "kind"} /\ ~NoNames(rd) -> NamedList(Whatprovides(pl, rd.name), d, rd)
      [] rd.op = "multiarch" /\ rd.evr = AnyArch -> SameOffset(Whatprovides(pl, rd.name), d, rd.name)
      [] rd.op = "fileconflict" -> FileConflictList(Whatprovides(pl, rd.name), d, rd)
      [] rd.op = "ver" /\ rd.cmp # {} -> VersionedList(Whatprovides(pl, rd.name), d, rd)
      [] OTHER -> Store(pl, d, <<>>)
Whatprovides(pl, d) ==
    IF Offset(pl, d) # 0 THEN pl
    ELSE IF IsReldep(d) THEN Addrelproviders(pl, d, pl.rels[-d]) ELSE Addstdproviders(pl, d)

(***************************************************************************)
(* A list changes: the ones made from it go.                               *)
(***************************************************************************)
ClearUsersBug(ix, rels, id) ==   \* mutant: only the relations that name the changed one are cleared
    [ix EXCEPT !.wprel = [r \in DOMAIN rels |-> IF rels[r].name = id \/ rels[r].evr = id THEN 0 ELSE ix.wprel[r]]]

ClearUsers(ix, rels, id) ==
    LET st == FoldLeft(LAMBDA s, r : IF rels[r].name \in s.ids \/ rels[r].evr \in s.ids
                                     THEN [ids |-> s.ids \cup {-r}, wprel |-> [s.wprel EXCEPT ![r] = 0]] ELSE s,
                       [ids |-> {id}, wprel |-> ix.wprel],
                       SelectSeq([r \in DOMAIN rels |-> r], LAMBDA r : ~IsReldep(id) \/ r > -id))
    IN  [ix EXCEPT !.wprel = st.wprel]
ClearAux(ix, d) == IF IsReldep(d) THEN ix ELSE [ix EXCEPT !.aux[d] = 0]
SetWhatprovides(pl, d, o) == [pl EXCEPT !.index = ClearUsers(ClearAux(SetOffset(@, d, o), d), pl.rels, d)]

FlushNamespaceproviders(pl, ns, evr) ==
    FoldLeft(LAMBDA q, r : IF /\ q.rels[r].op = "ns" /\ q.rels[r].name # OtherProviders
                              /\ ns \in {0, q.rels[r].name} /\ evr \in {0, q.rels[r].evr} /\ q.index.wprel[r] # 0
                           THEN [SetWhatprovides(q, -r, 0) EXCEPT !.set[r] = 0] ELSE q,
             pl, [r \in DOMAIN pl.rels |-> r])

InsertSorted(list, p) == SelectSeq(list, LAMBDA q : q < p) \o <<p>> \o SelectSeq(list, LAMBDA q : q > p)
AddNewProvider(pl, s, list, p) ==
    IF In(p, list) THEN pl
    ELSE LET put == Ids2whatprovides(pl.index, InsertSorted(list, p))
         IN  SetWhatprovides([pl EXCEPT !.index = put.ix], s, put.o)
\* pool_add_fileconflicts_deps for one conflict; the relation is there already
AddFileconflictsDep(pl0, p, q, d) ==
    LET pl == [pl0 EXCEPT !.solv[p].provides = AddFileId(@, d)]
        new == IF pl.index.built THEN AddNewProvider(pl, NameOf(pl, d), ListOf(pl, NameOf(pl, d)), p) ELSE pl
    IN  IF In(d, new.solv[q].deps) THEN new ELSE [new EXCEPT !.solv[q].deps = Append(@, d)]

(***************************************************************************)
(* The reference: who provides a dependency, straight from the solvables.  *)
(***************************************************************************)
ProvidersOfName(pl, s) ==
    {p \in IndexedPkgs(pl) : \E i \in DOMAIN pl.solv[p].provides : NameOf(pl, pl.solv[p].provides[i]) = s}
        \cup (IF s \in LazyFiles(pl) THEN {p \in Solvables(pl) : Indexed(pl, p) /\ s \in FilesOf(pl, p)} ELSE {})
RECURSIVE ProviderSet(_, _)
ProviderSet(pl, d) ==
    IF d = 0 THEN {}
    ELSE IF ~IsReldep(d) THEN ProvidersOfName(pl, d)
    ELSE LET rd == pl.rels[-d]
             base == NameOf(pl, rd.name)
         IN  CASE rd.op = "with" -> ProviderSet(pl, rd.name) \cap ProviderSet(pl, rd.evr)
               [] rd.op = "without" -> ProviderSet(pl, rd.name) \ ProviderSet(pl, rd.evr)
               [] rd.op \in {"and", "or", "cond", "unless"} -> ProviderSet(pl, rd.name) \cup ProviderSet(pl, ElseOf(pl, rd))
               [] rd.op = "ns" /\ rd.name = OtherProviders -> ProviderSet(pl, rd.evr)
               [] rd.op = "ns" /\ rd.name # OtherProviders ->
                    IF pl.set[-d] = 0 THEN ToSet(pl.ns[-d]) ELSE IF pl.set[-d] = 2 THEN {System} ELSE {}
               [] rd.op \in {"arch", "kind"} /\ NoNames(rd) -> AllOf(pl, rd)
               [] rd.op = "arch" /\ ~NoNames(rd) -> {p \in ProviderSet(pl, rd.name) : pl.solv[p].arch = rd.evr}
               [] rd.op = "kind" /\ ~NoNames(rd) -> {p \in ProviderSet(pl, rd.name) : IsKind(pl.solv[p].name, rd.evr)}
               [] rd.op = "multiarch" -> IF rd.evr = AnyArch THEN ProviderSet(pl, rd.name) ELSE {}
               [] rd.op = "fileconflict" -> {p \in ProviderSet(pl, rd.name) : In(d, pl.solv[p].provides)}
               [] rd.op = "ver" ->
                    LET S == {p \in ProviderSet(pl, rd.name) : rd.cmp # {} /\ ProvidesMatches(pl, p, d, base, rd)}
                    IN  IF S = {} /\ base \in Rpmlib /\ rd.cmp # {} THEN {System} ELSE S
               [] OTHER -> {}
=============================================================================
