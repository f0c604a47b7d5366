------------------------------ MODULE DataIter ------------------------------
(***************************************************************************)
(* The Dataiterator (dataiterator_step and its companions in repodata.c):  *)
(* one action per label of its state machine, so that the calls its user   *)
(* makes between two results can come anywhere.                            *)
(*                                                                         *)
(* di.frame is the position in a structure: a schema, the data cells and   *)
(* the number of the current key; di.up the frame the iterator has to come *)
(* back to (arrays of structures are one level deep here).  di.key is the  *)
(* current key, di.cell its data, di.entry the current entry.  A result is *)
(* added to out.                                                           *)
(***************************************************************************)
EXTENDS Overlay

CONSTANTS Worlds,    \* a sequence of pools
          Queries    \* [world, path, flags, match, repo, p, user]: a pool, a search and what its user does

VARIABLES pool,      \* [repos, owner, solv, pos]
          query, di, out, seen

iterVars == <<pool, query, di, out, seen>>

SolvableKeys == <<60, 61, 62>>        \* SOLVABLE_NAME ... RPM_RPMDBID; 61 stands for the arrays
SolvKeySet == {60, 61, 62}
Flag(f) == f \in query.flags

Frame(d, schema, cells) == [schema |-> Schema(d, schema), cells |-> cells, at |-> 1]
NoFrame == [schema |-> <<>>, cells |-> <<>>, at |-> 0]

\* dataiterator_init, _set_search and _jump_to_solvid; di.all: go on with the next repo
StartAt(q) ==
    [pc |-> "enterrepo", resume |-> "enterrepo",
     repo |-> IF q.p > 0 THEN q.pool.owner[q.p] ELSE IF q.p = -2 THEN q.pool.pos.repo ELSE IF q.repo = 0 THEN 1 ELSE q.repo,
     all |-> q.repo = 0 /\ q.p \notin (1..100) \cup {-2}, this |-> q.p # 0, p |-> q.p,
     rd |-> IF q.p = -2 THEN 0 ELSE 1, data |-> IF q.p = -2 THEN q.pool.pos.data ELSE 0,
     sk |-> 0, frame |-> NoFrame, up |-> <<>>, keyname |-> q.path[1], key |-> 0,
     cell |-> Leaf(<<>>), gen |-> 0, entry |-> 0, old |-> NoSkip, skip |-> [skip |-> NoSkip, on |-> FALSE]]

IterInit ==
    \E q \in Queries : query = q @@ [pool |-> Worlds[q.world]] /\ pool = query.pool /\ di = StartAt(query) /\ out = <<>> /\ seen = <<>>

Repo == pool.repos[di.repo]
Area == Repo.areas[di.data]
Key == Area.keys[di.frame.schema[di.frame.at]]
Level == Len(di.up)
KeynameAt(level) == IF level + 1 <= Len(query.path) THEN query.path[level + 1] ELSE 0
Above == Len(query.path) - 1 > Level      \* still on the way to the searched key

Go(pc) == di' = [di EXCEPT !.pc = pc]
Same == UNCHANGED <<pool, out>>
At(pc) == di.pc = pc /\ UNCHANGED <<query, seen>>

(***************************************************************************)
(* A result, if it matches.  Structures have no string: a match fails for  *)
(* them unless a key was asked for.                                        *)
(***************************************************************************)
Strings(v) == IF v.val = <<>> \/ v.struct THEN {} ELSE {v.val[Len(v.val)]}

Fits(v, keyname) ==
    \/ query.match = <<>>
    \/ query.match[2] \in Strings(v)
    \/ v.struct /\ keyname # 0

Emit(d, v, resume) ==
    IF Fits(v, d.keyname)
    THEN out' = Append(out, v) /\ di' = [d EXCEPT !.pc = "user", !.resume = resume]
    ELSE out' = out /\ di' = [d EXCEPT !.pc = resume]

Eof(n, l) == IF n = Len(l) THEN 1 ELSE 0
Result(p, path, val, struct, eof) == [p |-> p, path |-> path, val |-> val, struct |-> struct, eof |-> eof]
PathTo(d, name) == [k \in DOMAIN d.up |-> d.up[k].name] \o <<name>>

EnterRepo ==
    /\ At("enterrepo") /\ Same
    /\ IF pool.repos[di.repo].disabled /\ ~Flag("disabled") THEN Go("nextrepo")
       ELSE IF di.this THEN Go("entersolvable")
       ELSE di' = [di EXCEPT !.p = Repo.first - 1, !.pc = "nextsolvable"]

\* keys stored in the solvable itself are asked for, and no key below them
OfSolvable == di.p > 0 /\ ~Flag("nosolvable") /\ di.keyname \in {0} \cup SolvKeySet /\ Len(query.path) = 1

\* the data of the solvable itself comes first, then either the area of the key or all areas
EnterSolvable ==
    /\ At("entersolvable")
    /\ UNCHANGED out
    /\ \/ di.rd = 0 /\ Go("enterrepodata") /\ UNCHANGED pool
       \/ /\ di.rd # 0 /\ OfSolvable
          /\ di' = [di EXCEPT !.data = 0, !.pc = "entersolvablekey",
                              !.sk = IF di.keyname = 0 THEN 1 ELSE di.keyname - 59]
          /\ UNCHANGED pool
       \/ /\ di.rd # 0 /\ ~OfSolvable
          /\ IF di.keyname = 0 THEN Go("leavesolvablekey") /\ UNCHANGED pool
             ELSE \E st \in {IF di.keyname = FilelistKey THEN LookupFilelist(Repo, di.p, query.match)
                             ELSE LookupRepodataOpt(Repo, di.p, di.keyname)} :
                    /\ pool' = [pool EXCEPT !.repos[di.repo] = st.repo]
                    /\ di' = IF st.found = 0 THEN [di EXCEPT !.pc = "nextsolvable"]
                             ELSE [di EXCEPT !.data = st.found, !.rd = st.found, !.skip.on = FALSE, !.pc = "enterrepodata"]

LeaveSolvableKey ==
    /\ At("leavesolvablekey")
    /\ UNCHANGED out
    /\ \E c \in {CreateKeyskip(Repo, di.p, di.old)} :
         /\ pool' = [pool EXCEPT !.repos[di.repo] = c.repo]
         /\ di' = [di EXCEPT !.rd = 1, !.old = c.skip, !.skip = [skip |-> c.skip, on |-> c.on], !.pc = "enterrepodata"]

\* the entry of the solvable in the area: its schema and its data, or where pos points to
EntryFrame(d, r, data) ==
    IF d.p = -2 THEN <<Frame(r.areas[data], pool.pos.schema, pool.pos.cells)>>
    ELSE IF r.areas[data].loaded /\ Within(r.areas[data], d.p) /\ d.p \in DOMAIN r.areas[data].inc
         THEN <<Frame(r.areas[data], r.areas[data].inc[d.p].schema, r.areas[data].inc[d.p].cells)>>
         ELSE <<>>

IntoRepodata(data, r) ==
    /\ pool' = [pool EXCEPT !.repos[di.repo] = r]
    /\ di' = IF ~Ok(r, data) \/ (di.keyname # 0 /\ ~Precheck(Repo.areas[data], di.keyname)) \/ EntryFrame(di, r, data) = <<>>
             THEN [di EXCEPT !.data = data, !.pc = "nextrepodata"]
             ELSE [di EXCEPT !.data = data, !.frame = EntryFrame(di, r, data)[1], !.pc = "enterschema",
                             !.p = IF @ = -2 THEN pool.pos.p ELSE @]

EnterRepodata ==
    /\ At("enterrepodata")
    /\ UNCHANGED out
    /\ IF di.rd > Len(Repo.areas) THEN Go("nextsolvable") /\ UNCHANGED pool
       ELSE \E data \in {IF di.rd = 0 THEN di.data ELSE di.rd} : IntoRepodata(data, MaybeLoad(Repo, data, di.keyname))

FoundAt(keyname) ==       \* dataiterator_find_keyname
    LET i == SelectInSeq(di.frame.schema, LAMBDA k : Area.keys[k].name = keyname)
    IN  IF i = 0 \/ (i # 0 /\ Area.keys[di.frame.schema[i]].type = "deleted") THEN 0 ELSE i

EnterSchema ==
    /\ At("enterschema") /\ Same
    /\ IF di.keyname # 0
       THEN IF FoundAt(di.keyname) = 0 THEN Go(IF Level > 0 THEN "leavesub" ELSE "nextrepodata")
            ELSE di' = [di EXCEPT !.frame.at = FoundAt(di.keyname), !.pc = "enterkey"]
       ELSE IF di.frame.schema = <<>> THEN Go(IF Level > 0 THEN "leavesub" ELSE "nextrepodata")
            ELSE Go("enterkey")

\* a constant has its value in the key; vertical data is fetched, and lies there until the pages move
RawCell(key) ==
    IF key.type \in {"const", "constid"} THEN Leaf(<<<<key.size>>>>)
    ELSE IF key.type \in NoDataTypes THEN Leaf(<<<<0>>>>)
    ELSE di.frame.cells[CellIndex(Area, di.frame.schema, di.frame.at)]

EnterKey ==
    /\ At("enterkey") /\ UNCHANGED out
    /\ IF Skipped(di.skip, di.data, Key.name) \/ (Key.type = "deleted" /\ ~Flag("deleted"))
       THEN Go("nextkey") /\ UNCHANGED pool
       ELSE IF Key.type \in StructTypes
       THEN di' = [di EXCEPT !.key = Key, !.cell = RawCell(Key), !.pc = "enterarray"] /\ UNCHANGED pool
       ELSE IF Above THEN Go("nextkey") /\ UNCHANGED pool
       ELSE \E gen \in {Repo.gen + (IF Key.storage = "vertical" THEN 1 ELSE 0)} :
              /\ di' = [di EXCEPT !.key = Key, !.entry = 0, !.gen = gen, !.pc = "nextattr",
                                  !.cell = Leaf(GlobalEntries(Area, Key.type, GetData(Area, Key, RawCell(Key)).leaf))]
              /\ pool' = [pool EXCEPT !.repos[di.repo].gen = gen]

\* data that moved away while the user had control reads as something else
Garbage == <<99>>
DataHere(d) == d.key.storage # "vertical" \/ d.gen = Repo.gen

NextAttr ==
    /\ At("nextattr")
    /\ UNCHANGED pool
    /\ \E n \in {di.entry + 1} :
         Emit([di EXCEPT !.entry = n],
              Result(di.p, PathTo(di, di.key.name), IF DataHere(di) THEN di.cell.leaf[n] ELSE Garbage, FALSE, Eof(n, di.cell.leaf)),
              IF n = Len(di.cell.leaf) THEN "nextkey" ELSE "nextattr")

\* Behind a key of the solvable keyp is NULL or left over (the last area's): reading through it
\* crashes, or finds a key of no area, which crashes as well, or the end of a schema.
KeypLeftOver == IF di.frame = NoFrame THEN {"crash"} ELSE {"crash", "nextrepodata"}

NextKey ==
    /\ At("nextkey") /\ Same
    /\ IF di.keyname = 0 /\ di.data = 0 THEN \E pc \in KeypLeftOver : Go(pc)
       ELSE IF di.keyname = 0 /\ di.frame.at < Len(di.frame.schema)
       THEN di' = [di EXCEPT !.frame.at = @ + 1, !.pc = "enterkey"]
       ELSE Go(IF Level > 0 THEN "leavesub" ELSE "nextrepodata")

NextRepodata ==
    /\ At("nextrepodata") /\ Same
    /\ IF di.keyname = 0 /\ di.rd # 0 /\ di.rd < Len(Repo.areas)
       THEN di' = [di EXCEPT !.rd = @ + 1, !.pc = "enterrepodata"]
       ELSE Go("nextsolvable")

Later(p) == {s \in Repo.first..Repo.last : s > p /\ pool.owner[s] = di.repo}

NextSolvable ==
    /\ At("nextsolvable") /\ Same
    /\ IF di.this \/ Later(di.p) = {} THEN Go("nextrepo")
       ELSE di' = [di EXCEPT !.p = CHOOSE s \in Later(di.p) : \A t \in Later(di.p) : s <= t, !.pc = "entersolvable"]

NextRepo ==
    /\ At("nextrepo") /\ Same
    /\ IF di.all /\ di.repo < Len(pool.repos)
       THEN di' = [di EXCEPT !.repo = @ + 1, !.rd = 1, !.pc = "enterrepo"]
       ELSE Go("bye")

EnterArray ==
    /\ At("enterarray") /\ Same
    /\ IF di.key.name = SolvablesKey THEN Go("nextkey")
       ELSE di' = [di EXCEPT !.entry = 0, !.pc = "nextarrayelement"]

NextArrayElement ==
    /\ At("nextarrayelement")
    /\ UNCHANGED pool
    /\ \E n \in {di.entry + 1} :
         IF n > Len(di.cell.subs)
         THEN IF Above \/ ~Flag("sentinel") THEN di' = [di EXCEPT !.entry = n, !.pc = "nextkey"] /\ UNCHANGED out
              ELSE Emit([di EXCEPT !.entry = n], Result(di.p, PathTo(di, di.key.name), <<n - 1>>, TRUE, 2), "nextkey")
         ELSE IF Above THEN di' = [di EXCEPT !.entry = n, !.pc = "entersub"] /\ UNCHANGED out
         ELSE Emit([di EXCEPT !.entry = n],
                   Result(di.p, PathTo(di, di.key.name), <<n - 1>>, TRUE, Eof(n, di.cell.subs)),
                   IF Flag("sub") THEN "entersub" ELSE "nextarrayelement")

EnterSub ==
    /\ At("entersub") /\ Same
    /\ di' = [di EXCEPT !.up = <<[frame |-> di.frame, entry |-> di.entry, cell |-> di.cell, key |-> di.key, name |-> di.key.name]>>,
                        !.frame = [schema |-> Schema(Area, di.cell.subs[di.entry][1]), at |-> 1,
                                   cells |-> [k \in DOMAIN di.cell.subs[di.entry][2] |-> Leaf(di.cell.subs[di.entry][2][k])]],
                        !.keyname = KeynameAt(1), !.pc = "enterschema"]

LeaveSub ==
    /\ At("leavesub") /\ Same
    /\ di' = [di EXCEPT !.up = <<>>, !.frame = di.up[1].frame, !.entry = di.up[1].entry, !.cell = di.up[1].cell,
                        !.key = di.up[1].key, !.keyname = KeynameAt(0), !.pc = "nextarrayelement"]

(***************************************************************************)
(* The keys that are stored in the solvable itself (solvabledata_fetch).   *)
(***************************************************************************)
SolvData(p, n) == pool.solv[p][SolvableKeys[n]]

EnterSolvableKey ==
    /\ At("entersolvablekey") /\ Same
    /\ IF SolvData(di.p, di.sk) = <<>> THEN Go("nextsolvablekey")
       ELSE di' = [di EXCEPT !.entry = 0, !.pc = "nextsolvableattr"]

NextSolvableAttr ==
    /\ At("nextsolvableattr")
    /\ UNCHANGED pool
    /\ \E n \in {di.entry + 1} :
         Emit([di EXCEPT !.entry = n],
              Result(di.p, <<SolvableKeys[di.sk]>>, <<SolvData(di.p, di.sk)[n]>>, FALSE, Eof(n, SolvData(di.p, di.sk))),
              IF n = Len(SolvData(di.p, di.sk)) THEN "nextsolvablekey" ELSE "nextsolvableattr")

NextSolvableKey ==
    /\ At("nextsolvablekey") /\ Same
    /\ IF di.keyname # 0 THEN Go("nextsolvable")
       ELSE IF di.sk = Len(SolvableKeys) THEN Go("leavesolvablekey")
       ELSE di' = [di EXCEPT !.sk = @ + 1, !.pc = "entersolvablekey"]

(***************************************************************************)
(* The user between two results: the next dataiterator_step first fetches  *)
(* vertical data again if the pages have moved.  A lookup moves pages and  *)
(* loads stubs.                                                            *)
(***************************************************************************)
RefetchBug(d) == [d EXCEPT !.pc = d.resume]   \* mutant: the old pointer is used
Refetch(d) ==
    [d EXCEPT !.pc = d.resume,
              !.gen = IF d.resume = "nextattr" /\ d.key.storage = "vertical" /\ @ # Repo.gen THEN Repo.gen ELSE @]

\* What the user of this search does with a result.  "skiprest" skips an attribute only when more of it
\* is to come, "skipattr" always, which a key 0 allows only without the keys of the solvable.
UserMove(d) ==
    CASE query.user = "enter" /\ d.resume = "nextarrayelement" -> [d EXCEPT !.resume = "entersub"]   \* dataiterator_entersub
      [] query.user = "skipattr" \/ (query.user = "skiprest" /\ Last(out).eof = 0) ->   \* dataiterator_skip_attribute
           [d EXCEPT !.resume = IF @ = "nextsolvableattr" THEN "nextsolvablekey" ELSE "nextkey"]
      [] query.user = "skipsolvable" ->                                                \* dataiterator_skip_solvable
           [d EXCEPT !.resume = "nextsolvable", !.up = <<>>, !.keyname = KeynameAt(0)]
      [] query.user = "skiprepo" ->                                                    \* dataiterator_skip_repo
           [d EXCEPT !.resume = "nextrepo", !.up = <<>>, !.keyname = KeynameAt(0)]
      [] query.user = "final" -> [d EXCEPT !.this = TRUE, !.all = FALSE]               \* dataiterator_final_solvable
      [] OTHER -> d

Step == di.pc = "user" /\ di' = Refetch(UserMove(di)) /\ UNCHANGED <<pool, query, out, seen>>

MayLook == di.pc = "user" /\ Len(out) = 2 /\ seen = <<>>

Look(i, p, name) ==
    /\ MayLook
    /\ \E st \in {LookupValue(pool.repos[i], p, name)} :
         /\ pool' = [pool EXCEPT !.repos[i] = [st.repo EXCEPT !.gen = @ + 1]]
         /\ seen' = <<i, p, name, st.value>>
    /\ UNCHANGED <<query, di, out>>

LookHandles(i) == {Meta} \cup {s \in DOMAIN pool.owner : pool.owner[s] = i}
LookNames(i) == UNION {{pool.repos[i].areas[a].keys[k].name : k \in DOMAIN pool.repos[i].areas[a].keys} : a \in DOMAIN pool.repos[i].areas}

IterNext ==
    \/ EnterRepo \/ EnterSolvable \/ LeaveSolvableKey \/ EnterRepodata \/ EnterSchema \/ EnterKey \/ NextAttr \/ NextKey
    \/ NextRepodata \/ NextSolvable \/ NextRepo \/ EnterArray \/ NextArrayElement \/ EnterSub \/ LeaveSub
    \/ EnterSolvableKey \/ NextSolvableAttr \/ NextSolvableKey
    \/ Step
    \/ \E i \in DOMAIN pool.repos : \E p \in LookHandles(i), name \in LookNames(i) \ {SolvablesKey} : Look(i, p, name)

(***************************************************************************)
(* repo_search: the same search with a callback.  It walks the solvable,   *)
(* then the area of the key or all areas with the same keyskip table, but  *)
(* structures are searched without it (SEARCH_SUBSCHEMA).                  *)
(***************************************************************************)
Wanted(d, s, keyname) == {k \in DOMAIN s : keyname = 0 \/ d.keys[s[k]].name = keyname}

LeafHits(d, p, path, key, cell) ==
    LET c == GetData(d, key, cell)
        e == GlobalEntries(d, key.type, c.leaf)
    IN  {Result(p, path, e[n], FALSE, Eof(n, e)) : n \in DOMAIN e}

CellOf(d, s, cells, k) ==
    LET key == d.keys[s[k]]
    IN  IF key.type \in {"const", "constid"} THEN Leaf(<<<<key.size>>>>)
        ELSE IF key.type \in NoDataTypes THEN Leaf(<<<<0>>>>)
        ELSE cells[CellIndex(d, s, k)]

SubHits(d, p, name, sub) ==
    LET s == Schema(d, sub[1])
        cells == [k \in DOMAIN sub[2] |-> Leaf(sub[2][k])]
    IN  UNION {LeafHits(d, p, <<name, d.keys[s[k]].name>>, d.keys[s[k]], CellOf(d, s, cells, k)) : k \in DOMAIN s}

\* repodata_search_array
ArrayHits(d, p, key, subs, flags) ==
    UNION {{Result(p, <<key.name>>, <<n - 1>>, TRUE, Eof(n, subs))}
           \cup (IF "sub" \in flags THEN SubHits(d, p, key.name, subs[n]) ELSE {}) : n \in DOMAIN subs}
    \cup (IF "sentinel" \in flags THEN {Result(p, <<key.name>>, <<Len(subs)>>, TRUE, 2)} ELSE {})

KeyHitsIn(d, p, s, cells, k, flags) ==
    LET key == d.keys[s[k]]
    IN  IF key.type \in StructTypes THEN ArrayHits(d, p, key, cells[CellIndex(d, s, k)].subs, flags)
        ELSE LeafHits(d, p, <<key.name>>, key, CellOf(d, s, cells, k))

\* repodata_search_keyskip
AreaHits(r, i, p, keyname, flags, skip) ==
    LET d == r.areas[i]
        s == OldSchema(d, p)
    IN  IF ~Ok(r, i) \/ ~Within(d, p) \/ p \notin DOMAIN d.inc THEN {}
        ELSE UNION {KeyHitsIn(d, p, s, d.inc[p].cells, k, flags) :
                    k \in {k \in Wanted(d, s, keyname) :
                             /\ ~Skipped(skip, i, d.keys[s[k]].name)
                             /\ d.keys[s[k]].name # SolvablesKey
                             /\ d.keys[s[k]].type = "deleted" => "deleted" \in flags}}

SolvHits(po, p, keyname) ==
    UNION {{Result(p, <<n>>, <<po.solv[p][n][k]>>, FALSE, Eof(k, po.solv[p][n])) : k \in DOMAIN po.solv[p][n]} :
           n \in {n \in SolvKeySet : keyname \in {0, n}}}

AllAreaHitsBug(c, p, flags) ==   \* mutant: the keyskip table is not handed on
    UNION {AreaHits(c.repo, i, p, 0, flags, [c EXCEPT !.on = FALSE]) : i \in DOMAIN c.repo.areas}

AllAreaHits(c, p, flags) == UNION {AreaHits(c.repo, i, p, 0, flags, c) : i \in DOMAIN c.repo.areas}
OneAreaHits(st, p, keyname, flags) ==
    IF st.found = 0 THEN {} ELSE AreaHits(st.repo, st.found, p, keyname, flags, [skip |-> NoSkip, on |-> FALSE])

\* repo_search_md for one solvable or the repository itself
SearchMd(po, i, p, keyname, flags) ==
    (IF p > 0 /\ "nosolvable" \notin flags THEN SolvHits(po, p, keyname) ELSE {}) \cup
    (IF p > 0 /\ "nosolvable" \notin flags /\ keyname \in SolvKeySet THEN {}
     ELSE IF keyname = 0 THEN AllAreaHits(CreateKeyskip(po.repos[i], p, NoSkip), p, flags)
     ELSE OneAreaHits(AfterLoad(LookupRepodataOpt(po.repos[i], p, keyname), keyname), p, keyname, flags))

RepoSearch(po, i, p, keyname, flags) ==
    IF po.repos[i].disabled /\ "disabled" \notin flags THEN {}
    ELSE UNION {SearchMd(po, i, s, keyname, flags) :
                s \in IF p = 0 THEN {s \in DOMAIN po.owner : po.owner[s] = i} ELSE {p}}

IterSpec == IterInit /\ [][IterNext]_iterVars

(***************************************************************************)
(* What a search has to give: every repository as it is once its stubs are *)
(* loaded, and for every key the latest area that knows it.                *)
(***************************************************************************)
Full(r) == [k \in DOMAIN r.areas |-> IF r.areas[k].state = "stub" THEN r.file[k] ELSE r.areas[k]]

Knows(d, p, name) ==
    /\ d.state = "available" /\ d.loaded /\ Within(d, p) /\ p \in DOMAIN d.inc
    /\ \E k \in DOMAIN OldSchema(d, p) : d.keys[OldSchema(d, p)[k]].name = name
Winner(as, p, name) ==
    LET ks == {i \in DOMAIN as : Knows(as[i], p, name)}
    IN  IF ks = {} THEN 0 ELSE CHOOSE i \in ks : \A j \in ks : j <= i

Matching(q, rs, keyname) ==
    SelectSeq(rs, LAMBDA v : q.match = <<>> \/ q.match[2] \in Strings(v) \/ (v.struct /\ keyname # 0))

RECURSIVE Structure(_, _, _, _, _, _, _)
KeyResults(q, d, p, s, cells, k, up) ==
    LET key == d.keys[s[k]]
        path == Append(up, key.name)
        level == Len(up)
        below == q.user \notin {"skipattr", "skiprest"} /\ (q.user = "enter" \/ "sub" \in q.flags)
        cell == CellOf(d, s, cells, k)
        c == GetData(d, key, cell)
        e == GlobalEntries(d, key.type, c.leaf)
        here == level >= Len(q.path) - 1
        keyname == IF level < Len(q.path) THEN q.path[level + 1] ELSE 0
    IN  IF key.type \notin StructTypes
        THEN IF here THEN Matching(q, [n \in DOMAIN e |-> Result(p, path, e[n], FALSE, Eof(n, e))], keyname) ELSE <<>>
        ELSE FlattenSeq([n \in DOMAIN c.subs |->
                 Matching(q, IF here THEN <<Result(p, path, <<n - 1>>, TRUE, Eof(n, c.subs))>> ELSE <<>>, keyname)
                 \o (IF ~here \/ below THEN Structure(q, d, p, Schema(d, c.subs[n][1]),
                                                       [j \in DOMAIN c.subs[n][2] |-> Leaf(c.subs[n][2][j])], path, {}) ELSE <<>>)])
             \o Matching(q, IF here /\ "sentinel" \in q.flags THEN <<Result(p, path, <<Len(c.subs)>>, TRUE, 2)>> ELSE <<>>, keyname)

\* hidden: names another area shows
Structure(q, d, p, s, cells, up, hidden) ==
    LET keyname == IF Len(up) < Len(q.path) THEN q.path[Len(up) + 1] ELSE 0
        show(k) == /\ keyname \in {0, d.keys[s[k]].name} /\ d.keys[s[k]].name \notin hidden \cup {SolvablesKey}
                   /\ d.keys[s[k]].type = "deleted" => keyname = 0 /\ "deleted" \in q.flags
    IN  FlattenSeq([k \in DOMAIN s |-> IF show(k) THEN KeyResults(q, d, p, s, cells, k, up) ELSE <<>>])

SolvResults(q, p) ==
    IF p <= 0 \/ "nosolvable" \in q.flags \/ Len(q.path) > 1 THEN <<>>
    ELSE FlattenSeq([n \in 1..3 |->
             LET v == q.pool.solv[p][SolvableKeys[n]]
             IN  IF q.path[1] \in {0, SolvableKeys[n]}
                 THEN Matching(q, [k \in DOMAIN v |-> Result(p, <<SolvableKeys[n]>>, <<v[k]>>, FALSE, Eof(k, v))], 0) ELSE <<>>])

AreaNames(d) == {d.keys[k].name : k \in DOMAIN d.keys}
AreaResults(q, as, p) ==
    FlattenSeq([i \in DOMAIN as |->
        IF as[i].state # "available" \/ ~as[i].loaded \/ ~Within(as[i], p) \/ p \notin DOMAIN as[i].inc THEN <<>>
        ELSE Structure(q, as[i], p, OldSchema(as[i], p), as[i].inc[p].cells, <<>>,
                       {n \in AreaNames(as[i]) : Winner(as, p, n) # i})])

EntryResults(q, i, p) ==
    SolvResults(q, p) \o (IF p > 0 /\ "nosolvable" \notin q.flags /\ q.path[1] \in SolvKeySet /\ Len(q.path) = 1 THEN <<>>
                          ELSE AreaResults(q, Full(q.pool.repos[i]), p))

Owned(q, i) == LET S == {s \in DOMAIN q.pool.owner : q.pool.owner[s] = i} IN SetToSortSeq(S, LAMBDA x, y : x < y)

RepoResults(q, i) ==
    IF q.pool.repos[i].disabled /\ "disabled" \notin q.flags THEN <<>>
    ELSE IF q.p # 0 THEN EntryResults(q, i, q.p)
    ELSE FlattenSeq([k \in DOMAIN Owned(q, i) |-> EntryResults(q, i, Owned(q, i)[k])])

AllResults(q) ==
    IF q.p = -2 THEN Structure(q, q.pool.repos[q.pool.pos.repo].areas[q.pool.pos.data], q.pool.pos.p,
                               Schema(q.pool.repos[q.pool.pos.repo].areas[q.pool.pos.data], q.pool.pos.schema), q.pool.pos.cells, <<>>, {})
    ELSE IF q.p > 0 THEN RepoResults(q, q.pool.owner[q.p])
    ELSE IF q.repo # 0 THEN RepoResults(q, q.repo)
    ELSE FlattenSeq([i \in DOMAIN q.pool.repos |-> RepoResults(q, i)])

\* the results the user lets pass
Firsts(rs, of(_)) == SelectSeq([k \in DOMAIN rs |-> <<k, rs[k]>>],
                               LAMBDA x : \A j \in 1..(x[1] - 1) : of(rs[j]) # of(x[2]))
Expected(q) ==
    LET rs == AllResults(q)
        second(xs) == [k \in DOMAIN xs |-> xs[k][2]]
    IN  CASE q.user \in {"skipattr", "skiprest"} -> second(Firsts(rs, LAMBDA v : <<v.p, v.path>>))
          [] q.user = "skipsolvable" -> second(Firsts(rs, LAMBDA v : v.p))
          [] q.user = "skiprepo"     -> second(Firsts(rs, LAMBDA v : IF v.p > 0 THEN q.pool.owner[v.p] ELSE 0))
          [] q.user = "final"        -> SelectSeq(rs, LAMBDA v : v.p = rs[1].p)
          [] OTHER                   -> rs

\* The iterator gives exactly the results that the areas of the repositories contain, each once, in order,
\* whichever stubs were loaded and whichever pages moved while its user looked at the results before.
IteratorExact ==
    /\ IsPrefix(out, Expected(query))
    /\ di.pc # "crash"
    /\ di.pc = "bye" => out = Expected(query)
    /\ seen # <<>> => seen[4] = LET as == Full(query.pool.repos[seen[1]])
                                   w == Winner(as, seen[2], seen[3])
                               IN  IF w = 0 THEN NoValue ELSE Visible(Value(as[w], seen[2], seen[3]))

\* The iterator and repo_search find the same: "Iterator like interface to 'search' functionality".
SameAsSearch ==
    di.pc = "bye" /\ query.user = "none" /\ query.match = <<>> /\ Len(query.path) = 1 /\ query.p >= -1 /\ query.repo # 0 =>
        {out[k] : k \in DOMAIN out} = RepoSearch(query.pool, query.repo, query.p, query.path[1], query.flags)
=============================================================================
