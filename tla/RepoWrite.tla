----------------------------- MODULE RepoWrite -----------------------------
(***************************************************************************)
(* Writing a repository to a solv file (repo_write.c): choose and unify    *)
(* the keys, choose a string pool and a directory pool, collect schemata   *)
(* and use counts, renumber by use, encode.                                *)
(*                                                                         *)
(* A pool is [ss, rels, solv]: ss[id] is the content of a string, rels the *)
(* relations <<name, evr, flags>>, whose ids are RelBase + index, and      *)
(* solv[p] the fields of a solvable.  The content of a string is a number; *)
(* in an area with its own strings, spool[id] is the content.  Content 1   *)
(* is the empty string, 2..99 are fixed ids in every pool.  A file is a    *)
(* record; its data is a sequence of tokens <<value, eof>>, one per number *)
(* or string, and its strings are not compressed.                          *)
(***************************************************************************)
EXTENDS Overlay

RelBase == 1000
IsRel(id) == id > RelBase

NameKey == 60                          \* SOLVABLE_NAME, for the keys of type id
ProvidesKey == 61
RequiresKey == 62
SolvableNames == <<NameKey, ProvidesKey, RequiresKey>>
ExternalKey == 91                      \* REPOSITORY_EXTERNAL
FilteredKey == 92                      \* REPOSITORY_FILTEREDFILELIST
FileMarker == 50
PrereqMarker == 51
MarkerOf(name) == IF name = ProvidesKey THEN FileMarker ELSE IF name = RequiresKey THEN PrereqMarker ELSE 0
Types == <<"void", "const", "constid", "id", "num", "dirstr", "idarray", "relarray", "fix", "flex", "deleted">>
TypeId(type) == 69 + SelectInSeq(Types, LAMBDA t : t = type)

Bump(need, id, by) == IF id \in DOMAIN need THEN [need EXCEPT ![id] = @ + by] ELSE Put(need, id, by)
NeedOf(need, id) == IF id \in DOMAIN need THEN need[id] ELSE 0

\* stringpool_str2id by content
StrId(ss, c) == SelectInSeq(ss, LAMBDA x : x = c)
WithStr(ss, c) == IF StrId(ss, c) = 0 THEN Append(ss, c) ELSE ss

(***************************************************************************)
(* Keys.  opts = [filter, flags, from, to]: filter[name] is the storage    *)
(* that the keyfilter returns, from..to the areas to write.                *)
(***************************************************************************)
StorageFor(opts, name) == IF name \in DOMAIN opts.filter THEN opts.filter[name] ELSE "incore"

NewWriter(pool, repo, opts) ==
    [pool |-> pool, repo |-> repo, opts |-> opts, keys |-> <<>>, schemata |-> <<>>, solvmap |-> [n \in {NameKey, ProvidesKey, RequiresKey, SolvablesKey} |-> 0],
     keymap |-> [i \in DOMAIN repo.areas |-> <<>>], used |-> {}, usage |-> 0, clone |-> FALSE, dirusage |-> 0, strarea |-> 0, dirarea |-> 0,
     ss |-> <<>>, need |-> <<>>, owndirs |-> <<>>, dirused |-> <<>>, cache |-> <<>>, lastdir |-> <<0, 0>>, skip |-> NoSkip,
     subs |-> <<>>, sp |-> <<>>, main |-> <<>>, solvschemata |-> <<>>, listmode |-> 0,
     nstr |-> 0, order |-> <<>>, num |-> <<>>, dirmap |-> <<>>, data |-> <<>>, vert |-> <<>>, cur |-> 0, max |-> 0, last |-> 0]

AddTargetKey(w, key) == [w EXCEPT !.keys = Append(@, key)]

\* keys of the fields of a solvable, kept outside of the areas
AddSolvableKey(w, name) ==
    IF "nosolvable" \in w.opts.flags \/ StorageFor(w.opts, name) = "dropped" THEN w
    ELSE [AddTargetKey(w, [name |-> name, type |-> IF name = NameKey THEN "id" ELSE "relarray", size |-> 0, storage |-> "solvable"])
          EXCEPT !.usage = 1, !.clone = TRUE, !.solvmap[name] = Len(w.keys) + 1]

AddSolvablesKey(w) ==
    IF w.repo.own = {} THEN w
    ELSE [AddTargetKey(w, KeyRec(SolvablesKey, "flex", 0)) EXCEPT !.solvmap[SolvablesKey] = Len(w.keys) + 1]

StartKeys(w) == AddSolvablesKey(FoldLeft(AddSolvableKey, w, SolvableNames))

\* repodata_globalize_id: a string of the area as a string of the pool
Globalized(w, d, key) == IF key.type = "constid" /\ d.local THEN [w EXCEPT !.pool.ss = WithStr(@, d.spool[key.size])] ELSE w
PoolId(w, d, id) == IF d.local THEN StrId(w.pool.ss, d.spool[id]) ELSE id

\* the key as the target sees it: constant ids are pool ids, the storage comes from the filter
TargetKey(w, d, key) ==
    [name |-> key.name, type |-> key.type, storage |-> StorageFor(w.opts, key.name),
     size |-> IF key.type = "constid" THEN PoolId(w, d, key.size) ELSE IF key.type = "const" THEN key.size ELSE 0]

SkippedKey(w, key) == key.type = "deleted" /\ "keepdeleted" \notin w.opts.flags
KnownKey(w, key) == KeyId(w, key)

\* one key of an area that is in memory; the key that stands for the solvables is common
MapKey(w, i, k) ==
    LET d == w.repo.areas[i]
        key == TargetKey(w, d, d.keys[k])
        known == KnownKey(w, key)
        unusable == d.state # "available"
        dropped == SkippedKey(w, key) \/ (known = 0 /\ key.storage = "dropped")
        put == IF known # 0 \/ dropped THEN w ELSE AddTargetKey(w, key)
        id == IF dropped \/ unusable THEN 0 ELSE KnownKey(put, key)
    IN  IF key.name = SolvablesKey /\ key.type = "flex"
        THEN [w EXCEPT !.keymap[i] = Append(@, w.solvmap[SolvablesKey])]
        ELSE [put EXCEPT !.keymap[i] = Append(@, id), !.used = IF id # 0 THEN @ \cup {i} ELSE @]

\* a stub is loaded as soon as one of its keys is wanted
WantsStub(w, i) ==
    \E k \in DOMAIN w.repo.areas[i].keys :
        LET key == TargetKey(w, w.repo.areas[i], w.repo.areas[i].keys[k])
        IN  ~(key.name = SolvablesKey /\ key.type = "flex") /\ ~SkippedKey(w, key) /\ (KnownKey(w, key) # 0 \/ key.storage # "dropped")
LoadArea(w, i) == IF w.repo.areas[i].state = "stub" /\ WantsStub(w, i) THEN [w EXCEPT !.repo = Load(@, i)] ELSE w

MapKeys(w, i) == FoldLeft(LAMBDA v, k : MapKey(Globalized(v, v.repo.areas[i], v.repo.areas[i].keys[k]), i, k), w, [k \in DOMAIN w.repo.areas[i].keys |-> k])

(***************************************************************************)
(* The pools: usage 0 no strings, 1 the strings of the pool, 2 those of    *)
(* one area, 3 an own pool; dirusage likewise, without 1.                  *)
(***************************************************************************)
MappedTypes(w, i) == {w.repo.areas[i].keys[k].type : k \in {k \in DOMAIN w.keymap[i] : w.keymap[i][k] # 0 /\ w.repo.areas[i].keys[k].name # SolvablesKey}}
UsesDirs(w, i) == "dirstr" \in MappedTypes(w, i)
UsesIds(w, i) == UsesDirs(w, i) \/ MappedTypes(w, i) \cap {"id", "idarray", "constid"} # {}

NoteStrings(w, i) ==
    IF ~UsesIds(w, i) THEN w
    ELSE IF w.repo.areas[i].local
         THEN IF w.usage # 0 THEN [w EXCEPT !.usage = 3] ELSE [w EXCEPT !.usage = 2, !.strarea = i]
         ELSE [w EXCEPT !.usage = IF @ <= 1 THEN 1 ELSE 3]
NoteDirs(w, i) ==
    IF ~UsesDirs(w, i) THEN w
    ELSE IF w.dirusage # 0 THEN [w EXCEPT !.dirusage = 3] ELSE [w EXCEPT !.dirusage = 2, !.dirarea = i]

TakeArea(w, i) == NoteDirs(NoteStrings(MapKeys(LoadArea(w, i), i), i), i)

ChoosePools(w) ==
    LET usage == IF w.usage = 0 THEN 1 ELSE w.usage
    IN  [w EXCEPT !.usage = usage, !.clone = @ /\ usage = 3,
                  !.ss = CASE usage = 1 -> w.pool.ss
                           [] usage = 2 -> w.repo.areas[w.strarea].spool
                           [] usage = 3 -> IF w.clone THEN w.pool.ss ELSE <<1>>]

(***************************************************************************)
(* Ids and directories while collecting.  Strings of the pool keep their   *)
(* id in a cloned pool.  diridcache remembers translated directories of    *)
(* several areas, lastdir only of the area at hand.                        *)
(***************************************************************************)
NeedsOwn(w, d, id) == w.usage = 3 /\ ~IsRel(id) /\ id > 1 /\ (~w.clone \/ d.local)
TextOf(w, d, id) == IF d.local THEN d.spool[id] ELSE w.pool.ss[id]
PutId(w, d, id) == IF NeedsOwn(w, d, id) THEN [w EXCEPT !.ss = WithStr(@, TextOf(w, d, id))] ELSE w
OwnId(w, d, id) == IF NeedsOwn(w, d, id) THEN StrId(w.ss, TextOf(w, d, id)) ELSE id
NeedIn(w, d, id) == [w EXCEPT !.need = Bump(@, OwnId(w, d, id), 1)]
NeedId(w, d, id) == NeedIn(PutId(w, d, id), d, id)

DirCacheSize == 2
Cached(w, i, dir) ==
    /\ (dir % DirCacheSize) \in DOMAIN w.cache
    /\ w.cache[dir % DirCacheSize][1] = dir /\ w.cache[dir % DirCacheSize][2] = i
CachedId(w, dir) == w.cache[dir % DirCacheSize][3]
CacheDir(w, i, dir, id) == [w EXCEPT !.cache = Put(@, dir % DirCacheSize, <<dir, i, id>>)]

AddOwnDir(w, i, dir, parent) ==
    LET d == w.repo.areas[i]
        comp == DirAt(d.dirs, dir)
        v == IF comp > 1 THEN PutId(w, d, comp) ELSE w
        r == AddDir(v.owndirs, parent, IF comp > 1 THEN OwnId(v, d, comp) ELSE comp)
    IN  CacheDir([v EXCEPT !.owndirs = r.dirs], i, dir, r.id)

\* putinowndirpool_slow: parents first, down from the nearest one that is cached
Ancestors(dirs, dir) == LET up[n \in 0..Len(dirs)] == IF n = 0 THEN <<>> ELSE Append(up[Parent(dirs, n)], n) IN up[dir]
KnownAncestor(w, i, chain) ==
    LET known == {n \in 1..(Len(chain) - 1) : Cached(w, i, chain[n])} IN IF known = {} THEN 0 ELSE Max(known)
PutChain(w, i, chain) ==
    FoldLeft(LAMBDA v, n : AddOwnDir(v, i, chain[n], IF n = 1 THEN 0 ELSE CachedId(v, chain[n - 1])),
             w, [n \in 1..(Len(chain) - KnownAncestor(w, i, chain)) |-> n + KnownAncestor(w, i, chain)])
NoteLast(w, dir) == [w EXCEPT !.lastdir = <<dir, CachedId(w, dir)>>]

\* putinowndirpool; DirOf is the directory in the own pool afterwards
PutDir(w, i, dir) ==
    IF dir = 0 THEN [w EXCEPT !.owndirs = IF @ = <<>> THEN FreshDirs ELSE @, !.lastdir = <<0, 0>>]
    ELSE IF w.lastdir[1] = dir \/ Cached(w, i, dir) THEN w
    ELSE NoteLast(PutChain(w, i, Ancestors(w.repo.areas[i].dirs, dir)), dir)
DirOf(w, dir) == IF dir = 0 THEN 0 ELSE IF w.lastdir[1] = dir THEN w.lastdir[2] ELSE CachedId(w, dir)

NeedDir(w, i, dir) == IF w.dirusage = 3 THEN PutDir(w, i, dir) ELSE [w EXCEPT !.dirused = Put(@, dir, 1)]

(***************************************************************************)
(* create_keyskip: the last used area that has a name shows it.            *)
(***************************************************************************)
UsedFor(w, h) ==
    SelectSeq([i \in DOMAIN w.repo.areas |-> i],
              LAMBDA i : i \in w.used /\ (h = Meta \/ (Within(w.repo.areas[i], h) /\ HasData(w.repo.areas[i], h))))
SkipFrom(w, h, areas) ==
    LET full == FoldLeft(LAMBDA s, i : FillKeyskip(w.repo.areas[i], i, h, s), w.skip, areas)
    IN  [on |-> TRUE, skip |-> [full EXCEPT !.end = full.base + Len(w.repo.areas) + 1]]
EntrySkip(w, h) ==
    IF Len(w.repo.areas) <= 1 \/ Len(UsedFor(w, h)) <= 1 THEN [on |-> FALSE, skip |-> w.skip]
    ELSE SkipFrom([w EXCEPT !.skip = Renew(@)], h, UsedFor(w, h))

\* the keys of an area that the search shows for an entry: <<key, cell>>
ShownKeys(w, i, h, c) ==
    LET d == w.repo.areas[i]
        s == OldSchema(d, h)
    IN  SelectSeq([j \in DOMAIN s |-> <<s[j], j>>],
            LAMBDA x : /\ w.keymap[i][x[1]] # 0 /\ d.keys[x[1]].name # SolvablesKey /\ d.keys[x[1]].storage # "solvable"
                       /\ ~Skipped(c, i, d.keys[x[1]].name))

(***************************************************************************)
(* Pass 1, collect_needed_cb and collect_needed_solvable: schemata and the *)
(* number of uses.  sp is the schema under construction.                   *)
(***************************************************************************)
NeedLeaf(w, i, type, entries) ==
    FoldLeft(LAMBDA v, e : IF type = "dirstr" THEN NeedDir(v, i, e[1]) ELSE NeedId(v, w.repo.areas[i], e[1]),
             w, IF type \in {"id", "idarray", "dirstr"} THEN entries ELSE <<>>)

PushKey(w, id) == IF w.sp # <<>> /\ Last(w.sp) = id THEN w ELSE [w EXCEPT !.sp = Append(@, id)]
EndSchema(w) == Schema2id(w, w.sp)

\* the keys of a structure that are written: <<key, position of its data>>
SubKeys(w, i, schema) ==
    LET s == Schema(w.repo.areas[i], schema)
    IN  SelectSeq([j \in DOMAIN s |-> <<s[j], CellIndex(w.repo.areas[i], s, j)>>], LAMBDA x : w.keymap[i][x[1]] # 0)
SubSchema(w, i, schema) == [j \in DOMAIN SubKeys(w, i, schema) |-> w.keymap[i][SubKeys(w, i, schema)[j][1]]]
SubLeaf(w, i, x, leaves) ==
    LET d == w.repo.areas[i] IN IF d.keys[x[1]].type \in NoDataTypes THEN <<>> ELSE GetData(d, d.keys[x[1]], Leaf(leaves[x[2]])).leaf
NoteSub(w, schema) == [Schema2id(w, schema) EXCEPT !.subs = Append(@, SchemaId(Schema2id(w, schema), schema))]

NeedSub(w, i, type, sub, n) ==
    FoldLeft(LAMBDA v, x : NeedLeaf(v, i, w.repo.areas[i].keys[x[1]].type, SubLeaf(w, i, x, sub[2])),
             IF type = "flex" \/ n = 1 THEN NoteSub(w, SubSchema(w, i, sub[1])) ELSE w, SubKeys(w, i, sub[1]))

NeedCell(w, i, type, cell) ==
    IF type \in StructTypes THEN FoldLeft(LAMBDA v, n : NeedSub(v, i, type, cell.subs[n], n), w, [n \in DOMAIN cell.subs |-> n])
    ELSE NeedLeaf(w, i, type, cell.leaf)

NeedKey(w, i, h, x) == NeedCell(PushKey(w, w.keymap[i][x[1]]), i, w.repo.areas[i].keys[x[1]].type, FindKeyData(w.repo.areas[i], h, x[2]))
NeedArea(w, i, h, c) ==
    FoldLeft(LAMBDA v, x : NeedKey(v, i, h, x), [w EXCEPT !.lastdir = <<0, 0>>], ShownKeys(w, i, h, c))
NeedAreas(w, h, c) == FoldLeft(LAMBDA v, i : NeedArea(v, i, h, c), [w EXCEPT !.skip = c.skip], UsedFor(w, h))
NeedEntry(w, h) == NeedAreas(w, h, EntrySkip(w, h))

\* a field of a solvable; name is always there, the arrays if they are not empty
HasField(w, p, name) == w.solvmap[name] # 0 /\ w.pool.solv[p][name] # <<>>
NeedField(w, p, name) ==
    IF ~HasField(w, p, name) THEN w
    ELSE [PushKey(w, w.solvmap[name]) EXCEPT
             !.need = FoldLeft(LAMBDA n, id : Bump(n, id, 1), @, w.pool.solv[p][name]),
             !.keys[w.solvmap[name]].size = IF name = NameKey THEN 0 ELSE @ + Len(w.pool.solv[p][name]) + 1]
NeedFields(w, p) == FoldLeft(LAMBDA v, name : NeedField(v, p, name), [w EXCEPT !.sp = <<>>], SolvableNames)

NoteMain(w) ==
    [w EXCEPT !.main = IF w.repo.own = {} THEN w.sp ELSE Append(w.sp, w.solvmap[SolvablesKey]),
              !.keys = IF w.repo.own = {} THEN @ ELSE [@ EXCEPT ![w.solvmap[SolvablesKey]].size = @ + 1]]
NeedMain(w) == NoteMain(NeedEntry([w EXCEPT !.sp = <<>>], Meta))
NoteSolvable(w) == [EndSchema(w) EXCEPT !.solvschemata = Append(@, SchemaId(EndSchema(w), w.sp))]
NeedSolvable(w, p) == NoteSolvable(NeedEntry(NeedFields(w, p), p))

AnySolvableUsed(w) == \E n \in DOMAIN w.solvschemata : w.solvschemata[n] # 0
CloseMain(w) == LET m == IF w.repo.own # {} /\ ~AnySolvableUsed(w) THEN Front(w.main) ELSE w.main
                IN  [Schema2id(w, m) EXCEPT !.main = m]

(***************************************************************************)
(* Keys without use are dropped and the others renumbered.                 *)
(***************************************************************************)
UsedKeys(w) == UNION {Range(w.schemata[s]) : s \in DOMAIN w.schemata}
KeyNo(w, k) == IF k \in UsedKeys(w) THEN Cardinality({j \in UsedKeys(w) : j <= k}) ELSE 0
DropUnusedKeys(w) ==
    [w EXCEPT !.keys = [n \in 1..Cardinality(UsedKeys(w)) |-> w.keys[CHOOSE k \in UsedKeys(w) : KeyNo(w, k) = n]],
              !.schemata = [s \in DOMAIN @ |-> [j \in DOMAIN @[s] |-> KeyNo(w, @[s][j])]],
              !.main = [j \in DOMAIN @ |-> KeyNo(w, @[j])],
              !.solvmap = [n \in DOMAIN @ |-> KeyNo(w, @[n])],
              !.keymap = [i \in DOMAIN @ |-> [k \in DOMAIN @[i] |-> KeyNo(w, @[i][k])]]]

\* a single vertical key that is a file list is not kept in memory but collected when it is written
ListMode(w) ==
    LET vert == {k \in DOMAIN w.keys : w.keys[k].storage = "vertical"}
    IN  [w EXCEPT !.listmode = IF AnySolvableUsed(w) /\ w.used # {} /\ Cardinality(vert) = 1
                                  /\ \A k \in vert : w.keys[k].type = "dirstr"
                               THEN CHOOSE k \in vert : TRUE ELSE 0]

(***************************************************************************)
(* The strings of the keys, then the uses by relations (a relation inside  *)
(* another one must get the smaller number) and by directories.            *)
(***************************************************************************)
KeyTexts(w, k) == <<w.pool.ss[w.keys[k].name], TypeId(w.keys[k].type)>>
                  \o (IF w.keys[k].type = "constid" THEN <<w.pool.ss[w.keys[k].size]>> ELSE <<>>)
AllKeyTexts(w) == FlattenSeq([k \in DOMAIN w.keys |-> KeyTexts(w, k)])
PutKeyStrings(w) == IF w.usage = 1 THEN w ELSE [w EXCEPT !.ss = FoldLeft(WithStr, @, AllKeyTexts(w))]
NeedKeys(w) == [w EXCEPT !.need = FoldLeft(LAMBDA n, c : Bump(n, StrId(w.ss, c), 1), @, AllKeyTexts(w))]

\* a string of a relation: mapped to an own pool, unless that is a clone
PutRelStr(w, id) == IF w.usage = 3 /\ ~w.clone /\ id > 1 THEN [w EXCEPT !.ss = WithStr(@, w.pool.ss[id])] ELSE w
RelStrId(w, id) == IF w.usage = 3 /\ ~w.clone /\ id > 1 THEN StrId(w.ss, w.pool.ss[id]) ELSE id
AtLeastBug(need, id, n) == Bump(need, id, 1)   \* mutant: a nested relation is counted like a string

AtLeast(need, id, n) == IF NeedOf(need, id) < n THEN Put(need, id, n) ELSE need

NeedRelPart(w, id, need) ==
    IF IsRel(id) THEN [w EXCEPT !.need = AtLeast(@, id, need + 1)]
    ELSE [PutRelStr(w, id) EXCEPT !.need = Bump(@, RelStrId(PutRelStr(w, id), id), 1)]
NeedRel(w, id) ==
    LET need == NeedOf(w.need, id)
        rel == w.pool.rels[id - RelBase]
    IN  IF need = 0 THEN w ELSE NeedRelPart(NeedRelPart(w, rel[1], need), rel[2], need)
NeedRels(w) == FoldLeft(NeedRel, w, [k \in DOMAIN w.pool.rels |-> RelBase + Len(w.pool.rels) + 1 - k])

Dirs(w) == IF w.dirusage = 3 THEN w.owndirs ELSE IF w.dirusage = 2 THEN w.repo.areas[w.dirarea].dirs ELSE <<>>
NeedComp(w, comp) == IF w.dirusage = 3 \/ comp <= 1 THEN [w EXCEPT !.need = Bump(@, comp, 1)] ELSE NeedId(w, w.repo.areas[w.dirarea], comp)
UsedDir(w, dir) == dir \in DOMAIN w.dirused
NeedDirEntry(w, dir) ==
    IF w.dirusage = 2 /\ ~UsedDir(w, dir) THEN w
    ELSE IF DirAt(Dirs(w), dir) <= 0 THEN w
    ELSE NeedComp([w EXCEPT !.dirused = IF w.dirusage = 2 THEN Put(@, Parent(Dirs(w), dir), 2) ELSE @], DirAt(Dirs(w), dir))
NeedDirs(w) == FoldLeft(NeedDirEntry, w, [k \in 1..(Len(Dirs(w)) - 1) |-> Len(Dirs(w)) - k])

(***************************************************************************)
(* New numbers: the empty string first, then by the number of uses.        *)
(***************************************************************************)
NeededStrings(w) == SelectSeq([n \in DOMAIN w.ss |-> n], LAMBDA id : id > 1 /\ NeedOf(w.need, id) > 0)
NeededRels(w) == SelectSeq([n \in DOMAIN w.pool.rels |-> RelBase + n], LAMBDA id : NeedOf(w.need, id) > 0)
StringsInOrder(w) ==
    <<1>> \o SortSeq(NeededStrings(w), LAMBDA a, b : w.need[a] > w.need[b] \/ (w.need[a] = w.need[b] /\ w.ss[a] < w.ss[b]))
RelsInOrder(w) == SortSeq(NeededRels(w), LAMBDA a, b : w.need[a] > w.need[b] \/ (w.need[a] = w.need[b] /\ a < b))

\* old id -> new id
Numbers(order) == [n \in Range(order) |-> SelectInSeq(order, LAMBDA x : x = n)]
Renumber(w) == [w EXCEPT !.nstr = Len(StringsInOrder(w)), !.order = StringsInOrder(w) \o RelsInOrder(w),
                         !.num = Numbers(StringsInOrder(w) \o RelsInOrder(w))]

(***************************************************************************)
(* traverse_dirs: the used directories in the order of the file, one block *)
(* per parent.  used[id] is 0 (unused), 1 (used) or 2 (used as parent).    *)
(* The result dirmap holds old ids, and -n for a block of the new id n.    *)
(***************************************************************************)
RECURSIVE TraverseDirs(_, _, _, _)
RECURSIVE TraverseBlock(_, _, _, _, _)
TraverseDirs(dirs, dirmap, children, used) ==
    LET parent == Len(dirmap)
        top == IF parent = 1 THEN <<1>> ELSE <<>>
        mine == top \o SelectSeq(children, LAMBDA c : used[c] # 0 /\ ~(c = 1 /\ parent = 1))
    IN  IF mine = <<>> THEN Front(dirmap)
        ELSE TraverseBlock(dirs, dirmap \o mine, parent, parent + Len(mine), used)

TraverseBlock(dirs, dirmap, n, last, used) ==
    IF n = last THEN dirmap
    ELSE LET old == dirmap[n + 1]
             down == used[old] = 2 /\ Children(dirs, old) # <<>>
         IN  TraverseBlock(dirs,
                 IF down THEN TraverseDirs(dirs, Append(dirmap, -n), Children(dirs, old), used) ELSE dirmap,
                 n + 1, last, used)

\* "/" is always written
UseOf(w) ==
    [d \in 0..Len(Dirs(w)) |-> IF w.dirusage = 3 THEN 2 ELSE IF d = 0 \/ (d = 1 /\ ~UsedDir(w, 1)) THEN 2 - d
                               ELSE IF UsedDir(w, d) THEN w.dirused[d] ELSE 0]
Dirmap(w) ==
    IF Dirs(w) = <<>> \/ (w.dirusage = 2 /\ ~UsedDir(w, 0)) THEN <<>>
    ELSE TraverseDirs(Dirs(w), <<0>>, Children(Dirs(w), 0), UseOf(w))

MapDirs(w) == [w EXCEPT !.dirmap = Dirmap(w)]
NewDir(w, dir) == IF dir = 0 THEN 0 ELSE SelectInSeq(w.dirmap, LAMBDA x : x = dir) - 1

(***************************************************************************)
(* Pass 2, collect_data_cb and collect_data_solvable: data is the incore   *)
(* stream, vert[k] the stream of a vertical key.                           *)
(***************************************************************************)
EntryEnd(n, entries) == IF n = Len(entries) THEN 1 ELSE 0
FileId(w, d, id) == w.num[OwnId(w, d, id)]
FileDir(w, dir) == NewDir(w, IF w.dirusage = 3 THEN DirOf(w, dir) ELSE dir)
LeafTokens(w, d, type, entries) ==
    CASE type = "num" -> <<<<entries[1][1], 0>>>>
      [] type = "id"  -> <<<<FileId(w, d, entries[1][1]), 0>>>>
      [] type = "idarray" -> [n \in DOMAIN entries |-> <<FileId(w, d, entries[n][1]), EntryEnd(n, entries)>>]
      [] type = "dirstr"  -> FlattenSeq([n \in DOMAIN entries |-> <<<<FileDir(w, entries[n][1]), EntryEnd(n, entries)>>, <<entries[n][2], 0>>>>])
      [] OTHER -> <<>>

PutTokens(w, tokens) == [w EXCEPT !.data = @ \o tokens]
VertOf(w, k) == IF k \in DOMAIN w.vert THEN w.vert[k] ELSE <<>>
EmitVertical(w, k, tokens) ==
    PutTokens([w EXCEPT !.vert = Put(@, k, VertOf(w, k) \o tokens)], <<<<Len(VertOf(w, k)), 0>>, <<Len(tokens), 0>>>>)

\* the directories of a file list go through the caches one by one
PutDirs(w, i, type, entries) ==
    IF type = "dirstr" /\ w.dirusage = 3 THEN FoldLeft(LAMBDA v, e : PutDir(v, i, e[1]), w, entries) ELSE w
DirstrTokens(w, i, entries) ==
    FoldLeft(LAMBDA st, n :
        LET v == PutDirs(st.w, i, "dirstr", <<entries[n]>>)
        IN  [w |-> v, out |-> st.out \o <<<<FileDir(v, entries[n][1]), EntryEnd(n, entries)>>, <<entries[n][2], 0>>>>],
        [w |-> w, out |-> <<>>], [n \in DOMAIN entries |-> n])
TokensOf(w, i, type, entries) ==
    IF type = "dirstr" THEN DirstrTokens(w, i, entries) ELSE [w |-> w, out |-> LeafTokens(w, w.repo.areas[i], type, entries)]

\* the file list of ListMode only leaves room
Room(tokens) == [n \in DOMAIN tokens |-> <<0, 0>>]
EmitLeaf(st, k) ==
    IF st.w.keys[k].storage = "vertical" THEN EmitVertical(st.w, k, IF k = st.w.listmode THEN Room(st.out) ELSE st.out)
    ELSE PutTokens(st.w, st.out)
DataLeaf(w, i, x, entries) == EmitLeaf(TokensOf(w, i, w.repo.areas[i].keys[x].type, entries), w.keymap[i][x])

NoteMax(w) == [w EXCEPT !.max = IF Len(w.data) - w.last > @ THEN Len(w.data) - w.last ELSE @, !.last = Len(w.data)]

\* a part of the repository's own data that the reader will refill its buffer at
Part(w, solvable) == IF solvable THEN w ELSE NoteMax(w)
SubSchemaToken(w) == [PutTokens(w, <<<<w.subs[w.cur + 1], 0>>>>) EXCEPT !.cur = @ + 1]
DataSub(w, i, type, sub, n, solvable) ==
    FoldLeft(LAMBDA v, x : DataLeaf(v, i, x[1], SubLeaf(w, i, x, sub[2])),
             IF n = 1 THEN w ELSE Part(IF type = "flex" THEN SubSchemaToken(w) ELSE w, solvable), SubKeys(w, i, sub[1]))
\* the number of elements and the schema of the first
DataHead(w, cell, solvable) ==
    Part(IF cell.subs = <<>> THEN PutTokens(w, <<<<0, 0>>>>) ELSE SubSchemaToken(PutTokens(w, <<<<Len(cell.subs), 0>>>>)), solvable)
DataCell(w, i, x, type, cell, solvable) ==
    IF type \in StructTypes
    THEN Part(FoldLeft(LAMBDA v, n : DataSub(v, i, type, cell.subs[n], n, solvable), DataHead(w, cell, solvable), [n \in DOMAIN cell.subs |-> n]), solvable)
    ELSE DataLeaf(w, i, x, cell.leaf)

DataKey(w, i, h, x) == DataCell(w, i, x[1], w.repo.areas[i].keys[x[1]].type, FindKeyData(w.repo.areas[i], h, x[2]), h # Meta)
DataArea(w, i, h, c) ==
    FoldLeft(LAMBDA v, x : DataKey(v, i, h, x), [w EXCEPT !.lastdir = <<0, 0>>], ShownKeys(w, i, h, c))
DataAreas(w, h, c) == FoldLeft(LAMBDA v, i : DataArea(v, i, h, c), [w EXCEPT !.skip = c.skip], UsedFor(w, h))
DataEntry(w, h) == NoteMax(DataAreas(w, h, EntrySkip(w, h)))

(***************************************************************************)
(* data_adddepids: the ids before and after the marker sorted, then the    *)
(* differences plus one; the marker is 0.                                  *)
(***************************************************************************)
SortIds(s) == SortSeq(s, LAMBDA a, b : a < b)
DepOrder(ids, marker) ==
    LET i == IF marker \in Range(ids) THEN SelectInSeq(ids, LAMBDA x : x = marker) ELSE Len(ids) + 1
    IN  SortIds(SubSeq(ids, 1, i - 1)) \o (IF i > Len(ids) THEN <<>> ELSE <<marker>>) \o SortIds(SubSeq(ids, i + 1, Len(ids)))
DepTokens(sids, marker) ==
    [n \in DOMAIN sids |->
        <<IF sids[n] = marker THEN 0
          ELSE sids[n] + 1 - (IF n = 1 \/ sids[n - 1] = marker THEN 0 ELSE sids[n - 1]), EntryEnd(n, sids)>>]

FieldTokens(w, ids, name) ==
    LET new == [n \in DOMAIN ids |-> w.num[ids[n]]]
        marker == IF MarkerOf(name) \in DOMAIN w.num THEN w.num[MarkerOf(name)] ELSE 0
    IN  IF name = NameKey THEN <<<<new[1], 0>>>> ELSE DepTokens(DepOrder(new, marker), marker)
DataField(w, p, name) == IF HasField(w, p, name) THEN PutTokens(w, FieldTokens(w, w.pool.solv[p][name], name)) ELSE w

MainSchema(w) == SchemaId(w, w.main)
DataMain(w) == DataEntry(PutTokens([w EXCEPT !.cur = 0, !.last = 0], <<<<MainSchema(w), 0>>>>), Meta)
DataCount(w) == IF AnySolvableUsed(w) THEN PutTokens(w, <<<<Len(w.solvschemata), 0>>>>) ELSE w
DataSolvable(w, p, n) ==
    IF ~AnySolvableUsed(w) THEN w
    ELSE DataEntry(FoldLeft(LAMBDA v, name : DataField(v, p, name), PutTokens(w, <<<<w.solvschemata[n], 0>>>>), SolvableNames), p)

\* collect_filelist_cb: the same walk again for the one vertical key
ListLeaf(w, i, entries) ==
    LET st == DirstrTokens(w, i, entries) IN [st.w EXCEPT !.vert = Put(@, w.listmode, VertOf(st.w, w.listmode) \o st.out)]
IsList(w, i, x) == w.keymap[i][x] = w.listmode
ListCell(w, i, x, cell) ==
    IF w.repo.areas[i].keys[x].type \in StructTypes
    THEN FoldLeft(LAMBDA v, sub : FoldLeft(LAMBDA u, y : IF IsList(w, i, y[1]) THEN ListLeaf(u, i, SubLeaf(w, i, y, sub[2])) ELSE u,
                                           v, SubKeys(w, i, sub[1])), w, cell.subs)
    ELSE IF IsList(w, i, x) THEN ListLeaf(w, i, cell.leaf) ELSE w
ListArea(w, i, h, c) ==
    FoldLeft(LAMBDA v, x : ListCell(v, i, x[1], FindKeyData(w.repo.areas[i], h, x[2])), [w EXCEPT !.lastdir = <<0, 0>>], ShownKeys(w, i, h, c))
ListAreas(w, h, c) == FoldLeft(LAMBDA v, i : ListArea(v, i, h, c), [w EXCEPT !.skip = c.skip], UsedFor(w, h))
ListEntry(w, h) == ListAreas(w, h, EntrySkip(w, h))
ListFiles(w, hs) ==
    IF w.listmode = 0 THEN w ELSE FoldLeft(ListEntry, [w EXCEPT !.vert = Put(@, w.listmode, <<>>)], <<Meta>> \o hs)

(***************************************************************************)
(* The file.  Relations are written with the numbers of their parts.       *)
(***************************************************************************)
CompId(w, comp) == IF w.dirusage = 2 /\ comp > 1 THEN OwnId(w, w.repo.areas[w.dirarea], comp) ELSE comp
NumOf(w, id) == IF id \in DOMAIN w.num THEN w.num[id] ELSE 0
FileRel(w, id) == LET r == w.pool.rels[id - RelBase] IN <<NumOf(w, r[1]), NumOf(w, r[2]), r[3]>>
FileDirs(w) ==
    [n \in 1..(Len(w.dirmap) - 2) |->
        LET e == w.dirmap[n + 2] IN IF e > 0 THEN w.num[CompId(w, DirAt(Dirs(w), e))] ELSE w.nstr + 1 - e]
FileKey(w, k) ==
    LET key == w.keys[k]
    IN  [name |-> w.num[StrId(w.ss, w.pool.ss[key.name])], type |-> w.num[StrId(w.ss, TypeId(key.type))], storage |-> key.storage,
         size |-> IF key.storage = "vertical" THEN Len(VertOf(w, k))
                  ELSE IF key.type = "constid" THEN w.num[StrId(w.ss, w.pool.ss[key.size])] ELSE key.size]
FileOf(w) ==
    [strings |-> [n \in 1..w.nstr |-> w.ss[w.order[n]]],
     rels |-> [n \in 1..(Len(w.order) - w.nstr) |-> FileRel(w, w.order[w.nstr + n])],
     ndirs |-> Len(w.dirmap), dirs |-> FileDirs(w), nsolv |-> IF AnySolvableUsed(w) THEN Len(w.solvschemata) ELSE 0,
     keys |-> [k \in DOMAIN w.keys |-> FileKey(w, k)], schemata |-> w.schemata, max |-> w.max, data |-> w.data,
     vert |-> FlattenSeq([k \in DOMAIN w.keys |-> VertOf(w, k)])]
=============================================================================
