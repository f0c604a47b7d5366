------------------------------ MODULE Repodata ------------------------------
(***************************************************************************)
(* One repodata area (repodata.c): its keys and schemata, the edits that   *)
(* wait in attrs/xattrs, repodata_internalize, and the lookups.            *)
(*                                                                         *)
(* Names, strings and values are integers.  A handle is a solvable id, the *)
(* repository itself (Meta = SOLVID_META) or a structure (<= -2, from      *)
(* repodata_new_handle).  attrs[h] is the list of <<keyid, val>> pairs of  *)
(* handle h; h is not in DOMAIN attrs while the pointer is null.  val is   *)
(* the value itself for scalar types and an offset into attrid for arrays. *)
(* The type num stands for numbers, strings, checksums and binary data:    *)
(* values that the store carries but never looks into.                     *)
(*                                                                         *)
(* inc[h] is the internalized entry: a schema id and the data as a stream  *)
(* of cells, one for every key of the schema that has data.  A cell holds  *)
(* the entries of a leaf key, or the elements <<schema, leaves>> of an     *)
(* array of structures.  Keys with vertical storage hold an offset: up to  *)
(* Len(store) into the pages of the file, above it into vin.               *)
(***************************************************************************)
EXTENDS Integers, Sequences, FiniteSets, SequencesExt, TLC

(***************************************************************************)
(* Directory ids (dirpool.c, dirpool.h) and their use by a repodata area   *)
(* (repodata_str2dir, repodata_dir2str).                                   *)
(*                                                                         *)
(* A path is the sequence of its components; component 1 is the empty      *)
(* string, so <<1, u>> is "/u" and <<u>> the relative path "u".  A Dirpool *)
(* is the sequence dirs of the source, shifted by one because sequences    *)
(* start at 1: dirs[id + 1] > 0 is the component of directory id, and      *)
(* dirs[id + 1] <= 0 starts a block of children of the directory           *)
(* -dirs[id + 1].  The hash table only speeds up the search of add_dir.    *)
(***************************************************************************)
DirAt(dirs, id) == dirs[id + 1]

\* the directory ids, the starts of blocks excluded
DirIds(dirs) == {i \in 0..(Len(dirs) - 1) : DirAt(dirs, i) > 0}

\* dirpool_parent: back to the start of the block
Parent(dirs, id) ==
    IF id = 0 THEN 0
    ELSE -DirAt(dirs, CHOOSE b \in 0..(id - 1) :
                 DirAt(dirs, b) <= 0 /\ \A k \in (b + 1)..(id - 1) : DirAt(dirs, k) > 0)

ChildOf(dirs, parent, comp) ==
    {id \in DirIds(dirs) : id > 1 /\ DirAt(dirs, id) = comp /\ Parent(dirs, id) = parent}

FreshDirs == <<0, 1>>

(***************************************************************************)
(* dirpool_add_dir: the two fixed entries appear on the first use; an      *)
(* existing child is found; otherwise the entry is appended, in a new      *)
(* block if the last block belongs to another parent.                      *)
(***************************************************************************)
AppendDirBug(dirs, parent, comp) ==   \* mutant: the block of the previous parent is continued
    [dirs |-> Append(dirs, comp), id |-> Len(dirs)]

AppendDir(dirs, parent, comp) ==
    LET blk == IF Parent(dirs, Len(dirs) - 1) = parent THEN dirs ELSE Append(dirs, -parent)
    IN  [dirs |-> Append(blk, comp), id |-> Len(blk)]

AddDirTo(dirs, parent, comp) ==
    IF parent < 0 \/ comp <= 0 THEN [dirs |-> dirs, id |-> 0]
    ELSE IF parent = 0 /\ comp = 1 THEN [dirs |-> dirs, id |-> 1]
    ELSE IF ChildOf(dirs, parent, comp) # {}
         THEN [dirs |-> dirs, id |-> CHOOSE id \in ChildOf(dirs, parent, comp) : TRUE]
         ELSE AppendDir(dirs, parent, comp)

AddDir(dirs, parent, comp) == AddDirTo(IF dirs = <<>> THEN FreshDirs ELSE dirs, parent, comp)

(***************************************************************************)
(* repodata_dir2str: the components from the root down to the directory.   *)
(***************************************************************************)
Dir2str(dirs, id) ==
    LET up[n \in 0..Len(dirs)] == IF n = 0 THEN <<>> ELSE Append(up[Parent(dirs, n)], DirAt(dirs, n))
    IN  up[id]

(***************************************************************************)
(* repodata_str2dir: the dircache remembers, for every length, the last    *)
(* prefix of that length and its directory; the longest cached prefix of   *)
(* the path is the start, the rest is added component by component, and    *)
(* every prefix on the way goes into the cache.  cache is a function from  *)
(* lengths to <<prefix, id>>, CacheSize = DIRCACHE_SIZE.                   *)
(***************************************************************************)
CacheSize == 3

CacheHits(cache, path) ==
    {n \in DOMAIN cache : n <= Len(path) /\ cache[n][1] = SubSeq(path, 1, n)}

WithPrefix(cache, prefix, id) ==
    IF Len(prefix) >= CacheSize THEN cache
    ELSE [n \in DOMAIN cache \cup {Len(prefix)} |-> IF n = Len(prefix) THEN <<prefix, id>> ELSE cache[n]]

LongestHit(cache, path) ==
    IF CacheHits(cache, path) = {} THEN 0
    ELSE CHOOSE n \in CacheHits(cache, path) : \A m \in CacheHits(cache, path) : m <= n

AddComponents(dirs, cache, path, n) ==
    FoldLeft(LAMBDA st, k :
               LET r == AddDir(st.dirs, st.id, path[k])
               IN  [dirs |-> r.dirs, id |-> r.id,
                    cache |-> WithPrefix(st.cache, SubSeq(path, 1, k), r.id)],
             [dirs |-> dirs, cache |-> cache, id |-> IF n = 0 THEN 0 ELSE cache[n][2]],
             [k \in 1..(Len(path) - n) |-> k + n])

Str2dir(dirs, cache, path) ==
    CASE path = <<>>  -> [dirs |-> IF dirs = <<>> THEN FreshDirs ELSE dirs, cache |-> cache, id |-> 0]
      [] path = <<1>> -> [dirs |-> IF dirs = <<>> THEN FreshDirs ELSE dirs, cache |-> cache, id |-> 1]
      [] OTHER        -> AddComponents(dirs, cache, path, LongestHit(cache, path))

(***************************************************************************)
(* dirpool_child and dirpool_sibling give the children of a directory, the *)
(* latest block first, each block in its own order (dirtraverse).          *)
(***************************************************************************)
Blocks(dirs, parent) ==
    {b \in 0..(Len(dirs) - 1) : DirAt(dirs, b) <= 0 /\ -DirAt(dirs, b) = parent}

BlockEntries(dirs, b) ==
    LET ends == {n \in (b + 1)..Len(dirs) : n = Len(dirs) \/ DirAt(dirs, n) <= 0}
        end == CHOOSE n \in ends : \A m \in ends : n <= m
    IN  [k \in 1..(end - b - 1) |-> b + k]

Children(dirs, parent) ==
    FlattenSeq([k \in 1..Cardinality(Blocks(dirs, parent)) |->
        BlockEntries(dirs, SetToSortSeq(Blocks(dirs, parent), LAMBDA x, y : x > y)[k])])

-----------------------------------------------------------------------------
Meta == -1
SolvablesKey == 90                              \* REPOSITORY_SOLVABLES
NoDataTypes == {"void", "const", "constid", "deleted"}
ArrayTypes == {"idarray", "dirstr"}
StructTypes == {"fix", "flex"}
EntrySize(type) == IF type = "dirstr" THEN 2 ELSE 1

NoLast == [handle |-> 0, key |-> 0, len |-> 0]

\* repodata_initdata
NewData(local) ==
    [keys |-> <<>>, schemata |-> <<>>, start |-> 0, end |-> 0, alloc |-> FALSE, attrs |-> <<>>, nx |-> 0,
     attrid |-> <<>>, last |-> NoLast, loaded |-> FALSE, inc |-> <<>>, vin |-> <<>>, store |-> <<>>,
     local |-> local, spool |-> <<>>, dirs |-> <<>>, cache |-> <<>>, state |-> "available", filelist |-> "full", filter |-> {}]

Leaf(entries) == [leaf |-> entries, subs |-> <<>>]

Drop(f, S) == [x \in DOMAIN f \ S |-> f[x]]
Put(f, x, v) == (x :> v) @@ f

(***************************************************************************)
(* repodata_key2id and repodata_schema2id.  The storage of a key does not  *)
(* count: new data for a key that came from a file with vertical storage   *)
(* is stored vertically too.                                               *)
(***************************************************************************)
KeyRec(name, type, size) == [name |-> name, type |-> type, size |-> size, storage |-> "incore"]

KeyHits(d, key) ==
    {i \in DOMAIN d.keys : /\ d.keys[i].name = key.name /\ d.keys[i].type = key.type
                           /\ key.type \in {"const", "constid"} => d.keys[i].size = key.size}
KeyId(d, key) == IF KeyHits(d, key) = {} THEN 0 ELSE CHOOSE i \in KeyHits(d, key) : \A j \in KeyHits(d, key) : i <= j
Key2id(d, key) == IF KeyHits(d, key) # {} THEN d ELSE [d EXCEPT !.keys = Append(@, key)]

Schema(d, id) == IF id = 0 THEN <<>> ELSE d.schemata[id]
SchemaId(d, s) == IF s = <<>> THEN 0 ELSE SelectInSeq(d.schemata, LAMBDA x : x = s)
Schema2id(d, s) == IF s = <<>> \/ SchemaId(d, s) # 0 THEN d ELSE [d EXCEPT !.schemata = Append(@, s)]

(***************************************************************************)
(* The range of solvables: repodata_extend, _shrink, _extend_block.        *)
(***************************************************************************)
Extend(d, p) ==
    LET s == IF d.start = d.end THEN p ELSE d.start
        e == IF d.start = d.end THEN p ELSE d.end
    IN  [d EXCEPT !.start = IF p < s THEN p ELSE s, !.end = IF p >= e THEN p + 1 ELSE e]

Shrink(d, e) ==
    IF d.end <= e THEN d
    ELSE LET gone == IF d.start >= e THEN {p \in 0..d.end : TRUE} ELSE {p \in 0..d.end : p >= e}
         IN  [d EXCEPT !.attrs = Drop(@, gone), !.inc = Drop(@, gone),
                       !.alloc = d.start < e /\ @,
                       !.start = IF d.start >= e THEN 0 ELSE @, !.end = IF d.start >= e THEN 0 ELSE e]

\* the part of repo_free_solvable_block that concerns one area; repoend is the new repo->end
FreeSolvables(d, start, count, repoend) ==
    LET s == Shrink(d, repoend)
        gone == {p \in start..(start + count - 1) : p >= s.start /\ p < s.end}
    IN  IF gone = {} THEN s
        ELSE [s EXCEPT !.attrs = Drop(@, gone), !.inc = Drop(@, gone),
                       !.last.handle = IF s.alloc /\ @ \in gone THEN 0 ELSE @]

(***************************************************************************)
(* Edits.  repodata_get_attrp makes the handle usable, insert_keyid finds  *)
(* the key by its name only.                                               *)
(***************************************************************************)
AttrsOf(d, h) == IF h \in DOMAIN d.attrs THEN d.attrs[h] ELSE <<>>

WithHandle(d, h) ==
    IF h < 0 THEN IF h = Meta /\ d.nx = 0 THEN [d EXCEPT !.nx = 2] ELSE d
    ELSE [(IF h < d.start \/ h >= d.end THEN Extend(d, h) ELSE d) EXCEPT !.alloc = TRUE]

\* repodata_new_handle: the handle is -d.nx of the result's predecessor
FreshHandle(d) == IF d.nx = 0 THEN -2 ELSE -d.nx
NewHandle(d) == [d EXCEPT !.nx = IF @ = 0 THEN 3 ELSE @ + 1]

AttrIndex(d, l, name) == SelectInSeq(l, LAMBDA a : d.keys[a[1]].name = name)

InsertKeyid(d0, h, keyid, val, overwrite) ==
    LET d == WithHandle(d0, h)
        l == AttrsOf(d, h)
        i == AttrIndex(d, l, d.keys[keyid].name)
    IN  IF i = 0 THEN [d EXCEPT !.attrs = Put(@, h, Append(l, <<keyid, val>>))]
        ELSE IF overwrite \/ d.keys[l[i][1]].type = "deleted"
             THEN [d EXCEPT !.attrs[h][i] = <<keyid, val>>]
             ELSE d

\* repodata_set and its callers: constants live in the key, everything else in the value
SetKey(d, h, key, val) ==
    LET e == Key2id(d, key) IN InsertKeyid(e, h, KeyId(e, key), val, TRUE)
Set(d, h, name, type, val) ==
    IF type \in {"const", "constid"} THEN SetKey(d, h, KeyRec(name, type, val), 0)
    ELSE SetKey(d, h, KeyRec(name, type, 0), val)
Unset(d, h, name) == Set(d, h, name, "deleted", 0)

\* an array of attrid: the entries from offset o on, n numbers each, up to the 0
ArrayEnd(d, o, n) ==
    LET ends == {k \in o..(Len(d.attrid) - 1) : (k - o) % n = 0 /\ d.attrid[k + 1] = 0}
    IN  CHOOSE k \in ends : \A j \in ends : k <= j
ArrayAt(d, o, n) ==
    [k \in 1..((ArrayEnd(d, o, n) - o) \div n) |-> SubSeq(d.attrid, o + (k - 1) * n + 1, o + k * n)]

(***************************************************************************)
(* repodata_add_array: append to the array that was added to last, else    *)
(* look the key up; a new array, an array at the end of attrid, or a copy  *)
(* of the array at the end.                                                *)
(***************************************************************************)
SameAsLast(d, h, name, type) ==
    /\ d.last.handle = h
    /\ d.last.key # 0 /\ d.keys[d.last.key].name = name /\ d.keys[d.last.key].type = type
    /\ d.last.len = Len(d.attrid)

NewArray(d, h, key, entry) ==
    LET e == SetKey(d, h, key, Len(d.attrid))
    IN  [e EXCEPT !.attrid = @ \o entry \o <<0>>,
                  !.last = [handle |-> h, key |-> KeyId(e, key), len |-> Len(d.attrid) + Len(entry) + 1]]

GrowArrayBug(d, h, i, entry) ==   \* mutant: the old entries are not copied when the array moves
    LET a == d.attrs[h][i]
        inplace == ArrayEnd(d, a[2], Len(entry)) + 1 = Len(d.attrid)
        buf == IF inplace THEN Front(d.attrid) ELSE d.attrid
    IN  [d EXCEPT !.attrs[h][i] = IF inplace THEN a ELSE <<a[1], Len(d.attrid)>>,
                  !.attrid = buf \o entry \o <<0>>,
                  !.last = [handle |-> h, key |-> a[1], len |-> Len(buf) + Len(entry) + 1]]

GrowArray(d, h, i, entry) ==
    LET a == d.attrs[h][i]
        end == ArrayEnd(d, a[2], Len(entry))
        inplace == end + 1 = Len(d.attrid)
        buf == IF inplace THEN Front(d.attrid) ELSE d.attrid \o SubSeq(d.attrid, a[2] + 1, end)
    IN  [d EXCEPT !.attrs[h][i] = IF inplace THEN a ELSE <<a[1], Len(d.attrid)>>,
                  !.attrid = buf \o entry \o <<0>>,
                  !.last = [handle |-> h, key |-> a[1], len |-> Len(buf) + Len(entry) + 1]]

AddArray(d0, h, name, type, entry) ==
    IF SameAsLast(d0, h, name, type)
    THEN [d0 EXCEPT !.attrid = Front(@) \o entry \o <<0>>, !.last.len = @ + Len(entry)]
    ELSE LET d == WithHandle(d0, h)
             i == AttrIndex(d, AttrsOf(d, h), name)
         IN  IF i = 0 \/ (i # 0 /\ d.keys[d.attrs[h][i][1]].type # type)
             THEN NewArray(d, h, KeyRec(name, type, 0), entry)
             ELSE GrowArray(d, h, i, entry)

(***************************************************************************)
(* repodata_unset_uninternalized (name 0: all), _merge_attrs and           *)
(* _merge_some_attrs, _swap_attrs.                                         *)
(***************************************************************************)
UnsetUninternalized(d0, h, name) ==
    LET d == WithHandle(d0, h)
    IN  IF h \notin DOMAIN d.attrs THEN d
        ELSE IF name = 0 THEN [d EXCEPT !.attrs = Drop(@, {h})]
        ELSE [d EXCEPT !.attrs[h] = SelectSeq(@, LAMBDA a : d.keys[a[1]].name # name)]

MergeSomeAttrs(d, dest, src, keyids, overwrite) ==
    IF dest = src \/ ~d.alloc THEN d
    ELSE FoldLeft(LAMBDA e, a : InsertKeyid(e, dest, a[1], a[2], overwrite), d,
                  SelectSeq(AttrsOf(d, src), LAMBDA a : a[1] \in keyids))
MergeAttrs(d, dest, src) == MergeSomeAttrs(d, dest, src, DOMAIN d.keys, FALSE)

SwapAttrs(d0, dest, src) ==
    IF ~d0.alloc \/ dest = src THEN d0
    ELSE LET in(d, p) == IF p < d.start \/ p >= d.end THEN Extend(d, p) ELSE d
             d == in(in(d0, dest), src)
             both == DOMAIN d.attrs \cap {dest, src}
             swapped == IF both = {} THEN d.attrs
                        ELSE [x \in (DOMAIN d.attrs \ both) \cup {dest + src - y : y \in both} |->
                                 IF x \in {dest, src} THEN d.attrs[dest + src - x] ELSE d.attrs[x]]
         IN  [d EXCEPT !.attrs = swapped, !.last.handle = IF @ \in {dest, src} THEN 0 ELSE @]

(***************************************************************************)
(* repodata_serialize_key.  st.d gets new schemata and vertical data,      *)
(* st.cells the cells of the entry.                                        *)
(***************************************************************************)
LeafEntries(d, key, val) ==
    IF key.type \in ArrayTypes THEN ArrayAt(d, val, EntrySize(key.type)) ELSE <<<<val>>>>

PutCell(st, key, cell) ==
    IF key.storage # "vertical" THEN [st EXCEPT !.cells = Append(@, cell)]
    ELSE [st EXCEPT !.cells = Append(@, Leaf(<<<<Len(st.d.store) + Len(st.d.vin) + 1>>>>)),
                    !.d.vin = Append(@, cell)]

PutLeaf(st, key, val) ==
    IF key.type \in NoDataTypes THEN st
    ELSE LET entries == LeafEntries(st.d, key, val)
         IN  IF entries = <<>> THEN st ELSE PutCell(st, key, Leaf(entries))

KeysOf(l) == [k \in DOMAIN l |-> l[k][1]]

\* the leaves of a structure
Leaves(d, l) ==
    LET data == SelectSeq(l, LAMBDA a : d.keys[a[1]].type \notin NoDataTypes)
    IN  [k \in DOMAIN data |-> LeafEntries(d, d.keys[data[k][1]], data[k][2])]

\* a fixarray has one schema: elements that differ make it empty; null elements are left out
PutFix(st, key, handles) ==
    LET hs == SelectSeq(handles, LAMBDA h : h \in DOMAIN st.d.attrs)
        same == \A k \in DOMAIN hs : KeysOf(st.d.attrs[hs[k]]) = KeysOf(st.d.attrs[hs[1]])
        d == IF hs = <<>> THEN st.d ELSE Schema2id(st.d, KeysOf(st.d.attrs[hs[1]]))
    IN  PutCell([st EXCEPT !.d = d], key,
            [leaf |-> <<>>,
             subs |-> IF same THEN [k \in DOMAIN hs |-> <<SchemaId(d, KeysOf(d.attrs[hs[1]])), Leaves(d, d.attrs[hs[k]])>>]
                      ELSE <<>>])

PutFlex(st, key, handles) ==
    LET d == FoldLeft(LAMBDA e, h : Schema2id(e, KeysOf(AttrsOf(e, h))), st.d, handles)
    IN  PutCell([st EXCEPT !.d = d], key,
            [leaf |-> <<>>, subs |-> [k \in DOMAIN handles |->
                <<SchemaId(d, KeysOf(AttrsOf(d, handles[k]))), Leaves(d, AttrsOf(d, handles[k]))>>]])

SerializeKey(st, keyid, val) ==
    LET key == st.d.keys[keyid]
        handles == IF key.type \in StructTypes THEN [k \in DOMAIN ArrayAt(st.d, val, 1) |-> ArrayAt(st.d, val, 1)[k][1]]
                   ELSE <<>>
    IN  CASE key.type = "fix"  -> PutFix(st, key, handles)
          [] key.type = "flex" -> PutFlex(st, key, handles)
          [] OTHER             -> PutLeaf(st, key, val)

(***************************************************************************)
(* repodata_internalize.  The schema of an entry is its old schema without *)
(* the keys whose name a new key takes over, followed by the new keys; in  *)
(* the entry of the repository the solvables key comes last.  Data of old  *)
(* keys is copied, data of new keys serialized.                            *)
(***************************************************************************)
OldSchema(d, h) == IF d.loaded /\ h \in DOMAIN d.inc THEN Schema(d, d.inc[h].schema) ELSE <<>>

SolvKey(d) == KeyId(d, KeyRec(SolvablesKey, "flex", 0))

ReplacedBug(d, l, k) == FALSE   \* mutant: a key of another type does not replace the old key

Replaced(d, l, k) == \E i \in DOMAIN l : l[i][1] # k /\ d.keys[l[i][1]].name = d.keys[k].name

MergedSchema(d, h) ==
    LET old == SelectSeq(OldSchema(d, h), LAMBDA k : h # Meta \/ k # SolvKey(d))
        l == AttrsOf(d, h)
        kept == SelectSeq(old, LAMBDA k : ~Replaced(d, l, k))
        new == SelectSeq(KeysOf(l), LAMBDA k : ~Contains(old, k))
    IN  kept \o new \o (IF h = Meta /\ d.end # d.start THEN <<SolvKey(d)>> ELSE <<>>)

\* the position in the cells of key number i of a schema (forward_to_key)
CellIndex(d, s, i) ==
    1 + Cardinality({j \in 1..(i - 1) : d.keys[s[j]].type \notin NoDataTypes /\ d.keys[s[j]].storage # "solvable"})

CopyOld(st, h, k) ==
    LET s == OldSchema(st.d, h)
    IN  IF st.d.keys[k].type \in NoDataTypes THEN st
        ELSE [st EXCEPT !.cells = Append(@, st.d.inc[h].cells[CellIndex(st.d, s, SelectInSeq(s, LAMBDA x : x = k))])]

EntryCells(d, h, s) ==
    FoldLeft(LAMBDA st, k :
        LET l == AttrsOf(d, h)
            i == SelectInSeq(l, LAMBDA a : a[1] = k)
        IN  IF h = Meta /\ k = SolvKey(d) THEN [st EXCEPT !.cells = Append(@, Leaf(<<<<d.end - d.start>>>>))]
            ELSE IF i # 0 THEN SerializeKey(st, k, l[i][2])
            ELSE CopyOld(st, h, k),
        [d |-> d, cells |-> <<>>], s)

InternalizeEntry(d, h) ==
    LET s == MergedSchema(d, h)
        e == Schema2id(d, s)
        st == EntryCells(e, h, s)
    IN  [st.d EXCEPT !.inc = Put(@, h, [schema |-> SchemaId(e, s), cells |-> st.cells])]

Internalized(d) ==
    [d EXCEPT !.attrs = <<>>, !.alloc = FALSE, !.nx = 0, !.attrid = <<>>, !.last = NoLast, !.loaded = TRUE]

Internalize(d) ==
    IF ~d.alloc /\ d.nx = 0 THEN d
    ELSE Internalized(FoldLeft(InternalizeEntry,
                               IF d.end # d.start THEN Key2id(d, KeyRec(SolvablesKey, "flex", 0)) ELSE d,
                               <<Meta>> \o [k \in 1..(d.end - d.start) |-> d.start + k - 1]))

(***************************************************************************)
(* Lookups.  find_key_data: the first key of the name in the schema of the *)
(* entry, then its cell.                                                   *)
(***************************************************************************)
InRange(d, h) == h = Meta \/ (h >= d.start /\ h < d.end)

FindKey(d, h, name) ==
    IF ~d.loaded \/ ~InRange(d, h) THEN 0
    ELSE SelectInSeq(OldSchema(d, h), LAMBDA k : d.keys[k].name = name)

LookupType(d, h, name) ==
    LET i == FindKey(d, h, name) IN IF i = 0 THEN "none" ELSE d.keys[OldSchema(d, h)[i]].type

\* get_data: vertical keys lead to the pages of the file or to vin
GetData(d, key, cell) ==
    LET off == cell.leaf[1][1]
    IN  IF key.storage # "vertical" THEN cell
        ELSE IF off > Len(d.store) THEN d.vin[off - Len(d.store)] ELSE d.store[off]

FindKeyData(d, h, i) ==
    LET s == OldSchema(d, h)
        key == d.keys[s[i]]
    IN  IF key.type \in {"const", "constid"} THEN Leaf(<<<<key.size>>>>)
        ELSE IF key.type \in NoDataTypes THEN Leaf(<<>>)
        ELSE GetData(d, key, d.inc[h].cells[CellIndex(d, s, i)])

\* repodata_globalize_id for the ids of an area with its own string pool
GlobalId(d, id) == IF d.local THEN d.spool[id] ELSE id

\* a directory as a number whose digits are the components of the path
PathOf(d, dir) ==
    FoldLeft(LAMBDA n, c : 10 * n + (IF c > 1 THEN GlobalId(d, c) ELSE c), 0, Dir2str(d.dirs, dir))

GlobalEntries(d, type, entries) ==
    IF type \in {"id", "constid", "idarray"} THEN [k \in DOMAIN entries |-> <<GlobalId(d, entries[k][1])>>]
    ELSE IF type = "dirstr" THEN [k \in DOMAIN entries |-> <<PathOf(d, entries[k][1]), entries[k][2]>>]
    ELSE entries

\* the content of a structure: <<name, type, entries>> for every key of its schema
SubContent(d, schema, leaves) ==
    LET s == Schema(d, schema)
    IN  {LET key == d.keys[s[i]]
         IN  <<key.name, key.type,
               GlobalEntries(d, key.type,
                   IF key.type \in {"const", "constid"} THEN <<<<key.size>>>>
                   ELSE IF key.type \in NoDataTypes THEN <<>>
                   ELSE leaves[CellIndex(d, s, i)])>> : i \in DOMAIN s}

NoValue == [type |-> "none", leaf |-> <<>>, subs |-> <<>>]

\* what a lookup of the key gives
Value(d, h, name) ==
    LET i == FindKey(d, h, name)
        type == LookupType(d, h, name)
        cell == FindKeyData(d, h, i)
    IN  IF i = 0 THEN NoValue
        ELSE [type |-> type, leaf |-> GlobalEntries(d, type, cell.leaf),
              subs |-> [k \in DOMAIN cell.subs |-> SubContent(d, cell.subs[k][1], cell.subs[k][2])]]

(***************************************************************************)
(* repodata_lookup_kv_uninternalized, repodata_search_uninternalized: what *)
(* the edits that were not internalized yet say about a key.               *)
(***************************************************************************)
PendingValue(d, h, name) ==
    LET l == AttrsOf(d, h)
        i == AttrIndex(d, l, name)
        key == d.keys[l[i][1]]
    IN  IF i = 0 THEN NoValue
        ELSE [type |-> key.type, subs |-> <<>>,
              leaf |-> IF key.type \in {"const", "constid"} THEN GlobalEntries(d, key.type, <<<<key.size>>>>)
                       ELSE IF key.type \in NoDataTypes THEN <<>>
                       ELSE IF key.type \in StructTypes THEN ArrayAt(d, l[i][2], 1)    \* the handles
                       ELSE GlobalEntries(d, key.type, LeafEntries(d, key, l[i][2]))]
=============================================================================
