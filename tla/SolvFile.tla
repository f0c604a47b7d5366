------------------------------ MODULE SolvFile ------------------------------
(***************************************************************************)
(* A repository is written to a solv file and read back: into another      *)
(* pool, as the missing part of a repository there, or in place of a stub. *)
(* The writer and the reader run in the steps of their sources; the parts  *)
(* that are read from a file can be written again.                         *)
(***************************************************************************)
EXTENDS RepoWrite

(***************************************************************************)
(* Reading a solv file into a pool (repo_solv.c).  The strings and the     *)
(* relations of the file are mapped to ids of the pool, or the area keeps  *)
(* its own strings (REPO_LOCALPOOL).  The data is read key by key along    *)
(* the schemata, with a stack for arrays; a buffer that is refilled at     *)
(* certain places must always hold the data up to the next such place.     *)
(*                                                                         *)
(* A reader is a record: pos the next token, lim the last token in the     *)
(* buffer, frames the stack; a frame is the schema and the next key in it, *)
(* the elements left, the cells read so far and the elements done.         *)
(***************************************************************************)
KeysKey == 93                                     \* REPOSITORY_KEYS

NewReader(file, pool, repo, flags) ==
    [file |-> file, pool |-> pool, repo |-> repo, flags |-> flags, err |-> "", idmap |-> <<>>, d |-> NewData("local" \in flags),
     pos |-> 1, lim |-> 0, need |-> FALSE, frames |-> <<>>, s |-> 0, room |-> 0, fill |-> 0, stub |-> 0]
Fail(rd, why) == IF rd.err = "" THEN [rd EXCEPT !.err = why] ELSE rd

Local(rd) == "local" \in rd.flags
Extending(rd) == rd.flags \cap {"extend", "loading"} # {}
NStr(rd) == Len(rd.file.strings)
RepoRange(r) == r.first..r.last

\* a stub that is being loaded: the solvables of the stub are extended
StubArea(rd) == CHOOSE i \in DOMAIN rd.repo.areas : rd.repo.areas[i].state = "loading"
ExtendRange(rd) ==
    IF "loading" \in rd.flags
    THEN LET d == rd.repo.areas[StubArea(rd)] IN d.start..(d.end - 1)
    ELSE RepoRange(rd.repo)

ReadHeader(rd) ==
    IF rd.file.rels # <<>> /\ Local(rd) THEN Fail(rd, "relations in a local pool")
    ELSE IF Extending(rd) /\ rd.file.nsolv > 0 /\ Cardinality(ExtendRange(rd)) # rd.file.nsolv THEN Fail(rd, "number of solvables")
    ELSE IF Extending(rd) /\ rd.file.nsolv > 0 /\ ~(ExtendRange(rd) \subseteq rd.repo.own) THEN Fail(rd, "holes")
    ELSE [rd EXCEPT !.stub = IF "loading" \in rd.flags THEN StubArea(rd) ELSE 0]

\* stringpool_integrate, or the strings of the area itself
ReadStrings(rd) ==
    IF Local(rd) THEN [rd EXCEPT !.d.spool = rd.file.strings]
    ELSE LET ss == FoldLeft(WithStr, rd.pool.ss, rd.file.strings)
         IN  [rd EXCEPT !.pool.ss = ss, !.idmap = [n \in 1..NStr(rd) |-> StrId(ss, rd.file.strings[n])]]

ToPool(rd, id) == IF id = 0 \/ Local(rd) THEN id ELSE rd.idmap[id]

\* a part of a relation must be known already
ReadRel(rd, n) ==
    LET r == rd.file.rels[n]
        rel == <<ToPool(rd, r[1]), ToPool(rd, r[2]), r[3]>>
        known == SelectInSeq(rd.pool.rels, LAMBDA x : x = rel)
    IN  IF r[1] >= NStr(rd) + n \/ r[2] >= NStr(rd) + n THEN Fail(rd, "id too large")
        ELSE IF known # 0 THEN [rd EXCEPT !.idmap = Append(@, RelBase + known)]
        ELSE [rd EXCEPT !.idmap = Append(@, RelBase + Len(rd.pool.rels) + 1), !.pool.rels = Append(@, rel)]
ReadRels(rd) == FoldLeft(LAMBDA v, n : IF v.err = "" THEN ReadRel(v, n) ELSE v, rd, [n \in DOMAIN rd.file.rels |-> n])

\* a number above the strings starts a block; a block must not be empty
DirEntry(rd, e) == IF e > NStr(rd) THEN -(e - NStr(rd) - 1) ELSE ToPool(rd, e)
EmptyBlock(rd) == \E n \in DOMAIN rd.file.dirs : rd.file.dirs[n] > NStr(rd) /\ (n = Len(rd.file.dirs) \/ rd.file.dirs[n + 1] > NStr(rd))
ReadDirs(rd) ==
    IF rd.file.ndirs = 0 THEN rd
    ELSE IF EmptyBlock(rd) \/ (\E n \in DOMAIN rd.file.dirs : rd.file.dirs[n] <= 0) THEN Fail(rd, "bad dir component")
    ELSE [rd EXCEPT !.d.dirs = FreshDirs \o [n \in DOMAIN rd.file.dirs |-> DirEntry(rd, rd.file.dirs[n])]]

(***************************************************************************)
(* Keys: name and type are strings of the file.                            *)
(***************************************************************************)
TextIn(rd, id) == rd.file.strings[id]
KnownType(c) == c > 69 /\ c <= 69 + Len(Types)
ReadKeyRec(rd, k) ==
    [name |-> IF Local(rd) THEN StrId(rd.pool.ss, TextIn(rd, k.name)) ELSE ToPool(rd, k.name),
     type |-> IF KnownType(TextIn(rd, k.type)) THEN Types[TextIn(rd, k.type) - 69] ELSE "void",
     storage |-> IF k.storage = "solvable" THEN "incore" ELSE k.storage,
     size |-> IF KnownType(TextIn(rd, k.type)) /\ Types[TextIn(rd, k.type) - 69] = "constid" THEN ToPool(rd, k.size) ELSE k.size]
IsField(name) == name \in {NameKey, ProvidesKey, RequiresKey}
BadKey(rd, k, key) ==
    \/ ~KnownType(TextIn(rd, k.type))
    \/ key.storage = "vertical" /\ (IsField(key.name) \/ key.type \in {"fix", "flex", "relarray"})
    \/ key.storage = "vertical" /\ ~Local(rd) /\ key.type \in {"id", "idarray"}
WithNames(rd) ==
    IF ~Local(rd) THEN rd
    ELSE [rd EXCEPT !.pool.ss = FoldLeft(WithStr, @, [n \in DOMAIN rd.file.keys |-> TextIn(rd, rd.file.keys[n].name)])]
TakeKeys(rd) ==
    IF \E n \in DOMAIN rd.file.keys : BadKey(rd, rd.file.keys[n], ReadKeyRec(rd, rd.file.keys[n])) THEN Fail(rd, "unsupported key")
    ELSE [rd EXCEPT !.d.keys = [n \in DOMAIN rd.file.keys |-> ReadKeyRec(rd, rd.file.keys[n])]]
ReadKeys(rd) == TakeKeys(WithNames(rd))

HaveIncore(rd) ==
    \E k \in DOMAIN rd.d.keys : ~IsField(rd.d.keys[k].name) /\ ~(rd.d.keys[k].name = SolvablesKey /\ rd.d.keys[k].type = "flex")

(***************************************************************************)
(* The data.  Refill reads up to the longest stretch that the writer has   *)
(* seen, plus the number of the next schema.                               *)
(***************************************************************************)
Tok(rd) == rd.file.data[rd.pos]
AtMost(a, b) == IF a < b THEN a ELSE b
Refill(rd) ==
    IF rd.pos > rd.lim + 1 THEN Fail(rd, "buffer overrun")
    ELSE [rd EXCEPT !.need = FALSE, !.lim = IF @ - rd.pos + 1 < rd.file.max + 1 THEN AtMost(rd.pos + rd.file.max, Len(rd.file.data)) ELSE @]

ReadFrame(schema, left, fix, key) == [schema |-> schema, at |-> 1, left |-> left, fix |-> fix, key |-> key, cells |-> <<>>, elems |-> <<>>]

StartData(rd) ==
    LET id == rd.file.data[1][1]
    IN  [rd EXCEPT !.d.schemata = rd.file.schemata, !.d.loaded = TRUE, !.pos = 2, !.need = TRUE,
                   !.lim = AtMost(rd.file.max + 1, Len(rd.file.data)), !.frames = <<ReadFrame(id, 0, 0, 0)>>]

Top(rd) == Last(rd.frames)
SetTop(rd, f) == [rd EXCEPT !.frames = Append(Front(@), f)]
Depth(rd) == Len(rd.frames)
InSolvables(rd) == rd.s # 0 /\ Depth(rd) = 2

\* the entry or the element is complete
EntryOf(f) == [schema |-> f.schema, cells |-> f.cells]
KeepEntry(rd) == IF HaveIncore(rd) THEN [rd EXCEPT !.d.inc = Put(@, rd.s, EntryOf(Top(rd)))] ELSE rd
LeavesOf(f) == [n \in DOMAIN f.cells |-> f.cells[n].leaf]
KeepElem(rd) == SetTop(rd, [Top(rd) EXCEPT !.elems = Append(@, <<Top(rd).schema, LeavesOf(Top(rd))>>)])
Keep(rd) == IF Depth(rd) = 1 THEN [rd EXCEPT !.d.inc = Put(@, Meta, EntryOf(Top(rd)))]
            ELSE IF InSolvables(rd) THEN KeepEntry(rd) ELSE KeepElem(rd)

NextSchema(rd, id) == SetTop(rd, [Top(rd) EXCEPT !.schema = id, !.at = 1, !.left = @ - 1, !.cells = <<>>])
NextElement(rd) ==
    LET v == IF InSolvables(rd) THEN [rd EXCEPT !.s = @ + 1] ELSE rd
    IN  IF Top(v).fix # 0 THEN NextSchema(v, Top(v).fix) ELSE NextSchema([v EXCEPT !.pos = @ + 1], Tok(v)[1])

AddCell(rd, cell) == SetTop(rd, [Top(rd) EXCEPT !.cells = Append(@, cell)])
CellOfArray(rd, f) == IF rd.s # 0 /\ Depth(rd) = 1 THEN Leaf(<<<<rd.file.nsolv>>>>) ELSE [leaf |-> <<>>, subs |-> f.elems]
PopArray(rd, v) == [AddCell(v, CellOfArray(v, Top(rd))) EXCEPT !.s = IF Depth(v) = 1 THEN 0 ELSE @]
Pop(rd) == PopArray(rd, [rd EXCEPT !.frames = Front(@)])

\* the end of a schema: the next element, the end of the array, or the end of the data
Closed(rd) == [Keep(rd) EXCEPT !.need = @ \/ Depth(rd) <= 2]
EndOfSchema(rd) == IF Top(rd).left > 0 THEN NextElement(Closed(rd)) ELSE IF Depth(rd) = 1 THEN [Closed(rd) EXCEPT !.frames = <<>>] ELSE Pop(Closed(rd))

(***************************************************************************)
(* The values.  Extent is the position after the value of a leaf.          *)
(***************************************************************************)
FirstEof(ts, from, step) == Min({n \in from..Len(ts) : (n - from) % step = 0 /\ ts[n][2] = 1})
Extent(ts, from, type) ==
    CASE type \in {"id", "num"}           -> from
      [] type \in {"idarray", "relarray"} -> FirstEof(ts, from, 1)
      [] type = "dirstr"                  -> FirstEof(ts, from, 2) + 1
      [] OTHER                            -> from - 1

Decoded(rd, type, ts) ==
    CASE type = "num" -> <<<<ts[1][1]>>>>
      [] type \in {"id", "idarray"} -> [n \in DOMAIN ts |-> <<ToPool(rd, ts[n][1])>>]
      [] type = "dirstr" -> [n \in 1..(Len(ts) \div 2) |-> <<ts[2 * n - 1][1], ts[2 * n][1]>>]
      [] OTHER -> <<>>

\* data_read_rel_idarray: differences; 0 is the marker, or the end of an empty array
RelStep(rd, marker, st, tok) ==
    IF tok[1] = 0
    THEN IF tok[2] = 1 THEN st ELSE [ids |-> IF marker # 0 THEN Append(st.ids, marker) ELSE st.ids, old |-> 0]
    ELSE [ids |-> Append(st.ids, ToPool(rd, st.old + tok[1] - 1)), old |-> st.old + tok[1] - 1]
ReadRelArray(rd, name, ts) == FoldLeft(LAMBDA st, tok : RelStep(rd, MarkerOf(name), st, tok), [ids |-> <<>>, old |-> 0], ts).ids

TooLarge(rd, type, ts) ==
    \/ type \in {"id", "idarray"} /\ \E n \in DOMAIN ts : ts[n][1] > NStr(rd) + Len(rd.file.rels)
    \/ type = "dirstr" /\ \E n \in DOMAIN ts : n % 2 = 1 /\ ts[n][1] >= rd.file.ndirs

\* fields go into the solvable, dependency arrays into the space that was reserved for them
SetField(rd, name, ids) ==
    [rd EXCEPT !.pool.solv[rd.s] = [@ EXCEPT ![name] = ids], !.fill = IF name = NameKey THEN @ ELSE @ + Len(ids) + 1]
CheckRoom(rd) == IF rd.fill > rd.room THEN Fail(rd, "idarray overflow") ELSE rd
FieldValue(rd, name, ts) == IF name = NameKey THEN <<ToPool(rd, ts[1][1])>> ELSE ReadRelArray(rd, name, ts)

LeafValue(rd, key, ts) ==
    IF rd.s # 0 /\ IsField(key.name) THEN CheckRoom(SetField(rd, key.name, FieldValue(rd, key.name, ts)))
    ELSE IF TooLarge(rd, key.type, ts) THEN Fail(rd, "id too large")
    ELSE IF key.type \in NoDataTypes THEN rd
    ELSE AddCell(rd, Leaf(Decoded(rd, key.type, ts)))
ReadLeaf(rd, key) ==
    LET end == Extent(rd.file.data, rd.pos, key.type)
    IN  LeafValue([rd EXCEPT !.pos = end + 1], key, SubSeq(rd.file.data, rd.pos, end))

\* only the place of vertical data is recorded; the data is decoded when it is looked up
VerticalBase(rd, k) ==
    FoldLeft(LAMBDA n, j : IF rd.d.keys[j].storage = "vertical" THEN n + rd.d.keys[j].size ELSE n, 0, [j \in 1..(k - 1) |-> j])
ReadVertical(rd, k) ==
    LET off == VerticalBase(rd, k) + Tok(rd)[1]
        ts == SubSeq(rd.file.vert, off + 1, off + rd.file.data[rd.pos + 1][1])
        v == [rd EXCEPT !.pos = @ + 2]
    IN  IF rd.d.keys[k].type \in NoDataTypes THEN v
        ELSE AddCell([v EXCEPT !.d.store = Append(@, Leaf(Decoded(rd, rd.d.keys[k].type, ts)))], Leaf(<<<<Len(rd.d.store) + 1>>>>))

(***************************************************************************)
(* Arrays of structures; the one of the solvables makes the solvables.     *)
(***************************************************************************)
FreshSolvables(rd) ==      \* repo_add_solvable_block at the end of the pool, or the ones that are extended
    IF Extending(rd) THEN Min(ExtendRange(rd)) ELSE Len(rd.pool.solv) + 1
Room4Deps(rd) ==
    FoldLeft(LAMBDA n, key : IF IsField(key.name) /\ key.type \in {"idarray", "relarray"} THEN n + key.size ELSE n, 0, rd.d.keys)
NoFields == [n \in {NameKey, ProvidesKey, RequiresKey} |-> <<>>]
WithSolvables(rd, s) ==
    [rd EXCEPT !.s = s, !.d.start = s, !.d.end = s + rd.file.nsolv, !.room = Room4Deps(rd),
               !.pool.solv = IF Extending(rd) THEN @ ELSE @ \o [n \in 1..rd.file.nsolv |-> NoFields],
               !.repo = IF Extending(rd) THEN @
                        ELSE [@ EXCEPT !.own = @ \cup s..(s + rd.file.nsolv - 1), !.last = s + rd.file.nsolv - 1,
                                       !.first = IF rd.repo.own = {} THEN s ELSE @]]
ReadSolvables(rd, n) ==
    IF n # rd.file.nsolv THEN Fail(rd, "inconsistent number of solvables")
    ELSE IF rd.room # 0 THEN Fail(rd, "more than one solvable block")
    ELSE WithSolvables(rd, FreshSolvables(rd))

PushFrame(rd, k, n) ==
    LET schema == Tok(rd)[1]
    IN  [rd EXCEPT !.pos = @ + 1,
                   !.frames = Append(@, ReadFrame(schema, n - 1, IF rd.d.keys[k].type = "fix" THEN schema ELSE 0, k))]
OpenArray(rd, k, n) ==
    IF n = 0 THEN AddCell(rd, Leaf(<<>>))
    ELSE IF Depth(rd) = 1 /\ rd.d.keys[k].name = SolvablesKey THEN PushFrame(ReadSolvables(rd, n), k, n)
    ELSE PushFrame(rd, k, n)
ReadArray(rd, k) == OpenArray([rd EXCEPT !.pos = @ + 1, !.need = @ \/ Depth(rd) = 1], k, Tok(rd)[1])

NextKeyOf(rd) == rd.d.schemata[Top(rd).schema][Top(rd).at]
AtEnd(rd) == Top(rd).schema = 0 \/ Top(rd).at > Len(rd.d.schemata[Top(rd).schema])
Advance(rd) == SetTop(rd, [Top(rd) EXCEPT !.at = @ + 1])
ReadValue(rd, k) ==
    IF rd.d.keys[k].storage = "vertical" THEN ReadVertical(rd, k)
    ELSE IF rd.d.keys[k].type \in StructTypes THEN ReadArray(rd, k)
    ELSE ReadLeaf(rd, rd.d.keys[k])
StepKey(rd) == IF AtEnd(rd) THEN EndOfSchema(rd) ELSE ReadValue(Advance(rd), NextKeyOf(rd))
IfFine(rd) == IF rd.err # "" THEN rd ELSE StepKey(rd)
ReadStep(rd) == IF Depth(rd) = 1 \/ rd.need THEN IfFine(Refill(rd)) ELSE StepKey(rd)

(***************************************************************************)
(* The end: an error takes the solvables back (strings and relations       *)
(* stay); otherwise the area is published in place of the stub or as a     *)
(* new one, and an area is added for every external part.                  *)
(***************************************************************************)
FinalKey(key) == [key EXCEPT !.type = IF @ = "relarray" THEN "idarray" ELSE @, !.storage = IF IsField(key.name) THEN "solvable" ELSE @]
EndCheck(rd) == IF rd.err = "" /\ rd.pos > rd.lim + 1 THEN Fail(rd, "buffer overrun") ELSE rd
TakeBack(rd, repo) ==
    [rd EXCEPT !.repo = repo, !.pool.solv = IF Extending(rd) \/ rd.d.start = 0 THEN @ ELSE SubSeq(@, 1, rd.d.start - 1)]

HasName(d, name) == \E k \in DOMAIN d.keys : d.keys[k].name = name
FinalArea(rd) ==
    [rd.d EXCEPT !.keys = [k \in DOMAIN @ |-> FinalKey(@[k])],
                 !.filelist = IF Extending(rd) THEN (IF HasName(rd.d, FilelistKey) THEN "extension" ELSE "full")
                              ELSE IF LookupType(rd.d, Meta, FilteredKey) # "none" THEN "filtered" ELSE "full"]

\* repodata_create_stubs: the keys of a stub are listed as pairs of name and type
Externals(d) == LET i == FindKey(d, Meta, ExternalKey) IN IF i = 0 THEN <<>> ELSE FindKeyData(d, Meta, i).subs
StubOf(d, sub) ==
    LET content == SubContent(d, sub[1], sub[2])
        lists == {c \in content : c[1] = KeysKey}
        ids == IF lists = {} THEN <<>> ELSE (CHOOSE c \in lists : TRUE)[3]
        pairs == [n \in 1..(Len(ids) \div 2) |-> KeyRec(ids[2 * n - 1][1], Types[ids[2 * n][1] - 69], 0)]
        data == FoldLeft(Key2id, [NewData(FALSE) EXCEPT !.nx = 2], pairs)
    IN  [data EXCEPT !.state = "stub", !.start = d.start, !.end = d.end,
                     !.filelist = IF HasName(data, FilelistKey) THEN "extension" ELSE "full"]
Stubs(rd, d) == IF rd.stub # 0 \/ "nostubs" \in rd.flags THEN <<>> ELSE [n \in DOMAIN Externals(d) |-> StubOf(d, Externals(d)[n])]

AddAreas(repo, new) == [repo EXCEPT !.areas = @ \o new, !.file = @ \o [n \in DOMAIN new |-> [NewData(FALSE) EXCEPT !.state = "error"]]]
PublishArea(rd, d) ==
    IF rd.stub # 0 THEN [rd EXCEPT !.repo.areas[rd.stub] = d]
    ELSE [rd EXCEPT !.repo = AddAreas(@, <<d>> \o Stubs(rd, d))]
Publish(rd, repo) == IF rd.err # "" THEN TakeBack(rd, repo) ELSE PublishArea(rd, FinalArea(rd))

-----------------------------------------------------------------------------
CONSTANT Cases     \* [pool, repo, opts, how, into]: what is written, how it is read, and where

VARIABLES case,    \* the case
          sf,      \* where we are: writing or reading
          from,    \* [pool, repo] that is written
          w,       \* the writer
          file,    \* the file
          rd       \* the reader
solvVars == <<case, sf, from, w, file, rd>>

Idle == [none |-> TRUE]
SolvInit ==
    /\ case \in Cases
    /\ sf = [at |-> "write", n |-> 0, round |-> 1]
    /\ from = [pool |-> case.pool, repo |-> case.repo]
    /\ w = Idle /\ file = Idle /\ rd = Idle

Goto(at, n) == sf' = [sf EXCEPT !.at = at, !.n = n]
Writing == UNCHANGED <<case, from, file, rd>>
OwnSeq(r) == SelectSeq([n \in 1..(r.last - r.first + 1) |-> r.first + n - 1], LAMBDA p : p \in r.own)

(***************************************************************************)
(* repowriter_write                                                        *)
(***************************************************************************)
OpenWriter ==
    /\ sf.at = "write"
    /\ w' = StartKeys(NewWriter(from.pool, from.repo, case.opts))
    /\ Goto("areas", 1) /\ Writing
TakeNextArea ==
    /\ sf.at = "areas" /\ sf.n <= Len(w.repo.areas)
    /\ w' = IF sf.n \in case.opts.from..case.opts.to THEN TakeArea(w, sf.n) ELSE w
    /\ Goto("areas", sf.n + 1) /\ Writing
CollectMain ==
    /\ sf.at = "areas" /\ sf.n > Len(w.repo.areas)
    /\ w' = NeedMain(ChoosePools(w))
    /\ Goto("collect", 1) /\ Writing
CollectSolvable ==
    /\ sf.at = "collect" /\ sf.n <= Len(OwnSeq(w.repo))
    /\ w' = NeedSolvable(w, OwnSeq(w.repo)[sf.n])
    /\ Goto("collect", sf.n + 1) /\ Writing
FixKeys ==
    /\ sf.at = "collect" /\ sf.n > Len(OwnSeq(w.repo))
    /\ w' = ListMode(DropUnusedKeys(CloseMain(w)))
    /\ Goto("count", 0) /\ Writing
CountUses ==
    /\ sf.at = "count"
    /\ w' = NeedDirs(NeedRels(NeedKeys(PutKeyStrings(w))))
    /\ Goto("number", 0) /\ Writing
NumberIds ==
    /\ sf.at = "number"
    /\ w' = MapDirs(Renumber(w))
    /\ Goto("main", 0) /\ Writing
EncodeMain ==
    /\ sf.at = "main"
    /\ w' = DataCount(DataMain(w))
    /\ Goto("encode", 1) /\ Writing
EncodeSolvable ==
    /\ sf.at = "encode" /\ sf.n <= Len(OwnSeq(w.repo))
    /\ w' = DataSolvable(w, OwnSeq(w.repo)[sf.n], sf.n)
    /\ Goto("encode", sf.n + 1) /\ Writing
WriteFile ==
    /\ sf.at = "encode" /\ sf.n > Len(OwnSeq(w.repo))
    /\ file' = FileOf(ListFiles(w, OwnSeq(w.repo)))
    /\ w' = Idle /\ rd' = Idle
    /\ from' = [pool |-> w.pool, repo |-> w.repo]     \* stubs have been loaded, strings of constants added
    /\ Goto("read", 0) /\ UNCHANGED case

(***************************************************************************)
(* repo_add_solv                                                           *)
(***************************************************************************)
Reading == UNCHANGED <<case, from, w, file>>
OpenReader ==
    /\ sf.at = "read"
    /\ rd' = ReadHeader(NewReader(file, case.into.pool, case.into.repo, case.how))
    /\ Goto(IF rd'.err = "" THEN "tables" ELSE "publish", 0) /\ Reading
ReadTables ==
    /\ sf.at = "tables"
    /\ rd' = ReadRels(ReadStrings(rd))
    /\ Goto(IF rd'.err = "" THEN "keys" ELSE "publish", 0) /\ Reading
ReadKeyTable ==
    /\ sf.at = "keys"
    /\ rd' = ReadKeys(ReadDirs(rd))
    /\ Goto(IF rd'.err = "" THEN "start" ELSE "publish", 0) /\ Reading
BeginData ==
    /\ sf.at = "start"
    /\ rd' = StartData(rd)
    /\ Goto("data", 0) /\ Reading
ReadData ==
    /\ sf.at = "data" /\ rd.frames # <<>> /\ rd.err = ""
    /\ rd' = ReadStep(rd)
    /\ UNCHANGED sf /\ Reading
EndData ==
    /\ sf.at = "data" /\ (rd.frames = <<>> \/ rd.err # "")
    /\ rd' = EndCheck(rd)
    /\ Goto("publish", 0) /\ Reading
PublishIt ==
    /\ sf.at = "publish"
    /\ rd' = Publish(rd, case.into.repo)
    /\ Goto("done", 0) /\ Reading
WriteAgain ==
    /\ sf.at = "done" /\ sf.round < case.rounds /\ rd.err = ""
    /\ from' = [pool |-> rd.pool, repo |-> rd.repo]
    /\ sf' = [at |-> "write", n |-> 0, round |-> sf.round + 1]
    /\ w' = Idle /\ file' = Idle /\ rd' = Idle /\ UNCHANGED case
SolvDone == sf.at = "done" /\ (sf.round = case.rounds \/ rd.err # "") /\ UNCHANGED solvVars

SolvNext ==
    \/ OpenWriter \/ TakeNextArea \/ CollectMain \/ CollectSolvable \/ FixKeys \/ CountUses \/ NumberIds
    \/ EncodeMain \/ EncodeSolvable \/ WriteFile
    \/ OpenReader \/ ReadTables \/ ReadKeyTable \/ BeginData \/ ReadData \/ EndData \/ PublishIt \/ WriteAgain \/ SolvDone
SolvSpec == SolvInit /\ [][SolvNext]_solvVars

(***************************************************************************)
(* What a repository says, independent of the numbers of its pool: strings *)
(* by their content, relations as trees, directories as paths.             *)
(***************************************************************************)
RelTexts(pool) ==
    LET part(f, id) == IF IsRel(id) THEN f[id - RelBase] ELSE IF id = 0 THEN <<0>> ELSE <<pool.ss[id]>>
        text[n \in DOMAIN pool.rels] == <<-1, pool.rels[n][3]>> \o part(text, pool.rels[n][1]) \o <<-2>> \o part(text, pool.rels[n][2]) \o <<-3>>
    IN  text
IdText(pool, d, id) == IF d.local THEN <<d.spool[id]>> ELSE IF IsRel(id) THEN RelTexts(pool)[id - RelBase] ELSE <<pool.ss[id]>>
PathText(pool, d, dir) ==
    LET comps == Dir2str(d.dirs, dir) IN [n \in DOMAIN comps |-> IF comps[n] > 1 THEN IdText(pool, d, comps[n])[1] ELSE comps[n]]
LeafText(pool, d, type, entries) ==
    [n \in DOMAIN entries |->
        IF type \in {"id", "idarray", "constid"} THEN IdText(pool, d, entries[n][1])
        ELSE IF type = "dirstr" THEN Append(PathText(pool, d, entries[n][1]), entries[n][2]) ELSE entries[n]]
SubText(pool, d, sub) ==
    LET s == Schema(d, sub[1])
    IN  {LET key == d.keys[s[i]]
         IN  <<key.name, key.type,
               LeafText(pool, d, key.type, IF key.type \in {"const", "constid"} THEN <<<<key.size>>>>
                                           ELSE IF key.type \in NoDataTypes THEN <<>>
                                           ELSE IF key.storage = "vertical" THEN GetData(d, key, Leaf(sub[2][CellIndex(d, s, i)])).leaf
                                           ELSE sub[2][CellIndex(d, s, i)])>> : i \in DOMAIN s}
KeyText(pool, d, h, i) ==
    LET key == d.keys[OldSchema(d, h)[i]]
        cell == FindKeyData(d, h, i)
    IN  [type |-> key.type, leaf |-> LeafText(pool, d, key.type, cell.leaf),
         subs |-> [n \in DOMAIN cell.subs |-> SubText(pool, d, cell.subs[n])]]
NoText == [type |-> "none", leaf |-> <<>>, subs |-> <<>>]
AreaText(pool, d, h, name) ==
    LET i == FindKey(d, h, name)
    IN  IF i = 0 \/ d.state # "available" THEN NoText ELSE KeyText(pool, d, h, i)
FoundText(pool, st, h, name) == IF st.found = 0 THEN NoText ELSE AreaText(pool, st.repo.areas[st.found], h, name)
Shown(t) == IF t.type = "deleted" THEN NoText ELSE t

\* the latest of the written areas decides; a dropped name is not there
Says(pool, repo, h, name) == Shown(FoundText(pool, AfterLoad(LookupRepodataOpt(repo, h, name), name), h, name))
Dropped(name) == StorageFor(case.opts, name) = "dropped"
WithoutDropped(t) == [t EXCEPT !.subs = [n \in DOMAIN @ |-> {c \in @[n] : ~Dropped(c[1])}]]
Wrote(h, name) ==
    LET areas == [case.repo EXCEPT !.areas = SubSeq(@, case.opts.from, case.opts.to), !.file = SubSeq(@, case.opts.from, case.opts.to)]
    IN  IF Dropped(name) THEN NoText ELSE WithoutDropped(Says(case.pool, areas, h, name))
NamesIn(areas) == UNION {{areas[i].keys[k].name : k \in DOMAIN areas[i].keys} : i \in DOMAIN areas}
AttrNames == (NamesIn(case.repo.areas) \cup NamesIn(case.repo.file)) \ {SolvablesKey, NameKey, ProvidesKey, RequiresKey}

\* a dependency array: the two halves around the marker, as sets
Side(pool, ids) == <<Len(ids), {IdText(pool, [local |-> FALSE], ids[n]) : n \in DOMAIN ids}>>
Halves(pool, ids, marker) ==
    LET i == IF marker \in Range(ids) THEN SelectInSeq(ids, LAMBDA x : x = marker) ELSE Len(ids) + 1
    IN  <<Side(pool, SubSeq(ids, 1, i - 1)), Side(pool, SubSeq(ids, i + 1, Len(ids)))>>
FieldText(pool, p, name) == Halves(pool, pool.solv[p][name], MarkerOf(name))

\* the files that the reader must refuse
VerticalIds ==
    \E i \in case.opts.from..case.opts.to : \E d \in {case.repo.areas[i], case.repo.file[i]} : \E k \in DOMAIN d.keys :
        d.keys[k].type \in {"id", "idarray"} /\ StorageFor(case.opts, d.keys[k].name) = "vertical"
Refused ==
    \/ file.rels # <<>> /\ "local" \in case.how
    \/ "local" \notin case.how /\ VerticalIds
    \/ case.how \cap {"extend", "loading"} # {} /\ file.nsolv > 0 /\ (case.into.repo.last - case.into.repo.first + 1 # file.nsolv \/ case.into.repo.own # RepoRange(case.into.repo))

NewArea == IF rd.stub # 0 THEN rd.stub ELSE Len(case.into.repo.areas) + 1
\* the entry of the new area that stands for the n-th written solvable
Twin(n) == rd.repo.areas[NewArea].start + n - 1
Got(h, name) == Shown(AreaText(rd.pool, rd.repo.areas[NewArea], h, name))

(***************************************************************************)
(* What is read back is what the overlay of the written areas said, key by *)
(* key and field by field, in whatever pool and however often it is done;  *)
(* files that were written are accepted, except where the reader has to    *)
(* refuse them, and a refused file leaves the repository as it was.  In    *)
(* the pool there is still one id for a string and one for a relation.     *)
(***************************************************************************)
FileRoundTrip ==
    sf.at = "done" =>
        /\ (rd.err # "") = Refused
        /\ IsInjective(rd.pool.ss) /\ IsInjective(rd.pool.rels)
        /\ rd.err # "" => rd.repo = case.into.repo /\ rd.pool.solv = case.into.pool.solv
        /\ rd.err = "" =>
             /\ \A name \in AttrNames : Got(Meta, name) = Wrote(Meta, name)
             /\ \A n \in DOMAIN OwnSeq(case.repo) :
                  /\ \A name \in AttrNames : Got(Twin(n), name) = Wrote(OwnSeq(case.repo)[n], name)
                  /\ "nosolvable" \notin case.opts.flags =>
                        \A name \in {nm \in Range(SolvableNames) : ~Dropped(nm)} : FieldText(rd.pool, Twin(n), name) = FieldText(case.pool, OwnSeq(case.repo)[n], name)
=============================================================================
