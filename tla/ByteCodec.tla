----------------------------- MODULE ByteCodec -----------------------------
(***************************************************************************)
(* How attribute values become bytes and back: src/repopack.h, the writers *)
(* of src/repo_write.c and the readers of src/repo_solv.c.  A number is    *)
(* written in groups of seven bits, the highest first; every byte but the  *)
(* last has its top bit set.  In an array the last byte has one bit less   *)
(* for the number and one that says whether more follows.                  *)
(***************************************************************************)
EXTENDS Repopage

CONSTANTS SumLen,      \* bytes of a checksum
          ChunkSize,   \* 65536: bytes of a chunk of the id block
          ByteCases    \* what is written, see ByteInit

ASSUME BytesAssumption == SumLen \in Nat \ {0} /\ ChunkSize \in Nat \ (0..7)

VARIABLE bc

-----------------------------------------------------------------------------
(* Numbers.  An id is below 2^31.  A number of 64 bits is [hx, top, y]: its *)
(* high word, the four highest bits of the low word, and the other 28.      *)

Lead(x, shifts) ==
    LET used == SelectSeq(shifts, LAMBDA n : x >= 2^n)
    IN  [j \in DOMAIN used |-> 128 + ((x \div 2^used[j]) % 128)]
\* data_addid, incore_add_id, write_id
AddId(x) == Lead(x, <<28, 21, 14, 7>>) \o <<x % 128>>
\* data_addideof, incore_add_ideof
AddIdEof(x, eof) == Lead(x, <<27, 20, 13, 6>>) \o <<(x % 64) + (IF eof THEN 0 ELSE 64)>>
\* data_addideof_len
AddIdEofLen(x) ==
    IF x >= 2^13 THEN IF x >= 2^27 THEN 5 ELSE IF x >= 2^20 THEN 4 ELSE 3
    ELSE IF x >= 2^6 THEN 2 ELSE 1
\* All four bytes of the lower 28 bits.
LowFour(y) == <<128 + (y \div 2^21), 128 + ((y \div 2^14) % 128), 128 + ((y \div 2^7) % 128), y % 128>>
MoreFollows(bytes) == [bytes EXCEPT ![Len(bytes)] = @ + 128]
\* data_addid of all 32 bits of a word.
AddWord(top, y) == IF top = 0 THEN AddId(y) ELSE <<128 + top>> \o LowFour(y)
\* data_addid64
AddNum(n) ==
    IF n.hx = 0 THEN AddWord(n.top, n.y)
    ELSE (IF n.hx > 7 THEN MoreFollows(AddId(n.hx \div 8)) ELSE <<>>)
         \o <<128 + n.top + 16 * (n.hx % 8)>> \o LowFour(n.y)
\* incore_add_sizek: a size in units of 1024 bytes.
AddSizeK(sx) ==
    IF sx < 2^22 THEN AddWord(sx \div 2^18, (sx % 2^18) * 1024)
    ELSE (IF sx >= 2^25 THEN MoreFollows(AddId(sx \div 2^25)) ELSE <<>>)
         \o <<128 + ((sx \div 2^18) % 128)>> \o LowFour((sx % 2^18) * 1024)

\* The last byte of the number that begins at pos.
LastByte(bytes, pos) == Min({j \in pos..Len(bytes) : bytes[j] < 128})
GroupsValue(groups) == FoldLeft(LAMBDA x, b : x * 128 + (b % 128), 0, groups)
\* data_read_id
ReadIdTo(bytes, pos, last) == [x |-> GroupsValue(SubSeq(bytes, pos, last)), pos |-> last + 1]
ReadId(bytes, pos) == ReadIdTo(bytes, pos, LastByte(bytes, pos))
\* data_read_ideof
ReadIdEofTo(bytes, pos, last) ==
    [x |-> GroupsValue(SubSeq(bytes, pos, last - 1)) * 64 + (bytes[last] % 64),
     eof |-> bytes[last] < 64, pos |-> last + 1]
ReadIdEof(bytes, pos) == ReadIdEofTo(bytes, pos, LastByte(bytes, pos))
\* data_read_num64
GroupsNum(groups, n) ==
    IF n < 5 THEN [hx |-> 0, top |-> 0, y |-> GroupsValue(groups)]
    ELSE [hx |-> GroupsValue(SubSeq(groups, 1, n - 5)) * 8 + ((groups[n-4] % 128) \div 16),
          top |-> groups[n-4] % 16, y |-> GroupsValue(SubSeq(groups, n - 3, n))]
ReadNumTo(bytes, pos, last) == [x |-> GroupsNum(SubSeq(bytes, pos, last), last - pos + 1), pos |-> last + 1]
ReadNum(bytes, pos) == ReadNumTo(bytes, pos, LastByte(bytes, pos))

-----------------------------------------------------------------------------
(* Values.  A value is [type, size, es]: size is what the key has for a     *)
(* constant, es the elements [id, num, num2, str]; one that is no array has *)
(* one element.                                                             *)

NoNum == [hx |-> 0, top |-> 0, y |-> 0]
Small(y) == [NoNum EXCEPT !.y = y]
Kilobytes(n) == n.hx * 2^22 + n.top * 2^18 + (n.y \div 1024)
NoElement == [id |-> 0, num |-> NoNum, num2 |-> 0, str |-> <<>>]
ElementBytes(type, e, eof) ==
    CASE type \in {"id", "dir"} -> AddId(e.id)
      [] type = "num" -> AddNum(e.num)
      [] type = "sizek" -> AddSizeK(Kilobytes(e.num))
      [] type = "checksum" -> e.str
      [] type = "binary" -> AddId(Len(e.str)) \o e.str
      [] type = "str" -> Append(e.str, 0)
      [] type = "idarray" -> AddIdEof(e.id, eof)
      [] type = "dirstrarray" -> AddIdEof(e.id, eof) \o Append(e.str, 0)
      [] type = "dirnumnumarray" -> AddId(e.id) \o AddId(e.num.y) \o AddIdEof(e.num2, eof)
      [] OTHER -> <<>>
ValueBytes(v) ==
    FlattenSeq([n \in DOMAIN v.es |-> ElementBytes(v.type, v.es[n], n = Len(v.es))])
Encoded(vals) == FlattenSeq([k \in DOMAIN vals |-> ValueBytes(vals[k])])

\* The zero byte that ends the string at pos.
StrEnd(bytes, pos) == Min({j \in pos..Len(bytes) : bytes[j] = 0})
Fetched(e, pos, eof) == [e |-> e, pos |-> pos, eof |-> eof]
FetchId(r) == Fetched([NoElement EXCEPT !.id = r.x], r.pos, TRUE)
FetchNum(r) == Fetched([NoElement EXCEPT !.num = r.x], r.pos, TRUE)
FetchStr(bytes, id, pos, eof, end) ==
    Fetched([NoElement EXCEPT !.id = id, !.str = SubSeq(bytes, pos, end - 1)], end + 1, eof)
FetchSum(bytes, pos) ==
    Fetched([NoElement EXCEPT !.str = SubSeq(bytes, pos, pos + SumLen - 1)], pos + SumLen, TRUE)
FetchBinary(bytes, r) ==
    Fetched([NoElement EXCEPT !.str = SubSeq(bytes, r.pos, r.pos + r.x - 1)], r.pos + r.x, TRUE)
FetchIdEof(r) == Fetched([NoElement EXCEPT !.id = r.x], r.pos, r.eof)
FetchNums(id, num, r) ==
    Fetched([NoElement EXCEPT !.id = id, !.num = Small(num), !.num2 = r.x], r.pos, r.eof)
FetchDirStr(bytes, r) == FetchStr(bytes, r.x, r.pos, r.eof, StrEnd(bytes, r.pos))
FetchDirNumNum(bytes, id) ==
    LET num == ReadId(bytes, id.pos) IN FetchNums(id.x, num.x, ReadIdEof(bytes, num.pos))
\* data_fetch
Fetch(bytes, pos, key) ==
    CASE key.type = "constant" -> Fetched([NoElement EXCEPT !.num = Small(key.size)], pos, TRUE)
      [] key.type = "constantid" -> Fetched([NoElement EXCEPT !.id = key.size], pos, TRUE)
      [] key.type \in {"id", "dir"} -> FetchId(ReadId(bytes, pos))
      [] key.type \in {"num", "sizek"} -> FetchNum(ReadNum(bytes, pos))
      [] key.type = "checksum" -> FetchSum(bytes, pos)
      [] key.type = "binary" -> FetchBinary(bytes, ReadId(bytes, pos))
      [] key.type = "str" -> FetchStr(bytes, 0, pos, TRUE, StrEnd(bytes, pos))
      [] key.type = "idarray" -> FetchIdEof(ReadIdEof(bytes, pos))
      [] key.type = "dirstrarray" -> FetchDirStr(bytes, ReadIdEof(bytes, pos))
      [] key.type = "dirnumnumarray" -> FetchDirNumNum(bytes, ReadId(bytes, pos))
      [] OTHER -> Fetched(NoElement, pos, TRUE)

SkipNum(bytes, pos) == LastByte(bytes, pos) + 1
SkipBinary(r) == r.pos + r.x
SkipStr(bytes, pos) == StrEnd(bytes, pos) + 1
\* Element by element, up to the one whose number says that none follows.
SkipElements(bytes, pos, NumEnd(_), Next(_)) ==
    LET go[p \in Nat] == IF bytes[NumEnd(p)] < 64 THEN Next(NumEnd(p)) ELSE go[Next(NumEnd(p))]
    IN  go[pos]
\* data_skip
Skip(bytes, pos, type) ==
    CASE type \in {"id", "dir", "num", "sizek"} -> SkipNum(bytes, pos)
      [] type = "checksum" -> pos + SumLen
      [] type = "binary" -> SkipBinary(ReadId(bytes, pos))
      [] type = "str" -> SkipStr(bytes, pos)
      [] type = "idarray" -> Min({j \in pos..Len(bytes) : bytes[j] < 64}) + 1
      [] type = "dirstrarray" ->
            SkipElements(bytes, pos, LAMBDA p : LastByte(bytes, p), LAMBDA p : SkipStr(bytes, p + 1))
      [] type = "dirnumnumarray" ->
            SkipElements(bytes, pos, LAMBDA p : LastByte(bytes, SkipNum(bytes, SkipNum(bytes, p))), LAMBDA p : p + 1)
      [] OTHER -> pos

-----------------------------------------------------------------------------
(* Ids and id arrays of the file, which may end too early. *)

\* write_idarray
Spread(id) == IF id >= 64 THEN (id % 64) + 128 * (id \div 64) ELSE id
WriteIdArray(ids) ==
    IF ids = <<>> THEN <<0>>
    ELSE FlattenSeq([n \in DOMAIN ids |-> AddId(Spread(ids[n]) + (IF n = Len(ids) THEN 0 ELSE 64))])
ReadFailed(why) == [x |-> 0, pos |-> 0, eof |-> TRUE, err |-> why]
ReadFine(x, pos, eof) == [x |-> x, pos |-> pos, eof |-> eof, err |-> ""]
\* read_id: an id has five bytes at most.
ReadFileId(bytes, pos, max) ==
    LET last == {j \in pos..Min({pos + 4, Len(bytes)}) : bytes[j] < 128}
    IN  IF last = {} THEN ReadFailed(IF pos + 4 > Len(bytes) THEN "eof" ELSE "corrupt")
        ELSE LET r == ReadIdTo(bytes, pos, Min(last))
             IN  IF max > 0 /\ r.x >= max THEN ReadFailed("range") ELSE ReadFine(r.x, r.pos, FALSE)
\* One id of read_idarray; room is how many more can be stored.
ReadArrayId(bytes, pos, max, room) ==
    LET last == {j \in pos..Len(bytes) : bytes[j] < 128}
    IN  IF last = {} THEN ReadFailed("eof")
        ELSE LET r == ReadIdEofTo(bytes, pos, Min(last))
             IN  IF max > 0 /\ r.x >= max THEN ReadFailed("range")
                 ELSE IF room = 0 \/ (r.eof /\ r.x # 0 /\ room = 1) THEN ReadFailed("overflow")
                 ELSE ReadFine(r.x, r.pos, r.eof)

-----------------------------------------------------------------------------
(* The block of all dependency arrays: every id is stored as its distance   *)
(* from the one before where that is shorter, the block is cut into chunks, *)
(* and each chunk is compressed.                                            *)

\* data_adddepids with USE_IDARRAYBLOCK
Distance(id, last) ==
    IF id < last THEN (last - id) * 2 - 1 ELSE IF id < 2 * last THEN (id - last) * 2 ELSE id
AddDepIds(ids) ==
    IF ids = <<>> THEN AddIdEof(0, TRUE)
    ELSE FlattenSeq([n \in DOMAIN ids |-> AddIdEof(Distance(ids[n], IF n = 1 THEN 0 ELSE ids[n-1]), n = Len(ids))])
\* write_compressed_blob: the length of a full chunk does not fit in its two
\* bytes, it is written as 0.
Chunk(bytes, codes, last) ==
    IF codes = <<>> THEN [last |-> last, len |-> Len(bytes) % ChunkSize, raw |-> bytes, codes |-> <<>>]
    ELSE [last |-> last, len |-> Size(codes) % ChunkSize, raw |-> <<>>, codes |-> codes]
Chunks(blob) ==
    LET n == (Len(blob) + ChunkSize - 1) \div ChunkSize
        part(c) == SubSeq(blob, (c - 1) * ChunkSize + 1, Min({c * ChunkSize, Len(blob)}))
    IN  [c \in 1..n |-> Chunk(part(c), Compress(part(c), ChunkSize - 1), c = n)]
\* The bytes a chunk of that length gives.
ChunkLength(len) == IF len = 0 THEN ChunkSize ELSE len
ChunkBytes(chunk) ==
    IF chunk.codes = <<>> THEN SubSeq(chunk.raw, 1, ChunkLength(chunk.len))
    ELSE IF Size(chunk.codes) # ChunkLength(chunk.len) THEN <<>>
    ELSE DecompressPage(chunk.codes, ChunkSize)
\* convert_idarray_block
Undo(id, old) ==
    IF id >= 2 * old THEN id ELSE IF id % 2 = 1 THEN old - (id \div 2) - 1 ELSE old + (id \div 2)

-----------------------------------------------------------------------------
(* The machines: one of the three that the case asks for. *)

\* [mode "values", vals]: a row of values.  [mode "ids", ids, arr, cut, max,
\* room]: ids and an array in a file of which the last cut bytes are missing.
\* [mode "block", arrays]: dependency arrays.
StartCase(c) ==
    CASE c.mode = "values" -> [case |-> c, bytes |-> Encoded(c.vals), k |-> 0, pos |-> 1, next |-> 1,
                               at |-> 1, busy |-> FALSE, eof |-> TRUE, got |-> <<>>]
      [] c.mode = "ids" -> LET all == FlattenSeq([n \in DOMAIN c.ids |-> AddId(c.ids[n])]) \o WriteIdArray(c.arr)
                           IN  [case |-> c, bytes |-> SubSeq(all, 1, Len(all) - c.cut), pos |-> 1,
                                got |-> <<>>, arr |-> <<>>, eof |-> FALSE, err |-> ""]
      [] c.mode = "block" -> [case |-> c, chunks |-> Chunks(FlattenSeq([n \in DOMAIN c.arrays |-> AddDepIds(c.arrays[n])])),
                              buf |-> <<>>, eof |-> FALSE, block |-> <<>>, done |-> <<>>, state |-> "unpack",
                              size |-> FoldLeft(LAMBDA n, a : n + Len(a) + 1, 0, c.arrays), err |-> ""]
ByteInit == bc \in {StartCase(c) : c \in ByteCases}

\* A reader of the row knows where the next value begins before it reads this one.
EnterValue ==
    /\ bc.case.mode = "values" /\ ~bc.busy /\ bc.k < Len(bc.case.vals)
    /\ bc' = [bc EXCEPT !.k = @ + 1, !.busy = TRUE, !.at = bc.pos, !.eof = FALSE, !.got = <<>>,
                        !.next = Skip(bc.bytes, bc.pos, bc.case.vals[bc.k + 1].type)]
TakeElement(r) == bc' = [bc EXCEPT !.at = r.pos, !.eof = r.eof, !.got = Append(@, r.e)]
FetchElement ==
    /\ bc.case.mode = "values" /\ bc.busy /\ ~bc.eof
    /\ TakeElement(Fetch(bc.bytes, bc.at, bc.case.vals[bc.k]))
\* It may stop at any element.
LeaveValue ==
    /\ bc.case.mode = "values" /\ bc.busy
    /\ bc' = [bc EXCEPT !.busy = FALSE, !.pos = bc.next]

TakeId(r) == bc' = [bc EXCEPT !.err = r.err, !.pos = r.pos, !.got = IF r.err = "" THEN Append(@, r.x) ELSE @]
ReadOneId ==
    /\ bc.case.mode = "ids" /\ bc.err = "" /\ Len(bc.got) < Len(bc.case.ids)
    /\ TakeId(ReadFileId(bc.bytes, bc.pos, bc.case.max))
TakeArrayId(r) ==
    bc' = [bc EXCEPT !.err = r.err, !.pos = r.pos, !.eof = r.eof,
                     !.arr = IF r.err # "" THEN @ ELSE IF r.eof /\ r.x # 0 THEN @ \o <<r.x, 0>> ELSE Append(@, r.x)]
ReadOneOfArray ==
    /\ bc.case.mode = "ids" /\ bc.err = "" /\ Len(bc.got) = Len(bc.case.ids) /\ ~bc.eof
    /\ TakeArrayId(ReadArrayId(bc.bytes, bc.pos, bc.case.max, bc.case.room - Len(bc.arr)))

\* read_idarray_block: there are always the bytes of a whole id in the
\* buffer, unless the last chunk has been read.
RefillBlock ==
    /\ bc.case.mode = "block" /\ bc.state = "unpack" /\ bc.err = ""
    /\ Len(bc.buf) < 5 /\ ~bc.eof
    /\ bc' = [bc EXCEPT !.buf = @ \o ChunkBytes(Head(bc.chunks)), !.eof = Head(bc.chunks).last, !.chunks = Tail(@)]
\* What follows the last byte is a zero.
BlockId(r, left) ==
    IF r.pos - 1 > left THEN [bc EXCEPT !.err = "underrun"]
    ELSE [bc EXCEPT !.buf = SubSeq(@, r.pos, left),
                    !.size = @ - (IF r.eof THEN 2 ELSE 1),
                    !.block = @ \o (IF r.eof THEN <<r.x + 1, 0>> ELSE <<r.x + 1>>)]
ReadBlockId ==
    /\ bc.case.mode = "block" /\ bc.state = "unpack" /\ bc.err = ""
    /\ Len(bc.buf) >= 5 \/ bc.eof
    /\ bc.size > 0
    /\ bc' = IF bc.size < 2 THEN [bc EXCEPT !.err = "overrun"]
             ELSE BlockId(ReadIdEof(Append(bc.buf, 0), 1), Len(bc.buf))
EndBlock ==
    /\ bc.case.mode = "block" /\ bc.state = "unpack" /\ bc.err = "" /\ bc.size = 0
    /\ bc' = IF bc.buf # <<>> \/ ~bc.eof THEN [bc EXCEPT !.err = "size"] ELSE [bc EXCEPT !.state = "convert"]
\* The array at the front of the block: the distances become ids again.
FrontArray(block) == SubSeq(block, 1, Min({j \in DOMAIN block : block[j] = 0}) - 1)
Converted(ids) == FoldLeft(LAMBDA out, x : Append(out, Undo(x - 1, IF out = <<>> THEN 0 ELSE out[Len(out)])), <<>>, ids)
ConvertArray ==
    /\ bc.case.mode = "block" /\ bc.state = "convert" /\ bc.block # <<>>
    /\ bc' = [bc EXCEPT !.done = Append(@, Converted(FrontArray(bc.block))),
                        !.block = SubSeq(@, Len(FrontArray(bc.block)) + 2, Len(@))]

ByteNext ==
    \/ EnterValue \/ FetchElement \/ LeaveValue
    \/ ReadOneId \/ ReadOneOfArray
    \/ RefillBlock \/ ReadBlockId \/ EndBlock \/ ConvertArray

-----------------------------------------------------------------------------
(* Properties *)

\* Skipping a value, or reading its elements up to the last, ends where the
\* next value begins, and every element is the one that was written.  The
\* room that is kept for a file list is the room it takes.
ValuesRight ==
    bc.case.mode = "values" =>
        /\ ~bc.busy => bc.pos = 1 + Len(Encoded(SubSeq(bc.case.vals, 1, bc.k)))
        /\ \A e \in Range(bc.got) : AddIdEofLen(e.id) = Len(AddIdEof(e.id, TRUE))
        /\ bc.busy => /\ IsPrefix(bc.got, bc.case.vals[bc.k].es)
                      /\ bc.eof => bc.got = bc.case.vals[bc.k].es /\ bc.at = bc.next
                      /\ bc.next = 1 + Len(Encoded(SubSeq(bc.case.vals, 1, bc.k)))
\* A file that is cut off, an id that is too large or an array without room
\* gives an error, never another id.
FileIdsRight ==
    bc.case.mode = "ids" =>
        /\ IsPrefix(bc.got, bc.case.ids)
        /\ bc.eof /\ bc.err = "" => bc.arr = Append(bc.case.arr, 0) /\ bc.case.cut = 0
        /\ ~bc.eof => IsPrefix(bc.arr, bc.case.arr)
        /\ bc.err = "eof" => bc.case.cut > 0
        /\ bc.err = "range" => \E x \in Range(bc.case.ids \o bc.case.arr) : x >= bc.case.max
        /\ bc.err = "overflow" => Len(bc.case.arr) >= bc.case.room
        /\ bc.err # "corrupt"
\* The arrays of a block come back however the chunks cut through the ids.
BlocksRight ==
    bc.case.mode = "block" =>
        /\ bc.err = ""
        /\ bc.state = "convert" /\ bc.block = <<>> => bc.done = bc.case.arrays
=============================================================================
