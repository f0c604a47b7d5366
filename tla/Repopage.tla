------------------------------ MODULE Repopage ------------------------------
(***************************************************************************)
(* The paged store of vertical data (src/repopage.c) with its writer       *)
(* (src/repo_write.c) and its reader (src/repodata.c).  The values of the  *)
(* vertical keys are written one key after the other, cut into pages that  *)
(* are compressed each on its own.  A reader maps the pages it needs into  *)
(* slots, next to each other, and moves or evicts what is in the way; if   *)
(* the file can not be positioned everything is read at once.  Pages and   *)
(* slots count from 1; 0 stands for -1.                                    *)
(*                                                                         *)
(* Compressed pages are sequences of codes: "a" stands for itself, "b"     *)
(* carries a run of literals, "c", "d", "e" and "f" repeat what was put    *)
(* out before.  A code has a length and an offset field of a fixed width:  *)
(* what does not fit in is cut off.  Bytes are numbers, the widths are     *)
(* constants so that small pages reach every code and every limit.         *)
(***************************************************************************)
EXTENDS Integers, Sequences, FiniteSets, FiniteSetsExt, SequencesExt

CONSTANTS Ascii,      \* the bytes below 0x80
          HashOfThree(_, _, _), \* any function of three bytes
          MaxTries,   \* 12: how many earlier places are tried
          LitMax,     \* 32: literals of one "b"
          CLen, COff, \* 8, 1024: lengths and offsets of "c"
          DLen, DOff, \* 32, 256: of "d"
          ELen, EOff, \* 16, 65536: of "e"
          FLen        \* 2048: lengths of "f"

ASSUME WidthsAssumption ==
    /\ {MaxTries, LitMax, CLen, COff, DLen, DOff, ELen, EOff, FLen} \subseteq Nat \ {0}
    /\ COff <= EOff /\ DOff <= EOff

CONSTANTS BlobSize,    \* REPOPAGE_BLOBSIZE
          MinMapped,   \* 4: slots that are set up at least
          PageFiles,   \* for each vertical key the sequence of its values, to choose from
          MaxLoads     \* bound: loads of a run

ASSUME PagesAssumption == {BlobSize, MinMapped} \subseteq Nat \ {0} /\ MaxLoads \in Nat

VARIABLE pg   \* [values, src, file, store, got, loads, pinned, state]

NoByte == -1                         \* a byte nobody wrote
NoRange == [at |-> 0, len |-> 0, bytes |-> <<>>]

-----------------------------------------------------------------------------
(* The compression of one page (src/repopage.c) *)

\* The shortest length each code stands for.
Base(k) == CASE k = "c" -> 2 [] k = "d" -> 2 + CLen [] k = "e" -> 3 [] k = "f" -> 3 + ELen
Width(k) == CASE k = "c" -> CLen [] k = "d" -> DLen [] k = "e" -> ELen [] k = "f" -> FLen
Offs(k) == CASE k = "c" -> COff [] k = "d" -> DOff [] OTHER -> EOff
Literal(k, run) == [k |-> k, len |-> (Len(run) - 1) % LitMax, off |-> 0, run |-> run]
Repeat(k, len, off) ==
    [k |-> k, len |-> (len - Base(k)) % Width(k), off |-> off % Offs(k), run |-> <<>>]
CodeSize(c) ==
    CASE c.k = "a" -> 1 [] c.k = "b" -> 1 + Len(c.run)
      [] c.k \in {"c", "d"} -> 2 [] c.k = "e" -> 3 [] c.k = "f" -> 4
Size(codes) == FoldLeft(LAMBDA n, c : n + CodeSize(c), 0, codes)

HashAt(in, i) == HashOfThree(in[i], in[i+1], in[i+2])
Newest(S, n) == {t \in S : Cardinality({u \in S : u > t}) < n}
\* The places before limit with the hash of the three bytes at i.
Places(in, i, limit) == {t \in 1..limit : HashAt(in, t) = HashAt(in, i)}
\* How long the bytes from t on agree with the bytes from i on.
Common(in, t, i) ==
    Min({l \in 0..(Len(in) - i + 1) : l = Len(in) - i + 1 \/ in[t + l] # in[i + l]})
Longest(in, i, places) == Max({0} \cup {Common(in, t, i) : t \in places})
BestLength(in, i, places) == IF Longest(in, i, places) < 3 THEN 0 ELSE Longest(in, i, places)
BestPlace(in, i, places) == Max({t \in places : Common(in, t, i) = Longest(in, i, places)})
Capped(len) == IF len >= FLen + Base("f") THEN FLen - 1 + Base("f") ELSE len
\* The next byte begins a match that is not shorter: this one is not taken.
BetterNext(in, i, len, places) ==
    len < FLen + 5 /\ places # {} /\ Common(in, Max(places), i + 1) >= len
Taken(in, i, len) ==
    IF len > 0 /\ i + 3 <= Len(in) /\ BetterNext(in, i, len, Places(in, i + 1, i)) THEN 0 ELSE len
CodeFor(len, off) ==
    IF len \in 2..(1 + CLen) /\ off < COff THEN Repeat("c", len, off)
    ELSE IF len \in (2 + CLen)..(1 + CLen + DLen) /\ off < DOff THEN Repeat("d", len, off)
    ELSE IF len \in 3..(2 + ELen) THEN Repeat("e", len, off)
    ELSE Repeat("f", len, off)

\* Bytes below 0x80 describe themselves until another byte comes; from there
\* on everything goes into runs.
EasySize(run) == Min({n \in 0..Len(run) : n = Len(run) \/ run[n+1] \notin Ascii})
Literals(lits) ==
    LET go[run \in Seq(Nat)] ==
            IF run = <<>> THEN <<>>
            ELSE IF EasySize(run) > 0
                 THEN [j \in 1..EasySize(run) |-> Literal("a", <<run[j]>>)]
                      \o go[SubSeq(run, EasySize(run) + 1, Len(run))]
            ELSE IF Len(run) <= LitMax THEN <<Literal("b", run)>>
            ELSE <<Literal("b", SubSeq(run, 1, LitMax))>> \o go[SubSeq(run, LitMax + 1, Len(run))]
    IN  go[lits]

\* compress_buf without the check for room: lit is where the literals that
\* are not put out yet begin.
Codes(in) ==
    LET go[i \in Nat, lit \in Nat] ==
            IF i + 2 > Len(in) THEN Literals(SubSeq(in, lit, Len(in)))
            ELSE LET places == Newest(Places(in, i, i - 1), MaxTries)
                     len == Taken(in, i, Capped(BestLength(in, i, places)))
                 IN  IF len = 0 THEN go[i + 1, lit]
                     ELSE Literals(SubSeq(in, lit, i - 1))
                          \o <<CodeFor(len, i - BestPlace(in, i, places) - 1)>>
                          \o go[i + len, i + len]
    IN  go[1, 1]

\* compress_buf: every byte that is put out needs room, so the total decides.
\* <<>> stands for the result 0.
IfRoom(codes, room) == IF Size(codes) < room THEN codes ELSE <<>>
Compress(in, room) == IfRoom(Codes(in), room)

\* The copy goes on over what it has just put out.
Copied(out, len, dist) ==
    out \o [j \in 1..len |-> out[Len(out) - dist + 1 + ((j - 1) % dist)]]
Decode(out, c) ==
    IF c.k \in {"a", "b"} THEN out \o SubSeq(c.run, 1, c.len + 1)
    ELSE Copied(out, c.len + Base(c.k), c.off + 1)
\* unchecked_decompress_buf
Decompress(codes) == FoldLeft(Decode, <<>>, codes)

\* check_decompress_buf: the length it decompresses to, 0 if a copy would
\* reach before the first byte.
CheckLength(codes) ==
    FoldLeft(LAMBDA s, c :
                 IF ~s.ok THEN s
                 ELSE IF c.k \in {"a", "b"} THEN [s EXCEPT !.n = @ + c.len + 1]
                 ELSE IF c.off >= s.n THEN [ok |-> FALSE, n |-> 0]
                 ELSE [s EXCEPT !.n = @ + c.len + Base(c.k)],
             [ok |-> TRUE, n |-> 0], codes).n
\* repopagestore_decompress_page
DecompressPage(codes, max) ==
    IF CheckLength(codes) = 0 \/ CheckLength(codes) > max THEN <<>> ELSE Decompress(codes)

-----------------------------------------------------------------------------
(* Writing *)

\* write_compressed_page: a page that gets no smaller is written as it is.
Stored(page, codes) ==
    IF codes = <<>> THEN [len |-> Len(page), compressed |-> FALSE, raw |-> page, codes |-> <<>>]
    ELSE [len |-> Size(codes), compressed |-> TRUE, raw |-> <<>>, codes |-> codes]
WritePage(page) == Stored(page, Compress(page, Len(page) - 1))
\* write_compressed_extdata: the bytes of a key go on in the page the key
\* before has begun; a page that is full is written.
PutByte(w, b) ==
    IF Len(w.page) + 1 < BlobSize THEN [w EXCEPT !.page = Append(@, b)]
    ELSE [page |-> <<>>, file |-> Append(w.file, WritePage(Append(w.page, b)))]
WriteExtdata(w, bytes) == FoldLeft(PutByte, w, bytes)
\* repowriter_write: all keys that have data, then the last page.
WriteLast(w) == IF w.page = <<>> THEN w.file ELSE Append(w.file, WritePage(w.page))
WriteVertical(keys) == WriteLast(FoldLeft(WriteExtdata, [page |-> <<>>, file |-> <<>>], keys))

-----------------------------------------------------------------------------
(* Setting up *)

\* repopagestore_init
NewStore == [fd |-> FALSE, pages |-> <<>>, mapped_at |-> <<>>, mapped |-> <<>>, blob |-> <<>>, rr |-> 0]
\* Where the keys begin: verticaloffset and lastverticaloffset.
VerticalOffset(keys, k) == FoldLeft(LAMBDA n, v : n + Len(v), 0, SubSeq(keys, 1, k - 1))
NumPages(size) == (size + BlobSize - 1) \div BlobSize
\* Behind each length of four bytes comes the data of the page.
PageOffset(file, p) == FoldLeft(LAMBDA n, q : n + 4 + q.len, 4, SubSeq(file, 1, p - 1))
PageAt(file, offset) == CHOOSE p \in 1..Len(file) : PageOffset(file, p) = offset
\* What a page puts in its place: the bytes behind it stay as they were.
Over(old, bytes) == [j \in 1..BlobSize |-> IF j <= Len(bytes) THEN bytes[j] ELSE old[j]]
Expanded(page) == IF page.compressed THEN Decompress(page.codes) ELSE page.raw
\* A page that is compressed has to be a whole one, the last one aside.
Short(page, last) == page.compressed /\ Len(Expanded(page)) # BlobSize /\ ~last
NoBytes == [j \in 1..BlobSize |-> NoByte]
\* repopagestore_read_or_setup_pages on a file it can position in.
SetupPaging(file, n) ==
    [NewStore EXCEPT !.fd = TRUE,
                     !.mapped_at = [p \in 1..n |-> 0],
                     !.pages = [p \in 1..n |-> [offset |-> PageOffset(file, p), size |-> file[p].len,
                                                compressed |-> file[p].compressed]]]
\* The same on a file that can only be read on: every page has its place.
ReadAll(file, n) ==
    [NewStore EXCEPT !.mapped_at = [p \in 1..n |-> p],
                     !.blob = [p \in 1..n |-> Over(NoBytes, Expanded(file[p]))]]

-----------------------------------------------------------------------------
(* repopagestore_load_page_range.  r is [s, ok]: the store and whether all went well. *)

InPlace(s, ps, pe) ==
    \A p \in ps..pe : s.mapped_at[p] # 0 /\ s.mapped_at[p] = s.mapped_at[ps] + (p - ps)
Grown(s, n) ==
    IF n <= Len(s.mapped) THEN s
    ELSE LET extra == Max({n, MinMapped}) - Len(s.mapped)
         IN  [s EXCEPT !.mapped = @ \o [i \in 1..extra |-> 0], !.blob = @ \o [i \in 1..extra |-> NoBytes]]
\* Where the pages shall go: where the first one or the last one is already,
\* or some other place.
Best(s, ps, pe) ==
    LET span == pe - ps
        n == Len(s.mapped)
    IN  IF s.mapped_at[ps] # 0
        THEN IF s.mapped_at[ps] + span > n THEN 1 ELSE s.mapped_at[ps]
        ELSE IF s.mapped_at[pe] # 0
        THEN IF s.mapped_at[pe] - 1 < span THEN n - span ELSE s.mapped_at[pe] - span
        ELSE ((ps - 1 + s.rr) % (n - span)) + 1
Counted(s, ps, pe) ==
    IF s.mapped_at[ps] # 0 \/ s.mapped_at[pe] # 0 THEN s ELSE [s EXCEPT !.rr = @ + 1]
EvictBug(s, i) ==   \* mutant: the evicted page is still taken for mapped
    IF s.mapped[i] = 0 THEN s ELSE [s EXCEPT !.mapped[i] = 0]

\* Throw out what is in slot i.
Evict(s, i) ==
    IF s.mapped[i] = 0 THEN s
    ELSE [s EXCEPT !.mapped_at[s.mapped[i]] = 0, !.mapped[i] = 0]
\* Take page p over from its slot j before that one is thrown out.
MoveTo(s, p, i, j) ==
    IF j = 0 \/ j = i THEN s
    ELSE [s EXCEPT !.blob[i] = s.blob[j], !.mapped[j] = 0, !.mapped[i] = p, !.mapped_at[p] = i]
ClearFor(s, p, i) ==
    IF s.mapped[i] = p THEN s
    ELSE LET t == Evict(s, i) IN MoveTo(t, p, i, t.mapped_at[p])
Cleared(s, ps, pe, best) ==
    FoldLeft(LAMBDA t, k : ClearFor(t, ps + k - 1, best + k - 1), s, [k \in 1..(pe - ps + 1) |-> k])
\* Read page p into slot i.  A read that fails leaves the slot overwritten
\* only if the page is not compressed.
ReadIn(r, p, i, page, file, bad) ==
    IF p \in bad
    THEN [ok |-> FALSE, s |-> IF page.compressed THEN r.s ELSE [r.s EXCEPT !.blob[i] = NoBytes]]
    ELSE IF Short(file[PageAt(file, page.offset)], p = Len(r.s.pages))
    THEN [ok |-> FALSE,
          s |-> [r.s EXCEPT !.blob[i] = Over(@, Expanded(file[PageAt(file, page.offset)]))]]
    ELSE [ok |-> TRUE,
          s |-> [r.s EXCEPT !.blob[i] = Over(@, Expanded(file[PageAt(file, page.offset)])),
                            !.mapped_at[p] = i, !.mapped[i] = p]]
\* What is mapped by now is in its place already.
Fill(r, p, i, file, bad) ==
    IF ~r.ok THEN r
    ELSE IF r.s.mapped_at[p] # 0
    THEN [r EXCEPT !.s = [MoveTo(r.s, p, i, r.s.mapped_at[p]) EXCEPT !.mapped_at[p] = i, !.mapped[i] = p]]
    ELSE ReadIn(r, p, i, r.s.pages[p], file, bad)
Filled(s, ps, pe, best, file, bad) ==
    FoldLeft(LAMBDA r, k : Fill(r, ps + k - 1, best + k - 1, file, bad),
             [ok |-> TRUE, s |-> s], [k \in 1..(pe - ps + 1) |-> k])
MapRange(s, ps, pe, best, file, bad) ==
    Filled(Cleared(Counted(s, ps, pe), ps, pe, best), ps, pe, best, file, bad)
LoadPageRange(s, ps, pe, file, bad) ==
    IF InPlace(s, ps, pe) THEN [ok |-> TRUE, s |-> s]
    ELSE IF ~s.fd THEN [ok |-> FALSE, s |-> s]
    ELSE LET t == Grown(s, pe - ps + 1) IN MapRange(t, ps, pe, Best(t, ps, pe), file, bad)

-----------------------------------------------------------------------------
(* The machine *)

KeyData(values) == FlattenSeq(values)
StartPages(vals) ==
    [values |-> vals, src |-> [k \in DOMAIN vals |-> KeyData(vals[k])], file |-> <<>>, store |-> NewStore,
     got |-> NoRange, loads |-> 0, pinned |-> FALSE, state |-> "new"]
PageInit == pg \in {StartPages(vals) : vals \in PageFiles}

WritePages ==
    /\ pg.state = "new"
    /\ pg' = [pg EXCEPT !.file = WriteVertical(pg.src), !.state = "written"]

Total(keys) == VerticalOffset(keys, Len(keys) + 1)
\* If it can not position in the file, one of the reads may fail.  The area
\* that is not complete is freed.
SetupPages ==
    /\ pg.state = "written"
    /\ \/ pg' = [pg EXCEPT !.store = SetupPaging(pg.file, NumPages(Total(pg.src))), !.state = "open"]
       \/ pg' = [pg EXCEPT !.store = ReadAll(pg.file, NumPages(Total(pg.src))), !.state = "open"]
       \/ pg' = [pg EXCEPT !.state = "failed"]

\* The bytes from a place in a slot on, over the slots that follow.
BytesFrom(s, slot, at, len) ==
    [j \in 1..len |-> s.blob[slot + ((at + j - 1) \div BlobSize)][((at + j - 1) % BlobSize) + 1]]
RangeOf(r, off, len, first) ==
    IF ~r.ok THEN NoRange
    ELSE [at |-> off + 1, len |-> len,
          bytes |-> BytesFrom(r.s, r.s.mapped_at[first], off % BlobSize, len)]
\* get_vertical_data: len bytes from off on, counted over all keys.
TakeRange(off, len, r) ==
    pg' = [pg EXCEPT !.store = r.s, !.loads = @ + 1,
                     !.got = RangeOf(r, off, len, (off \div BlobSize) + 1)]
GetVertical(from, len, bad) ==
    TakeRange(from, len, LoadPageRange(pg.store, (from \div BlobSize) + 1,
                                       ((from + len - 1) \div BlobSize) + 1, pg.file, bad))
Pinned(r) == pg' = [pg EXCEPT !.store = r.s, !.loads = @ + 1, !.got = NoRange, !.pinned = @ \/ r.ok]
DisablePaging(bad) == Pinned(LoadPageRange(pg.store, 1, Len(pg.file), pg.file, bad))

\* At most one page of a load can not be read.
Faults == {{}} \cup {{p} : p \in 1..Len(pg.file)}
\* collect_data_cb wrote down where the value begins in the data of its key.
ValueOffset(k, v) == VerticalOffset(pg.src, k) + VerticalOffset(pg.values[k], v)
Lookup ==
    /\ pg.state = "open" /\ pg.loads < MaxLoads
    /\ \E k \in DOMAIN pg.values : \E v \in DOMAIN pg.values[k], bad \in Faults :
          GetVertical(ValueOffset(k, v), Len(pg.values[k][v]), bad)
Pin ==
    /\ pg.state = "open" /\ pg.loads < MaxLoads
    /\ \E bad \in Faults : DisablePaging(bad)

-----------------------------------------------------------------------------
(* Properties *)

AllBytes == FlattenSeq(pg.src)
\* A page that is mapped has its bytes, and both tables know it.
MappedRight ==
    \A p \in 1..Len(pg.file) : pg.store.mapped_at[p] # 0 =>
        \A j \in 1..BlobSize : (p - 1) * BlobSize + j <= Total(pg.src) =>
            pg.store.blob[pg.store.mapped_at[p]][j] = AllBytes[(p - 1) * BlobSize + j]
TablesAgree ==
    pg.store.fd => \A i \in DOMAIN pg.store.mapped, p \in 1..Len(pg.file) :
                       (pg.store.mapped[i] = p) <=> (pg.store.mapped_at[p] = i)
\* However the loads before moved the pages around and whatever read failed:
\* a lookup that succeeds gives the bytes that were written, both tables name
\* the same places, and once disable_paging has succeeded no page is moved
\* any more.  Every page that was written is smaller than it was, or stored
\* as it is, and passes the check of a reader that trusts nobody.
PagesRight ==
    /\ pg.state = "open" =>
          /\ MappedRight /\ TablesAgree
          /\ pg.got.bytes = SubSeq(AllBytes, pg.got.at, pg.got.at + pg.got.len - 1)
          /\ pg.pinned => InPlace(pg.store, 1, Len(pg.file))
    /\ pg.state # "new" => Len(pg.file) = NumPages(Total(pg.src))
    /\ \A p \in DOMAIN pg.file : pg.file[p].compressed =>
          /\ DecompressPage(pg.file[p].codes, BlobSize) = Decompress(pg.file[p].codes)
          /\ pg.file[p].len < BlobSize

PageNext == WritePages \/ SetupPages \/ Lookup \/ Pin
=============================================================================
