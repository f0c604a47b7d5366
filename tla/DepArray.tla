------------------------------ MODULE DepArray ------------------------------
(***************************************************************************)
(* The dependency arrays of a repository: repo_addid, repo_addid_dep with  *)
(* its hash for long arrays, repo_reserve_ids, repo_lookup_deparray and    *)
(* repo_set_deparray (repo.c).                                             *)
(*                                                                         *)
(* All arrays of a repo live in one buffer, each ended by a 0; a solvable  *)
(* holds offsets into it.  r.buf[o + 1] is idarraydata[o], Len(r.buf) is   *)
(* idarraysize and r.last is lastoff, the array that ends the buffer and   *)
(* can grow in place.  r.hash stands for lastidhash and the fields that    *)
(* say what it was built for: size is lastidhash_idarraysize, cap its      *)
(* capacity, pos lastmarkerpos.                                            *)
(***************************************************************************)
EXTENDS Integers, Sequences, FiniteSets, SequencesExt

CONSTANTS HashThres,      \* REPO_ADDID_DEP_HASHTHRES
          HashMin,        \* REPO_ADDID_DEP_HASHMIN
          DepIds,         \* the dependency ids
          MaxBuf,         \* bound: ids in the buffer
          Careful         \* leave out the call sequences that are known to go wrong

FilesMarker == 8           \* SOLVABLE_FILEMARKER
PreMarker == 9         \* SOLVABLE_PREREQMARKER

NoHash == [size |-> -1, cap |-> 0, ids |-> {}, marker |-> 0, pos |-> 0]
EmptyDeps == [buf |-> <<>>, last |-> 0, hash |-> NoHash]

Elem(r, o) == r.buf[o + 1]
EndOf(r, o) == CHOOSE n \in o..(Len(r.buf) - 1) : Elem(r, n) = 0 /\ \A k \in o..(n - 1) : Elem(r, k) # 0
Deps(r, o) == IF o = 0 THEN <<>> ELSE SubSeq(r.buf, o + 1, EndOf(r, o))

(***************************************************************************)
(* repo_addid: the last array grows in place, any other array is copied to *)
(* the end of the buffer first.  off is the new offset of the array.       *)
(***************************************************************************)
Addid(r, o, id) ==
    LET buf == IF r.buf = <<>> THEN <<0>> ELSE r.buf
    IN  IF o # 0 /\ o = r.last
        THEN [r |-> [r EXCEPT !.buf = Front(buf) \o <<id, 0>>], off |-> o]
        ELSE [r |-> [r EXCEPT !.buf = buf \o Deps(r, o) \o <<id, 0>>, !.last = Len(buf)], off |-> Len(buf)]

(***************************************************************************)
(* repo_addid_dep without the hash.  before: the id belongs in front of    *)
(* the marker.                                                             *)
(***************************************************************************)
First(r, o, S) ==
    LET hits == {n \in o..(EndOf(r, o) - 1) : Elem(r, n) \in S}
    IN  IF hits = {} THEN -1 ELSE CHOOSE n \in hits : \A m \in hits : n <= m

\* memmove of the n ids at offset from to offset from + 1 or from - 1, and id into the gap
MoveUp(buf, from, n, id) ==
    [k \in 1..Len(buf) |-> IF k = from + 1 THEN id
                           ELSE IF k \in (from + 2)..(from + 1 + n) THEN buf[k - 1] ELSE buf[k]]
MoveDown(buf, from, n, id) ==
    [k \in 1..Len(buf) |-> IF k = from + 1 + n THEN id
                           ELSE IF k \in (from + 1)..(from + n) THEN buf[k + 1] ELSE buf[k]]

\* the id is already there: i is its offset, m that of a marker in front of it (or -1)
KeepOrMove(r, o, id, marker, before, i, m) ==
    LET e == EndOf(r, o)
        m2 == First(r, i, {marker})
    IN  CASE marker = FilesMarker /\ (m < 0 \/ ~before) -> [r |-> r, off |-> o]
          [] marker = FilesMarker /\ m >= 0 /\ before ->
               [r |-> [r EXCEPT !.buf = MoveUp(@, m, i - m, id)], off |-> o]
          [] marker # FilesMarker /\ (m >= 0 \/ before) -> [r |-> r, off |-> o]
          [] marker # FilesMarker /\ m < 0 /\ ~before /\ m2 < 0 ->
               Addid([r EXCEPT !.buf = MoveDown(@, i, e - 1 - i, marker)], o, id)
          [] OTHER -> [r |-> [r EXCEPT !.buf = MoveDown(@, i, e - 1 - i, id)], off |-> o]

InsertBeforeBug(r, o, id, marker, m) ==   \* mutant: the marker is not put back
    LET put == [r.buf EXCEPT ![m + 1] = id]
    IN  Addid([r EXCEPT !.buf = put], o, put[EndOf(r, o)])

\* the marker is at m and the id goes in front of it: the last id of the array is
\* appended again and the ids between are moved up
InsertBefore(r, o, id, marker, m) ==
    LET e == EndOf(r, o)
        put == [r.buf EXCEPT ![m + 1] = id]
        lastid == put[e]
        moved == IF m + 1 < e - 1 THEN MoveUp(put, m + 1, e - 2 - m, marker) ELSE [put EXCEPT ![m + 2] = marker]
    IN  Addid([r EXCEPT !.buf = moved], o, lastid)

PlainAdd(r, o, id, mk, before) ==
    LET marker == IF mk = id THEN 0 ELSE mk
        i == First(r, o, {id})
        m == IF i < 0 THEN First(r, o, {marker})
             ELSE IF \E n \in o..(i - 1) : Elem(r, n) = marker THEN First(r, o, {marker}) ELSE -1
    IN  CASE marker = 0 -> IF i >= 0 THEN [r |-> r, off |-> o] ELSE Addid(r, o, id)
          [] marker # 0 /\ i >= 0 -> KeepOrMove(r, o, id, marker, before, i, m)
          [] marker # 0 /\ i < 0 /\ ~before /\ m < 0 ->
               LET a == Addid(r, o, marker) IN Addid(a.r, a.off, id)
          [] marker # 0 /\ i < 0 /\ before /\ m >= 0 -> InsertBefore(r, o, id, marker, m)
          [] OTHER -> Addid(r, o, id)

(***************************************************************************)
(* repo_addid_dep_hash, for the last array once it is long.  The hash is   *)
(* rebuilt unless it was built for this size of the buffer and this        *)
(* marker and is large enough.                                             *)
(***************************************************************************)
LastAt(r, o, id) ==
    LET hits == {n \in o..(EndOf(r, o) - 1) : Elem(r, n) = id}
    IN  IF hits = {} THEN 0 ELSE CHOOSE n \in hits : \A m \in hits : n >= m

\* ids that a table of mkmask(n) takes: half of the mask
MaskCap(n) == (CHOOSE p \in {1, 2, 4, 8, 16, 32} : p <= 2 * n /\ 2 * n < 2 * p) - 1

FreshHashBug(r, o, marker, size) ==   \* mutant: a hash for another marker position is reused
    IF r.hash.size # -1 /\ size <= r.hash.cap /\ r.hash.marker = marker
    THEN [r.hash EXCEPT !.ids = Range(Deps(r, o))]
    ELSE [size |-> Len(r.buf), marker |-> marker, cap |-> MaskCap(size),
          ids |-> Range(Deps(r, o)),
          pos |-> IF marker = 0 THEN 0 ELSE LastAt(r, o, marker)]

FreshHash(r, o, marker, size) ==
    IF r.hash.size = Len(r.buf) /\ size <= r.hash.cap /\ r.hash.marker = marker THEN r.hash
    ELSE [size |-> Len(r.buf), marker |-> marker,
          cap |-> IF size > r.hash.cap THEN MaskCap(IF size < HashMin THEN HashMin ELSE size) ELSE r.hash.cap,
          ids |-> Range(Deps(r, o)),
          pos |-> IF marker = 0 THEN 0 ELSE LastAt(r, o, marker)]

Sized(a) == [r |-> [a.r EXCEPT !.hash.size = Len(a.r.buf)], off |-> a.off]

\* the id is new: the marker first if it is missing, then the id in its half
HashInsert(r, o, id, marker, before) ==
    LET mkd == IF marker # 0 /\ ~before /\ r.hash.pos = 0
               THEN LET a == Addid(r, o, marker)
                    IN  [r |-> [a.r EXCEPT !.hash.pos = Len(r.buf) - 1, !.hash.ids = @ \cup {marker}],
                         off |-> a.off]
               ELSE [r |-> r, off |-> o]
        p == mkd.r.hash.pos
        a == Addid(mkd.r, mkd.off, id)
    IN  Sized(IF marker # 0 /\ before /\ p # 0
              THEN [r |-> [a.r EXCEPT !.buf = MoveUp(@, p, Len(a.r.buf) - 2 - p, id), !.hash.pos = p + 1],
                    off |-> a.off]
              ELSE a)

\* the id is known, with the prereq marker: into the second half
HashToSecond(r, o, id) ==
    LET second == \E n \in (r.hash.pos + 1)..(Len(r.buf) - 2) : Elem(r, n) = id
        i == First(r, o, {id})
    IN  IF second \/ i < 0 THEN [r |-> r, off |-> o]
        ELSE [r |-> [r EXCEPT !.buf = MoveDown(@, i, Len(r.buf) - 2 - i, id), !.hash.pos = @ - 1], off |-> o]

\* the id is known, with the file marker: into the first half
HashToFirst(r, o, id) ==
    LET p == r.hash.pos
        hits == {n \in (p + 1)..(Len(r.buf) - 2) : Elem(r, n) = id}
    IN  IF hits = {} THEN [r |-> r, off |-> o]
        ELSE LET i == CHOOSE n \in hits : \A k \in hits : n <= k
             IN  [r |-> [r EXCEPT !.buf = MoveUp(@, p, i - p, id), !.hash.pos = p + 1], off |-> o]

HashKnown(r, o, id, marker, before) ==
    LET mkd == IF marker # 0 /\ ~before /\ r.hash.pos = 0
               THEN LET a == Addid(r, o, marker)
                    IN  Sized([r |-> [a.r EXCEPT !.hash.pos = Len(r.buf) - 1, !.hash.ids = @ \cup {marker}],
                               off |-> a.off])
               ELSE [r |-> r, off |-> o]
    IN  CASE marker = 0 \/ (marker # FilesMarker /\ before) -> mkd
          [] marker = FilesMarker -> HashToFirst(mkd.r, mkd.off, id)
          [] OTHER -> HashToSecond(mkd.r, mkd.off, id)

HashStep(r, o, id, marker, before) ==
    IF id \notin r.hash.ids
    THEN HashInsert([r EXCEPT !.hash.ids = @ \cup {id}], o, id, marker, before)
    ELSE IF marker = FilesMarker /\ (~before \/ r.hash.pos = 0) THEN [r |-> r, off |-> o]
    ELSE HashKnown(r, o, id, marker, before)

HashAdd(r, o, id, mk, before, size) ==
    LET marker == IF mk = id THEN 0 ELSE mk
    IN  HashStep([r EXCEPT !.hash = FreshHash(r, o, marker, size)], o, id, marker, before)

(***************************************************************************)
(* repo_addid_dep.  marker > 0: the id goes behind the marker; marker < 0: *)
(* in front of -marker.                                                    *)
(***************************************************************************)
AddidDep(r, o, id, marker) ==
    LET mk == IF marker < 0 THEN -marker ELSE marker
        size == Len(r.buf) - 1 - r.last
    IN  IF o = 0
        THEN IF marker > 0 THEN LET a == Addid(r, 0, marker) IN Addid(a.r, a.off, id) ELSE Addid(r, 0, id)
        ELSE IF o = r.last /\ size >= HashThres THEN HashAdd(r, o, id, mk, marker < 0, size)
        ELSE PlainAdd(r, o, id, mk, marker < 0)

(***************************************************************************)
(* repo_reserve_ids, then the caller's ids at the end: the way the reader  *)
(* of solv files stores an array.  For an array of n ids that is not the   *)
(* last one memcpy moves n bytes, so that only every fourth id arrives.    *)
(***************************************************************************)
Stale == 99
ReservedCopy(deps) == [k \in 1..Len(deps) |-> IF k <= Len(deps) \div 4 THEN deps[k] ELSE Stale]

Reserve(r, o) ==
    CASE r.buf = <<>> -> [r |-> [r EXCEPT !.buf = <<0>>, !.last = 1], off |-> 1]
      [] r.buf # <<>> /\ o # 0 /\ o # r.last ->
           [r |-> [r EXCEPT !.buf = @ \o ReservedCopy(Deps(r, o)), !.last = Len(r.buf)], off |-> Len(r.buf)]
      [] r.buf # <<>> /\ o # 0 /\ o = r.last -> [r |-> [r EXCEPT !.buf = Front(@)], off |-> o]
      [] OTHER -> [r |-> [r EXCEPT !.last = Len(r.buf)], off |-> Len(r.buf)]

ReserveAndFill(r, o, ids) ==
    LET a == Reserve(r, o) IN [r |-> [a.r EXCEPT !.buf = @ \o ids \o <<0>>], off |-> a.off]

(***************************************************************************)
(* repo_lookup_deparray: the half of the array that the marker selects.    *)
(***************************************************************************)
MarkerAt(q, mk) == SelectInSeq(q, LAMBDA x : x = mk)

Half(q, marker) ==
    CASE marker = 0 \/ q = <<>> -> q
      [] marker < 0 /\ q # <<>> -> IF MarkerAt(q, -marker) = 0 THEN q ELSE SubSeq(q, 1, MarkerAt(q, -marker) - 1)
      [] OTHER -> IF MarkerAt(q, marker) = 0 THEN <<>> ELSE SubSeq(q, MarkerAt(q, marker) + 1, Len(q))

LookupDeparray(r, o, marker) == Half(Deps(r, o), marker)

(***************************************************************************)
(* repo_set_deparray: one half is replaced, the other is kept, and the     *)
(* result is built as a new array.                                         *)
(***************************************************************************)
SetPlain(r, q) ==
    FoldLeft(LAMBDA a, id : AddidDep(a.r, a.off, id, 0), [r |-> r, off |-> 0], q)

Spliced(other, q, marker) ==
    CASE marker > 0 -> IF q = <<>> THEN other ELSE other \o <<marker>> \o q
      [] OTHER -> IF other = <<>> THEN q ELSE q \o <<-marker>> \o other

SetDeparray(r, o, q, marker) ==
    SetPlain(r, IF marker = 0 THEN q ELSE Spliced(LookupDeparray(r, o, -marker), q, marker))

(***************************************************************************)
(* repo_empty frees the buffer; the hash and what it was built for stay.   *)
(***************************************************************************)
EmptyAll(r) == [r EXCEPT !.buf = <<>>, !.last = 0]

(***************************************************************************)
(* A solvable with its provides and requires.  repo_add_deparray and       *)
(* repo_set_deparray take the marker of the kind of dependency             *)
(* (solv_depmarker); side = 1 is behind the marker, -1 in front of it.     *)
(***************************************************************************)
VARIABLE dep                     \* [r: the arrays, off: the offsets of the solvable]

Kinds == {"provides", "requires"}
DepMarker(kind) == IF kind = "provides" THEN FilesMarker ELSE PreMarker

DepInit == dep = [r |-> EmptyDeps, off |-> [k \in Kinds |-> 0]]

Store(kind, a) == dep' = [r |-> a.r, off |-> [dep.off EXCEPT ![kind] = a.off]]

\* the sequences that Careful leaves out: an id in front of a marker that has nothing
\* behind it, and a new beginning after a hash was built
MarkerLast(q, mk) == q # <<>> /\ q[Len(q)] = mk
Safe(kind, side) == side = -1 => ~MarkerLast(Deps(dep.r, dep.off[kind]), DepMarker(kind))

AddDep(kind, id, side) ==
    /\ Len(dep.r.buf) <= MaxBuf
    /\ Careful => Safe(kind, side)
    /\ Store(kind, AddidDep(dep.r, dep.off[kind], id, side * DepMarker(kind)))

SetDeps(kind, q, side) ==
    /\ Len(dep.r.buf) <= MaxBuf - 4
    /\ Store(kind, SetDeparray(dep.r, dep.off[kind], q, side * DepMarker(kind)))

ReadDeps(kind, q) ==
    /\ Len(dep.r.buf) <= MaxBuf
    /\ dep.off[kind] = 0
    /\ Store(kind, ReserveAndFill(dep.r, dep.off[kind], q))

EmptyRepo ==
    /\ Careful => dep.r.hash = NoHash
    /\ dep' = [r |-> EmptyAll(dep.r), off |-> [k \in Kinds |-> 0]]

DepNext ==
    \/ \E kind \in Kinds, id \in DepIds, side \in {0, 1, -1} : AddDep(kind, id, side)
    \/ \E kind \in Kinds, id \in DepIds, side \in {0, 1, -1} : SetDeps(kind, <<id>>, side)
    \/ \E kind \in Kinds : ReadDeps(kind, SetToSeq(DepIds))
    \/ EmptyRepo

DepSpec == DepInit /\ [][DepNext]_dep

(***************************************************************************)
(* The arrays as their users see them: ids in front of the marker and      *)
(* behind it.                                                              *)
(***************************************************************************)
View(st, kind) ==
    LET q == Deps(st.r, st.off[kind])
        m == MarkerAt(q, DepMarker(kind))
    IN  [split |-> m # 0, first |-> Half(q, -DepMarker(kind)), second |-> Half(q, DepMarker(kind))]

Without(q, id) == SelectSeq(q, LAMBDA x : x # id)

Joined(v, id, kind, side) ==
    LET in1 == Contains(v.first, id)
        in2 == Contains(v.second, id)
        toFirst == [v EXCEPT !.first = Append(@, id), !.second = Without(@, id)]
        toSecond == [split |-> TRUE, first |-> Without(v.first, id), second |-> Append(v.second, id)]
    IN  CASE side = 0 -> IF in1 \/ in2 THEN v ELSE IF v.split THEN toSecond ELSE toFirst
          [] side = 1 -> IF in2 \/ (in1 /\ kind = "provides") THEN v ELSE toSecond
          [] side = -1 -> IF in1 \/ (in2 /\ kind = "requires") THEN v ELSE toFirst

\* one half (or everything) becomes <<id>>; the first half wins where both have the id
Halved(v, id, side) ==
    CASE side = 0 -> [split |-> FALSE, first |-> <<id>>, second |-> <<>>]
      [] side = 1 -> [split |-> TRUE, first |-> v.first, second |-> Without(<<id>>, IF Contains(v.first, id) THEN id ELSE 0)]
      [] side = -1 -> [split |-> v.second # <<>>, first |-> <<id>>, second |-> Without(v.second, id)]

\* A dependency that is added ends up once, in the half it belongs to, and nothing else of
\* either array changes, whether the array grew in place, was copied, or was long enough
\* for the hash (repo_addid_dep: "also unifies dependencies").
DepsUnified ==
    [][\E kind \in Kinds :
         /\ \A k \in Kinds \ {kind} : View(dep', k) = View(dep, k) \/ dep'.off[k] = 0
         /\ \/ \E id \in DepIds, side \in {0, 1, -1} : View(dep', kind) = Joined(View(dep, kind), id, kind, side)
            \/ \E id \in DepIds, side \in {0, 1, -1} : View(dep', kind) = Halved(View(dep, kind), id, side)
            \/ Deps(dep'.r, dep'.off[kind]) = SetToSeq(DepIds) /\ dep.off[kind] = 0
            \/ dep'.off[kind] = 0]_dep

=============================================================================
