-------------------------------- MODULE Ids --------------------------------
(***************************************************************************)
(* The string pool and the relations of a pool (strpool.c, poolid.c, and   *)
(* the part of repo_solv.c that adds many of both at once).  A string has  *)
(* one id, found through a hash table that is thrown away, grown and built *)
(* again; the same for a relation.  The arrays of providers are indexed by *)
(* these ids and must keep up with them.                                   *)
(*                                                                         *)
(* The text of a string is a number; 1 is the empty string and has id 1.   *)
(* A relation is <<name, evr, flags>>, its id here is its index.  A size   *)
(* of 0 stands for an array that is not there, a mask of 0 for no table.   *)
(***************************************************************************)
EXTENDS Integers, Sequences, FiniteSets, Functions

CONSTANTS Predefined,   \* the strings of a new pool, the empty one first
          Texts,        \* texts of strings to look up
          RelParts,     \* pairs of ids for the relations to look up
          StrHash,      \* strhash of the texts
          Lists,        \* lists of texts that a file brings in
          RelLists,     \* lists of relations that a file brings in
          Block,        \* STRING_BLOCK, REL_BLOCK and WHATPROVIDES_BLOCK, 2^n - 1
          Slack,        \* how much larger than needed a table may be when space is given back
          MaxStrs,      \* bound on the strings
          MaxRels       \* bound on the relations

KnownTexts == {1} \cup DOMAIN StrHash
ASSUME IdsAssumption ==
    /\ Block \in Nat \ {0} /\ Slack \in Nat
    /\ \A text \in DOMAIN StrHash : StrHash[text] \in Nat
    /\ Predefined \in Seq(KnownTexts) /\ IsInjective(Predefined) /\ Predefined # <<>> /\ Predefined[1] = 1
    /\ Texts \subseteq KnownTexts /\ Lists \subseteq Seq(KnownTexts)
    /\ RelParts \subseteq Nat \X Nat /\ RelLists \subseteq Seq(Nat \X Nat \X Nat)

VARIABLES ids,          \* the pool
          log           \* what has been given an id so far, in this order
idsVars == <<ids, log>>

NoTable == <<>>
RoundUp(n) == ((n + Block) \div (Block + 1)) * (Block + 1)
\* the powers of two up to 2^n
Powers(n) == LET pow[k \in 0..n] == IF k = 0 THEN 1 ELSE 2 * pow[k - 1] IN {pow[k] : k \in 0..n}
\* mkmask: the power of two below 2n + 3, doubled, minus one
MkMask(n) == 2 * (CHOOSE p \in Powers(n + 1) : p <= 2 * n + 3 /\ 2 * p > 2 * n + 3) - 1

\* the k-th place of a chain of HASHCHAIN_NEXT; it comes back after 2 * (mask + 1) steps
Place(hash, k, mask) == (hash + 7 * k + (k * (k - 1)) \div 2) % (mask + 1)
\* the first of the places S on a chain
FirstPlace(hash, mask, S) ==
    Place(hash,
          CHOOSE k \in 0..(2 * mask + 1) : Place(hash, k, mask) \in S /\ \A j \in 0..(k - 1) : Place(hash, j, mask) \notin S,
          mask)
\* the first place that is free or holds the item
Slot(tbl, mask, items, hash, item) == FirstPlace(hash, mask, {h \in 0..mask : tbl[h] = 0 \/ items[tbl[h]] = item})
FreeSlot(tbl, mask, hash) == FirstPlace(hash, mask, {h \in 0..mask : tbl[h] = 0})

RelHash(rel) == rel[1] + 7 * rel[2] + 13 * rel[3]
HashOf(kind, item) == IF kind = "str" THEN (IF item = 1 THEN 0 ELSE StrHash[item]) ELSE RelHash(item)

(***************************************************************************)
(* A table of items: strings or relations.  num counts the unused entry 0. *)
(***************************************************************************)
NewItems(items) == [items |-> items, mask |-> 0, tbl |-> NoTable, cap |-> RoundUp(Len(items) + 1)]
Num(t) == Len(t.items) + 1

Put(tbl, mask, hash, id) == [tbl EXCEPT ![FreeSlot(tbl, mask, hash)] = id]
Rehash(kind, t, mask) ==
    LET tbls[n \in 0..Len(t.items)] ==
            IF n = 0 THEN [h \in 0..mask |-> 0] ELSE Put(tbls[n - 1], mask, HashOf(kind, t.items[n]), n)
    IN  tbls[Len(t.items)]
ResizeHash(kind, t, new) ==
    LET mask == MkMask(Num(t) + new)
    IN  IF new <= 0 \/ mask <= t.mask THEN t ELSE [t EXCEPT !.mask = mask, !.tbl = Rehash(kind, t, mask)]
FreeHash(t) == [t EXCEPT !.mask = 0, !.tbl = NoTable]

\* stringpool_reserve, stringpool_shrink: whole blocks
Reserve(t, n) == [t EXCEPT !.cap = RoundUp(Num(t) + n)]
\* solv_extend: grows only when the new entry is the first of a block
ExtendBy1(t) == IF Len(t.items) % (Block + 1) = Block THEN [t EXCEPT !.cap = RoundUp(Num(t) + 1)] ELSE t

\* the table is grown before it is half full
Ready(kind, t) ==
    IF Num(t) * 2 < t.mask THEN t
    ELSE ResizeHash(kind, IF kind = "str" /\ t.mask = 0 THEN Reserve(t, 1) ELSE t, Block)

AddAt(t, h, item) == [ExtendBy1(t) EXCEPT !.items = Append(@, item), !.tbl[h] = Num(t)]
SlotOf(kind, t, item) == Slot(t.tbl, t.mask, t.items, HashOf(kind, item), item)
LookIn(t, h, item, create) ==
    IF t.tbl[h] # 0 THEN [t |-> t, id |-> t.tbl[h]]
    ELSE IF create THEN [t |-> AddAt(t, h, item), id |-> Num(t)] ELSE [t |-> t, id |-> 0]
Look(kind, t, item, create) == LookIn(t, SlotOf(kind, t, item), item, create)
Item2id(kind, t, item, create) == Look(kind, Ready(kind, t), item, create)
\* stringpool_strn2id knows the empty string without a look
Text2id(t, text, create) == IF text = 1 THEN [t |-> t, id |-> 1] ELSE Item2id("str", t, text, create)

(***************************************************************************)
(* Many at once: there is room, and the table is large enough for all.     *)
(***************************************************************************)
EnterAt(st, h, item) ==
    IF st.t.tbl[h] # 0 THEN [st EXCEPT !.map = Append(@, st.t.tbl[h])]
    ELSE [t |-> [st.t EXCEPT !.items = Append(@, item), !.tbl[h] = Num(st.t)], map |-> Append(st.map, Num(st.t))]
Enter(kind, st, item) ==
    IF kind = "str" /\ item = 1 THEN [st EXCEPT !.map = Append(@, 1)] ELSE EnterAt(st, SlotOf(kind, st.t, item), item)
Merge(kind, t, list) ==
    LET states[n \in 0..Len(list)] == IF n = 0 THEN [t |-> t, map |-> <<>>] ELSE Enter(kind, states[n - 1], list[n])
    IN  states[Len(list)]
Vacuum(st) == [st EXCEPT !.t.cap = RoundUp(Num(st.t))]
\* stringpool_integrate; the strings are laid out behind the ones of the pool
Integrate(t, list) == Vacuum(Merge("str", ResizeHash("str", Reserve(t, Len(list) + 1), Len(list) + 1), list))
\* the strings end too early: everything is taken back, the table is useless
IntegrateFails(t) == [FreeHash(t) EXCEPT !.cap = RoundUp(Num(t))]

\* pool_shrink_strings, pool_shrink_rels
Shrink(t) == [(IF t.mask # 0 /\ t.mask > MkMask(Num(t) + Slack) THEN FreeHash(t) ELSE t) EXCEPT !.cap = RoundUp(Num(t))]
IntegrateRels(t, list) ==
    LET st == Merge("rel", ResizeHash("rel", [t EXCEPT !.cap = Num(t) + Len(list)], Len(list)), list)
    IN  [st EXCEPT !.t = Shrink(st.t)]

(***************************************************************************)
(* The arrays of providers.                                                *)
(***************************************************************************)
GrowBug(len, old, t) == len   \* mutant: the array of providers stays as it is

\* grow_whatprovides for a single new id
Grow(len, old, t) ==
    IF len = 0 \/ Num(t) = Num(old) \/ Len(t.items) % (Block + 1) # 0 THEN len ELSE Len(t.items) + Block + 1
GrowMany(len, old, t) == IF len = 0 \/ Num(t) = Num(old) THEN len ELSE RoundUp(Num(t))

IdsInit ==
    /\ ids = [ss |-> NewItems(Predefined), rels |-> NewItems(<<>>), wp |-> 0, wprel |-> 0]
    /\ log = [ss |-> Predefined, rels |-> <<>>]

StrRoom(t) == Len(t.items) <= MaxStrs
RelRoom(t) == Len(t.items) <= MaxRels

Str2id ==
    \E text \in Texts, create \in BOOLEAN :
        LET t == Text2id(ids.ss, text, create).t
        IN  StrRoom(t) /\ ids' = [ids EXCEPT !.ss = t, !.wp = Grow(@, ids.ss, t)]
Rel2id ==
    \E part \in RelParts, create \in BOOLEAN :
        LET t == Item2id("rel", ids.rels, <<part[1], part[2], 2>>, create).t
        IN  RelRoom(t) /\ ids' = [ids EXCEPT !.rels = t, !.wprel = Grow(@, ids.rels, t)]

AddStrings ==
    \E list \in Lists :
        LET t == Integrate(ids.ss, list).t
        IN  StrRoom(t) /\ ids' = [ids EXCEPT !.ss = t, !.wp = GrowMany(@, ids.ss, t)]
AddStringsFails == ids.ss.mask # 0 /\ ids' = [ids EXCEPT !.ss = IntegrateFails(@)]
AddRels ==
    \E list \in RelLists :
        LET t == IntegrateRels(ids.rels, list).t
        IN  RelRoom(t) /\ ids' = [ids EXCEPT !.rels = t, !.wprel = GrowMany(@, ids.rels, t)]

ShrinkIds == ids' = [ids EXCEPT !.ss = Shrink(@), !.rels = Shrink(@)]
\* pool_createwhatprovides throws the tables away
CreateArrays ==
    ids' = [ss |-> FreeHash(ids.ss), rels |-> FreeHash(ids.rels), wp |-> RoundUp(Num(ids.ss)), wprel |-> RoundUp(Num(ids.rels))]
FreeArrays == ids.wp # 0 /\ ids' = [ids EXCEPT !.wp = 0, !.wprel = 0]
\* stringpool_clone leaves the table behind
CloneStrings == ids' = [ids EXCEPT !.ss = NewItems(@.items)]

LogOf(seen, items) == seen \o SubSeq(items, Len(seen) + 1, Len(items))
IdsNext ==
    /\ \/ Str2id \/ Rel2id \/ AddStrings \/ AddStringsFails \/ AddRels
       \/ ShrinkIds \/ CreateArrays \/ FreeArrays \/ CloneStrings
    /\ log' = [ss |-> LogOf(log.ss, ids'.ss.items), rels |-> LogOf(log.rels, ids'.rels.items)]
IdsSpec == IdsInit /\ [][IdsNext]_idsVars

Found(kind, t) == \A id \in DOMAIN t.items : (IF kind = "str" THEN Text2id(t, t.items[id], FALSE) ELSE Item2id(kind, t, t.items[id], FALSE)).id = id
HalfEmpty(t) == t.mask # 0 => Cardinality({h \in 0..t.mask : t.tbl[h] # 0}) * 2 <= t.mask + 1
Sound(kind, t, len) == IsInjective(t.items) /\ Found(kind, t) /\ HalfEmpty(t) /\ Num(t) <= t.cap /\ (len # 0 => Num(t) <= len)

(***************************************************************************)
(* An id stands for its string or relation for ever, nothing has two ids,  *)
(* a lookup finds exactly what is there whatever happened to the table,    *)
(* and no array is too short for the ids that index it.                    *)
(***************************************************************************)
IdsUnified ==
    /\ Sound("str", ids.ss, ids.wp) /\ Sound("rel", ids.rels, ids.wprel)
    /\ ids.ss.items = log.ss /\ ids.rels.items = log.rels
=============================================================================
