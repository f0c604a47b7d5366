------------------------------ MODULE AttrStore ------------------------------
(***************************************************************************)
(* What a repodata area promises: for every handle and key a value that is *)
(* in force (kept) and the edits on top of it that wait to be internalized *)
(* (pend).  A value is a type with its entries; an array of structures     *)
(* lists handles while it waits and the contents of the structures         *)
(* afterwards.                                                             *)
(***************************************************************************)
EXTENDS Integers, Sequences, FiniteSets

CONSTANTS Solvables,     \* the solvable ids that can be edited
          Structs,       \* the handles of structures (negative)
          Names,         \* key names
          Items          \* the entries that can be set or added: <<type, entry>>

VARIABLES kept, pend

META == -1
Entries == Solvables \cup {META}
Handles == Entries \cup Structs
None == [type |-> "none", leaf |-> <<>>, subs |-> <<>>]
OfType(type, leaf) == [type |-> type, leaf |-> leaf, subs |-> <<>>]
NoneYet(H) == [h \in H |-> [n \in Names |-> None]]

StoreInit == kept = NoneYet(Entries) /\ pend = NoneYet(Handles)

Edit(h, n, v) == pend' = [pend EXCEPT ![h][n] = v] /\ UNCHANGED kept

\* a scalar replaces whatever waited for the key
SetScalar(h, n, it) == Edit(h, n, OfType(it[1], IF it[1] = "void" THEN <<>> ELSE <<it[2]>>))

\* an array entry joins the array that waits, or starts a new one
AddEntry(h, n, it) ==
    Edit(h, n, IF pend[h][n].type = it[1] THEN [pend[h][n] EXCEPT !.leaf = Append(@, it[2])]
               ELSE OfType(it[1], <<it[2]>>))

UnsetKey(h, n) == Edit(h, n, OfType("deleted", <<>>))
ForgetEdit(h, n) == Edit(h, n, None)
ForgetEdits(h) == pend' = [pend EXCEPT ![h] = [n \in Names |-> None]] /\ UNCHANGED kept

Merge(dest, src) ==
    /\ pend' = [pend EXCEPT ![dest] = [n \in Names |->
                   IF @[n].type \in {"none", "deleted"} /\ pend[src][n] # None THEN pend[src][n] ELSE @[n]]]
    /\ UNCHANGED kept

Swap(dest, src) == pend' = [pend EXCEPT ![dest] = pend[src], ![src] = pend[dest]] /\ UNCHANGED kept

\* the content of a structure, and an array of structures when it becomes final
Content(h) == {<<n, pend[h][n].type, pend[h][n].leaf>> : n \in {m \in Names : pend[h][m] # None}}
Finished(v) ==
    IF v.type \notin {"fix", "flex"} THEN v
    ELSE LET hs == IF v.type = "flex" THEN v.leaf ELSE SelectSeq(v.leaf, LAMBDA e : Content(e[1]) # {})
         IN  [type |-> v.type, leaf |-> <<>>, subs |-> [k \in DOMAIN hs |-> Content(hs[k][1])]]

FinalizeAll ==
    /\ kept' = [h \in Entries |-> [n \in Names |-> IF pend[h][n] = None THEN kept[h][n] ELSE Finished(pend[h][n])]]
    /\ pend' = NoneYet(Handles)

Free(p) ==
    /\ kept' = [kept EXCEPT ![p] = [n \in Names |-> None]]
    /\ pend' = [pend EXCEPT ![p] = [n \in Names |-> None]]

StoreNext ==
    \/ \E h \in Handles, n \in Names : UnsetKey(h, n) \/ ForgetEdit(h, n)
    \/ \E h \in Handles, n \in Names, it \in Items : SetScalar(h, n, it) \/ AddEntry(h, n, it)
    \/ \E h \in Handles : ForgetEdits(h)
    \/ \E dest, src \in Solvables : Merge(dest, src) \/ Swap(dest, src)
    \/ FinalizeAll
    \/ \E p \in Solvables : Free(p)

StoreSpec == StoreInit /\ [][StoreNext]_<<kept, pend>>
=============================================================================
