------------------------------ MODULE RepoEdit ------------------------------
(***************************************************************************)
(* Editing one repodata area: the calls of repodata.c that change an area, *)
(* in any order that its callers may use them, and repodata_internalize    *)
(* between them.  A menu limits what one behaviour may do.  Every call     *)
(* takes the step of the abstract store (AttrStore) that it stands for, so *)
(* that the area can be compared with the store at any time.               *)
(***************************************************************************)
EXTENDS Repodata, AttrStore

CONSTANTS Menus,         \* [area, handles, names, items, ops, depth]: an area to start from and the calls to try
          CarefulEdits   \* leave out the call sequences that are known to go wrong

VARIABLES area, menu, edits

editVars == <<area, menu, edits, kept, pend>>

Kept(d) == [h \in Entries |-> [n \in Names |-> Value(d, h, n)]]
Pend(d) == [h \in Handles |-> [n \in Names |-> PendingValue(d, h, n)]]

EditInit == \E m \in Menus : menu = m /\ area = m.area /\ edits = 0 /\ kept = Kept(m.area) /\ pend = NoneYet(Handles)

\* a path given as the number of its digits
Digits(n) == IF n < 10 THEN <<n>> ELSE IF n < 100 THEN <<n \div 10, n % 10>>
             ELSE <<n \div 100, (n \div 10) % 10, n % 10>>

Call(op, d) ==
    /\ edits < menu.depth
    /\ op \in menu.ops
    /\ area' = d
    /\ edits' = edits + 1
    /\ UNCHANGED menu

\* a handle the caller holds: structures live until the area is internalized
Usable(h) == h \in menu.handles /\ (h <= -2 => -h < area.nx)

ScalarTypes == {"num", "id", "void", "const", "constid"}

\* add_array finds the array it added to last without looking: it must still be there, and no
\* other attribute may share it (repodata_merge_attrs copies the offset of an array)
Offsets(h, i) == LET a == area.attrs[h][i]
                 IN  IF area.keys[a[1]].type \in ArrayTypes \cup StructTypes THEN {a[2]} ELSE {}
SharedWith(h, n) ==
    \E h2 \in DOMAIN area.attrs : \E i2 \in DOMAIN area.attrs[h2] :
       /\ <<h2, area.keys[area.attrs[h2][i2][1]].name>> # <<h, n>>
       /\ \E i \in DOMAIN AttrsOf(area, h) :
            area.keys[area.attrs[h][i][1]].name = n /\ Offsets(h, i) \cap Offsets(h2, i2) # {}
SafeAdd(h, n, type) ==
    /\ SameAsLast(area, h, n, type) =>
         \E i \in DOMAIN AttrsOf(area, h) :
           /\ area.attrs[h][i][1] = area.last.key
           /\ ArrayEnd(area, area.attrs[h][i][2], EntrySize(type)) + 1 = Len(area.attrid)
    /\ ~SharedWith(h, n)

SetAttr(h, n, it) ==
    /\ Usable(h) /\ it[1] \in ScalarTypes
    /\ Call("set", Set(area, h, n, it[1], it[2][1]))
    /\ SetScalar(h, n, it)

AddDirstr(h, n, path, str) ==
    LET r == Str2dir(area.dirs, area.cache, Digits(path))
    IN  AddArray([area EXCEPT !.dirs = r.dirs, !.cache = r.cache], h, n, "dirstr", <<r.id, str>>)

AddAttr(h, n, it) ==
    /\ Usable(h) /\ it[1] \in ArrayTypes \cup StructTypes
    /\ it[1] \in StructTypes => h > -2 /\ Usable(it[2][1])
    /\ CarefulEdits => SafeAdd(h, n, it[1])
    /\ Call("add", IF it[1] = "dirstr" THEN AddDirstr(h, n, it[2][1], it[2][2])
                   ELSE AddArray(area, h, n, it[1], it[2]))
    /\ AddEntry(h, n, it)

UnsetAttr(h, n) == Usable(h) /\ h > -2 /\ Call("unset", Unset(area, h, n)) /\ UnsetKey(h, n)
ForgetAttr(h, n) == Usable(h) /\ h > -2 /\ Call("forget", UnsetUninternalized(area, h, n)) /\ ForgetEdit(h, n)
ForgetAll(h) == Usable(h) /\ Call("forget", UnsetUninternalized(area, h, 0)) /\ ForgetEdits(h)
MergeInto(dest, src) == dest > 0 /\ src > 0 /\ Call("merge", MergeAttrs(area, dest, src)) /\ Merge(dest, src)
SwapWith(dest, src) == dest > 0 /\ src > dest /\ Call("swap", SwapAttrs(area, dest, src)) /\ Swap(dest, src)
MakeHandle == FreshHandle(area) \in menu.handles /\ Call("handle", NewHandle(area)) /\ UNCHANGED <<kept, pend>>

\* the elements of a fixarray have the same keys in the same order
UniformFix ==
    \A h \in DOMAIN area.attrs : \A i \in DOMAIN area.attrs[h] :
      area.keys[area.attrs[h][i][1]].type = "fix" =>
        LET es == ArrayAt(area, area.attrs[h][i][2], 1)
            lists == {KeysOf(area.attrs[es[k][1]]) : k \in {j \in DOMAIN es : es[j][1] \in DOMAIN area.attrs}}
        IN  Cardinality(lists) <= 1

Finalize == UniformFix /\ Call("internalize", Internalize(area)) /\ FinalizeAll

\* repo_free_solvable_block of the solvable p; lastp: it is the last one of the repo
FreeSolvable(p, lastp) ==
    /\ p > 0
    /\ Call("free", FreeSolvables(area, p, 1, IF lastp THEN p ELSE area.end))
    /\ Free(p)

Calls ==
    \/ \E h \in menu.handles, n \in menu.names :
         \/ \E it \in menu.items : SetAttr(h, n, it) \/ AddAttr(h, n, it)
         \/ UnsetAttr(h, n)
         \/ ForgetAttr(h, n)
    \/ \E h \in menu.handles : ForgetAll(h)
    \/ \E dest, src \in menu.handles : MergeInto(dest, src) \/ SwapWith(dest, src)
    \/ MakeHandle
    \/ Finalize
    \/ \E p \in menu.handles : \E lastp \in {p = area.end - 1} : FreeSolvable(p, lastp)

EditNext == Calls

EditSpec == EditInit /\ [][EditNext]_editVars

\* Lookups, pending lookups and repodata_internalize behave as the abstract store says: an edit
\* changes one key of one handle, internalizing puts every edit in force and keeps the rest,
\* however keys change their type, arrays move, schemas merge and ranges grow and shrink.
AreaIsStore == kept = Kept(area) /\ pend = Pend(area)
=============================================================================
