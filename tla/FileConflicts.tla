--------------------------- MODULE FileConflicts ----------------------------
(***************************************************************************)
(* pool_findfileconflicts (ext/pool_fileconflicts.c): which files of the   *)
(* packages in a list are at the same place with different content?  The   *)
(* packages at the positions from cutoff + 1 on are installed already and  *)
(* not compared with each other.  The file lists are read several times;   *)
(* the first passes keep nothing but hashes of names.                      *)
(*                                                                         *)
(* mode says whether directories are names ("plain"), what stat finds      *)
(* ("stat") or names with the symbolic links below a root directory        *)
(* followed ("canon").  A directory is the sequence of its components, all *)
(* of them one character long; <<>> is "/".  A package has directories and *)
(* files [di, base, isdir, digest, color, ghost], di the number of the     *)
(* directory.  The hash tables are functions from hashes to what is kept   *)
(* with them: their chains find a hash or its absence.                     *)
(***************************************************************************)
EXTENDS Integers, Sequences, FiniteSets, SequencesExt, TLC

CONSTANTS FcCases,     \* what pool_findfileconflicts is called with
          HashMod      \* 2^32: the number of hashes

VARIABLE fc

DotName == -1          \* the components "." and ".."
DotDot == -2
NoDir == <<0>>         \* the directory of a file in a source package, ""
ManyPkgs == [kind |-> "multiple", own |-> 0]

(***************************************************************************)
(* strhash and strhash_cont; a hash that happens to be 0 is replaced by    *)
(* the length of the name plus 1.                                          *)
(***************************************************************************)
StrHashCont(s, h) == FoldLeft(LAMBDA r, c : (9 * r + c) % HashMod, h, s)
Chars(d) == <<47>> \o FlattenSeq([k \in DOMAIN d |-> <<d[k] + 50, 47>>])
DirHash(d) == IF d = NoDir THEN 0 ELSE StrHashCont(Chars(d), 0)
PathLen(d) == IF d = NoDir THEN 1 ELSE 2 * Len(d) + 2
NotZero(h, len) == IF h = 0 THEN len + 1 ELSE h
DirKey(d) == NotZero(DirHash(d), PathLen(d) - 1)
FileKey(dirhash, d, base) == NotZero(StrHashCont(<<base>>, dirhash), PathLen(d))
BaseKey(d, base) == NotZero(StrHashCont(<<base>>, 0), PathLen(d))

Aliases(c) == c.mode # "plain"
NPkgs(c) == Len(c.pkgs)
Dir(pkg, f) == pkg.dirs[f.di]
At(map, h) == IF h \in DOMAIN map THEN map[h] ELSE [kind |-> "none", own |-> 0]
Keep(map, h, v) == (h :> v) @@ map

\* rpm_iterate_filelist: nothing of a header whose arrays do not fit, no ghosts, no file without a directory;
\* each callback returns at once when the directory is empty
Listed(pkg) == SelectSeq(pkg.files, LAMBDA f : f.di \in DOMAIN pkg.dirs)
IterateFilelist(pkg) == IF pkg.bad THEN <<>> ELSE SelectSeq(Listed(pkg), LAMBDA f : ~f.ghost /\ Dir(pkg, f) # NoDir)

(***************************************************************************)
(* finddirs_cb: a directory of a second package makes both packages        *)
(* interesting.  Only packages up to cutoff enter directories.             *)
(***************************************************************************)
FindDirsCb(s, d) ==
    LET h == DirKey(d)
        old == At(s.dirmap, h)
    IN  CASE old.kind = "none" /\ s.n > s.c.cutoff -> s
          [] old.kind = "none" -> [s EXCEPT !.dirmap = Keep(@, h, [kind |-> "one", own |-> s.n])]
          [] old.kind = "one" /\ old.own = s.n -> s
          [] old.kind = "one" /\ old.own # s.n -> [s EXCEPT !.idxmap = @ \cup {old.own, s.n}, !.dirmap = Keep(@, h, ManyPkgs)]
          [] OTHER -> [s EXCEPT !.idxmap = @ \cup {s.n}]

IsInDirmap(s, h) == At(s.dirmap, h).kind = "multiple"

\* the directory of the file before this one was the same: its hash is kept
SeenDir(s, pkg, f) == IF s.last.di = f.di THEN s ELSE [s EXCEPT !.last = [di |-> f.di, hash |-> DirHash(Dir(pkg, f)), bad |-> FALSE]]

(***************************************************************************)
(* findfileconflicts_cb: a name whose hash was seen in another package is  *)
(* a candidate.  Directories are put off until a file of that hash comes.  *)
(***************************************************************************)
Candidate(hx, idx) == [hx |-> hx, idx |-> idx, dhx |-> 0, dirid |-> 0]
Delayed(s, hx) == SelectSeq(s.lookatdir, LAMBDA x : x[1] = hx)
FirstOwner(f, n) == [kind |-> IF f.isdir THEN "dir" ELSE "file", own |-> n]
Push(s, seq) == [s EXCEPT !.lookat = @ \o seq]
FindFile(s, f, hx) ==
    LET old == At(s.cflmap, hx)
        both == <<Candidate(hx, old.own), Candidate(hx, s.n)>>
        earlier == [k \in DOMAIN Delayed(s, hx) |-> Candidate(hx, Delayed(s, hx)[k][2])]
    IN  CASE old.kind = "none" /\ s.n > s.c.cutoff -> s
          [] old.kind = "none" -> [s EXCEPT !.cflmap = Keep(@, hx, FirstOwner(f, s.n))]
          [] old.kind = "dir" /\ f.isdir -> [s EXCEPT !.lookatdir = Append(@, <<hx, s.n>>)]
          [] old.kind = "dir" /\ ~f.isdir ->
               Push([s EXCEPT !.cflmap = Keep(@, hx, [old EXCEPT !.kind = "file"])], earlier \o both)
          [] old.kind = "file" /\ old.own = s.n -> s
          [] OTHER -> Push(s, both)
FindFileconflictsCb(t, pkg, f) ==
    LET s == SeenDir(t, pkg, f)
    IN  IF ~IsInDirmap(s, NotZero(s.last.hash, PathLen(Dir(pkg, f)) - 1)) THEN s
        ELSE FindFile(s, f, FileKey(s.last.hash, Dir(pkg, f), f.base))

(***************************************************************************)
(* findfileconflicts_basename_cb: the same for basenames, noting packages. *)
(* When the first file comes after directories, the package that had the   *)
(* first directory is not noted: oidx becomes -idx - 2 there.              *)
(***************************************************************************)
FindBasenameCb(s, pkg, f) ==
    LET hx == BaseKey(Dir(pkg, f), f.base)
        old == At(s.cflmap, hx)
        delayed == {Delayed(s, hx)[k][2] : k \in DOMAIN Delayed(s, hx)}
        noted == CASE old.kind = "dir" -> delayed \cup {s.n}
                   [] old.kind = "file" -> {old.own, s.n}
                   [] OTHER -> {s.n}
    IN  CASE old.kind = "none" /\ s.n > s.c.cutoff -> s
          [] old.kind = "none" -> [s EXCEPT !.cflmap = Keep(@, hx, FirstOwner(f, s.n))]
          [] old.kind = "dir" /\ f.isdir -> [s EXCEPT !.lookatdir = Append(@, <<hx, s.n>>)]
          [] old.kind = "file" /\ old.own = s.n -> s
          [] OTHER -> [s EXCEPT !.cflmap = Keep(@, hx, ManyPkgs), !.idxmap = @ \cup noted]

(***************************************************************************)
(* normalizedir: the number of a directory.  nor.ids are the directories   *)
(* asked for, 0 while the answer is looked for (-1 in the code); nor.texts *)
(* the names the numbers stand for; nor.inodes the results of stat.        *)
(***************************************************************************)
Answer(nor, id) == [nor |-> nor, id |-> id]
AddText(nor, d) == [nor EXCEPT !.texts = Append(@, d)]
Newest(nor) == Len(nor.texts)
OrMine(r, id) == IF r.id = 0 THEN [r EXCEPT !.id = id] ELSE r

UnifyWithStat(c, nor, d, me) ==
    CASE d \notin DOMAIN c.inodes -> Answer(nor, me)
      [] d \in DOMAIN c.inodes /\ c.inodes[d] \in DOMAIN nor.inodes -> Answer(nor, nor.inodes[c.inodes[d]])
      [] OTHER -> LET new == AddText(nor, d)
                  IN  Answer([new EXCEPT !.inodes = Keep(@, c.inodes[d], Newest(new))], Newest(new))

RECURSIVE NormalizeDir(_, _, _)
\* the last component b of a directory whose parent is number id
FollowName(c, nor, id, b, me) ==
    LET up == nor.texts[id]
        canon == Append(up, b)
        copy == AddText(nor, canon)
    IN  CASE b = DotName -> Answer(nor, id)
          [] b = DotDot /\ up = <<>> -> Answer(nor, id)
          [] b = DotDot /\ up # <<>> -> OrMine(NormalizeDir(c, nor, Front(up)), me)
          [] canon \notin DOMAIN c.links -> OrMine(NormalizeDir(c, copy, canon), Newest(copy))
          [] ~c.links[canon].readable -> Answer(nor, me)
          [] c.links[canon].to = <<>> -> Answer(nor, id)
          [] c.links[canon].abs -> OrMine(NormalizeDir(c, nor, c.links[canon].to), me)
          [] OTHER -> OrMine(NormalizeDir(c, nor, up \o c.links[canon].to), me)
UnifyWithCanon(c, nor, d, me) ==
    IF d = <<>> THEN Answer(nor, me)
    ELSE LET parent == NormalizeDir(c, nor, Front(d))
         IN  IF parent.id = 0 THEN [parent EXCEPT !.id = me] ELSE FollowName(c, parent.nor, parent.id, Last(d), me)
NormalizeDir(c, nor, d) ==
    IF d \in DOMAIN nor.ids THEN Answer(nor, nor.ids[d])
    ELSE LET new == [AddText(nor, d) EXCEPT !.ids = Keep(@, d, 0)]
             r == IF c.mode = "stat" THEN UnifyWithStat(c, new, d, Newest(new)) ELSE UnifyWithCanon(c, new, d, Newest(new))
         IN  [r EXCEPT !.nor.ids = Keep(@, d, r.id)]

(***************************************************************************)
(* findfileconflicts_alias_cb: the candidates for the basenames that more  *)
(* than one package has.                                                   *)
(***************************************************************************)
FindAliasCb(t, pkg, f) ==
    LET s == SeenDir(t, pkg, f)
        d == Dir(pkg, f)
        hx == BaseKey(d, f.base)
        r == NormalizeDir(s.c, s.nor, d)
    IN  IF At(s.cflmap, hx) # ManyPkgs THEN s
        ELSE Push([s EXCEPT !.nor = r.nor], <<[hx |-> hx, idx |-> s.n, dhx |-> s.last.hash, dirid |-> IF f.isdir THEN -r.id ELSE r.id]>>)

(***************************************************************************)
(* The candidates sorted and unified: of those with the same hash and      *)
(* directory number one per package and hash of the directory, if there    *)
(* are two, one of them from the packages up to cutoff, and not all are    *)
(* directories.                                                            *)
(***************************************************************************)
Abs(x) == IF x < 0 THEN -x ELSE x
HxRank(e) == <<e.hx, Abs(e.dirid), IF e.dirid < 0 THEN 1 ELSE 0, e.idx, e.dhx>>
IdxRank(e) == <<e.idx, e.dirid, e.hx, e.dhx>>
Lower(a, b) == \E k \in DOMAIN a : a[k] < b[k] /\ \A j \in 1..(k - 1) : a[j] = b[j]
SortedByHx(q) == SortSeq(q, LAMBDA a, b : Lower(HxRank(a), HxRank(b)))
SortedByIdx(q) == SortSeq(q, LAMBDA a, b : Lower(IdxRank(a), IdxRank(b)))
SameSpot(a, b) == a.hx = b.hx /\ Abs(a.dirid) = Abs(b.dirid)

\* g: first, the element seen last, and what is kept
PruneStepBug(c, g, e) ==   \* mutant: a package with two candidates in the group keeps its first only, whatever their directories
    LET this == [e EXCEPT !.dirid = g.at.dirid]
    IN  CASE g.at.dirid < 0 \/ g.at.idx = e.idx -> g
          [] g.first /\ g.at.idx # e.idx -> [first |-> FALSE, at |-> this, kept |-> <<g.at, this>>]
          [] OTHER -> [first |-> FALSE, at |-> this, kept |-> Append(g.kept, this)]
PruneStep(c, g, e) ==
    LET twin == g.at.idx = e.idx /\ g.at.dhx = e.dhx
        self == g.first /\ g.at.idx <= c.cutoff /\ Aliases(c)
        this == [e EXCEPT !.dirid = g.at.dirid]
    IN  CASE g.at.dirid < 0 \/ (twin /\ ~self) -> g
          [] g.first /\ ~twin -> [first |-> FALSE, at |-> this, kept |-> <<g.at, this>>]
          [] OTHER -> [first |-> FALSE, at |-> this, kept |-> Append(g.kept, this)]
PruneGroup(c, q) ==
    LET g == FoldLeft(LAMBDA x, e : PruneStep(c, x, e), [first |-> TRUE, at |-> Head(q), kept |-> <<>>], Tail(q))
    IN  IF \E k \in DOMAIN g.kept : g.kept[k].idx <= c.cutoff THEN g.kept ELSE <<>>
GroupFrom(q, k) == SelectSeq(SubSeq(q, k, Len(q)), LAMBDA e : SameSpot(e, q[k]))
PruneCandidates(c, q) ==
    FlattenSeq([k \in DOMAIN q |-> IF k > 1 /\ SameSpot(q[k - 1], q[k]) THEN <<>> ELSE PruneGroup(c, GroupFrom(q, k))])

(***************************************************************************)
(* findfileconflicts_expand_cb: the files behind the candidates of one     *)
(* package, block.  The offset of a file in filesspace is its number.      *)
(***************************************************************************)
DirBad(s, t) == Aliases(s.c) /\ ~\E k \in DOMAIN s.block : s.block[k].dhx = t.last.hash
IdOf(nor, d) == IF d \in DOMAIN nor.ids THEN nor.ids[d] ELSE 0
ExpandCb(s, pkg, f) ==
    LET d == Dir(pkg, f)
        t == SeenDir(s, pkg, f)
        u == IF s.last.di = f.di THEN s ELSE [t EXCEPT !.last.bad = DirBad(s, t)]
        dirid == IF Aliases(s.c) THEN IdOf(s.nor, d) ELSE 0
        dhx == IF Aliases(s.c) THEN u.last.hash ELSE 0
        hx == IF Aliases(s.c) THEN BaseKey(d, f.base) ELSE FileKey(u.last.hash, d, f.base)
        hits == SelectSeq(s.block, LAMBDA e : e.hx = hx /\ e.dirid = dirid /\ e.dhx = dhx)
        Found(k) == [hx |-> hx, idx |-> s.idx, dhx |-> Len(s.files) + k, dirid |-> dirid]
    IN  IF u.last.bad THEN u
        ELSE [u EXCEPT !.files = @ \o [k \in DOMAIN hits |-> [dir |-> d, file |-> f]],
                       !.new = @ \o [k \in DOMAIN hits |-> Found(k)]]

(***************************************************************************)
(* The last pass: the files of a hash and a directory are compared.        *)
(***************************************************************************)
ColorsMeet(c, f, g) == ~c.colors \/ f.color = {} \/ g.color = {} \/ f.color \cap g.color # {}
SameFileName(c, x, y) == x.file.base = y.file.base /\ (Aliases(c) \/ x.dir = y.dir)
Clashes(s, a, b) ==
    LET x == s.files[a.dhx]
        y == s.files[b.dhx]
    IN  /\ a.idx <= s.c.cutoff /\ SameSpot(a, b) /\ SameFileName(s.c, x, y)
        /\ x.file.digest # y.file.digest /\ ColorsMeet(s.c, x.file, y.file)
Conflict(i, x, j, y) == [i |-> i, x |-> x, j |-> j, y |-> y]
Compared(s) ==
    LET q == SortedByHx(s.lookat)
        pairs == {x \in (DOMAIN q) \X (DOMAIN q) : x[1] < x[2] /\ Clashes(s, q[x[1]], q[x[2]])}
    IN  {Conflict(q[x[1]].idx, s.files[q[x[1]].dhx], q[x[2]].idx, s.files[q[x[2]].dhx]) : x \in pairs}

(***************************************************************************)
(* precheck_solvable_files: has an installed package a file of a hash of   *)
(* the new ones?  The list in the pool has the ghosts, too.                *)
(***************************************************************************)
PrecheckSolvableFiles(s, pkg) ==
    \E k \in DOMAIN Listed(pkg) :
       LET f == Listed(pkg)[k]
           d == Dir(pkg, f)
       IN  IF Aliases(s.c) THEN NotZero(StrHashCont(<<f.base>>, 0), 1) \in DOMAIN s.cflmap
           ELSE IsInDirmap(s, DirKey(d)) /\ FileKey(DirHash(d), d, f.base) \in DOMAIN s.cflmap

(***************************************************************************)
(* pool_findfileconflicts.  handle_cb fetches the header of a package; it  *)
(* may fail for the packages in flaky, each time or once.  lost notes it.  *)
(***************************************************************************)
NothingSeen == [di |-> 0, hash |-> 0, bad |-> FALSE]
EmptyMap == [h \in {} |-> ManyPkgs]
Start(c) ==
    [c |-> [c EXCEPT !.cutoff = IF @ <= 0 THEN NPkgs(c) ELSE @], n |-> 1, lost |-> {}, idxmap |-> {},
     pc |-> CASE c.pkgs = <<>> -> "done" [] c.pkgs # <<>> /\ Aliases(c) -> "files" [] OTHER -> "dirs",
     dirmap |-> EmptyMap, cflmap |-> EmptyMap, lookatdir |-> <<>>, lookat |-> <<>>, last |-> NothingSeen,
     nor |-> [ids |-> EmptyMap, texts |-> <<>>, inodes |-> EmptyMap], block |-> <<>>, idx |-> 0,
     new |-> <<>>, files |-> <<>>, out |-> {}]
FcInit == \E c \in FcCases : fc = Start(c)

This == fc.c.pkgs[fc.n]
Known(s, pkg) == s.c.listed /\ pkg.inst     \* FINDFILECONFLICTS_USE_SOLVABLEFILELIST
Advance(s, after) == IF s.n = NPkgs(s.c) THEN [s EXCEPT !.n = 1, !.pc = after, !.last = NothingSeen]
                     ELSE [s EXCEPT !.n = @ + 1, !.last = NothingSeen]
Fetches(s, n) == IF n \in s.c.flaky THEN BOOLEAN ELSE {TRUE}
Without(s, n) == [s EXCEPT !.lost = @ \cup {n}]

\* iterate_solvable_dirs goes by the files, the header has a list of directories
DirsOf(s, pkg) == IF Known(s, pkg) THEN [k \in DOMAIN Listed(pkg) |-> Dir(pkg, Listed(pkg)[k])] ELSE pkg.dirs
FindDirs ==
    /\ fc.pc = "dirs"
    /\ \E got \in IF Known(fc, This) THEN {TRUE} ELSE Fetches(fc, fc.n) :
          fc' = Advance(IF got THEN FoldLeft(FindDirsCb, fc, DirsOf(fc, This)) ELSE Without(fc, fc.n), "files")

Passed(s, pkg) ==
    \/ ~Aliases(s.c) /\ s.n \notin s.idxmap
    \/ s.n > s.c.cutoff /\ Known(s, pkg) /\ ~PrecheckSolvableFiles(s, pkg)
FileCb(s, pkg, f) == IF Aliases(s.c) THEN FindBasenameCb(s, pkg, f) ELSE FindFileconflictsCb(s, pkg, f)
FindFiles ==
    /\ fc.pc = "files"
    /\ LET after == IF Aliases(fc.c) THEN "aliases" ELSE "prune"
       IN  \/ Passed(fc, This) /\ fc' = Advance(fc, after)
           \/ /\ ~Passed(fc, This)
              /\ \E got \in Fetches(fc, fc.n) :
                    fc' = Advance(IF got THEN FoldLeft(LAMBDA s, f : FileCb(s, This, f), fc, IterateFilelist(This))
                                  ELSE Without(fc, fc.n), after)
FindAliases ==
    /\ fc.pc = "aliases"
    /\ \/ fc.n \notin fc.idxmap /\ fc' = Advance(fc, "prune")
       \/ /\ fc.n \in fc.idxmap
          /\ \E got \in Fetches(fc, fc.n) :
                fc' = Advance(IF got THEN FoldLeft(LAMBDA s, f : FindAliasCb(s, This, f), fc, IterateFilelist(This))
                              ELSE Without(fc, fc.n), "prune")
PruneAll ==
    /\ fc.pc = "prune"
    /\ fc' = [fc EXCEPT !.pc = "expand", !.lookat = SortedByIdx(PruneCandidates(fc.c, SortedByHx(@)))]
\* all candidates of one package at a time
Expand ==
    /\ fc.pc = "expand" /\ fc.lookat # <<>>
    /\ LET idx == Head(fc.lookat).idx
           block == SelectSeq(fc.lookat, LAMBDA e : e.idx = idx)
           pkg == fc.c.pkgs[idx]
           s == [fc EXCEPT !.lookat = SelectSeq(@, LAMBDA e : e.idx # idx), !.block = block, !.idx = idx, !.last = NothingSeen]
       IN  \E got \in Fetches(fc, idx) :
             fc' = IF got THEN FoldLeft(LAMBDA t, f : ExpandCb(t, pkg, f), s, IterateFilelist(pkg)) ELSE Without(s, idx)
CompareFiles ==
    /\ fc.pc = "expand" /\ fc.lookat = <<>>
    /\ fc' = [fc EXCEPT !.pc = "done", !.lookat = fc.new, !.out = Compared([fc EXCEPT !.lookat = fc.new])]
FcNext == FindDirs \/ FindFiles \/ FindAliases \/ PruneAll \/ Expand \/ CompareFiles

(***************************************************************************)
(* What the answer should be.  RealDir is where a directory really is, found *)
(* by walking the path; a path through a loop or a link that cannot be     *)
(* read leads nowhere, and stands for itself.                              *)
(***************************************************************************)
Nowhere == <<"nowhere">>
RECURSIVE WalkFrom(_, _, _, _)
WalkFrom(c, at, rest, fuel) ==
    IF rest = <<>> THEN <<"dir", at>>
    ELSE LET b == Head(rest)
             here == Append(at, b)
         IN  CASE fuel = 0 -> Nowhere
               [] fuel > 0 /\ b = DotName -> WalkFrom(c, at, Tail(rest), fuel)
               [] fuel > 0 /\ b = DotDot -> WalkFrom(c, IF at = <<>> THEN at ELSE Front(at), Tail(rest), fuel)
               [] fuel > 0 /\ b > 0 /\ here \notin DOMAIN c.links -> WalkFrom(c, here, Tail(rest), fuel)
               [] OTHER -> IF ~c.links[here].readable THEN Nowhere
                           ELSE WalkFrom(c, IF c.links[here].abs THEN <<>> ELSE at, c.links[here].to \o Tail(rest), fuel - 1)
RealDir(c, d) ==
    CASE c.mode = "plain" -> <<"dir", d>>
      [] c.mode = "stat" -> IF d \in DOMAIN c.inodes THEN <<"inode", c.inodes[d]>> ELSE <<"dir", d>>
      [] OTHER -> WalkFrom(c, <<>>, d, 10)
SamePlace(c, d, e) == d = e \/ (RealDir(c, d) = RealDir(c, e) /\ RealDir(c, d) # Nowhere)

Real(pkg, f) == ~f.ghost /\ f.di \in DOMAIN pkg.dirs /\ Dir(pkg, f) # NoDir
Held(c, n) == LET pkg == c.pkgs[n]
              IN  IF pkg.bad THEN {} ELSE {[dir |-> Dir(pkg, f), file |-> f] : f \in {g \in Range(pkg.files) : Real(pkg, g)}}
RealConflict(c, x, y) ==
    /\ x.file.base = y.file.base /\ SamePlace(c, x.dir, y.dir)
    /\ x.file.digest # y.file.digest /\ ColorsMeet(c, x.file, y.file)
ConflictsOf(s, i, j) ==
    {Conflict(i, x, j, y) : <<x, y>> \in {z \in Held(s.c, i) \X Held(s.c, j) : RealConflict(s.c, z[1], z[2])}}
NewPairs(s) == {x \in (1..NPkgs(s.c)) \X (1..NPkgs(s.c)) : x[1] < x[2] /\ x[1] <= s.c.cutoff /\ {x[1], x[2]} \cap s.lost = {}}
AllConflicts(s) == UNION {ConflictsOf(s, x[1], x[2]) : x \in NewPairs(s)}
\* the package has no more than directories of that basename, and no package before it has the name
DirectoriesFirst(s, i, x) ==
    LET hx == BaseKey(x.dir, x.file.base)
        Same(n) == {y \in Held(s.c, n) : BaseKey(y.dir, y.file.base) = hx}
    IN  Aliases(s.c) /\ (\A y \in Same(i) : y.file.isdir) /\ (\A n \in 1..(i - 1) : Same(n) = {} \/ n \in s.lost)

(***************************************************************************)
(* Whatever the hashes of the names do, in whatever order the files are    *)
(* and whichever headers cannot be fetched: pool_findfileconflicts reports *)
(* nothing but files of the same place with different content, and all of  *)
(* them in packages whose headers were there, save for the directories     *)
(* findfileconflicts_basename_cb forgets (ConflictsFound).                 *)
(***************************************************************************)
FileConflictsExact ==
    fc.pc = "done" =>
      /\ \A o \in fc.out : /\ o.i <= fc.c.cutoff /\ o.x \in Held(fc.c, o.i) /\ o.y \in Held(fc.c, o.j)
                           /\ \/ RealConflict(fc.c, o.x, o.y)
                              \/ fc.c.mode = "canon" /\ Nowhere \in {RealDir(fc.c, o.x.dir), RealDir(fc.c, o.y.dir)}
      /\ \A o \in AllConflicts(fc) : o \in fc.out \/ DirectoriesFirst(fc, o.i, o.x)

(***************************************************************************)
(* "same as findfileconflicts_cb, but" by basename, the comment says: the  *)
(* package with the directory is a candidate there, too.                   *)
(***************************************************************************)
ConflictsFound == fc.pc = "done" => AllConflicts(fc) \subseteq fc.out
=============================================================================
