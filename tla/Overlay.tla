------------------------------- MODULE Overlay -------------------------------
(***************************************************************************)
(* Looking up attributes in a repository (repo.c): a repository has        *)
(* several repodata areas, a later one overrides an earlier one key by     *)
(* key, a deleted key hides it, and an area may be a stub that is loaded   *)
(* when it is first needed (repodata.c).                                   *)
(*                                                                         *)
(* A repo is a record: areas, the sequence of its areas; file, what the    *)
(* load callback gives for area i (an area that is available, or in state  *)
(* error); first and last, the range of its solvables; disabled; and gen,  *)
(* the storestate: it changes when pages of the file move in memory.       *)
(* A lookup returns the repo too, as it may have loaded areas.             *)
(***************************************************************************)
EXTENDS Repodata

FilelistKey == 80                                 \* SOLVABLE_FILELIST

\* repodata_precheck_keyname: a hash of the name, so it may say yes for a name that is not there
KeyBits == 8
Precheck(d, name) == \E k \in DOMAIN d.keys : d.keys[k].name % KeyBits = name % KeyBits
HasKeyname(d, name) == \E k \in DOMAIN d.keys : d.keys[k].name = name

(***************************************************************************)
(* repodata_load and maybe_load_repodata: a stub is loaded if it lists the *)
(* key (0: any key).  Ok tells whether the area can be used.               *)
(***************************************************************************)
Load(r, i) == IF r.areas[i].state = "stub" THEN [r EXCEPT !.areas[i] = r.file[i], !.gen = @ + 1] ELSE r

MaybeLoad(r, i, name) ==
    IF name = 0 \/ (Precheck(r.areas[i], name) /\ HasKeyname(r.areas[i], name)) THEN Load(r, i) ELSE r
Ok(r, i) == r.areas[i].state = "available"

Within(d, h) == h = Meta \/ (h >= d.start /\ h < d.end)
TypeIn(r, i, h, name) == IF Ok(r, i) THEN LookupType(r.areas[i], h, name) ELSE "none"

\* the areas that may have the key, the latest first
Candidates(r, h, name) ==
    SelectSeq(Reverse([i \in DOMAIN r.areas |-> i]),
              LAMBDA i : Within(r.areas[i], h) /\ Precheck(r.areas[i], name))

(***************************************************************************)
(* repo_lookup_repodata_opt: the latest area that has the key, nothing if  *)
(* it is deleted there; the last candidate is returned without a look.     *)
(* st = [repo, found, done].                                               *)
(***************************************************************************)
TriedOpt(st, i, h, name) ==
    LET t == TypeIn(st.repo, st.found, h, name)
    IN  IF t = "none" THEN [st EXCEPT !.found = i]
        ELSE [st EXCEPT !.done = TRUE, !.found = IF t = "deleted" THEN 0 ELSE @]

LookupRepodataOpt(r, h, name) ==
    FoldLeft(LAMBDA st, i :
               IF st.done THEN st
               ELSE IF st.found = 0 THEN [st EXCEPT !.found = i]
               ELSE TriedOpt([st EXCEPT !.repo = MaybeLoad(@, st.found, name)], i, h, name),
             [repo |-> r, found |-> 0, done |-> FALSE], Candidates(r, h, name))

(***************************************************************************)
(* repo_lookup_filelist_repodata: an exact search for a file that passes   *)
(* the filter of a filtered file list need not load the extension with the *)
(* full list.  FilterMatches is repodata_filelistfilter_matches: a file is *)
(* kept by the filter if its name is in d.filter.                          *)
(***************************************************************************)
FilterMatches(d, str) == str \in d.filter

HasData(d, h) == h \in DOMAIN d.inc

TriedFilelist(st, i, h, str) ==
    LET d == st.repo.areas[i]
        t == TypeIn(st.repo, i, h, FilelistKey)
    IN  CASE d.filelist = "filtered" ->
               IF ~Ok(st.repo, i) \/ ~Within(d, h) \/ ~HasData(d, h) THEN st
               ELSE IF st.ext /\ FilterMatches(d, str) THEN [st EXCEPT !.done = TRUE, !.found = i]
               ELSE [st EXCEPT !.done = TRUE, !.normal = TRUE]
          [] d.filelist # "filtered" /\ ~HasKeyname(d, FilelistKey) -> st
          [] d.filelist = "extension" /\ HasKeyname(d, FilelistKey) -> [st EXCEPT !.ext = TRUE]
          [] d.filelist = "full" /\ HasKeyname(d, FilelistKey) ->
               IF t = "none" THEN st
               ELSE IF st.ext THEN [st EXCEPT !.done = TRUE, !.normal = TRUE]
               ELSE [st EXCEPT !.done = TRUE, !.found = IF t = "deleted" THEN 0 ELSE i]

\* what has to be in memory before an area is looked at
LoadForFilelist(st, i) ==
    CASE st.repo.areas[i].filelist = "filtered"  -> [st EXCEPT !.repo = Load(@, i)]
      [] st.repo.areas[i].filelist = "extension" -> st
      [] st.repo.areas[i].filelist = "full"      -> [st EXCEPT !.repo = MaybeLoad(@, i, FilelistKey)]

FilelistTry(r, h, str) ==
    FoldLeft(LAMBDA st, i : IF st.done THEN st ELSE TriedFilelist(LoadForFilelist(st, i), i, h, str),
             [repo |-> r, found |-> 0, done |-> FALSE, ext |-> FALSE, normal |-> FALSE],
             SelectSeq(Reverse([i \in DOMAIN r.areas |-> i]), LAMBDA i : Within(r.areas[i], h)))

OptUnlessFound(st, h) ==
    IF st.done /\ ~st.normal THEN [repo |-> st.repo, found |-> st.found, done |-> TRUE]
    ELSE LookupRepodataOpt(st.repo, h, FilelistKey)

\* match: <<>> for none, else <<kind, string>>; only an exact search may use the filtered list
LookupFilelist(r, h, match) ==
    IF h <= 0 \/ match = <<>> \/ match[1] # "exact" THEN LookupRepodataOpt(r, h, FilelistKey)
    ELSE OptUnlessFound(FilelistTry(r, h, match[2]), h)

(***************************************************************************)
(* repo_lookup_str, _num, _id, _idarray, _void, _count, ...: the area,     *)
(* then the value in it.                                                   *)
(***************************************************************************)
ValueAt(st, h, name) ==
    IF st.found = 0 \/ ~Ok(st.repo, st.found) THEN NoValue ELSE Value(st.repo.areas[st.found], h, name)
Visible(v) == IF v.type = "deleted" THEN NoValue ELSE v

AfterLoad(st, name) == IF st.found = 0 THEN st ELSE [st EXCEPT !.repo = MaybeLoad(@, st.found, name)]
LookupIn(st, h, name) == [repo |-> st.repo, value |-> Visible(ValueAt(st, h, name))]
LookupValue(r, h, name) == LookupIn(AfterLoad(LookupRepodataOpt(r, h, name), name), h, name)

(***************************************************************************)
(* repo_create_keyskip: for every name the area that is to be shown.  The  *)
(* table at is reused for the next entry; base makes old values stale      *)
(* instead of clearing them.  skip.on is false if nothing is to be hidden. *)
(***************************************************************************)
NoSkip == [base |-> 1, end |-> 1, at |-> <<>>]

FillKeyskip(d, i, h, sk) ==       \* repodata_fill_keyskip
    LET s == OldSchema(d, h)
        names == {d.keys[s[k]].name : k \in DOMAIN s}
    IN  [sk EXCEPT !.at = [n \in DOMAIN @ \cup names |-> IF n \in names THEN sk.base + i ELSE @[n]]]

LoadAll(r) == FoldLeft(Load, r, [i \in DOMAIN r.areas |-> i])

\* the areas that say something about the entry
Sayers(r, h) ==
    SelectSeq([i \in DOMAIN r.areas |-> i],
              LAMBDA i : h = Meta \/ (Ok(r, i) /\ Within(r.areas[i], h) /\ HasData(r.areas[i], h)))

Renew(sk) == [sk EXCEPT !.base = sk.end]

FillAll(r, h, sk) ==
    LET full == FoldLeft(LAMBDA s, i : IF Ok(r, i) THEN FillKeyskip(r.areas[i], i, h, s) ELSE s, sk, Sayers(r, h))
    IN  [full EXCEPT !.end = full.base + Len(r.areas) + 1]

SkipOf(r, h, sk) ==
    IF Len(Sayers(r, h)) <= 1 THEN [repo |-> r, skip |-> sk, on |-> FALSE]
    ELSE [repo |-> r, skip |-> FillAll(r, h, sk), on |-> TRUE]

CreateKeyskip(r, h, old) ==
    IF Len(r.areas) <= 1 THEN [repo |-> r, skip |-> old, on |-> FALSE]
    ELSE SkipOf(LoadAll(r), h, Renew(old))

\* a key of area i is not shown
Skipped(c, i, name) == c.on /\ (name \notin DOMAIN c.skip.at \/ c.skip.at[name] # c.skip.base + i)
=============================================================================
