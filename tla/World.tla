------------------------------- MODULE World -------------------------------
(***************************************************************************)
(* The pool as the solver's rule and policy code sees it once the index of *)
(* provides is built: packages, what provides a dependency, and the        *)
(* relations between packages that decide which rules are made.            *)
(*                                                                         *)
(* A world w is a record of                                                *)
(*   pkgs   the solvables, a sequence; its index is the solvable id and    *)
(*          pkgs[1] is the system solvable                                 *)
(*   score  architecture -> score; 1 is noarch, 0 an architecture that     *)
(*          cannot be used, s \div 100 the class in the high bits          *)
(*   color  architecture -> the set of its word sizes                      *)
(*   prio   repository -> priority; "inst" is the installed repository     *)
(*   sub    repository -> subpriority                                      *)
(*   vclass vendor -> the set of the vendor classes it belongs to          *)
(*   names  the package names, in the order strcmp has them                *)
(*   ns     the namespace dependencies the application says hold           *)
(*   opt    the set of the pool and solver flags that are switched on      *)
(* A package is a record of name, evr, arch, vendor, repo, build (what     *)
(* solvable_identical compares beyond nevra and vendor) and its            *)
(* dependency arrays.  A dependency is a name with a range of versions     *)
(* [n, lo, hi] or an operator on two dependencies [op, a, b]; a namespace  *)
(* dependency has the operator "ns", the namespace in a.n.                 *)
(***************************************************************************)
EXTENDS Integers, FiniteSets, Sequences, SequencesExt

System == 1
Ids(w) == 1..Len(w.pkgs)
Pk(w, p) == w.pkgs[p]
IdSeq(w) == [i \in Ids(w) |-> i]
Opt(w, o) == o \in w.opt

IsInst(w, p) == Pk(w, p).repo = "inst"
InstSet(w) == {p \in Ids(w) : IsInst(w, p)}
HaveInstalled(w) == InstSet(w) # {}
InstSeq(w) == SelectSeq(IdSeq(w), LAMBDA p : IsInst(w, p))

(***************************************************************************)
(* Version ranges meet where pool_intersect_evrs finds a common version.   *)
(***************************************************************************)
RangesMeet(a, b) == a.lo <= b.hi /\ b.lo <= a.hi

IsRel(d) == "op" \in DOMAIN d
Versioned(d) == IsRel(d) \/ d.lo > 0 \/ d.hi < 9

(***************************************************************************)
(* pool_match_nevr_rel: the package itself, not what it provides.          *)
(***************************************************************************)
RECURSIVE MatchNevr(_, _, _)
MatchNevr(w, p, d) ==
  IF ~IsRel(d) THEN Pk(w, p).name = d.n /\ d.lo <= Pk(w, p).evr /\ Pk(w, p).evr <= d.hi
  ELSE CASE d.op = "arch" -> Pk(w, p).arch = d.b.n /\ MatchNevr(w, p, d.a)
         [] d.op = "or"  -> MatchNevr(w, p, d.a) \/ MatchNevr(w, p, d.b)
         [] d.op \in {"and", "with"} -> MatchNevr(w, p, d.a) /\ MatchNevr(w, p, d.b)
         [] d.op = "without" -> MatchNevr(w, p, d.a) /\ ~MatchNevr(w, p, d.b)
         [] OTHER -> FALSE

(***************************************************************************)
(* pool_whatprovides: the providers of a dependency in the order of their  *)
(* ids.  A package provides its own name in its own version; only packages *)
(* that are installed or could be are in the index.  For AND and COND the  *)
(* plain provider list is that of pool_addrelproviders.                    *)
(***************************************************************************)
Indexed(w, p) == IsInst(w, p) \/ (/\ Pk(w, p).arch # "src"
                                   /\ w.score[Pk(w, p).arch] # 0
                                   /\ ~Pk(w, p).disabled)
OwnProvides(w, p) == {Pk(w, p).provides[i] : i \in DOMAIN Pk(w, p).provides}
                       \cup {[n |-> Pk(w, p).name, lo |-> Pk(w, p).evr, hi |-> Pk(w, p).evr]}

RECURSIVE ProvSet(_, _)
ProvSet(w, d) ==
  IF ~IsRel(d) THEN {p \in Ids(w) : Indexed(w, p) /\ \E pr \in OwnProvides(w, p) : pr.n = d.n /\ RangesMeet(pr, d)}
  ELSE CASE d.op = "arch" -> {p \in ProvSet(w, d.a) : Pk(w, p).arch = d.b.n}
         [] d.op \in {"and", "or"} -> ProvSet(w, d.a) \cup ProvSet(w, d.b)
         [] d.op = "with" -> ProvSet(w, d.a) \cap ProvSet(w, d.b)
         [] d.op = "without" -> ProvSet(w, d.a) \ ProvSet(w, d.b)
         [] d.op \in {"cond", "unless"} ->
              ProvSet(w, d.a) \cup (IF IsRel(d.b) /\ d.b.op = "else" THEN ProvSet(w, d.b.b) ELSE {})
         [] d.op = "ns" -> IF d \in w.ns THEN {System} ELSE {}
         [] OTHER -> {}

Providers(w, d) == LET S == ProvSet(w, d) IN SelectSeq(IdSeq(w), LAMBDA p : p \in S)
NameDep(n) == [n |-> n, lo |-> 0, hi |-> 9]
NameProviders(w, p) == Providers(w, NameDep(Pk(w, p).name))
SameName(w, p, q) == Pk(w, p).name = Pk(w, q).name
SameNevra(w, p, q) == /\ SameName(w, p, q)
                      /\ Pk(w, p).evr = Pk(w, q).evr
                      /\ Pk(w, p).arch = Pk(w, q).arch
NameGroup(w, p) == SelectSeq(NameProviders(w, p), LAMBDA q : SameName(w, p, q))

Score(w, p) == w.score[Pk(w, p).arch]
SameClass(a, b) == a \div 100 = b \div 100
(***************************************************************************)
(* pool_colormatch: packages whose architectures share a color; noarch and *)
(* architectures the pool does not know have every color.                  *)
(***************************************************************************)
ColorMatch(w, p, q) == \/ Pk(w, p).arch = Pk(w, q).arch
                       \/ w.color[Pk(w, p).arch] \cap w.color[Pk(w, q).arch] # {}

IsSrc(w, p) == Pk(w, p).arch = "src"
Disabled(w, p) == Pk(w, p).disabled
(***************************************************************************)
(* pool_installable: not a source package, not disabled, an architecture   *)
(* of the system.                                                          *)
(***************************************************************************)
Installable(w, p) == /\ ~IsSrc(w, p)
                     /\ ~Disabled(w, p)
                     /\ Score(w, p) # 0

Identical(w, p, q) == /\ SameNevra(w, p, q)
                      /\ Pk(w, p).vendor = Pk(w, q).vendor
                      /\ Pk(w, p).build = Pk(w, q).build

(***************************************************************************)
(* Does an Obsoletes of package p match package q?  By name unless the     *)
(* pool matches provides, and of a matching color if the pool asks for it. *)
(***************************************************************************)
ObsMatches(w, p, q, d) ==
  /\ q \in ProvSet(w, d)
  /\ Opt(w, "obsoleteusesprovides") \/ MatchNevr(w, q, d)
ObsColor(w, p, q) == Opt(w, "obsoleteusescolors") => ColorMatch(w, p, q)
Obsoletes(w, p, q) == /\ \E i \in DOMAIN Pk(w, p).obsoletes : ObsMatches(w, p, q, Pk(w, p).obsoletes[i])
                      /\ ObsColor(w, p, q)

(***************************************************************************)
(* FOR_JOB_SELECT: the packages a job selects; nothing for ALL and REPO,   *)
(* which their users treat apart.                                          *)
(***************************************************************************)
JobSelect(w, j) ==
  CASE j.sel = "solvable" -> <<j.what>>
    [] j.sel = "oneof"    -> j.what
    [] j.sel = "provides" -> Providers(w, j.what)
    [] j.sel = "name"     -> SelectSeq(Providers(w, j.what), LAMBDA p : MatchNevr(w, p, j.what))
    [] OTHER              -> <<>>

RepoSeq(w, r) == SelectSeq(IdSeq(w), LAMBDA p : Pk(w, p).repo = r)
SelectsAllInstalled(j) == j.sel = "all" \/ (j.sel = "repo" /\ j.what = "inst")

Lit2Pkg(l) == IF l < 0 THEN -l ELSE l
InSeq(x, s) == \E i \in DOMAIN s : s[i] = x
PushUnique(s, x) == IF InSeq(x, s) THEN s ELSE Append(s, x)
PushAllUnique(s, t) == FoldLeft(PushUnique, s, t)

-----------------------------------------------------------------------------
(***************************************************************************)
(* cplxdeps.c: rich dependencies (AND, OR, IF, UNLESS, ELSE) normalised to *)
(* blocks of literals.  A result is a record [r, b]: r = 0 no block can be *)
(* fulfilled, r = 1 everything fulfils it, r = -1 the blocks b, each a     *)
(* sequence of literals in increasing order.  In the conjunctive form a    *)
(* block is a disjunction, in the disjunctive form a conjunction.  The     *)
(* marker for a provider list that is not expanded yet is expanded here.   *)
(***************************************************************************)
(***************************************************************************)
(* pool_is_complex_dep: AND, IF, UNLESS, or an OR of one of them.          *)
(***************************************************************************)
RECURSIVE IsComplex(_)
IsComplex(d) ==
  IsRel(d) /\ \/ d.op \in {"and", "cond", "unless"}
              \/ d.op = "or" /\ (IsComplex(d.a) \/ IsComplex(d.b))

All == [r |-> 1, b |-> <<>>]
None == [r |-> 0, b |-> <<>>]
Blocks(b) == [r |-> -1, b |-> b]

(***************************************************************************)
(* invert_depblocks: negate every literal and reverse the block, so that   *)
(* it stays sorted; a conjunctive form becomes a disjunctive one.          *)
(***************************************************************************)
InvertBlocks(x) ==
  IF x.r # -1 THEN (IF x.r = 1 THEN None ELSE All)
  ELSE Blocks([i \in DOMAIN x.b |-> Reverse([k \in DOMAIN x.b[i] |-> -x.b[i][k]])])

(***************************************************************************)
(* distribute_depblocks: every block of x merged with every block of y;    *)
(* a block with a literal and its negation is dropped.                     *)
(***************************************************************************)
MergeBlocks(s, t) ==
  LET lits == {s[i] : i \in DOMAIN s} \cup {t[i] : i \in DOMAIN t}
  IN  SetToSortSeq(lits, <)
DistributeBug(x, y, dnf) ==   \* mutant: a contradicting block is kept
  Blocks([k \in 1..(Len(x.b) * Len(y.b)) |->
            MergeBlocks(x.b[((k - 1) \div Len(y.b)) + 1], y.b[((k - 1) % Len(y.b)) + 1])])
Distribute(x, y, dnf) ==
  LET merged == [k \in 1..(Len(x.b) * Len(y.b)) |->
                   MergeBlocks(x.b[((k - 1) \div Len(y.b)) + 1], y.b[((k - 1) % Len(y.b)) + 1])]
      kept == SelectSeq(merged, LAMBDA s : \A i \in DOMAIN s : ~InSeq(-s[i], s))
  IN  IF kept = <<>> THEN (IF dnf THEN None ELSE All) ELSE Blocks(kept)

(***************************************************************************)
(* normalize_dep_or and normalize_dep_and on two normalised arguments:     *)
(* one that decides the result, one that drops out, or both forms joined.  *)
(***************************************************************************)
OrBlocks(x, y, dnf) ==
  IF x.r = 1 \/ y.r = 1 THEN All
  ELSE IF x.r = 0 THEN y
  ELSE IF y.r = 0 THEN x
  ELSE IF dnf THEN Blocks(x.b \o y.b) ELSE Distribute(x, y, dnf)

AndBlocks(x, y, dnf) ==
  IF x.r = 0 \/ y.r = 0 THEN None
  ELSE IF x.r = 1 THEN y
  ELSE IF y.r = 1 THEN x
  ELSE IF dnf THEN Distribute(x, y, dnf) ELSE Blocks(x.b \o y.b)

(***************************************************************************)
(* The fallback of normalize_dep: the provider list, one block of it or    *)
(* one block per provider.                                                 *)
(***************************************************************************)
ListBlocks(q, dnf) == IF q = <<>> THEN None
                      ELSE Blocks(IF dnf THEN [i \in DOMAIN q |-> <<q[i]>>] ELSE <<q>>)
SimpleBlocks(w, d, dnf, byname) ==
  IF Providers(w, d) # <<>> /\ Providers(w, d)[1] = System THEN All
  ELSE ListBlocks(SelectSeq(Providers(w, d), LAMBDA p : byname => MatchNevr(w, p, d)), dnf)

(***************************************************************************)
(* normalize_dep, with the forms of IF, UNLESS and their ELSE.             *)
(***************************************************************************)
RECURSIVE Normalize(_, _, _, _)
Normalize(w, d, dnf, byname) ==
  LET Of(x)  == Normalize(w, x, dnf, byname)
      Not(x) == InvertBlocks(Normalize(w, x, ~dnf, byname))
      else   == IsRel(d.b) /\ d.b.op = "else"
  IN  IF ~IsComplex(d) THEN SimpleBlocks(w, d, dnf, byname)
      ELSE CASE d.op = "or"  -> OrBlocks(Of(d.a), Of(d.b), dnf)
             [] d.op = "and" -> AndBlocks(Of(d.a), Of(d.b), dnf)
             [] d.op = "cond" /\ ~else -> OrBlocks(Of(d.a), Not(d.b), dnf)
             [] d.op = "cond" -> AndBlocks(OrBlocks(Of(d.a), Not(d.b.a), dnf),
                                           OrBlocks(Of(d.b.a), Of(d.b.b), dnf), dnf)
             [] d.op = "unless" /\ ~else -> AndBlocks(Of(d.a), Not(d.b), dnf)
             [] d.op = "unless" -> OrBlocks(AndBlocks(Of(d.a), Not(d.b.a), dnf),
                                            AndBlocks(Of(d.b.a), Of(d.b.b), dnf), dnf)

NormalizeComplex(w, d, dnf, invert, byname) ==
  LET InvertIf(x) == IF invert THEN InvertBlocks(x) ELSE x IN InvertIf(Normalize(w, d, dnf, byname))

(***************************************************************************)
(* pool_add_pos_literals_complex_dep: the providers that occur positively; *)
(* the condition of IF and UNLESS counts negated, its ELSE part positively *)
(* as its condition then does too.                                         *)
(***************************************************************************)
RECURSIVE PosLiterals(_, _, _)
PosLiterals(w, d, neg) ==
  IF IsRel(d) /\ d.op \in {"and", "or"} THEN PosLiterals(w, d.a, neg) \o PosLiterals(w, d.b, neg)
  ELSE IF IsRel(d) /\ d.op \in {"cond", "unless"}
       THEN PosLiterals(w, d.a, neg)
            \o (IF IsRel(d.b) /\ d.b.op = "else"
                THEN PosLiterals(w, d.b.a, neg) \o PosLiterals(w, d.b.b, neg) \o PosLiterals(w, d.b.a, ~neg)
                ELSE PosLiterals(w, d.b, ~neg))
       ELSE IF neg THEN <<>> ELSE Providers(w, d)

(***************************************************************************)
(* The meaning of a dependency for a set I of installed packages: the      *)
(* reference the normal forms are held against.                            *)
(***************************************************************************)
RECURSIVE Holds(_, _, _)
Holds(w, d, I) ==
  IF ~IsComplex(d) THEN ProvSet(w, d) \cap (I \cup {System}) # {}
  ELSE CASE d.op = "or"  -> Holds(w, d.a, I) \/ Holds(w, d.b, I)
         [] d.op = "and" -> Holds(w, d.a, I) /\ Holds(w, d.b, I)
         [] d.op = "cond" -> IF IsRel(d.b) /\ d.b.op = "else"
                             THEN IF Holds(w, d.b.a, I) THEN Holds(w, d.a, I) ELSE Holds(w, d.b.b, I)
                             ELSE Holds(w, d.b, I) => Holds(w, d.a, I)
         [] d.op = "unless" -> IF IsRel(d.b) /\ d.b.op = "else"
                               THEN IF Holds(w, d.b.a, I) THEN Holds(w, d.b.b, I) ELSE Holds(w, d.a, I)
                               ELSE Holds(w, d.a, I) /\ ~Holds(w, d.b, I)

LitTrue(l, I) == IF l > 0 THEN l \in I ELSE -l \notin I
=============================================================================
