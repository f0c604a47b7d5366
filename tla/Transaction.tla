---------------------------- MODULE Transaction ----------------------------
(***************************************************************************)
(* transaction.c: from the decisions of a solver run to the elements of a  *)
(* transaction, and to the types an application is shown for them; and     *)
(* what order.c makes of it around the ordering of the elements (module    *)
(* Order): the dependency graph of the packages, and the packages put back *)
(* that are erased with the element that obsoletes them.                   *)
(*                                                                         *)
(* A pool is a record: what the packages are (name, evr, arch and vendor   *)
(* as numbers that compare as the strings do; kind "rpm", "pseudo" or      *)
(* "noinst" for a pseudo package that never shows up as installed), which  *)
(* are installed, which installed packages the Obsoletes of a new package  *)
(* match, and which packages provide libsolv-self-destruct-pkg().  The     *)
(* implicit obsoletes are those of the default pool flags: a new package   *)
(* obsoletes the installed packages of its name.                           *)
(*                                                                         *)
(* The pool also holds the dependencies: requires[p] is a sequence of      *)
(* records (the packages that provide the dependency, whether it follows   *)
(* the prereq marker, whether it is a script interpreter, whether the      *)
(* package ignores it once installed); the other dependency arrays are     *)
(* sequences of sets of providers.                                         *)
(***************************************************************************)
EXTENDS Order

CONSTANTS
  Inputs,      \* the pools and decision queues a transaction is created from
  Modes        \* the mode arguments an application uses: sets of flags

VARIABLES
  pool,            \* the packages, constant while the transaction lives
  decisionq,       \* the decisions: p > 0 is installed, p < 0 is not
  multiversionmap, \* the packages that are installed beside other versions
  transactsmap,    \* Transaction.transactsmap
  info,            \* Transaction.transaction_info, a sequence of pairs
  steps            \* Transaction.steps

transVars == <<pool, decisionq, multiversionmap, transactsmap, info, steps>>

ModeFlags == {"SHOW_ACTIVE", "SHOW_ALL", "SHOW_OBSOLETES", "SHOW_MULTIINSTALL",
              "CHANGE_IS_REINSTALL", "MERGE_VENDORCHANGES", "MERGE_ARCHCHANGES",
              "RPM_ONLY", "KEEP_PSEUDO", "OBSOLETE_IS_UPGRADE"}

ASSUME ModesAssumption == Modes \subseteq SUBSET ModeFlags

(* What a transaction is created from: numbers that compare, no installed  *)
(* patch or pattern, and decisions of which the solver makes one per       *)
(* package.                                                                *)
IsDecided(in) ==
  /\ in.pool.pkg \in Seq([name : Nat, evr : Nat, arch : Nat, vendor : Nat, build : Nat,
                          kind : {"rpm", "pseudo", "noinst"}])
  /\ in.pool.installed \subseteq DOMAIN in.pool.pkg
  /\ \A p \in in.pool.installed : in.pool.pkg[p].kind # "noinst"
  /\ in.dq \in Seq(Int) /\ IsInjective(in.dq)
  /\ \A i, j \in DOMAIN in.dq : in.dq[i] # -in.dq[j]

(* The dependencies of its packages, where they come from.                 *)
HasDependencies(pl) ==
  LET P == DOMAIN pl.pkg
      Deps == [P -> Seq(SUBSET P)]
  IN  /\ pl.requires \in [P -> Seq([prv : SUBSET P, pre : BOOLEAN, script : BOOLEAN,
                                    ignoreinst : BOOLEAN])]
      /\ pl.conflicts \in Deps /\ pl.recommends \in Deps /\ pl.suggests \in Deps
      /\ pl.triggers \in Deps /\ pl.orderwithrequires \in Deps
      /\ pl.repo \in [P -> Nat \ {0}] /\ pl.medianr \in [P -> Nat]

ASSUME InputsAssumption == \A in \in Inputs : IsDecided(in) /\ HasDependencies(in.pool)

(* The members of S in the order R, a set of pairs that orders them all.   *)
Sorted(S, R) ==
  LET place(x) == Cardinality({y \in S : y = x \/ <<y, x>> \in R})
  IN  [i \in 1 .. Cardinality(S) |-> CHOOSE x \in S : place(x) = i]

InIdOrder(S) == Sorted(S, {t \in S \X S : t[1] < t[2]})

Pkgs == DOMAIN pool.pkg
Installed == pool.installed
New == Pkgs \ Installed
Pkg(p) == pool.pkg[p]
SameName(p, q) == Pkg(p).name = Pkg(q).name
SameNevra(p, q) == /\ SameName(p, q)
                   /\ Pkg(p).evr = Pkg(q).evr
                   /\ Pkg(p).arch = Pkg(q).arch

(***************************************************************************)
(* solvable_identical: same nevra and vendor; the build time that tells    *)
(* two builds of the same nevra apart is the "build" of the package.       *)
(***************************************************************************)
Identical(p, q) == /\ SameNevra(p, q)
                   /\ Pkg(p).vendor = Pkg(q).vendor
                   /\ Pkg(p).build = Pkg(q).build

(***************************************************************************)
(* obsq_sortcmp: is oa a better partner of s than ob?                      *)
(***************************************************************************)
BetterPartner(s, oa, ob) ==
  LET a == Pkg(oa)
      b == Pkg(ob)
      IdOrArch == IF a.arch # b.arch /\ Pkg(s).arch \in {a.arch, b.arch}
                  THEN a.arch = Pkg(s).arch
                  ELSE oa < ob
  IN  IF a.name # b.name
      THEN IF Pkg(s).name \in {a.name, b.name} THEN a.name = Pkg(s).name
                                               ELSE a.name < b.name
      ELSE IF a.evr # b.evr THEN a.evr > b.evr ELSE IdOrArch

obsq_sortcmp(x, y) ==
  IF x[1] # y[1] THEN x[1] < y[1] ELSE BetterPartner(x[1], x[2], y[2])

(***************************************************************************)
(* transaction_installed: 0 for a package nothing obsoletes, the obsoleter *)
(* if there is one, minus the best of them if there are several.           *)
(***************************************************************************)
Obsoleters(p) == {q \in New : <<q, p>> \in Range(info)}

Best(p, S) == CHOOSE q \in S : \A r \in S \ {q} : BetterPartner(p, q, r)

transaction_installed(p) ==
  LET S == Obsoleters(p)
  IN  IF S = {} THEN 0
      ELSE IF Cardinality(S) = 1 THEN Best(p, S) ELSE -Best(p, S)

transaction_all_obs_pkgs(p) ==
  IF p \in Installed
  THEN LET S == Obsoleters(p) IN Sorted(S, {t \in S \X S : BetterPartner(p, t[1], t[2])})
  ELSE LET mine == Those(info, {t \in Range(info) : t[1] = p})
       IN  [i \in 1 .. Len(mine) |-> mine[i][2]]

transaction_obs_pkg(p) ==
  IF p \in Installed
  THEN LET q == transaction_installed(p) IN IF q < 0 THEN -q ELSE q
  ELSE LET mine == Those(info, {t \in Range(info) : t[1] = p})
       IN  IF mine = <<>> THEN 0 ELSE mine[1][2]

-----------------------------------------------------------------------------
(***************************************************************************)
(* transaction_create_decisionq and create_transaction_info.               *)
(***************************************************************************)
Decided(p) == \E i \in DOMAIN decisionq : decisionq[i] = p

Transacts == {p \in Installed : Decided(-p)}
             \cup {p \in New : Decided(p) /\ p \notin pool.selfdestruct}

ObsoletesPkg(p, q) ==
  IF p \in multiversionmap
  THEN SameNevra(p, q)
  ELSE SameName(p, q) \/ <<p, q>> \in pool.obsoletes

InfoPairs == {t \in (New \cap Transacts) \X (Installed \cap Transacts) :
                ObsoletesPkg(t[1], t[2])}

transaction_create_decisionq ==
  /\ transactsmap' = Transacts
  /\ info' = Sorted(InfoPairs, {t \in InfoPairs \X InfoPairs : obsq_sortcmp(t[1], t[2])})
  /\ steps' = InIdOrder(Installed \cap Transacts) \o Those(decisionq, New \cap Transacts)

transaction_installedresult ==
  {p \in Range(steps) : p \in New} \cup (Installed \ transactsmap)

-----------------------------------------------------------------------------
(***************************************************************************)
(* The types of the elements.                                              *)
(***************************************************************************)
Compared(p, q, reinst, up, down, change) ==
  IF Identical(p, q) THEN reinst
  ELSE CASE Pkg(p).evr > Pkg(q).evr -> up
         [] Pkg(p).evr < Pkg(q).evr -> down
         [] OTHER -> change

transaction_base_type(p) ==
  LET q == transaction_obs_pkg(p)
  IN  CASE p \notin transactsmap -> "IGNORE"
        [] p \in transactsmap \cap Installed ->
             IF q = 0 THEN "ERASE"
             ELSE IF SameName(p, q)
             THEN Compared(p, q, "REINSTALLED", "DOWNGRADED", "UPGRADED", "CHANGED")
             ELSE "OBSOLETED"
        [] p \in transactsmap \cap New /\ p \in multiversionmap ->
             IF q # 0 /\ SameNevra(p, q) THEN "MULTIREINSTALL" ELSE "MULTIINSTALL"
        [] p \in transactsmap \cap New /\ p \notin multiversionmap ->
             IF q = 0 THEN "INSTALL"
             ELSE IF SameName(p, q)
             THEN Compared(p, q, "REINSTALL", "UPGRADE", "DOWNGRADE", "CHANGE")
             ELSE "OBSOLETES"

is_pseudo_package(p) == Pkg(p).kind \in {"pseudo", "noinst"}
is_noinst_pseudo_package(p) == Pkg(p).kind = "noinst"

obsoleted_by_pseudos_onlyBug(p) == FALSE \* mutant: never an erase

obsoleted_by_pseudos_only(p) ==
  LET q == Range(transaction_all_obs_pkgs(p))
  IN  q # {} /\ \A r \in q : is_pseudo_package(r)

Final == {"ERASE", "INSTALL", "MULTIINSTALL"}

(* What RPM_ONLY makes of an element: the calls of the package manager.    *)
ManagerType(p, mode, type) ==
  IF "KEEP_PSEUDO" \notin mode /\ is_pseudo_package(p) THEN "IGNORE"
  ELSE IF type \in Final THEN type
  ELSE IF p \in Installed
       THEN IF ~is_pseudo_package(p) /\ obsoleted_by_pseudos_only(p)
            THEN "ERASE" ELSE "IGNORE"
  ELSE IF type = "MULTIREINSTALL" THEN "MULTIINSTALL" ELSE "INSTALL"

(* The renamings the mode flags ask for.                                   *)
Renamed(mode, type) ==
  LET t == IF "SHOW_MULTIINSTALL" \in mode THEN type
           ELSE CASE type = "MULTIINSTALL" -> "INSTALL"
                  [] type = "MULTIREINSTALL" -> "REINSTALL"
                  [] OTHER -> type
  IN  IF "CHANGE_IS_REINSTALL" \notin mode THEN t
      ELSE CASE t = "CHANGED" -> "REINSTALLED"
             [] t = "CHANGE" -> "REINSTALL"
             [] OTHER -> t

ShownSide(p, mode) == (p \in Installed) = ("SHOW_ACTIVE" \notin mode)

ShownType(p, mode, type) ==
  CASE type \in {"OBSOLETED", "OBSOLETES"} /\ "SHOW_OBSOLETES" \notin mode ->
         IF p \in Installed THEN "ERASE" ELSE "INSTALL"
    [] type \in {"OBSOLETED", "OBSOLETES"} /\ "SHOW_OBSOLETES" \in mode
       /\ "OBSOLETE_IS_UPGRADE" \in mode ->
         IF p \in Installed THEN "UPGRADED" ELSE "UPGRADE"
    [] OTHER -> type

(* An element of the other side that no shown element stands for.          *)
Unreferenced(p, type) ==
  CASE p \in Installed -> "ERASE"
    [] p \in New /\ type = "MULTIREINSTALL" -> "MULTIINSTALL"
    [] OTHER -> "INSTALL"

(* Is p shown together with one of its partners?                           *)
Referenced(p, mode) ==
  \E q \in Range(transaction_all_obs_pkgs(p)) :
     /\ "SHOW_OBSOLETES" \notin mode => SameName(p, q)
     /\ IF "SHOW_ALL" \in mode THEN p \in Range(transaction_all_obs_pkgs(q))
                               ELSE transaction_obs_pkg(q) = p

HiddenTypeBug(p, mode, type) == "IGNORE" \* mutant: always hidden

HiddenType(p, mode, type) ==
  LET q == transaction_obs_pkg(p)
      renamed == "SHOW_OBSOLETES" \notin mode /\ ~SameName(p, q)
  IN  IF \/ {"SHOW_ALL", "SHOW_OBSOLETES"} \subseteq mode
         \/ ~renamed /\ (transaction_obs_pkg(q) = p \/ Referenced(p, mode))
      THEN "IGNORE"
      ELSE Unreferenced(p, type)

transaction_type(p, mode) ==
  LET base == transaction_base_type(p)
      type == Renamed(mode, base)
  IN  IF \/ "KEEP_PSEUDO" \notin mode /\ is_noinst_pseudo_package(p)
         \/ base = "IGNORE"
      THEN "IGNORE"
      ELSE IF "RPM_ONLY" \in mode THEN ManagerType(p, mode, base)
      ELSE IF type \in Final THEN type
      ELSE IF ShownSide(p, mode) THEN ShownType(p, mode, type)
      ELSE HiddenType(p, mode, type)

-----------------------------------------------------------------------------
(***************************************************************************)
(* transaction_classify and transaction_classify_pkgs: besides the types,  *)
(* classes of the elements that change their architecture or their vendor. *)
(* A class is its type with the old and the new value, 0 when merged.      *)
(***************************************************************************)
Vendor(p) == IF Pkg(p).vendor = 0 THEN 1 ELSE Pkg(p).vendor

ChangeOf(p, q, mode, type) ==
  LET from == IF type = "ARCHCHANGE" THEN Pkg(p).arch ELSE Vendor(p)
      to == IF type = "ARCHCHANGE" THEN Pkg(q).arch ELSE Vendor(q)
      flag == IF type = "ARCHCHANGE" THEN "MERGE_ARCHCHANGES" ELSE "MERGE_VENDORCHANGES"
  IN  IF from = to THEN {}
      ELSE {IF flag \in mode THEN <<type, 0, 0>> ELSE <<type, from, to>>}

(* The change classes transaction_classify counts element p in.            *)
ChangesCounted(p, mode) ==
  LET q == transaction_obs_pkg(p)
  IN  IF p \notin Installed \/ q = 0 \/ transaction_type(p, mode) = "ERASE" THEN {}
      ELSE UNION {ChangeOf(p, q, mode, t) : t \in {"ARCHCHANGE", "VENDORCHANGE"}}

ChangeClasses(mode) == UNION {ChangesCounted(p, mode) : p \in Range(steps)}

transaction_classify(mode, class) ==
  Cardinality({p \in Range(steps) : class \in ChangesCounted(p, mode)})

(* The elements transaction_classify_pkgs lists for a change class.        *)
transaction_classify_pkgs(class) ==
  {p \in Range(steps) :
     LET q == transaction_obs_pkg(p)
         value(r) == IF class[1] = "ARCHCHANGE" THEN Pkg(r).arch ELSE Vendor(r)
     IN  /\ p \in Installed /\ q # 0
         /\ \/ class[2] = 0 /\ class[3] = 0
            \/ value(p) = class[2] /\ value(q) = class[3]}

-----------------------------------------------------------------------------
(***************************************************************************)
(* The specification: a transaction is created once from an input.         *)
(***************************************************************************)
NoTransaction == /\ transactsmap = {}
                 /\ info = <<>>
                 /\ steps = <<>>

TransStart(in) == /\ pool = in.pool
                  /\ decisionq = in.dq
                  /\ multiversionmap = in.multi
                  /\ NoTransaction

TransInit == \E in \in Inputs : TransStart(in)

CreateTransaction == /\ NoTransaction
                     /\ transaction_create_decisionq
                     /\ UNCHANGED <<pool, decisionq, multiversionmap>>

TransSpec == TransInit /\ [][CreateTransaction]_transVars

TransTypeOK ==
  /\ IsDecided([pool |-> pool, dq |-> decisionq, multi |-> multiversionmap])
  /\ transactsmap \subseteq Pkgs
  /\ info \in Seq(New \X Installed)
  /\ steps \in Seq(Pkgs)

-----------------------------------------------------------------------------
(***************************************************************************)
(* What a shown element stands for besides itself: its partners, all of    *)
(* them with SHOW_ALL, those of its name unless obsoletes are shown.       *)
(***************************************************************************)
StandsFor(q, mode) ==
  IF transaction_type(q, mode) \in Final \cup {"IGNORE"} THEN {}
  ELSE {p \in IF "SHOW_ALL" \in mode THEN Range(transaction_all_obs_pkgs(q))
                                     ELSE {transaction_obs_pkg(q)} :
          "SHOW_OBSOLETES" \in mode \/ SameName(p, q)}

(***************************************************************************)
(* The promise of transaction_type ("otherwise parts of the transaction    *)
(* might not be shown to the user"), as far as the code keeps it: in every *)
(* view an element that is ignored is the partner of an element that is    *)
(* shown, unless what obsoletes it is a pattern or a patch.                *)
(***************************************************************************)
ShownUnlessPseudo ==
  \A mode \in Modes : "RPM_ONLY" \in mode \/
    \A p \in Range(steps) :
      transaction_type(p, mode) = "IGNORE" =>
        \/ is_noinst_pseudo_package(p)
        \/ \E q \in Range(steps) : p \in StandsFor(q, mode)
        \/ p \in Installed /\ \E q \in Obsoleters(p) : is_noinst_pseudo_package(q)

(***************************************************************************)
(* transaction_obs_pkg and transaction_all_obs_pkgs agree: "the special    *)
(* 'other' solvable is always the first entry of the returned array", from *)
(* both sides of the relation, and the relation itself is symmetric.       *)
(***************************************************************************)
OtherIsFirst ==
  \A p \in transactsmap :
    LET all == transaction_all_obs_pkgs(p)
    IN  /\ transaction_obs_pkg(p) = IF all = <<>> THEN 0 ELSE all[1]
        /\ \A q \in Range(all) : p \in Range(transaction_all_obs_pkgs(q))

(***************************************************************************)
(* What the package manager has after the calls of the RPM_ONLY view: an   *)
(* install also removes the packages it obsoletes.                         *)
(***************************************************************************)
Manager(S, p) ==
  LET type == transaction_type(p, {"RPM_ONLY"})
  IN  CASE type = "ERASE" -> S \ {p}
        [] type \in {"INSTALL", "MULTIINSTALL"} ->
             (S \ Range(transaction_all_obs_pkgs(p))) \cup {p}
        [] OTHER -> S

RealPkgs(S) == {p \in S : ~is_pseudo_package(p)}

(***************************************************************************)
(* Feeding the elements of the RPM_ONLY view to the package manager, in    *)
(* the order of the steps, ends with the installed result of the           *)
(* transaction: nothing is forgotten because a pseudo package obsoletes    *)
(* it, and nothing is erased that was to stay.                             *)
(***************************************************************************)
ManagerReachesResult ==
  LET after[k \in 0 .. Len(steps)] ==
        IF k = 0 THEN Installed ELSE Manager(after[k - 1], steps[k])
  IN  ~NoTransaction =>
        RealPkgs(after[Len(steps)]) = RealPkgs(transaction_installedresult)

(***************************************************************************)
(* "The number of elements in the class": the count transaction_classify   *)
(* gives a class that is not merged is the number of packages              *)
(* transaction_classify_pkgs lists for it, but for those shown as erased:  *)
(* no element is counted in one class and listed in another.               *)
(***************************************************************************)
ClassCountsMatch ==
  \A mode \in Modes : \A class \in ChangeClasses(mode) :
    LET listed == {p \in transaction_classify_pkgs(class) :
                     transaction_type(p, mode) # "ERASE"}
    IN  class[2] # 0 => transaction_classify(mode, class) = Cardinality(listed)

(***************************************************************************)
(* What transaction.c tells the application is right: the tables have      *)
(* their types, every view shows every element, partners are listed first  *)
(* to last, and the classes count what they list.                          *)
(***************************************************************************)
ViewsRight == TransTypeOK /\ ShownUnlessPseudo /\ OtherIsFirst /\ ClassCountsMatch

-----------------------------------------------------------------------------
(***************************************************************************)
(* The order.                                                              *)
(***************************************************************************)
allTransVars == <<transVars, orderVars>>

havescripts(p) == \E r \in Range(pool.requires[p]) : r.pre /\ r.script
havescriptsLeft(p) == \E r \in Range(pool.requires[p]) : r.pre /\ r.script /\ ~r.ignoreinst

RequiresEdgesBug(p, r) ==                \* mutant: the wrong way round
  LET news == InIdOrder(r.prv \cap transactsmap \cap New)
  IN  IF p \in r.prv \/ p \in Installed THEN <<>>
      ELSE [j \in DOMAIN news |-> <<news[j], p, {TYPE_REQ}>>]

(***************************************************************************)
(* The addedge calls of addsolvableedges for one requirement r of p.  A    *)
(* package that gets erased waits for the new providers, and so do the old *)
(* providers; if there are none and nothing kept provides r either, the    *)
(* old providers wait for p, unless p and the provider are both replaced   *)
(* and p runs no script.                                                   *)
(***************************************************************************)
RequiresEdges(p, r) ==
  LET news == InIdOrder(r.prv \cap transactsmap \cap New)
      olds == InIdOrder(r.prv \cap transactsmap \cap Installed)
      provbyinst == r.prv \cap (Installed \ transactsmap) # {}
      req == IF r.pre THEN {TYPE_PREREQ} ELSE {TYPE_REQ}
      ui == IF r.pre THEN {TYPE_PREREQ_UI} ELSE {TYPE_REQ_UI}
      uu == IF r.pre THEN {TYPE_PREREQ_UU} ELSE {TYPE_REQ_UU}
      inter == FlattenSeq([i \in DOMAIN olds |->
                 LET other == Those(news, {q \in New : transaction_installed(olds[i]) # q})
                 IN  [j \in DOMAIN other |-> <<olds[i], other[j], ui>>]])
      reverse == Those(olds, {q \in Installed : \/ transaction_installed(q) = 0
                                                \/ transaction_installed(p) = 0
                                                \/ havescriptsLeft(p)})
  IN  IF p \in r.prv \/ (p \in Installed /\ r.pre /\ r.ignoreinst) THEN <<>>
      ELSE IF p \in New
      THEN [j \in DOMAIN news |-> <<p, news[j], req>>]
      ELSE IF provbyinst \/ news # <<>>
      THEN (IF provbyinst THEN <<>> ELSE inter) \o [j \in DOMAIN news |-> <<p, news[j], ui>>]
      ELSE [j \in DOMAIN reverse |-> <<reverse[j], p, uu>>]

(* An erased package is gone before a new package that conflicts comes.    *)
ConflictsEdges(p, S) ==
  LET q == InIdOrder({x \in (S \ {p}) \cap transactsmap : (x \in New) = (p \in Installed)})
  IN  [j \in DOMAIN q |-> IF p \in Installed THEN <<q[j], p, {TYPE_CON}>>
                                             ELSE <<p, q[j], {TYPE_CON}>>]

TriggersEdges(p, S) ==
  LET q == InIdOrder({x \in (S \ {p}) \cap transactsmap \cap New : ~SameName(x, p)})
  IN  [j \in DOMAIN q |-> <<q[j], p, {TYPE_CON}>>]

WeakEdges(p, S, type) ==
  LET q == IF p \in S THEN <<>> ELSE InIdOrder(S \cap transactsmap \cap New)
  IN  [j \in DOMAIN q |-> <<p, q[j], {type}>>]

OrderWithEdges(p, S) ==
  LET q == InIdOrder((S \ {p}) \cap transactsmap \cap New)
  IN  [j \in DOMAIN q |-> <<p, q[j], {TYPE_REQ}>>]

EachDep(deps, Edges(_)) == FlattenSeq([i \in DOMAIN deps |-> Edges(deps[i])])

addsolvableedges(p) ==
  EachDep(pool.requires[p], LAMBDA r : RequiresEdges(p, r))
  \o EachDep(pool.conflicts[p], LAMBDA S : ConflictsEdges(p, S))
  \o (IF p \in Installed
      THEN EachDep(pool.triggers[p], LAMBDA S : TriggersEdges(p, S))
      ELSE EachDep(pool.recommends[p], LAMBDA S : WeakEdges(p, S, TYPE_REC))
           \o EachDep(pool.suggests[p], LAMBDA S : WeakEdges(p, S, TYPE_SUG))
           \o EachDep(pool.orderwithrequires[p], LAMBDA S : OrderWithEdges(p, S)))

(***************************************************************************)
(* addedge: a package that is obsoleted is erased with the elements that   *)
(* obsolete it, so its edges become theirs.                                *)
(***************************************************************************)
Elts(p) == IF p \in Installed /\ transaction_installed(p) # 0
           THEN transaction_all_obs_pkgs(p) ELSE <<p>>

TESeq == Those(steps, {p \in Pkgs : p \in New \/ transaction_installed(p) = 0})

TeOf(p) == CHOOSE i \in DOMAIN TESeq : TESeq[i] = p

addedge(from, to, type) ==
  LET fs == Those(Elts(from), Range(TESeq))
      ts == Those(Elts(to), Range(TESeq))
  IN  FlattenSeq([i \in DOMAIN fs |->
        [j \in DOMAIN ts |-> <<TeOf(fs[i]), TeOf(ts[j]), type>>]])

TransactionGraph ==
  LET tes == TESeq
      calls == FlattenSeq([i \in DOMAIN steps |-> addsolvableedges(steps[i])])
  IN  [n |-> Len(tes),
       calls |-> FlattenSeq([k \in DOMAIN calls |->
                    addedge(calls[k][1], calls[k][2], calls[k][3])]),
       el |-> [uninst |-> {i \in DOMAIN tes : tes[i] \in Installed},
               scripts |-> {i \in DOMAIN tes : havescripts(tes[i])},
               repo |-> [i \in DOMAIN tes |-> pool.repo[tes[i]]],
               media |-> [i \in DOMAIN tes |-> IF tes[i] \in Installed THEN 1
                                               ELSE pool.medianr[tes[i]]]]]

transaction_add_obsoletedBug(seq) ==     \* mutant: after every obsoleter
  LET done[k \in 0 .. Len(seq)] ==
        IF k = 0 THEN <<>>
        ELSE done[k - 1] \o <<seq[k]>> \o
               IF seq[k] \in Installed THEN <<>> ELSE transaction_all_obs_pkgs(seq[k])
  IN  done[Len(seq)]

(***************************************************************************)
(* transaction_add_obsoleted: the packages an element obsoletes follow it, *)
(* each after the first of its obsoleters.                                 *)
(***************************************************************************)
WithObsoleted(done, p) ==
  done \o <<p>> \o
    IF p \in Installed THEN <<>>
    ELSE Those(transaction_all_obs_pkgs(p), transactsmap \ Range(done))

transaction_add_obsoleted(seq) ==
  LET done[k \in 0 .. Len(seq)] ==
        IF k = 0 THEN <<>> ELSE WithObsoleted(done[k - 1], seq[k])
  IN  done[Len(seq)]

FinishOrder ==
  /\ OrderDone
  /\ steps' = transaction_add_obsoleted([i \in DOMAIN order |-> TESeq[order[i]]])
  /\ UNCHANGED <<pool, decisionq, multiversionmap, transactsmap, info>>

-----------------------------------------------------------------------------
TransOrderInit == TransInit /\ OrderInit

TransOrderNext ==
  \/ CreateTransaction /\ UNCHANGED orderVars
  \/ StartOrder(TransactionGraph) /\ UNCHANGED transVars
  \/ /\ \/ EndOfEdges \/ AlreadyFinished \/ VisitEdges \/ BreakCycle
        \/ CyclesBroken \/ AddCycleEdges \/ InvertEdges
        \/ TakeUninstall \/ TakeSameRepo \/ TakeNextMedium
     /\ UNCHANGED transVars
  \/ FinishOrder

TransOrderSpec == TransOrderInit /\ [][TransOrderNext]_allTransVars

-----------------------------------------------------------------------------
Ordered == opc = "done"

(***************************************************************************)
(* What transaction.c tells the application (ViewsRight) is right whenever *)
(* it can ask: before transaction_order runs, and with the ordered steps.  *)
(***************************************************************************)
ViewsStayRight == opc \in {"idle", "done"} => ViewsRight

(***************************************************************************)
(* The last assertion of transaction_order, and more: the ordered steps    *)
(* are the steps of the transaction, each once, and a package that is      *)
(* obsoleted is erased after one of its obsoleters was installed and       *)
(* before any element that is not obsoleted comes.                         *)
(***************************************************************************)
StepsArePreserved ==
  Ordered =>
    /\ IsInjective(steps)
    /\ Range(steps) = transactsmap
    /\ \A i \in DOMAIN steps : steps[i] \in Installed /\ Obsoleters(steps[i]) # {} =>
         \E j \in 1 .. i - 1 :
            /\ steps[j] \in Obsoleters(steps[i])
            /\ \A k \in j + 1 .. i : Obsoleters(steps[k]) # {} /\ steps[k] \in Installed

(* The packages that are there while step i is taken (transaction_check_order). *)
Present(i) ==
  (Installed \ {steps[j] : j \in 1 .. i - 1}) \cup ({steps[j] : j \in 1 .. i} \cap New)

(***************************************************************************)
(* If no cycle had to be broken, a new package is never installed before   *)
(* what it requires is there: a requirement the result of the transaction  *)
(* meets is met at the moment the package is installed; and the new        *)
(* packages that it recommends, suggests or wants to be ordered with came  *)
(* before it, unless it provides the weak dependency itself.               *)
(***************************************************************************)
InstallsFindDependencies ==
  Ordered /\ cycles = <<>> =>
    \A i \in DOMAIN steps : steps[i] \in New =>
      /\ \A r \in Range(pool.requires[steps[i]]) :
           r.prv \cap transaction_installedresult # {} => r.prv \cap Present(i) # {}
      /\ \A S \in Range(pool.recommends[steps[i]]) \cup Range(pool.suggests[steps[i]])
                  \cup Range(pool.orderwithrequires[steps[i]]) :
           steps[i] \in S \/ S \cap New \cap transactsmap \subseteq Present(i)

(***************************************************************************)
(* If no cycle had to be broken, the scripts of a package that is erased   *)
(* still find what they need, or the new package that provides it: unless  *)
(* the provider is erased by the very element that erases the package.     *)
(***************************************************************************)
ErasesFindPrerequisites ==
  Ordered /\ cycles = <<>> =>
    \A i \in DOMAIN steps : steps[i] \in Installed /\ havescriptsLeft(steps[i]) =>
      \A r \in Range(pool.requires[steps[i]]) :
        \/ ~r.pre \/ r.ignoreinst \/ r.prv = {}
        \/ r.prv \cap (Installed \cup transactsmap) = {}
        \/ r.prv \cap Present(i) # {}
        \/ \E q \in r.prv \cap Installed : Obsoleters(q) \cap Obsoleters(steps[i]) # {}

(***************************************************************************)
(* If no cycle had to be broken, a package that is erased is gone when a   *)
(* new one it conflicts with, or whose installation would run one of its   *)
(* triggers, is installed; unless the new one itself obsoletes it.         *)
(***************************************************************************)
GoesFirst(old, new) ==
  \/ \E S \in Range(pool.conflicts[old]) : new \in S
  \/ \E S \in Range(pool.conflicts[new]) : old \in S
  \/ \E S \in Range(pool.triggers[old]) : new \in S /\ ~SameName(old, new)

ConflictsAreGone ==
  Ordered /\ cycles = <<>> =>
    \A i \in DOMAIN steps : steps[i] \in New =>
      \A q \in Present(i) \cap Installed \cap transactsmap :
        GoesFirst(q, steps[i]) => steps[i] \in Obsoleters(q)

(***************************************************************************)
(* The dependencies of the packages hold along the way: what an install or *)
(* an erasure needs is there and what must be gone is gone.                *)
(***************************************************************************)
DependenciesMet == InstallsFindDependencies /\ ErasesFindPrerequisites /\ ConflictsAreGone
=============================================================================
