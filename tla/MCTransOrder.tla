---------------------------- MODULE MCTransOrder ----------------------------
(***************************************************************************)
(* Two families of transactions.  Packages 1 and 2 are installed, packages *)
(* 3 and 4 are new.                                                        *)
(*                                                                         *)
(* The first family is for the views: three names, two versions, two       *)
(* architectures and two vendors (a missing vendor, 0, counts as vendor    *)
(* 1).  Package 1 and its update 3 are fixed; 2 and 4 take every shape.    *)
(* These packages have no dependencies and the transaction is not ordered. *)
(***************************************************************************)
EXTENDS Transaction

ViewPackage(name, evr, arch, kind) ==
  [name |-> name, evr |-> evr, arch |-> arch, vendor |-> 2 * (arch - 1),
   build |-> 1, kind |-> kind]

RpmPackages(names) ==
  {ViewPackage(n, e, a, "rpm") : n \in names, e \in {1, 2}, a \in {1, 2}}

\* The name of a pseudo package tells it from every real package.
PseudoPackages == {ViewPackage(3, 1, 1, k) : k \in {"pseudo", "noinst"}}

ViewPool(b, d, obs, sd) ==
  [pkg |-> <<ViewPackage(1, 1, 1, "rpm"), b, ViewPackage(1, 2, 1, "rpm"), d>>,
   installed |-> {1, 2}, obsoletes |-> obs, selfdestruct |-> sd]

\* Everything changes, or a package stays, or the update is given up, in
\* two orders of the decisions.
ViewDecisions == {<<-1, -2, 3, 4>>, <<4, 3, -2, -1>>, <<-1, 2, 3, 4>>, <<4, -2, -1>>}

\* The pair dm gives package 4 and the multi-version packages.
ViewStart ==
  \E b \in RpmPackages({1, 2}), dm \in (RpmPackages({1, 2, 3}) \X {{}, {4}})
                                           \cup (PseudoPackages \X {{}}),
     obs \in SUBSET ({3, 4} \X {1, 2}), sd \in {{}, {3}}, dq \in ViewDecisions :
    TransStart([pool |-> ViewPool(b, dm[1], obs, sd), dq |-> dq, multi |-> dm[2]])

ViewModes == SUBSET {"SHOW_ACTIVE", "SHOW_ALL", "SHOW_OBSOLETES"}
MCModes == ViewModes
           \cup {m \cup {"SHOW_MULTIINSTALL", "OBSOLETE_IS_UPGRADE", "CHANGE_IS_REINSTALL"} :
                   m \in ViewModes}

(***************************************************************************)
(* The second family is for the order.  The shapes differ in what replaces *)
(* 1 and 2: 3 and 4 update them; 3 updates 1 and 2 is erased; 3 replaces   *)
(* both; both 3 and 4 replace 2.                                           *)
(***************************************************************************)
Package(name) ==
  [name |-> name, evr |-> 1, arch |-> 1, vendor |-> 1, build |-> 1, kind |-> "rpm"]

Shapes == {[names |-> <<1, 2, 1, 2>>, obs |-> {}],
           [names |-> <<1, 2, 1, 3>>, obs |-> {}],
           [names |-> <<1, 2, 1, 3>>, obs |-> {<<3, 2>>}],
           [names |-> <<1, 2, 1, 3>>, obs |-> {<<3, 2>>, <<4, 2>>}]}

Req(prv, pre) == [prv |-> prv, pre |-> pre, script |-> pre, ignoreinst |-> FALSE]

Lists(S) == {<<>>} \cup {<<x>> : x \in S}

\* What the packages require.
Requires1 == Lists({Req(s, pre) : s \in {{1, 3}, {2}, {2, 4}, {4}}, pre \in BOOLEAN})
Requires2 == Lists({Req({1, 3}, TRUE), Req({1, 3}, FALSE), Req({4}, TRUE)})
Requires3 == Lists({Req(s, FALSE) : s \in {{1, 3}, {2, 4}, {3}, {4}}})
Requires4 == Lists({Req({1, 3}, FALSE), Req({3}, FALSE)})

\* One more dependency: its kind, the package that has it and its providers.
Deps == {<<"none", 1, {}>>, <<"con", 1, {4}>>, <<"con", 4, {2}>>,
         <<"tri", 1, {3}>>, <<"tri", 1, {4}>>, <<"tri", 2, {4}>>,
         <<"rec", 3, {4}>>, <<"rec", 3, {1, 4}>>, <<"rec", 4, {3, 4}>>,
         <<"sug", 3, {4}>>, <<"sug", 4, {3}>>, <<"ord", 3, {4}>>, <<"ord", 4, {3, 4}>>}

MCPool(shape, req, dep) ==
  LET deps(kind) == [p \in 1 .. 4 |-> IF dep[1] = kind /\ dep[2] = p THEN <<dep[3]>> ELSE <<>>]
  IN  [pkg |-> [p \in 1 .. 4 |-> Package(shape.names[p])],
       installed |-> {1, 2}, obsoletes |-> shape.obs, selfdestruct |-> {},
       requires |-> req, conflicts |-> deps("con"), recommends |-> deps("rec"),
       suggests |-> deps("sug"), triggers |-> deps("tri"), orderwithrequires |-> deps("ord"),
       repo |-> <<1, 1, 2, 2>>, medianr |-> <<1, 1, 1, 1>>]

OrderInputs ==
  {[pool |-> MCPool(shape, <<r1, r2, r3, r4>>, dep), dq |-> <<3, 4, -1, -2>>, multi |-> {}] :
     shape \in Shapes, r1 \in Requires1, r2 \in Requires2, r3 \in Requires3,
     r4 \in Requires4, dep \in Deps}

-----------------------------------------------------------------------------
IsOrdered == "requires" \in DOMAIN pool
MCNext ==
  \/ IsOrdered /\ TransOrderNext
  \/ ~IsOrdered /\ CreateTransaction /\ UNCHANGED orderVars
\* The first family has no dependencies, its members are no Inputs.
MCInit == (ViewStart \/ TransInit) /\ OrderInit
MCSpec == MCInit /\ [][MCNext]_allTransVars
=============================================================================
