------------------------------ MODULE Literals ------------------------------
(***************************************************************************)
(* Packages, literals and rules, as src/src/rules.c builds them.  A        *)
(* package is its Id in the pool; the literal p stands for "p is           *)
(* installed" and -p for "p is not installed".  A rule is the set of its   *)
(* literals together with the two literals it currently watches, exactly   *)
(* the fields w1 and w2 of struct Rule: an assertion has w2 = 0, and the   *)
(* placeholder of an update or feature rule has no literal and w1 = 0.     *)
(***************************************************************************)
EXTENDS Integers, Sequences

CONSTANT NSolvables     \* pool->nsolvables - 1: the package Ids are 1..NSolvables

ASSUME NSolvablesAssumption == NSolvables \in Nat /\ NSolvables >= 1

SYSTEMSOLVABLE == 1     \* the pseudo package that is always installed

Solvable == 1..NSolvables
Lit      == Solvable \cup {-p : p \in Solvable}

Pkg(l) == IF l > 0 THEN l ELSE -l

Rule == [lits : SUBSET Lit, w1 : Lit \cup {0}, w2 : Lit \cup {0}]

IsAssertion(r) == r.w1 # 0 /\ r.w2 = 0

(***************************************************************************)
(* The meaning of rules: M is the set of installed packages.               *)
(***************************************************************************)
LitHolds(M, l)  == IF l > 0 THEN l \in M ELSE -l \notin M
Holds(M, ls)    == \E l \in ls : LitHolds(M, l)

\* The states of the machine a solution may choose from: the system
\* solvable is always installed.
Installations == {M \in SUBSET Solvable : SYSTEMSOLVABLE \in M}

\* Every installation that satisfies all the rules R of rs satisfies ls.
Entails(rs, R, ls) ==
  \A M \in Installations : (\A i \in R : Holds(M, rs[i].lits)) => Holds(M, ls)

Unsatisfiable(rs, R) ==
  \A M \in Installations : \E i \in R : ~Holds(M, rs[i].lits)
=============================================================================
