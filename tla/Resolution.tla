----------------------------- MODULE Resolution -----------------------------
(***************************************************************************)
(* What solver_run_sat promises, without decisions, watches or learning.   *)
(* It starts with a set of rules and gives some of them up until the rest  *)
(* has a solution.  A rule is given up only because it takes part in a     *)
(* core: a set of rules that are still enabled and have no solution.  The  *)
(* fields of an instance are described in module Sat.                      *)
(***************************************************************************)
EXTENDS Literals

CONSTANT Instances

VARIABLES inst,      \* the rule set
          given,     \* the rules given up (or disabled from the start)
          reported,  \* the problems told to the user, as sets of problem ids
          result,    \* "solving", "solved" or "failed"
          solution   \* the installed packages, once solved

vars == <<inst, given, reported, result, solution>>

Base == 1 .. Len(inst.rules)

Core(C) == C \subseteq Base \ given /\ Unsatisfiable(inst.rules, C)
Ids(C)  == {inst.problem[i] : i \in C}
Elems(C) == Ids({i \in C : i >= inst.pkgend})
RulesOf(elems) == {i \in Base : inst.problem[i] \in elems}

Init ==
  /\ inst \in Instances
  /\ given = inst.disabled
  /\ reported = <<>> /\ result = "solving" /\ solution = {}

\* A weak rule of a core is given up, with the rules of its problem and
\* other weak ones; the policy rules its job had turned off may come back.
GiveUpWeak ==
  /\ given' # given /\ UNCHANGED <<inst, reported, result, solution>>
  /\ \E C \in SUBSET (Base \ given) :
       /\ C \cap inst.weak # {} /\ Core(C)
       /\ (given' \ given) \cap C \cap inst.weak # {}
       /\ given' \ given \subseteq RulesOf(Ids(C \cap inst.weak)) \cup inst.weak
       /\ given \ given' \subseteq UNION {inst.policy[v] : v \in Ids(C) \cap DOMAIN inst.policy}

\* A core without weak rules: an update rule that may be given up is.
Uninstall ==
  /\ given' # given /\ UNCHANGED <<inst, reported, result, solution>>
  /\ given \subseteq given'
  /\ \E C \in SUBSET (Base \ given) :
       /\ Core(C) /\ C \cap inst.weak = {}
       /\ \E v \in Elems(C) \cap (inst.uninstall.update \cup inst.uninstall.feature) :
            given' = given \cup RulesOf({v})

\* A core without weak rules is told to the user, and all of it that is not
\* a package rule is given up.
Report ==
  /\ reported' # reported /\ inst.disablerules /\ UNCHANGED <<inst, result, solution>>
  /\ \E C \in SUBSET (Base \ given) :
       /\ Core(C) /\ C \cap inst.weak = {} /\ Elems(C) # {}
       /\ reported' = Append(reported, Elems(C))
       /\ given' = given \cup RulesOf(Elems(C))

\* The same without disablerules: the solver stops.
Fail ==
  /\ reported' # reported /\ ~inst.disablerules /\ UNCHANGED <<inst, given, solution>>
  /\ result' = "failed"
  /\ \E C \in SUBSET (Base \ given) :
       /\ Core(C) /\ C \cap inst.weak = {}
       /\ reported' = Append(reported, Elems(C))

DropChoice ==
  /\ given' # given /\ UNCHANGED <<inst, reported, result, solution>>
  /\ given \subseteq given' /\ given' \ given \subseteq DOMAIN inst.choice

Solve ==
  /\ result = "solving" /\ result' = "solved" /\ UNCHANGED <<inst, given, reported>>
  /\ solution' \in Installations
  /\ \A i \in Base \ given : inst.rules[i].w1 # 0 => Holds(solution', inst.rules[i].lits)

Next == GiveUpWeak \/ Uninstall \/ Report \/ Fail \/ DropChoice \/ Solve

Spec == Init /\ [][Next]_vars
=============================================================================
