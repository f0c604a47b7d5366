------------------------------- MODULE MCSat --------------------------------
(***************************************************************************)
(* Small rule sets for Sat.  A rule is written as the sequence of its      *)
(* literals, p first, as solver_addrule stores it: the first two are the   *)
(* watches.                                                                *)
(***************************************************************************)
EXTENDS Sat, TLC

ToRule(s) == [lits |-> {s[i] : i \in DOMAIN s},
              w1 |-> IF Len(s) > 0 THEN s[1] ELSE 0,
              w2 |-> IF Len(s) > 1 THEN s[2] ELSE 0]
ToRules(ss) == [i \in DOMAIN ss |-> ToRule(ss[i])]

\* pkg: the package rules; jobs: the rules of the jobs, each a job of its own.
Plain(pkgrules, jobs) ==
  [rules        |-> ToRules(pkgrules \o jobs),
   pkgend       |-> Len(pkgrules) + 1,
   weak         |-> {},
   problem      |-> [i \in 1 .. Len(pkgrules \o jobs) |->
                       IF i <= Len(pkgrules) THEN i ELSE Len(pkgrules) - i],
   policy       |-> <<>>,
   recommends   |-> {},
   recruleq     |-> {},
   choice       |-> <<>>,
   uninstall    |-> [update |-> {}, feature |-> {}, orphan |-> {}, best |-> {}],
   installed    |-> <<>>,
   extras       |-> {},
   disabled     |-> {},
   disablerules |-> TRUE]

\* The job rules js (positions among the rules) belong to one job v.
OneJob(I, js, v) == [I EXCEPT !.problem = [i \in DOMAIN @ |-> IF i \in js THEN v ELSE @[i]]]

\* Two jobs with alternatives that exclude each other: decisions, conflicts
\* and learnt rules at several levels, branches to go back to.
Learning ==
  Plain(<< <<-2, 3, 4>>, <<-5, 3, 6>>, <<-3, -4>>, <<-3, -6>>, <<-4, -6>> >>,
        << <<2, 5>>, <<5, 6>> >>)

\* A learnt rule with literals of two lower levels: 2 and 3 and 4 cannot be
\* installed together, but that shows only through 5, 6 and 7.
Backjump ==
  [Plain(<< <<-2, 5, -3>>, <<-4, 6, -2>>, <<-5, -6, 7>>, <<-7, -4>> >>,
         << <<3, 5>> >>)
     EXCEPT !.installed = 2 :> {2} @@ 3 :> {3}, !.extras = {4}]

\* No choice of the first job goes with the second one: the problem is found
\* through learnt rules.  The third job is fine.
UnsolvablePkgs ==
  << <<-2, 3, 4>>, <<-5, 6, 7>>, <<-3, -6>>, <<-3, -7>>, <<-4, -6>>, <<-4, -7>> >>
Unsolvable == OneJob(Plain(UnsolvablePkgs, << <<2>>, <<5>>, <<3, 7>> >>), {7, 9}, -1)

\* The jobs exclude each other, and 3 is recommended.
Recommended ==
  [Plain(<< <<-3, -5>>, <<-3, -6>>, <<-4, -5>>, <<-4, -6>> >>, << <<3, 4>>, <<5, 6>> >>)
     EXCEPT !.extras = {3}]

\* Three packages are recommended; 5 and 6 leave something to decide and
\* exclude each other.
Extras ==
  [Plain(<< <<-5, 3, 4>>, <<-6, 7, 4>>, <<-5, -6>>, <<-7, -5, 3>> >>, << <<2, 3>> >>)
     EXCEPT !.extras = {5, 6, 7}]

\* Conflicting assertions: with each other (7, 8), with the system solvable
\* (9) and with a package rule (10).
Conflicts ==
  Plain(<< <<-2, 3>>, <<-4>> >>, << <<2, 4>>, <<5>>, <<-5>>, <<-1>>, <<4>> >>)

Hopeless == {[I EXCEPT !.disablerules = FALSE] : I \in {Unsolvable, Conflicts}}

\* 2, 3 and 4 have one name and an inferior architecture (rules 5..7).  The
\* weak job asks for 2 or 3, which turns the three rules off; it fails, they
\* come back and contradict the learnt rule that 4 is needed.
DropLearnt ==
  [Plain(<< <<-2, -4>>, <<-3, -4>>, <<-2, -3>>, <<-5, 4>> >>,
         << <<-2>>, <<-3>>, <<-4>>, <<4, 5>>, <<2, 3>> >>)
     EXCEPT !.problem = <<1, 2, 3, 4, 5, 5, 5, -1, -3>>,
            !.weak = {9}, !.policy = -3 :> {5, 6, 7}, !.disabled = {5, 6, 7}]

\* As before, but the rule that comes back contradicts the job the learnt
\* rule was learnt from.
StaleLearnt ==
  [Plain(<< <<-3, 5>>, <<-5, 6, -2>>, <<-3, -6>>, <<-4, 3>> >>,
         << <<-2>>, <<2>>, <<3, 4>> >>)
     EXCEPT !.problem = <<1, 2, 3, 4, 5, -1, -3>>,
            !.weak = {7}, !.policy = -3 :> {5}, !.disabled = {5}]

\* Weak rules: choice rules (8, 9) that prefer 3 to 4 and 5 to 6, a weak
\* job (6) and a recommends rule (7).
Weak ==
  [Plain(<< <<-2, 3, 4>>, <<-2, 5, 6>>, <<-3, -6>>, <<-7, -3>> >>,
         << <<2>>, <<7, 6>>, <<-2, 7>>, <<-2, 3>>, <<-2, 5>> >>)
     EXCEPT !.problem = <<1, 2, 3, 4, -1, -3, 7, 8, 9>>,
            !.weak = {6, 7, 8, 9}, !.recommends = {7},
            !.choice = 8 :> 1 @@ 9 :> 2]

\* A weak assertion (a weak job to remove 2) that cannot be kept, and a weak
\* package rule (strongrecommends) in the proof.
WeakAssertions2 ==
  [Plain(<< <<-2, 3, 4>>, <<-3, 5>>, <<-4, -5>> >>, << <<2>>, <<-2>>, <<-5>>, <<3>> >>)
     EXCEPT !.weak = {2, 5, 7}, !.recruleq = {2}]

\* Installed packages 2 and 3 that may be erased (allowuninstall): rule 5 is
\* the update rule of 2, rule 6 the one of 3.
Uninstall(best, orphan) ==
  [Plain(<< <<-2, -4>>, <<-3, 5, 6>>, <<-5, -4>>, <<-6, -4>> >>,
         << <<2>>, <<3>>, <<4>> >>)
     EXCEPT !.problem = <<1, 2, 3, 4, 5, 6, -1>>,
            !.uninstall = [update |-> {5}, feature |-> {6}, orphan |-> orphan, best |-> best],
            !.installed = 2 :> {2, 7} @@ 3 :> {3}, !.extras = {7}]

\* The choice rule 6 prefers 3 to 4, but 4 may be installed anyway.
Unneeded ==
  [Plain(<< <<-2, 3, 4>>, <<-2, 5, 6>>, <<-6, 4>> >>, << <<2>>, <<4, 7>>, <<-2, 3>>, <<-2, 5>> >>)
     EXCEPT !.problem = <<1, 2, 3, -1, -3, 6, 7>>,
            !.weak = {6, 7}, !.choice = 6 :> 1 @@ 7 :> 2]

\* The installed package 2 is broken (rule 1) and may be erased; 3 may not.
Broken ==
  [Plain(<< <<-2>>, <<-3>>, <<-4, 3>> >>, << <<2>>, <<3>>, <<4, 5>> >>)
     EXCEPT !.problem = <<1, 2, 3, 4, 5, -1>>,
            !.uninstall = [update |-> {4}, feature |-> {}, orphan |-> {}, best |-> {}],
            !.installed = 2 :> {2} @@ 3 :> {3}]

\* Every choice of three rules of this catalogue, with three job lists.
Catalogue == << <<-2, 3, 4>>, <<-2, 4, 5>>, <<-3, 4, 5>>, <<-3, 5>>, <<-2, -3>>,
                <<-3, -4>>, <<-4, -5>>, <<-3, -5>>, <<-5>> >>
JobLists == { << <<2>>, <<3, 4>> >>, << <<2, 3>>, <<4, 5>> >>, << <<2, 5>>, <<-4>> >> }
Pick(S) == LET in(i) == i \in S IN
           LET ks == SelectSeq([i \in 1 .. Len(Catalogue) |-> i], in)
           IN  [n \in 1 .. Len(ks) |-> Catalogue[ks[n]]]
Family == {[Plain(Pick(S), jobs) EXCEPT !.extras = {5}] :
             S \in kSubset(3, 1 .. Len(Catalogue)), jobs \in JobLists}

MCInstances ==
  Family \cup
  {Learning, Backjump, Unsolvable, Recommended, Extras, Conflicts, DropLearnt, StaleLearnt,
   Weak, WeakAssertions2, Unneeded, Broken, Uninstall({}, {}), Uninstall({<<-1, 5>>}, {6})} \cup Hopeless
=============================================================================
