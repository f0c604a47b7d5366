----------------------------- MODULE MCProblems -----------------------------
(***************************************************************************)
(* Rule sets for Problems.  In JobWorlds package 2 is installed and may be *)
(* downgraded to 3 (a feature rule), 4 is installed and has no other       *)
(* version, 5 is not installed.                                            *)
(***************************************************************************)
EXTENDS Problems

MkRule(kind, lits, id, pkg) == [kind |-> kind, lits |-> lits, id |-> id, pkg |-> pkg]

Keep2 == [off |-> {"f2", "u2"}, on |-> {"u2"}]
Keep4 == [off |-> {"u4"}, on |-> {"u4"}]

\* The rules of a job and what jobtodisablelist turns off for it.
Jobs == { [rules |-> <<{3}>>,  off |-> {Keep2}],     \* install 3, another version of 2
          [rules |-> <<{-2}, {-4}>>, off |-> {Keep2, Keep4}],   \* erase 2 and 4
          [rules |-> <<{-4}>>, off |-> {Keep4}],     \* erase 4
          [rules |-> <<{5}>>,  off |-> {}],          \* install 5
          [rules |-> <<{4}>>,  off |-> {}] }         \* install 4, already there

Deps == {{-5, -2}, {-5, -4}, {-5, 3}, {-3, -4}, {-4, 2}}

\* Any two of them; or 3 and 5 cannot be installed at all.
DepSets == kSubset(2, Deps) \cup {{{-3}, {-5}}}

JobId(j) == -(2 * j - 1)      \* a job has two elements in the job queue

\* The world of dependencies ds and jobs js (in this order), numbered as in
\* solver_solve: package, feature, update, job rules.
MkWorld(ds, js, weak, essential) ==
  LET deps == SetToSeq(ds \cup {{-2, -3}})
      n    == Len(deps)
      num  == [f2 |-> n + 1, u2 |-> n + 2, u4 |-> n + 3]
      target(t) == [off |-> {num[x] : x \in t.off}, on |-> {num[x] : x \in t.on}]
      jobrules  == FlattenSeq([j \in DOMAIN js |->
                     [r \in DOMAIN js[j].rules |-> MkRule("job", js[j].rules[r], JobId(j), 0)]])
      rules == [i \in 1 .. n |-> MkRule("package", deps[i], i, 0)]
               \o << MkRule("feature", {2, 3}, n + 1, 2), MkRule("update", {2}, n + 2, 2),
                     MkRule("update", {4}, n + 3, 4) >> \o jobrules
  IN  [ rules |-> rules, updaterules |-> n + 2, broken |-> {}, uninstall |-> {},
        weak |-> {i \in DOMAIN rules : rules[i].id \in {JobId(j) : j \in weak}},
        essential |-> {JobId(j) : j \in essential},
        policy |-> [v \in {JobId(j) : j \in DOMAIN js} |->
                      {target(t) : t \in js[CHOOSE j \in DOMAIN js : JobId(j) = v].off}],
        installed |-> {2, 4}, multiversion |-> {} ]

Pairs == {js \in [1 .. 2 -> Jobs] : js[1] # js[2]}

\* Any two jobs on any two dependencies, essential or weak.
JobWorlds ==
  { MkWorld(ds, js, {}, es) : ds \in DepSets, js \in Pairs, es \in {{}, {1}, {1, 2}} }
  \cup { MkWorld(ds, js, {w}, {}) : ds \in DepSets, js \in Pairs, w \in {1, 2} }

(***************************************************************************)
(* Worlds for the other kinds of rules.                                    *)
(***************************************************************************)
Rest == [weak |-> {}, broken |-> {}, essential |-> {}, uninstall |-> {}, policy |-> (-1 :> {}),
         multiversion |-> {}]

\* Installing 5 needs 6, 6 conflicts with the installed 2, and 5 with 4,
\* which another job asks for: with allowuninstall 2 may go.
UninstallWorld ==
  [Rest EXCEPT !.uninstall = {4}, !.policy = (-1 :> {} @@ -3 :> {})]
  @@ [rules |-> << MkRule("package", {-5, 6}, 1, 0), MkRule("package", {-6, -2}, 2, 0),
                   MkRule("package", {-5, -4}, 3, 0), MkRule("update", {2}, 4, 2),
                   MkRule("job", {5}, -1, 0), MkRule("job", {4}, -3, 0) >>,
      updaterules |-> 4, installed |-> {2}]

\* 5 conflicts with the installed 3, whose downgrade 4 conflicts with the
\* installed 2.  The update rule of 2 is the first one.
FilterWorld ==
  Rest @@ [rules |-> << MkRule("package", {-4, -2}, 1, 0), MkRule("package", {-5, -3}, 2, 0),
                        MkRule("package", {-3, -4}, 3, 0), MkRule("feature", {3, 4}, 4, 3),
                        MkRule("update", {2}, 5, 2), MkRule("update", {3}, 6, 3),
                        MkRule("job", {5}, -1, 0) >>,
           updaterules |-> 5, installed |-> {2, 3}]

\* The same with 2 and 3 in the other order: now the rule is filtered.
FilterWorld2 ==
  Rest @@ [rules |-> << MkRule("package", {-4, -3}, 1, 0), MkRule("package", {-5, -2}, 2, 0),
                        MkRule("package", {-2, -4}, 3, 0), MkRule("feature", {2, 4}, 4, 2),
                        MkRule("update", {2}, 5, 2), MkRule("update", {3}, 6, 3),
                        MkRule("job", {5}, -1, 0) >>,
           updaterules |-> 5, installed |-> {2, 3}]

\* SOLVER_FORCEBEST: 3 is the best update of 2 and cannot be installed; 6
\* replaces the 4 that 2 needs.
BestWorld ==
  Rest @@ [rules |-> << MkRule("package", {-3}, 1, 0), MkRule("package", {-2, 4}, 2, 0),
                        MkRule("package", {-4, -6}, 3, 0), MkRule("update", {2, 3}, 4, 2),
                        MkRule("update", {4, 6}, 5, 4), MkRule("best", {3}, 6, 2),
                        MkRule("best", {6}, 7, 4) >>,
           updaterules |-> 4, installed |-> {2, 4}]

\* The best update 3 of 2 needs the missing 6 and conflicts with 5, which a
\* job asks for; another job erases the 4 that 2 needs.
FakeWorld ==
  [Rest EXCEPT !.policy = (-1 :> {} @@ -3 :> {})]
  @@ [rules |-> << MkRule("package", {-3, 6}, 1, 0), MkRule("package", {-6}, 2, 0),
                   MkRule("package", {-5, -3}, 3, 0), MkRule("package", {-2, 4}, 4, 0),
                   MkRule("update", {2, 3}, 5, 2), MkRule("job", {5}, -1, 0),
                   MkRule("job", {-4}, -3, 0), MkRule("best", {3}, 8, 2) >>,
      updaterules |-> 5, installed |-> {2}]

\* dup and blacklist rules against a job; the replacements of 2 are
\* multi-version packages.
PolicyWorld ==
  [Rest EXCEPT !.multiversion = {3, 4}]
  @@ [rules |-> << MkRule("package", {-5, 3, 4}, 1, 0), MkRule("package", {-5, -2}, 2, 0),
                   MkRule("feature", {2, 3, 4}, 3, 2), MkRule("update", {2}, 4, 2),
                   MkRule("job", {5}, -1, 0), MkRule("dup", {-3}, 6, 0),
                   MkRule("dup", {-4}, 6, 0), MkRule("black", {-6}, 8, 0) >>,
      updaterules |-> 4, installed |-> {2}]

\* Updating 2 to 3 needs 6, which is blacklisted.
BlackWorld ==
  Rest @@ [rules |-> << MkRule("package", {-3, 6}, 1, 0), MkRule("package", {-2, -3}, 2, 0),
                        MkRule("update", {2, 3}, 3, 2), MkRule("job", {3}, -1, 0),
                        MkRule("best", {3}, -1, 0), MkRule("black", {-6}, 6, 0) >>,
           updaterules |-> 3, installed |-> {2}]

\* The package rule of an orphan is weak, and broken by solver_breakorphans.
OrphanWorld ==
  [Rest EXCEPT !.weak = {1, 2}, !.broken = {1}]
  @@ [rules |-> << MkRule("package", {-2, 3}, 1, 0), MkRule("package", {-2, 4}, 2, 0),
                   MkRule("package", {-5, -2}, 3, 0), MkRule("update", {2}, 4, 2),
                   MkRule("job", {5}, -1, 0) >>,
      updaterules |-> 4, installed |-> {2}]

OtherWorlds ==
  {UninstallWorld, FilterWorld, FilterWorld2, BestWorld, FakeWorld, PolicyWorld, BlackWorld, OrphanWorld}

\* For termination: these and the worlds with a weak job that erases 2 and 4
\* or installs 3.
LiveWorlds ==
  OtherWorlds
  \cup { MkWorld(ds, js, {1}, {2}) : ds \in kSubset(2, Deps),
           js \in {jj \in Pairs : jj[1].off # {} /\ jj[2].off = {}} }

=============================================================================
