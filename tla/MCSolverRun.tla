---------------------------- MODULE MCSolverRun -----------------------------
(* Small package worlds for SolverRun. *)
EXTENDS SolverRun, MCSat

Zero(S) == [p \in S |-> 0]

\* What solver_run_sat needs to know besides the rules of I, with jobs js,
\* installed packages upd (package -> its update rule) and nothing special.
World(I, js, upd) ==
  [jobs |-> js, orupdate |-> {},
   updaterule |-> upd, featurerule |-> Zero(DOMAIN upd),
   installed |-> [p \in DOMAIN upd |-> {p} \cup IF upd[p] = 0 THEN {} ELSE I.rules[upd[p]].lits],
   updateall |-> FALSE, updatemap |-> {}, noupdate |-> {}, cleandeps |-> {},
   special |-> <<>>, targets |-> <<>>, recs |-> <<>>, supps |-> <<>>, blocked |-> {},
   favor |-> Zero(Solvable), sticky |-> {}, orphaned |-> <<>>, droporphaned |-> {},
   broken |-> {}, doweak |-> TRUE, focus |-> "none", callback |-> FALSE] @@ I

NoneInstalled(I, js) == World(I, js, <<>>)

\* Jobs only: learning, branches, minimization or a callback for each solution.
JobWorlds ==
  UNION {{NoneInstalled(Learning, {6, 7}), [NoneInstalled(Learning, {6, 7}) EXCEPT !.callback = TRUE]},
         {NoneInstalled(Unsolvable, {7, 8, 9}), NoneInstalled(Conflicts, 3 .. 7)},
         {NoneInstalled(Weak, {5, 6}), NoneInstalled(Unneeded, {4, 5})}}

\* 2 and 4 are installed, 3 and 5 are their updates; 3 needs 5 or 7, the job
\* wants 6, which needs a new package.
UpdateRules ==
  Plain(<< <<-2, -3>>, <<-4, -5>>, <<-3, 5, 7>>, <<-2, 4>>, <<-6, 3, 5>> >>,
        << <<2, 3>>, <<4, 5>>, <<6, 7>> >>)
Update == World(UpdateRules, {8}, 2 :> 6 @@ 4 :> 7)
UpdateWorlds ==
  {Update, [Update EXCEPT !.updateall = TRUE], [Update EXCEPT !.updatemap = {4}],
   [Update EXCEPT !.updatemap = {2}, !.targets = 2 :> {3}, !.orupdate = {8}],
   [Update EXCEPT !.noupdate = {2}, !.updatemap = {2, 4}],
   [Update EXCEPT !.cleandeps = {4}], [Update EXCEPT !.cleandeps = {4}, !.updatemap = {4}],
   [Update EXCEPT !.special = 2 :> {3}, !.updateall = TRUE],
   [Update EXCEPT !.focus = "installed"], [Update EXCEPT !.focus = "best"],
   [Update EXCEPT !.focus = "new"], [Update EXCEPT !.callback = TRUE]}

\* The installed packages do not go together: keeping them runs into
\* conflicts several levels up.
Trouble3 ==
  Plain(<< <<-2, 5, -3>>, <<-4, 6, -2>>, <<-5, -6, 7>>, <<-7, -4>> >>,
        << <<3, 5>>, <<2, 7>>, <<3, 6>>, <<4>> >>)
\* Keeping 2 runs into the first job; updating the broken 4 into keeping 2.
JobTrouble ==
  World(Plain(<< <<-2, -3, 4>>, <<-2, -3, -4>> >>, << <<2, 5>>, <<3, 5>>, <<6, 7>> >>),
        {4, 5}, 2 :> 3)
PassTrouble ==
  World(Plain(<< <<-4>>, <<-5, -2, 7>>, <<-5, -2, -7>> >>, << <<2, 6>>, <<3>>, <<4, 5>> >>),
        {}, 2 :> 4 @@ 3 :> 5 @@ 4 :> 6)

\* 3 and 4 were installed for 2, which the job removes; 4 is still needed.
Cleandeps ==
  [World([Plain(<< <<-2, 3>>, <<-2, 4>>, <<-5, 4, 6>> >>, << <<3>>, <<4>>, <<5, 7>>, <<-2>> >>)
            EXCEPT !.disabled = {4, 5}], {6, 7}, 2 :> 0 @@ 3 :> 4 @@ 4 :> 5)
     EXCEPT !.cleandeps = {3, 4}, !.noupdate = {2}]

TroubleWorlds ==
  {JobTrouble, PassTrouble, Cleandeps, [Cleandeps EXCEPT !.updatemap = {4}]} \cup
  {World([Trouble3 EXCEPT !.disabled = d], {5}, 2 :> 6 @@ 3 :> 7 @@ 4 :> 8) :
     d \in {{}, {8}, {6, 7, 8}}}

\* 2 is installed by a job and recommends 3 or 4 and then 5; 6 supplements it.
RecommendRules == Plain(<< <<-3, -6>>, <<-4, -5>>, <<-5, 7, 3>>, <<-6, 7, 4>> >>, << <<2>> >>)
Recommending ==
  [NoneInstalled([RecommendRules EXCEPT !.extras = {3, 4, 5, 6}], {5})
     EXCEPT !.recs = << <<2, {3, 4}>>, <<2, {5}>> >>, !.supps = 6 :> {2}]
RecommendWorlds ==
  {Recommending, [Recommending EXCEPT !.supps = 6 :> {2} @@ 3 :> {2}],
   [NoneInstalled([Plain(UnsolvablePkgs, << <<2>>, <<5>> >>) EXCEPT !.extras = {3}],
                  {7, 8}) EXCEPT !.recs = << <<2, {3}>> >>], [Recommending EXCEPT !.blocked = {<<7, 4>>}, !.callback = TRUE],
   [Recommending EXCEPT !.doweak = FALSE, !.favor = [@ EXCEPT ![3] = 1]]}

\* 2 and 3 are orphans; 4 is installed and may be updated to 5.
OrphanRules == Plain(<< <<-2, 4>>, <<-3, -5>>, <<-4, -5>>, <<-6, 3, 7>> >>, << <<4, 5>>, <<5, 6>> >>)
Orphans == [World([OrphanRules EXCEPT !.extras = {2, 3}], {6}, 2 :> 0 @@ 3 :> 0 @@ 4 :> 5)
              EXCEPT !.orphaned = <<2, 3>>]
OrphanWorlds == {Orphans, [Orphans EXCEPT !.droporphaned = {3}],
                 [Orphans EXCEPT !.droporphaned = {2, 3}, !.updateall = TRUE]}

\* The orphan 2 needs 4 and 5 (break_orphans): rules 1 and 2 are disabled.
BrokenRules(r) == Plain(<< <<-2, 4>>, <<-2, 5>>, r >>, << <<3>> >>)
BrokenOrphans(r) ==
  [World([BrokenRules(r) EXCEPT !.disabled = {1, 2}, !.extras = {2, 4, 5}], {4}, 2 :> 0)
     EXCEPT !.orphaned = <<2>>, !.broken = {1, 2}]

\* 2 and 3 are installed, 4 and 5 are their updates; every choice of three
\* dependencies among them, with and without updating.
FamilyWorld(S) ==
  [World([Plain(Pick(S), << <<2, 4>>, <<3, 5>>, <<4, 5, 6>> >>) EXCEPT !.extras = {3, 5, 6}],
         {6}, 2 :> 4 @@ 3 :> 5)
     EXCEPT !.recs = << <<2, {5, 6}>>, <<4, {3, 6}>> >>]
FamilyWorlds ==
  UNION {{FamilyWorld(S), [FamilyWorld(S) EXCEPT !.updateall = TRUE, !.focus = "best"],
          [FamilyWorld(S) EXCEPT !.updatemap = {3}, !.callback = TRUE]} :
           S \in kSubset(3, 1 .. Len(Catalogue))}

RunInstances ==
  UNION {FamilyWorlds, JobWorlds, UpdateWorlds, TroubleWorlds, RecommendWorlds, OrphanWorlds,
         {BrokenOrphans(<<-4, 6, 7>>)}}

\* The orphan 2 needs 4, 5 or 6, and 7; 4 needs 5 and conflicts with 7.
DependentOrphans ==
  {[World([Plain(<< <<-2, 4>>, <<-2, 5, 6>>, <<-2, 7>>, <<-4, 5>>, <<-4, -7>> >>, << <<3>> >>)
             EXCEPT !.disabled = {1, 2, 3}, !.extras = {2, 4, 5, 6, 7}], {6}, 2 :> 0)
      EXCEPT !.orphaned = <<2>>, !.broken = {1, 2, 3}]}
=============================================================================
