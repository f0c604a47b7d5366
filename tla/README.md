# libsolv in TLA+

libsolv is the package dependency solver behind zypp, dnf and conda tools.  An
application fills a *pool* with packages from *repositories*, asks for jobs
("install this", "update everything"), and gets back either a *transaction*,
the list of steps that takes the system to a consistent state, or a list of
*problems* with suggested *solutions*.  This directory models that path end to
end: the data store and its files, the pool and its index of providers,
selections, the rules made of packages and jobs, the SAT engine and the phases
that drive it, problems and solutions, the transaction and the order of its
steps.  Paths such as `solver.c:612` are below `src/src/`.

Contents: 1 inventory, 2 modules, 3 runs and bounds, 4 fairness, 5 findings,
6 proofs, 7 what is not modelled, 8 what is left to prove.

## 1. Inventory

libsolv is a library: one thread, no locks, nothing persistent but `.solv`
caches written in one go.  What is hard in it is not concurrency but long-lived
mutable state: queues and maps that several functions change and that must
still fit each other after backtracking, restarts, disabled rules and re-runs.

| Component | State | Operations | Talks to | Correct when |
|---|---|---|---|---|
| SAT engine (`solver.c`) | rules with two watches, `decisionq`, `decisionmap`, `propagate_index`, branches, learnt rules and their proofs, problems | `makeruledecisions`, `propagate`, `analyze`, `revert`, `analyze_unsolvable`, `setpropagatelearn`, `takebranch`, `solver_reset` | rules.c (rules), problems.c (disabling), policy.c (choice) | queue and map agree; propagation is complete; what is learnt follows; a problem is a real contradiction; it ends with a solution |
| Phases (`solver_run_sat`) | level of the system, position and pass in the installed packages, `decisionq_reason` | `resolve_jobrules`, `_installed`, `_dependencies`, `_cleandeps`, `_weak`, `_orphaned`, last pass, choice rules, callback, minimization | SAT engine | the system is consistent before extras; extras cost nothing; no phase loops |
| Problems and solutions (`problems.c`) | disabled rules, problem queue, solutions | `solver_disableproblem`, `enableproblem`, `fixproblem`, `autouninstall`, `refine_suggestion`, `create_solutions` | re-runs the solver on live data | solutions solve the problem; the solver is put back |
| Transaction (`transaction.c`) | `steps`, `transaction_info`, `transactsmap` | creation, partners, types by mode, classification, installed result | decisions in, order.c out | every step is shown, views agree, the result is reached |
| Ordering (`order.c`) | typed edges, marks, the search stack, broken cycles, ready queues | edges, cycle breaking, cycle edges, output, manual choices | transaction | ends, loses nothing, respects the edges it keeps |
| Rule creation (`rules.c`, `cplxdeps.c`, `linkedpkg.c`) | rule array with its classes, the map of packages with rules, maps made of the jobs, rule-to-job table | one function per kind of rule; disabling and re-enabling of policy rules; explanations | pool in, SAT engine and problems.c out | models of the package rules are the consistent systems; policy rules follow the jobs that are left; a solver can be used again |
| Policy (`policy.c`), cleandeps (`cleandeps.c`) | candidate queues, recommends map, the cleandeps map and its mistakes | filters and orders, `policy_findupdatepackages`, remove and add-back pass | rules.c, solver.c | never takes away what is needed |
| Pool ids (`strpool.c`, `poolid.c`) | strings, relations, hash tables, arrays indexed by id | intern, integrate, shrink, clone | everything | one id per string and relation, for ever |
| Index (`poolwhatprovides.c`, `fileprovides.c`) | provider lists, lazily made ones, caches of relations, what was searched | build, ask, set, add, flush | pool, data store | a list is exactly the providers, whenever it was made |
| Versions (`evr.c`), selections (`selection.c`) | the job queue of a selection | compare, match; make, add, subtract, filter | index | an order; exactly the packages asked for |
| Data store (`repodata.c`, `repo.c`, `dirpool.c`) | areas of keys, schemas, packed data, pending edits, stubs, dependency arrays | set, add, unset, merge, internalize, look up, search, iterate | files, index | a lookup finds the last value set; iterating finds everything once |
| Solv files (`repo_write.c`, `repo_solv.c`, `repopack.h`, `repopage.c`) | id maps, schema tables, page tables | write, read, extend, load a stub, map pages | data store, pool ids | what is read is what was written |
| File conflicts (`ext/pool_fileconflicts.c`) | hashes of directories and names with their first package, candidates, numbers of directories | five passes over file lists, a comparison | rpm headers, stat and readlink | exactly the files at one place with different content |
| rest of ext/, tools/, bindings/ | parsers, drivers, glue | | | |

`PROJECT.json` lists all parts with their status, and under "hazards" the
places where a unit test would hardly see something go wrong.

How the modelled parts interact: files are read into areas of a repository,
their strings and relations into the pool; the index is built from the
dependencies, asked lazily for files and relations, and everything else works
on provider lists.  `solver_solve` builds the rules and calls
`solver_run_sat`.  Its phases hand one decision at a time to
`setpropagatelearn`, which propagates, and on a conflict learns a rule and goes
back, or, at level 1, calls `analyze_unsolvable`, which gives up rules through
problems.c and restarts.  When a solution is asked for, `create_solutions`
changes the disabled rules of the *finished* solver, runs it again, and must
put everything back.  The decision queue becomes a transaction, which
`transaction_order` sorts.

The hard behaviours: state read before a revert and used after it
(`takebranch`, `resolve_installed`, `resolve_weak`, `resolve_orphaned`);
counters that are off by one on purpose (`analyze`); rules that are disabled
while others learnt from them are in use; loops that end only because something
is marked (branches, refinement, the cycle search); a search that is restarted
in the middle of its own stack (`order.c:1031`).
In the data code: pointers into areas that a callback replaces (the iterator),
caches that are recognised by a size only (the hash of dependency arrays), page
tables that must stay inverse to each other while pages are evicted, and lists
that are not made yet and look like empty ones.

## 2. Modules

| Module | Models | Extends |
|---|---|---|
| `Literals` | packages, literals, rules, what it means for a rule to hold | |
| `Sat` | the SAT engine | `Literals` |
| `Resolution` | abstract specification of `solver_run_sat`: give up rules of contradictions until a solution exists | `Literals` |
| `SolverRun` | the main loop and the phases of `solver_run_sat` | `Sat` |
| `Problems` | `problems.c` over the abstract solver | `Literals` |
| `Order` | `transaction_order` on a given graph of elements, manual ordering | |
| `Transaction` | `transaction.c`; the graph of a transaction (`addsolvableedges`, `addedge`) and `transaction_add_obsoleted`, composed with the ordering | `Order` |
| `World` | the pool as rule and policy code sees it; `cplxdeps.c` | |
| `PkgRules` | `linkedpkg.c`; package rules, their work queue, unification, explanations | `World` |
| `Policy` | `solver_util.c`, `policy.c` | `PkgRules` |
| `PolicyRules`, `Cleandeps`, `ChoiceRules` | update, feature, infarch, dup, black and strict rules; `cleandeps.c`; which policy rules a job switches off; choice, best, yumobs and recommends rules | in this order |
| `SolverSolve` | `solver_solve`, called more than once | `ChoiceRules` |
| `Ids` | `strpool.c`, `poolid.c`, bulk integration | |
| `Evr` | `evr.c`, and its use on up to three versions | |
| `Provides`, `Pool` | `fileprovides.c`, `poolwhatprovides.c`, the operations on a pool | in this order |
| `Selection` | `selection.c`, and an application that combines selections | `Provides` |
| `FileConflicts` | `pool_findfileconflicts` in `ext/pool_fileconflicts.c` | |
| `AttrStore` | abstract specification of an area: handle, key, values, pending edits | |
| `Repodata`, `Overlay` | `dirpool.c` and areas in `repodata.c`; lookups over the areas of a repository in `repo.c` | in this order |
| `RepoEdit` | edits of an area side by side with `AttrStore` | `Repodata`, `AttrStore` |
| `DepArray` | dependency arrays of `repo.c` | |
| `DataIter` | the iterator and `repo_search` | `Overlay` |
| `RepoWrite`, `SolvFile` | writer; reader and the file trip from one pool to another | `Overlay`, in this order |
| `Repopage`, `ByteCodec` | the compression of pages and the page cache; numbers, values, ids and blocks as bytes | in this order |
| `MC...` | instances for TLC; `MCPoolParts` and `MCDataStore` put the parts of the pool and of the store side by side | |
| `FiniteInduction` | induction on bounded numbers with sets, shared by the proofs | |
| `SatTrailProof`, `SatSearchProof`, `SatOutcomeProof` | theorems about `Sat`: types and decisions; propagation; learning, outcome and the refinement of `Resolution` (section 6) | `Sat`, `FiniteInduction`, in this order |
| `SolverRunProof` | theorems about `SolverRun`: it implements `Sat`, the phases do what they are for | `SolverRun`, `SatOutcomeProof` |
| `OrderProof` | theorems about `Order`: every property the runs check of it | `Order`, `FiniteInduction` |
| `TransactionProof` | theorems about `Transaction`: every property the run checks of it | `Transaction`, `OrderProof` |
| `IdsProof` | theorems about `Ids`: its property, and that hash chains reach every place | `Ids`, `FiniteInduction` |

Definitions named `...Bug` (and `BreakCycleNoReset`, `BreakCycleNoBreak`) are
not part of a specification: each is a plausible mistake in the definition
beside it, kept to show that a property notices it.

**Sat.**  The variables are the fields of `Solver` and the locals of the
functions.  `rules` holds the given and the learnt rules; a rule is the set of
its literals and the two watched ones.  The sign tricks of the code become
sets: `disabled` are the rules with `d < 0`; the watch chains are the rules that
watch a literal.  `decisionmap` keeps the signed level as in the code.  `pc`
says which function runs: one action is one iteration of a loop
(`AssertDecide`, `PropagateMove`, `AnalyzeRule`, ...).  The order of literals in
a rule and of rules in a chain is left open; solver.c itself calls it
insignificant.  Which candidate a decision takes, and in which order, is any
non-empty sequence of at most `MaxChoices` undecided candidates: this contains
what policy.c does.

**Resolution.**  Given up rules, reported problems and the result.  A rule may
only be given up as part of a core, a set of enabled rules without solution, and
weak rules first.  `ImplementsResolution` of `Sat` maps the engine to it: learnt
rules are hidden, `disabled` restricted to the given rules is `given`.

**SolverRun.**  Adds `phase` and the phase's locals.  A phase moves only when
the engine is idle (`pc = "decide"`), looks at the level it came back at, and
goes on, retries or leaves, exactly where the code does.  `ImplementsSat` says
that every decision is one `Sat` allows, so that everything shown for `Sat`
holds for the real choice of decisions.

**Problems.**  The solver run is what `Resolution` promises: it stops with a
core or with a solution.  Cores need not be minimal: `CoreSlack` superfluous
rules are allowed, since a learnt rule may bring some.  Everything
`refine_suggestion` and `create_solutions` do to the disabled rules is kept.

**Transaction, Order.**  A pool is a record of small numbers;
matching of dependencies is given as sets of providers.  The bit masks of edge
types become sets of bit numbers (`Less` is the numeric comparison).  `Order`
keeps the explicit stack, with `-i` for the end of the edges of `i`, since the
restart inside the stack is the interesting part.  After the order is computed
the application may choose elements in any order (`AddChoices`).  `Transaction`
builds the graph from the packages and checks the order against the meaning of
the dependencies.

**World to SolverSolve.**  The solver is one record `sv` whose fields are named
after those of `Solver`; a rule is the sequence of its literals in the code's
order.  Dependencies are names with version ranges, or operators on two
dependencies; versions are numbers here (`Evr` is about the real ones).  A step
of `SolverSolve` is one turn of a work queue (`AddPackage`, `AddWeak`,
`AddLinked`) or one section of `solver_solve` (`AddUpdates`, `AddJobs`,
`AddForbids`, `AddSteers`, `Finish`).  The search is any set of packages that
fulfils the enabled rules (`Decide`): the engine is the business of `Sat`.
Afterwards a job may be given up (`DisableJob`, as problems.c does), cleandeps
may find mistakes (`Mistakes`), recommendations may be asked for, or the solver
is called again with other flags and jobs (`Again`, `ChangeFlag`).
`PkgRulesExact` compares the rules with `Consistent`, a definition straight from
the meaning of requires, conflicts, obsoletes, constrains, links and names.

**Ids to Selection.**  In `Ids` the hash function is a parameter, so that chains
and collisions happen in tables of eight; a search along a chain is the first place
within a period that ends it.  The index keeps the real layout: one
array of zero terminated lists, offsets, the space behind the end, the auxiliary
array, lazy lists.  `ProviderSet` is the reference: the providers of a
dependency by its meaning.  A text of a selection is a sequence of words and
separators, since where the code splits a text is its logic.

**FileConflicts.**  One step reads one package in one pass.  A directory is the
sequence of its components, a name one character; the hash is the code's, so
that different paths collide.  A hash table is a function: its chains always
find a hash or its absence.  Files, directories and links of the system are part
of the case; the reference `WalkFrom` resolves a path the way a kernel does.
Not modelled is directory aliasing without `FINDFILECONFLICTS_USE_ROOTDIR`
(there is no root directory to prepend then), and no basename has hash 0:
`precheck_solvable_files` and the callbacks replace a 0 by lengths of different
strings, so that a basename with hash 0 would not be recognised.

**AttrStore to SolvFile.**  An area keeps its keys, schemas, packed values (a
tree of cells instead of bytes), pending edits, the array of attribute ids with
the place the next addition may extend, and its range of solvables.  `RepoEdit`
runs every call on the area and on the abstract store and compares what both
answer.  `DataIter` has one action per state of `dataiterator_step`, and a user
who may look up something else in between, which loads stubs and moves vertical
data, or enter, skip or finish what it looks at; what it must find is read off
the areas as they are when everything is loaded.  `SolvFile` writes an overlay
of areas with any of the key filters and reads the file into another pool with
other ids, into an empty repository, as an extension, or into a stub.

**ByteCodec and Repopage.**  Numbers are kept exactly up to 64 bits as records of
their groups of bits; limits of the real format (256-byte literals, 32 KiB pages)
are constants.  `Repopage` writes values into pages, and then loads ranges in any
order, with reads that fail.

## 3. Runs and bounds

| Run | States | What it asks |
|---|---|---|
| `sat_engine` | 94,062 | all of `Sat`, the refinement of `Resolution`, termination |
| `solver_run` | 419,666 | the phases, their use of the engine, termination |
| `problem_solutions` | 512,110 | solutions: sufficient, essential jobs last, state restored |
| `problem_solutions_end` | 14,440 | the refinement ends, on every kind of rule |
| `order_elements` | 232,613 | ordering on graphs |
| `transaction_order` | 461,352 | views and partners of a transaction, ordering from packages to steps |
| `rule_creation` | 74,703 | rules from packages and jobs, over several calls |
| `pool` | 135,765 | ids, versions, providers, files, selections, file conflicts |
| `data_store` | 301,525 | edits, dependency arrays, iterator, files, bytes, pages |

`orphan_deps_inconsistent`, `favor_flag_stale` and `directory_candidate_lost`
expect a violation; see section 5.

*sat_engine*: seven packages.  Sixteen rule sets are made by hand so that each
path is taken: learning over two levels, backjumps, branches, a problem found
through learnt rules, conflicting assertions, weak rules of all kinds, policy
rules that come back and contradict a learnt rule, automatic uninstallation,
choice rules.  252 more take any three of nine dependencies with three job
lists.  *solver_run* does the same with 286 worlds of installed packages,
updates, recommends, supplements, orphans, cleandeps, focus modes and callback.
`MaxChoices` = 2 bounds the candidates left for one decision after pruning: one
to try and one to come back to, so a branch with an untried alternative exists
at several levels; a third candidate would only repeat the second.  *problem_solutions* takes any two of five jobs on any two of five
dependencies, plain, weak or essential, with one superfluous rule per core.
Its worlds have package, feature, update and job rules; the worlds of
*problem_solutions_end* have the other kinds (best, dup, blacklist, broken
orphans, automatic uninstallation), on which `StateRestored` and `SolutionFound`
do not always hold (section 5).
*order_elements* takes all graphs of up to six edges on four
elements, three elements with edges of mixed types, and two media on two
repositories.  *transaction_order* takes two families: two installed and two new
packages in all combinations of name, version, architecture, kind and
obsoletes, with sixteen view modes, which are not ordered; and four shapes of
replacement, lists of requires for each package and one more dependency of
every kind, which are.  The run lists its initial states (`MCInit`, with the steps
of `Next`) instead of a set of inputs, which TLC would normalise for every state.

*rule_creation* takes five worlds of six to nine packages: dependencies of every
kind, two architectures and two vendors, cleandeps, steering (best, choice,
favor, recommends), and linked packages; each with six or more job queues, two
calls of the solver with one flag changed in between, and two jobs given up.
*pool* has tables that must grow (`Block`, `Slack` = 1, at most eight strings
and seven relations), twenty versions for four distributions, nine pools with
up to seven packages and every operator under four changes (`MaxSteps`), and
some three hundred queries combined two at a time (`MaxSelect`).  For the file
conflicts it has up to three packages with up to three files each, in the three
ways to look at directories, with names that collide (`HashMod` = 2^20 instead
of 2^32, as TLC's numbers have 32 bits; a name and the same name plus `HashMod`
have one hash), thirteen spellings of directories through relative, absolute,
empty, unreadable and cyclic links, ghosts, colors, files of source packages,
broken headers and headers that fail to be fetched now and then.  *data_store*
has four menus of edits up to five calls deep; dependency arrays with three ids
and a hash from the second entry on (`HashThres`; sixty-odd in the code) in a
buffer of seven; five pools of overlaid areas and stubs for the iterator; about
a hundred trips through a file; numbers at every boundary of the encoding
(2^6, 2^7, 2^13 ... 2^30, and 64-bit ones), files cut off in every place; every
page of up to nine bytes of two kinds and a file of five pages with three slots
under four loads (`MaxLoads`).

`Careful` and `CarefulEdits` leave out call sequences that are known to go wrong
(section 5), so that the properties speak about everything else.  With either
set to FALSE, TLC finds the sequence in a few states.

Small sizes suffice because each hazard needs few parts: a conflict at a level
needs two rules, a backjump two levels, overlapping cycles four elements, a
split between several obsoleters two old and two new packages, an eviction that
hits the range being loaded one page more than there are slots, a stale
relation one relation on another.

Deadlock is checked where the program must go on: `Sat`, `SolverRun` and
`Order` deadlock if a function has no next step, which stands for a failing
assertion or abort (`AllChosen`, `Terminated` and `RunTerminated` are the
legitimate ends).  The other systems may stop after any call.

What the properties say is written above each of them.  In short:

* `Sat`: `TrailInvariant` (the decision queue, the map, reasons, levels and
  branches fit each other), `PropagationComplete` (watches miss nothing),
  `LearningOK` (analyze keeps its assertions, learnt rules follow from their
  proof, are unit after going back, and are out of use when a rule of the proof
  is), `OutcomeRight` (problems are real contradictions, nothing is given up
  without being reported, a solution fulfils all that is left),
  `ImplementsResolution`, `Termination`.
* `SolverRun`: `RunInvariant` (reasons fit levels), `PhasesRight` (extras cost
  nothing, the system is consistent before them, weak dependencies are all
  considered), `ImplementsSat`, `RunTermination`.
* `Problems`: `SearchInvariant` (rules are as before when a problem is done
  with), `SolutionsRight` (a solution suffices, essential jobs come last, there
  is one), `SolutionsTerminate`.
* `Transaction`: `ViewsRight` (every step is shown, partners agree, classes add
  up; checked as `ViewsStayRight`, also for the ordered steps),
  `ManagerReachesResult`; and of the ordered steps, `StepsArePreserved` and
  `DependenciesMet`.
* `Order`: `OrderInvariant` (assertions of the code), `CyclesBrokenWell` (no
  cycle is left, the broken edges are the weakest, cycles are done as blocks),
  `OutputRight` (nothing before what it needs, no needless change of medium,
  exact choices for an application that orders itself), `SearchAdvances`.
* `SolverSolve`: `PkgRulesExact`, `RulesExplained`, `PolicyRulesFollowJobs`,
  `CleandepsSafe`, `RecommendationsSound`, `AddedmapRebuilt`.
* pool: `IdsUnified`, `VersionsOrdered`, `ProvidersExact`, `FilesProvided`,
  `SelectionExact`, `FileConflictsExact` (of the packages whose headers were
  there, exactly the files at one place with different content are reported;
  "one place" is defined by walking the path).
* store: `AreaIsStore` (an area refines `AttrStore`), `DepsUnified`,
  `IteratorExact`, `SameAsSearch`, `FileRoundTrip`, `BytesComeBack`.

`ErasesFindPrerequisites`, a part of `DependenciesMet`, excludes a provider that
is erased by the very element that erases the package: both are gone in one
step.  Packages that stay get no edges, so a requirement of theirs may be unmet
for a while; no property says otherwise.  `PolicyRulesFollowJobs` leaves out
update rules under cleandeps, and `PkgRulesExact` speaks of calls that agree on
flags, multiversion and verify jobs (section 5).

## 4. Fairness

`FairSpec` of `Sat` and of `Problems` and `FairRunSpec` are weak fairness of the
whole next-state relation.  solver.c and problems.c run in the thread of the
caller and never wait, so a step that is possible is taken.  No fairness is
assumed between alternatives: termination holds whichever candidates are tried.
For `Order` no fairness is used: `SearchAdvances` is the measure that decreases,
and the absence of deadlock does the rest.  The models of the pool, the store
and the rules are driven by the calls of an application, of which nothing is
assumed.

## 5. Findings

Three are runs that TLC must find violated, on a small world.

* `orphan_deps_inconsistent` (`solver.c:2780`): `resolve_orphaned` installs a
  list of packages without looking whether an earlier one already decided a
  later one.  The decision is then twice in the queue; going back clears the map
  while the first entry stays, and the solver takes the system for consistent
  with an unfulfilled rule.  Needs `break_orphans`.
* `favor_flag_stale` (`solver.c:3727`): `solver_solve` frees `favormap` and
  leaves `havedisfavored` set.  Called again without a disfavor job, the solver
  reads a map that is not there (`solver.c:2470`, `3081`, `4353`).  The compiled
  library crashes on the sequence.

* `directory_candidate_lost` (`ext/pool_fileconflicts.c:323`): with directory
  aliasing, `findfileconflicts_basename_cb` says `oidx = -idx - 2` where the
  inverse of line 308 is `-oidx - 2`.  The package that was the first to have a
  directory of that basename is not noted, and its conflict with a file of a
  later package is not reported.  `FileConflictsExact` excepts this case
  (`DirectoriesFirst`).

The others were met while modelling.  Those marked (c) were confirmed with the
compiled library; runs, worlds and queries keep clear of them where a property
would otherwise fail.

Solver, problems, transaction, order:

* `problems.c:535`, "get us back into the same state as before": an update rule
  given up by `solver_autouninstall` inside `refine_suggestion` stays off.
* `problems.c:465`: `v > updaterules` should be `>=`; the first installed
  package's update rule is not taken for one.
* `transaction.c:292`: an installed package that a pattern obsoletes is erased
  but shown by nobody in the active view (`ShownUnlessPseudo` says "unless").
* `order.c:808` and `137`: a cycle edge merged into a broken edge stays broken,
  and an element is done in the middle of a cycle it should follow
  (`BlocksWherePossible` says "where possible").
* After `takebranch` the phases for jobs and installed packages are skipped
  while `level >= systemlevel` (`solver.c:2936`), so "3) try to keep installed
  packages" (line 2876) may not be tried again for decisions taken back.
* With only a best rule in the problem, `create_solutions` may end with no
  solution (`problems.c:730`, `872`), while the bindings documentation promises
  "an array containing multiple possible solutions to fix the problem"
  (`doc/libsolv-bindings.txt:2866`).
* Two elements of a problem may be refined to the same solution
  (`problems.c:653`), while line 455 wants "to prevent getting the same solution
  twice".
* `transaction_classify` leaves elements shown as erased out of the arch and
  vendor classes (`transaction.c:526`), `transaction_classify_pkgs` lists them;
  asked with from = to = 0 it lists every replaced package.
* `transaction_free_orderdata` initialises a queue it should free (`order.c:99`).

Rules:

* `solver_reenablepolicyrules` (`rules.c:2762`) computes the cleandeps map anew
  and leaves the update rules of packages that enter or leave it as they are.
* Package rules are kept across calls although verify and multiversion jobs or
  flags they depend on may have changed.
* `rules.c:1776` masks with `0xffff000` (one digit short); `cleandeps.c:855`
  truncates the queue before it is tested; `yumobsrules_end` is stale after an
  early return (`rules.c:4158`); `solver_intersect_obsoleted` takes an empty
  queue for the first call; the recursive mode of `solver_rule2rules` never
  pushes; `prune_to_best_version_sortcmp` is not transitive with noarch;
  `solver_dep_fulfilled_alreadyinstalled` answers 2 for namespaces of the job
  without a look; `installsuppdepq` is not reset; `solver_get_recommendations`
  leaves learnt rules disabled.

Pool and selections:

* (c) `pool_add_new_provider` loses a list that is still to be filled, and
  `pool_add_fileconflicts_deps` leaves stale relations (`poolwhatprovides.c:1071`,
  `pool.c:671`; `doc/libsolv-pool.txt:642`).
* (c) With interleaved repositories `pool_addstdproviders` makes unsorted lists
  with duplicates (`poolwhatprovides.c:502`, "as we know both are sorted").
* (c) `selection_filelist` compares the last solvable with the id of the file's
  string (`selection.c:1039`); `SELECTION_PROVIDES|DOTARCH|WITH_DISABLED` finds
  nothing for a disabled "foo.i686" (`382`); `selection_extrabits` ignores
  `SOURCE_ONLY` (`1287`); dropping extra bits in filter mode changes which way of
  matching succeeds.
* `selection_subtract` passes the set flags on (`2043`).  `fileprovides.c:372` and
  `386` size maps by `nsolvables` although they are indexed by id.

Data store and files:

* (c) `repo_addid_dep` in front of a marker that is the last element loses the
  marker (`repo.c:591`); `repo_empty` keeps the hash of dependency arrays
  (`repo.c:82`); `repo_reserve_ids` copies bytes instead of ids (`repo.c:659`).
* (c) `repodata_add_array` takes its fast path after an unset of the same key
  and loses the addition (`repodata.c:2593`).
* (c) The iterator skips keys of sub-structures named like a key it has met
  (`repodata.c:1811`); `repo_search_md` leaves `stop` set after
  `SEARCH_NEXT_KEY`, so that later dependency arrays are skipped (`repo.c:742`).
* (c) `dataiterator_skip_attribute` turns every state but `di_nextsolvableattr`
  into `di_nextkey` (`repodata.c:2125`), also the `di_nextsolvablekey` that a
  single value of a solvable's own key, or the last of several, leaves behind
  (`1954`, `1967`).  In a search for all keys the next step then reads through a
  key pointer that is NULL or left over from another area (`1828`) and crashes.
  `NextKey` has this as the state "crash", which `IteratorExact` forbids.  The
  queries leave these calls out: with key 0 a user skips attributes only without
  the solvable's own keys, or only when more values are to come ("skiprest").
* (c) The writer does not map the name and version of a relation to an own
  string pool (`repo_write.c:2088`).
* A key named like a field of a solvable inside a structure overwrites the field
  (`repo_solv.c:1161`); a trailing marker is not kept by the format; an empty
  id array is serialized to nothing and misaligns what follows
  (`repodata.c:3378`); elements of a fixarray must have their keys in the same
  order (`3397`); `repo_add_solvable_block_before` shifts the areas but not their
  last handle (`repo.c:253`); merged attributes share their array.
* `filelistfilter.c:181` and `185`: an inverted test and a comparison of five
  characters of a four-character prefix.  `repopack.h:44` clears bit 80 instead
  of 0x80, in a branch no writer reaches.  In `repopage.c` a truncated length is
  taken for zero.

## 6. Proofs

The SAT engine is proved: for every number of packages, every set of instances
that meets `InstancesAssumption` and every `MaxChoices`, the type invariant and
the four safety invariants that run `sat_engine` checks hold, and the engine
implements `Resolution`.  The phases of `solver_run_sat` are proved to implement
the engine's specification and to do what they are for, for every instance that
meets `RunInstancesAssumption` and leaves out no rules of orphans
(`NoBrokenOrphans`).  The ordering of a transaction is proved for every set of
graphs that meets `GraphsAssumption`: the three invariants and the action property
that run `order_elements` checks.  The transaction, its views and the order of its
steps are proved for every pool, all decisions and all dependencies that meet
`InputsAssumption`: the four invariants that run `transaction_order` checks.  That
ids are unified is proved for every set of texts and relations, every hash function
and every block size that meet `IdsAssumption`.

| Module | Theorem | What it states |
|---|---|---|
| `SatTrailProof` | `TypeInvariant`, `TypeCorrect` | `Spec => []TypeInv`, `Spec => []TypeOK` |
| | `DecisionsInvariant`, `DecisionsRight` | `[](TypeInv /\ TrailInv)`, `[]TrailInvariant` |
| | `AnalyzeNeverFails`, `LearntRuleIsUnit`, `AssertionsNeverFail` | the assertions of analyze, takebranch and analyze_unsolvable |
| `SatSearchProof` | `WatchesInvariant`, `PropagationIsComplete` | `[]WatchInv` on top, `[]PropagationComplete` |
| `SatOutcomeProof` | `LearningInvariant`, `LearningRight` | `[]LearnInv` on top, `[]LearningOK` |
| | `OutcomeIsRight` | `[]OutcomeRight` |
| | `EngineImplementsResolution` | `Spec => ImplementsResolution`, that is `Abstract!Spec` |
| `SolverRunProof` | `PhasesImplementSat` | `RunSpec /\ NoBrokenOrphans => ImplementsSat`, that is `Spec` of `Sat` |
| | `RunInvariantHolds`, `PhasesAreRight` | `[]RunInvariant`, `[]PhasesRight` under the same hypothesis |
| `OrderProof` | `OrderInductiveHolds`, `OrderInvariantHolds` | `OrderSpec => []OrderInductive`, `[]OrderInvariant` (types and assertions) |
| | `CyclesBrokenWellHolds`, `OutputRightHolds` | `[]CyclesBrokenWell`, `[]OutputRight` |
| | `SearchAdvancesHolds` | `OrderSpec => SearchAdvances` |
| `TransactionProof` | `TransInductiveHolds` | `TransOrderSpec => []TransInductive` |
| | `StepsArePreservedHolds`, `DependenciesMetHolds` | `[]StepsArePreserved`, `[]DependenciesMet` |
| | `ManagerReachesResultHolds` | `[]ManagerReachesResult` |
| | `ViewsRightHolds`, `ViewsStayRightHolds` | `[]ViewsRight` at every step, so `[]ViewsStayRight` |
| `IdsProof` | `PowersCover` | a chain comes to every place of a table with a power of two of places |
| | `IdsInvHolds`, `IdsUnifiedHolds` | `IdsSpec => []IdsInv`, `[]IdsUnified` |

None of the properties is inductive.  The invariants build on each other; those of
the engine were checked by TLC on the instances of `MCSat` before they were proved.

*Types.*  That `propagate` decides an existing literal depends on the rules it
visits watching the literal that became false; that `analyze` resolves with a
rule depends on `confl` being one; that `revert` leaves `propagate_index` within
the queue depends on where the engine is.  So

    TypeInv == TypeOK /\ RuleShape /\ LocalsOK

`RuleShape`: a rule without watch has no literal, one with one watch is that
literal, two watches are two literals of the rule; `propagate` moves watches and
`analyze` adds rules, both keep it.  `LocalsOK`: what the locals are between
calls.

*Decisions.*  `TrailInv` adds what the locals say of the queue: everything after
`propagate_index` is of the current level (`QueueOK`), the engine's level is that
of the last decision (`LevelOK`), and the counters of `analyze` count the marked
decisions of the current level and of level 1 (`AnalyzeOK`).  One lemma about
adding a decision (`ExtendTrail`) and one about taking decisions back
(`RevertTrail`) serve every action.  That analyze never runs out of decisions,
goes back to a lower level and learns a unit rule falls out of the counters.

*Watches.*  `WatchInv` says what a watch means while decisions come and go: a
decision that made a watch false and has been propagated through the rule
leaves the other watch true, at no higher level, so that `revert` cannot take
that one back alone (`WatchesOK`).  Rules of one literal have no watches; they
are decided at level 1 (`AssertedOK`), which needs the learnt rules to rest on
older ones (`WhyOlder`), so that settling their status again leaves alone what
was already passed.

*Learning.*  `LearnInv` follows the resolution: at every step of `analyze` and
`analyze_unsolvable` the rules in `proof` imply the clause the marks stand for
(`ProofOK`), hence what is learnt follows from older rules (`LearntOK`).
`StatusOK` and `SatOK` say when a learnt rule in use may rest on a disabled one:
only after `makeruledecisions` has disabled rules, and then it has a learnt
assertion still to come and so starts over.  The proof found an exception the
model checker's instances did not have: when `makeruledecisions` started over
with disabled rules and then fails, it returns before it settles the learnt
rules.  Nothing reads them afterwards; `LearntStatusOK` says so by leaving out
the failed run.

*Outcome.*  `OutInv` adds that the rules of the instance never change but for
their watches (`BaseSame`) and that `makeruledecisions` has decided by assertions
only (`AssertReasons`), which is why the conflict it reports without any proof is
one.  With disablerules the engine never ends unsolvable: the proof is that a
phase that decides without disabling anything starts from a state in which the
rules in use have a solution (`SatOK`), so analyze_unsolvable, which shows they
have none, is not reached there.

*Refinement.*  Every step of the engine is one of `Resolution` or leaves the
abstract state alone (`NextImplements`).  The abstract solver may give rules up
only with a core, a set of enabled rules that has no solution, so each step that
gives up, reports or fails must come with one.  For `analyze_unsolvable` it is
the set of enabled rules of the instance under the proof (`ProofCore`): `ProofOK`
says the rules of the proof contradict each other, `LearntOK` takes the learnt
ones apart, and `StatusOK` and `EnabledReasons` say that nothing under them is
disabled.  For `makeruledecisions` it is the two assertions of opposite literals
(`ConflictCore`, `WeakCore`): that the earlier decision was made by an assertion
at all is `AssertReasons`.  `WeakGivenUp` bounds what `disable_weakrules` does to
`disabled`, the policy rules a job brings back included.  A call passes
disablerules on only if `solver_run_sat` was given it (`FlagOK`), so that a
problem is reported or is the end, as the abstract solver has it.

*Phases.*  `Sat` lets a phase erase a package only from a consistent system, and
finish only when nothing is left; `solver_run_sat` tests neither.  `RunInv` says
why it need not.  Four of its parts carry the argument:

* `LocalsFit`: a scan of `resolve_dependencies` that has put nothing off has
  looked at no rule since the last decision (`n = 1` after one, a full turn
  before it ends).  `ScanComplete` concludes that no rule needs a decision;
  `ShortFulfilled`, that the rules of two literals the scan passes over are
  fulfilled by `PropagationComplete`'s invariant.  Together they are the comment
  "at this point we have a consistent system" (`DepsConsistent`).
* `Calm`: from a consistent system an erased package and all that propagation
  erases after it keep every rule fulfilled (`QuietErase`, `QuietPropagate`), so
  `resolve_cleandeps`, the orphans and the final pass never meet a conflict, and
  what `resolve_weak` wants cannot become more (`NoExtraKept`).
* `Harmless`: while extras are installed the rules in use have a solution
  (`ConsistentSolves`), and what is learnt does not change that, so a conflict is
  always resolved (`HarmlessStep`) and no problem is reported.
* `ReasonInv`: one reason per level, fitting the decision of the level, and a
  branch's level was opened for a reason that goes with any of its candidates.

`At` puts together what a phase relies on; each step that takes no decision has
to arrive `At` its next phase (`SilentKeeps`), each decision goes through
`InstallKeeps` or `EraseKeeps`, and the engine's own steps through `EngineRun`.
The hypothesis is needed: with SOLVER_FLAG_BREAK_ORPHANS (off by default) the
repair of kept orphans installs packages one after the other, decided or not,
and run `orphan_deps_inconsistent` shows a step `Sat` does not allow.  The proof needs what
the code takes for granted: at least one candidate per decision
(`OneChoiceAssumption`), and the queues of recommends, supplements and orphans
holding packages (`RunInstance`).

*Order.*  `OrderInductive` has one part per phase of `transaction_order` and
three that all of them need (`ShapeInv`, `ValueInv`, `RecordInv`).

* The search (`SearchInv`).  The markers on the stack are a path of unbroken edges
  between elements of mark 1, each once (`OnStack`, `Path`); above a marker only
  what its element needs is waiting (`Children`); what a finished element needs is
  finished (`Finished`), and the finished elements can be ranked so that every
  unbroken edge goes down (`Ranked`).  So an element met again has its marker on
  the stack and `CyclePath` is a cycle (`MetCycleFacts`).  Breaking it empties the
  marks above the place the search restarts at; what is left of the stack is again
  such a path (`SearchRestart`), and no finished element loses its rank.
* The records (`RecordInv`).  `breakcycle` takes an edge of the least degree from
  the cycle (`EdgeToBreakFacts`), and the types it combines are those of the whole
  cycle (`CycleRecorded`).  Edges only ever gain bits, so a record stays true.
* The cycle edges (`CycleInv`).  The comment "we are not creating a new cycle!" of
  `addcycleedges` is `TailRanked` and `HeadRanked`: a tail edge leads from an
  element that the cycle does not reach, a head edge to one that does not reach the
  cycle, so the ranks can be moved apart (`RankedLift`); and neither kind of edge
  spoils what an earlier cycle got (`ProcessedKept`).
* The output (`QueueInv`, `OutputInv`).  Kahn's invariant: the mark of an element
  is the number of elements it still waits for (`Waiting`), and the three queues
  hold, each once, what waits for nothing and is not output.  With the ranks, something is
  ready as long as something is left (`SomethingReady`), hence the assertion
  `todo.count > 0 || uninstq.count > 0` and the marks of 0 at the end.
* The choices (`ChoiceInv`).  The same count for an application that chooses in
  any order; -1 stands for an element it chose too early.

`SearchAdvances` is proved from the same invariant.  Termination of the search
follows from it, since edges, elements and the stack are finite.

*Transaction.*  `TransInductive` puts the transaction on top of `OrderInductive`.

* The tables (`InfoRight`, `StepsRight`).  `BetterPartner` is a total order for
  every package (`PartnerOrder`), so sorting gives each partner one place, and the
  partners listed for a package are those of the relation (`PartnersListed`).
* The edges.  `EdgesRight` says what each dependency of a package makes wait for
  what; `AddsolvableedgesFacts` gets it from `addsolvableedges`, `GraphFacts` carries
  it through `addedge` to the elements that stand for the packages.  The
  ordering never loses an edge (`TargetsStay`), so `EdgesMade` holds until it is done.
* The blocks.  `transaction_add_obsoleted` makes blocks of an element and what is
  erased with it; a package is in the block of the first element that stands for it
  (`Block`, `InBlocks`, by induction in `BlockAdded`).
* What follows.  When no cycle was broken, a package that waits for an element comes
  after it (`AfterElement`), and after a package with other elements (`AfterOther`).
  The second fails when the same element erases both: hence the exception in
  `ErasesFindPrerequisites`.
* The package manager.  After `k` calls a real package is there if it was and no call
  removed it, or a call installed it (`AfterCalls`); what all calls remove is what
  leaves (`EverythingRemoved`), obsoleted by pseudo packages only or not.
* The views.  A hidden element has a partner on the shown side (`HiddenElement`),
  whose own best partner has its name if any has (`BestPartnerName`), so that it is
  shown as a pair and not as a plain install or erase (`ShownElement`).

The prover asked for one hypothesis that the code states in a comment only: patterns
and patches "will never show up installed" (`is_noinst_pseudo_package`), else a new
package whose partner is one would not be shown at all.

*Ids.*  That one text has one id says nothing of the hash table that finds it, so
`IdsUnified` is not inductive; `IdsInv` is.

* The tables (`Filled`).  The places of a table are free or hold different items, and
  an item comes in the chain of its hash before the first free place.  At most half
  of the places are taken, so one is free (`HasRoom`): a search ends at
  the item or at a free place (`FirstPlaceIs`, `SlotIs`), and what it does not find is
  not there (`FindsIt`).
* The chains.  A search ends only if the chain comes to every place.
  `HASHCHAIN_NEXT` with a step that grows by one does so in a table whose size is a
  power of two (`PowersCover`): from a table to one of double the size, the chain
  comes one period of the small table later to the other place with the same lower
  bits (`CoversDouble`).
* Building again (`RehashFills`, `MergeKeeps`).  The loops are recursive functions of
  the model; bounded induction (`FiniteInduction`) shows what they leave behind.
* The arrays (`RightCap`, `RightArray`).  The strings and the arrays of providers end
  with a whole block, or the arrays are not there yet; so an array is extended exactly
  when an id begins a new block (`NextBlock`), also after many ids at once.

Each of the proofs of `Sat` has one lemma per group of actions (`AssertionsTrail`,
`PropagateWatch`, `AnalyzeLearn`, ...) with a step per action.  The learnt rules'
status and what they rest on are recursive functions of the model;
`StatusExists`, `RestsExists` and `ChoicesExist` show by a least counterexample
that such a function exists for every bound, and the lemmas after them what it
computes.

Assumptions used: `NSolvablesAssumption` (there is the system solvable),
`RunInstancesAssumption` and `OneChoiceAssumption` for `SolverRun`,
`InstancesAssumption` (what rules.c guarantees of a rule set: literals of
existing packages, watches on literals of the rule, package rules with a negative
literal; choice rules are weak, `rules.c:3638`; policy rules are turned off by
jobs only and none of them belongs to a job, `solver_reenablepolicyrules` and
`jobtodisablelist` in `rules.c`; an orphan that is preferred has no feature rule
of its own, `problems.c:283`), `MaxChoicesAssumption`, `GraphsAssumption`
(`addsolvableedges` gives edges between elements only, with the types it may
give; no repository is the null pointer that `lastrepo` starts with; of the graphs
of a transaction this is proved, `GraphFacts`), `InputsAssumption` (the solver
decides each package once; no pattern or patch is installed; dependencies name
packages of the pool), `ModesAssumption`, `IdsAssumption` (hashes are numbers; the
strings of a new pool differ and begin with the empty one).  TLC evaluates them
on every run.

Only model-checked: the properties of the other modules; liveness (no temporal
prover for fairness), the other refinements, and everything with recursion over data.

## 7. Not modelled

* `decision.c`, `userinstalled.c`, `solverdebug.c`, texts of rules, problems,
  jobs and selections: they read a finished solver and change nothing.
* `conda.c` and the canonical form of Haiku; PTF packages and the callbacks of
  `suse.c`; the parsing of architecture, vendor and filter tables: their results
  are attributes of packages.
* In `repodata.c`: setters that only take a string apart (locations, source
  packages, checksums), jumping and seeking iterators, string matching (a
  pattern is the set of what it matches), compaction of unused attribute data.
* In `repo_write.c` and `repo_solv.c`: the user data block and the checksum.
* Queues, maps and sorting: sequences, sets and functions.  Statistics, debug
  output, memory management.
* Free decisions record reason 0; in the code it is minus the rule that led to
  the decision, which only explanations use.  `SolverRun` takes
  `solver_check_cleandeps_mistakes` to find none; `SolverSolve` models it.
* `Sat` takes any choice of candidates where the code asks policy.c; `Policy` is
  used by the rules that are made with it.
* Parsers and writers of ext/ (all but file conflicts), tools and bindings: pure I/O or generated.
* Checksums: out of TLC's reach.

`PROJECT.json` has the same part by part.

## 8. What is left to prove

1. Invariants of modules without recursive operators: that both page tables of
   `Repopage` name the same places (`TablesAgree`), the steps of `AttrStore`,
   `DepArray`.
2. Type invariants of the other modules.

Modules from `World` on and `Evr`, `DataIter` use recursive operators (version
strings, nested dependencies, the structure of a repository) and stay with TLC.
