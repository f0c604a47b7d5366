--------------------------- MODULE MCSolverSolve ---------------------------
(***************************************************************************)
(* Small pools for SolverSolve.  Version 2v + r is version v, release r.   *)
(***************************************************************************)
EXTENDS SolverSolve

Plain == [name |-> "-", evr |-> 2, arch |-> "a2", vendor |-> "v1", repo |-> "r1", build |-> 1,
          disabled |-> FALSE, kind |-> "", provides |-> <<>>, requires |-> <<>>, ignoreinst |-> <<>>,
          conflicts |-> <<>>, obsoletes |-> <<>>, recommends |-> <<>>, suggests |-> <<>>,
          supplements |-> <<>>, enhances |-> <<>>, constrains |-> <<>>,
          link |-> [app |-> NoDep, pkg |-> "-", prv |-> NoDep, bt |-> 0, ref |-> <<>>],
          features |-> 0, urpm |-> [kernel |-> "-", locale |-> "-"], visible |-> TRUE]
SystemPkg == [Plain EXCEPT !.name = "system", !.arch = "noarch", !.repo = "none"]
Inst(n, e) == [Plain EXCEPT !.name = n, !.evr = e, !.repo = "inst"]
New(n, e) == [Plain EXCEPT !.name = n, !.evr = e]
Other(n, e) == [Plain EXCEPT !.name = n, !.evr = e, !.repo = "r2", !.vendor = "v2"]

D(n) == NameDep(n)
Ge(n, v) == [n |-> n, lo |-> v, hi |-> 9]
Le(n, v) == [n |-> n, lo |-> 0, hi |-> v]
Eq(n, v) == [n |-> n, lo |-> v, hi |-> v]
Rich(op, a, b) == [op |-> op, a |-> a, b |-> b]

NamesIn(pkgs) == SetToSortSeq({pkgs[i].name : i \in DOMAIN pkgs},
                              LAMBDA x, y : (CHOOSE i \in DOMAIN pkgs : pkgs[i].name = x)
                                              < (CHOOSE i \in DOMAIN pkgs : pkgs[i].name = y))
Pool(pkgs, opt) ==
  [pkgs |-> <<SystemPkg>> \o pkgs,
   score |-> [noarch |-> 1, a1 |-> 102, a2 |-> 201, bad |-> 0, src |-> 0],
   color |-> [noarch |-> {1, 2}, a1 |-> {1}, a2 |-> {2}, bad |-> {1, 2}, src |-> {1, 2}],
   prio |-> [inst |-> 0, none |-> 0, r1 |-> 0, r2 |-> 1], sub |-> [inst |-> 0, none |-> 0, r1 |-> 0, r2 |-> 0],
   vclass |-> [v1 |-> {1}, v2 |-> {2}], names |-> NamesIn(<<SystemPkg>> \o pkgs), ns |-> {}, opt |-> opt]

Job(op, sel, what) == [op |-> op, sel |-> sel, what |-> what, flags |-> {}]
Flagged(j, f) == [j EXCEPT !.flags = f]

(***************************************************************************)
(* Dependencies of every kind, and an installed package that is broken.    *)
(***************************************************************************)
DepPkgsWorld == <<
  [Inst("a", 2) EXCEPT !.requires = <<D("lib"), D("gone")>>],
  [Inst("lib", 2) EXCEPT !.conflicts = <<Ge("x", 4)>>],
  [New("a", 4) EXCEPT !.requires = <<Rich("and", D("lib"), Rich("or", D("x"), D("y")))>>],
  [New("lib", 4) EXCEPT !.obsoletes = <<Le("y", 2)>>, !.recommends = <<D("y")>>],
  [New("x", 2) EXCEPT !.conflicts = <<Rich("and", D("a"), D("z"))>>, !.supplements = <<D("lib")>>],
  [New("y", 2) EXCEPT !.requires = <<Rich("cond", Ge("lib", 3), D("a"))>>, !.provides = <<Eq("x", 4)>>], New("z", 2)>>
DepJobs == {<<>>,
            <<Job("install", "name", D("a")), Flagged(Job("install", "provides", D("x")), {"weak"})>>,
            <<Job("install", "solvable", 7), Job("verify", "all", 0)>>,
            <<Job("multiversion", "name", D("lib")), Job("install", "solvable", 5)>>,
            <<Job("erase", "name", D("y")), Job("install", "solvable", 5)>>,
            <<Job("erase", "name", Eq("lib", 2)), Job("weakendeps", "solvable", 4)>>,
            <<Job("erase", "provides", Rich("and", D("a"), D("lib"))), Job("lock", "name", D("lib"))>>}
DepCase == [world |-> Pool(DepPkgsWorld, {}), jobs |-> DepJobs,
            flags |-> {"strongrecommends", "keepexplicitobsoletes"}]

(***************************************************************************)
(* Two architectures and two vendors: inferior architectures, distribution *)
(* upgrade, orphaned packages, multiversion packages.                      *)
(***************************************************************************)
ArchPkgs == <<
  [Inst("a", 2) EXCEPT !.requires = <<D("lib")>>],
  [Inst("lib", 2) EXCEPT !.arch = "a1"],
  [Inst("old", 2) EXCEPT !.requires = <<D("gone"), D("lib")>>],
  [Other("a", 4) EXCEPT !.conflicts = <<D("old")>>],
  [New("a", 4) EXCEPT !.arch = "a1"],
  [New("lib", 2) EXCEPT !.arch = "a1"],
  [New("lib", 4) EXCEPT !.obsoletes = <<D("dead")>>]>>
ArchJobs == {<<Job("distupgrade", "all", 0), Job("lock", "name", D("a"))>>,
             <<Job("distupgrade", "repo", "r2"), Job("install", "solvable", 6)>>,
             <<Flagged(Job("install", "name", Rich("arch", D("a"), D("a1"))), {"forcebest"}),
               Job("install", "solvable", 6), Job("erase", "solvable", 3)>>,
             <<Flagged(Job("update", "all", 0), {"forcebest"}), Job("multiversion", "name", D("lib")),
               Job("droporphaned", "all", 0)>>,
             <<Flagged(Job("update", "name", D("a")), {"targeted"}), Job("favor", "name", D("lib"))>>}
ArchCase == [world |-> Pool(ArchPkgs, {"breakorphans"}), jobs |-> ArchJobs,
             flags |-> {"implicitobsoleteusescolors", "dup_allow_vendorchange"}]

(***************************************************************************)
(* What a package brought with it: requires, recommends and supplements.   *)
(***************************************************************************)
CleanPkgs == <<
  [Inst("app", 2) EXCEPT !.requires = <<D("lib")>>, !.recommends = <<D("doc")>>],
  [Inst("lib", 2) EXCEPT !.requires = <<D("base")>>],
  Inst("base", 2), Inst("doc", 2),
  [Inst("lang", 2) EXCEPT !.supplements = <<Rich("and", D("app"), D("doc"))>>],
  [Inst("tool", 2) EXCEPT !.requires = <<D("base")>>],
  [New("app", 4) EXCEPT !.requires = <<D("base")>>, !.obsoletes = <<D("doc")>>]>>
Clean(j) == Flagged(j, {"cleandeps"})
CleanJobs == {<<Clean(Job("erase", "name", D("app")))>>,
              <<Clean(Job("erase", "name", D("tool"))), Job("userinstalled", "name", D("lib"))>>,
              <<Clean(Job("install", "solvable", 8)), Job("userinstalled", "name", D("doc"))>>,
              <<Clean(Job("update", "name", D("app"))), Job("allowuninstall", "all", 0)>>,
              <<Clean(Job("erase", "name", D("app"))), Job("erase", "name", D("base")), Job("lock", "name", D("lang"))>>}
CleanCase == [world |-> Pool(CleanPkgs, {}), jobs |-> CleanJobs, flags |-> {}]

(***************************************************************************)
(* Rules that steer: best, choice, yum obsoletes, blacklist, strict        *)
(* repository priorities, favored and disfavored packages.                 *)
(***************************************************************************)
SteerPkgs == <<
  [Inst("a", 2) EXCEPT !.requires = <<D("cap")>>],
  [Inst("p", 2) EXCEPT !.provides = <<Eq("cap", 2)>>],
  [New("a", 4) EXCEPT !.requires = <<D("cap")>>, !.recommends = <<D("q")>>],
  [New("p", 4) EXCEPT !.provides = <<Eq("cap", 4)>>],
  [New("q", 4) EXCEPT !.provides = <<Eq("cap", 4)>>, !.obsoletes = <<D("p")>>],
  [New("s", 4) EXCEPT !.obsoletes = <<D("p")>>],
  Other("q", 2)>>
SteerJobs == {<<Flagged(Job("update", "all", 0), {"forcebest"}), Job("disfavor", "solvable", 6)>>,
              <<Flagged(Job("install", "name", D("q")), {"forcebest"}), Job("blacklist", "name", D("s"))>>,
              <<Job("install", "solvable", 8), Job("blacklist", "solvable", 8), Job("lock", "solvable", 3)>>,
              <<Job("install", "solvable", 4), Job("favor", "name", D("q")), Job("excludefromweak", "name", D("s"))>>}
SteerCase == [world |-> Pool(SteerPkgs, {"strongrecommends"}), jobs |-> SteerJobs,
              flags |-> {"yum_obsoletes", "strict_repo_priority", "allow_uninstall"}]

(***************************************************************************)
(* Pseudo packages: a pattern and an application with their packages, a    *)
(* patch against a multiversion package, conda constraints.                *)
(***************************************************************************)
PatternLinkTo(n) == [Plain.link EXCEPT !.pkg = n, !.prv = D("pat")]
AppLinkTo(n) == [Plain.link EXCEPT !.pkg = n, !.prv = D("apps")]
LinkPkgs == <<
  [Inst("pattern:x", 2) EXCEPT !.kind = "pattern", !.link = PatternLinkTo("patterns-x"), !.provides = <<D("pat")>>],
  [Inst("patterns-x", 2) EXCEPT !.kind = "patternpkg"],
  [New("pattern:x", 4) EXCEPT !.kind = "pattern", !.link = PatternLinkTo("patterns-x"), !.provides = <<D("pat")>>],
  [New("patterns-x", 4) EXCEPT !.kind = "patternpkg"],
  [New("application:v", 4) EXCEPT !.kind = "application", !.link = AppLinkTo("k"), !.provides = <<D("apps")>>],
  [New("k", 4) EXCEPT !.constrains = <<Ge("patterns-x", 4)>>],
  [New("patch:1", 2) EXCEPT !.kind = "patch", !.conflicts = <<Le("patterns-x", 3)>>, !.enhances = <<D("k")>>]>>
LinkJobs == {<<Job("erase", "name", D("patterns-x")), Job("install", "solvable", 7)>>,
             <<Job("install", "solvable", 8), Job("multiversion", "name", D("patterns-x"))>>,
             <<Job("lock", "solvable", 3), Job("install", "name", D("k"))>>}
LinkCase == [world |-> Pool(LinkPkgs, {}), jobs |-> LinkJobs, flags |-> {"conda"}]

AllCases == {DepCase, ArchCase, CleanCase, SteerCase, LinkCase}
SteerCases == {SteerCase}
=============================================================================
