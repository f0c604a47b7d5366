-------------------------------- MODULE Pool --------------------------------
(***************************************************************************)
(* What an application does with a pool: add the file provides, build and  *)
(* free the index of providers, ask it, change what namespaces answer, and *)
(* add the conflicts on files that it finds.  conf are those conflicts,    *)
(* <<p, q, relation>>; asks the dependencies it asks for; own the provides *)
(* of the packages without the files that get added.                       *)
(***************************************************************************)
EXTENDS Provides

CONSTANTS Pools,      \* the pools to start with
          MaxSteps    \* bound on the operations
VARIABLES pool, step
poolVars == <<pool, step>>

PoolInit == pool \in Pools /\ step = 0
Do(pl) == step < MaxSteps /\ step' = step + 1 /\ pool' = pl

AddFileProvides == \E filtered \in pool.filtered : pool.afp = 0 /\ Do(AddfileprovidesQueue(pool, filtered))
CreateWhatprovides == Do(Createwhatprovides(pool))
FreeWhatprovides == pool.index.built /\ Do(Freewhatprovides(pool))
SetInstalled == \E r \in DOMAIN pool.areas : pool.inst # r /\ Do(Freewhatprovides([pool EXCEPT !.inst = r]))
Ask == pool.index.built /\ \E d \in pool.asks : Offset(pool, d) = 0 /\ Do(Whatprovides(pool, d))
Consider == \E p \in pool.bad : Do(Createwhatprovides([pool EXCEPT !.bad = @ \ {p}]))
\* the application has a new answer and flushes the lists made from the old one
NewNamespaceAnswer ==
    \E r \in DOMAIN pool.ns, ans \in {<<>>, <<System>>, <<2, 3>>}, exact \in BOOLEAN :
        /\ pool.index.built /\ pool.ns[r] # ans
        /\ Do(FlushNamespaceproviders([pool EXCEPT !.ns[r] = ans], pool.rels[r].name, IF exact THEN pool.rels[r].evr ELSE 0))
SetNamespace ==
    \E r \in DOMAIN pool.ns, o \in 1..2 :
        pool.index.built /\ Do([SetWhatprovides(pool, -r, o) EXCEPT !.set[r] = o])
AddFileConflict == \E c \in pool.conf : Do([AddFileconflictsDep(pool, c[1], c[2], c[3]) EXCEPT !.conf = @ \ {c}, !.asks = @ \cup {c[3]}])

PoolNext == \/ AddFileProvides \/ CreateWhatprovides \/ FreeWhatprovides \/ SetInstalled \/ Ask
            \/ Consider \/ NewNamespaceAnswer \/ SetNamespace \/ AddFileConflict
PoolSpec == PoolInit /\ [][PoolNext]_poolVars

(***************************************************************************)
(* Every list of the index that is there holds exactly the packages that   *)
(* provide its dependency, by their ids and each once, whatever was asked  *)
(* before and changed since.                                               *)
(***************************************************************************)
ProvidersExact ==
    pool.index.built =>
        /\ \A s \in Strings : pool.index.wp[s] # 0 => ListOf(pool, s) = Ascending(ProviderSet(pool, s))
        /\ \A r \in DOMAIN pool.rels : pool.index.wprel[r] # 0 => ListOf(pool, -r) = Ascending(ProviderSet(pool, -r))

(***************************************************************************)
(* After pool_addfileprovides a package provides a file some dependency    *)
(* names exactly if its file list has it; files that are left to the index *)
(* aside.  An earlier call may have added some of them already.            *)
(***************************************************************************)
FilesProvided ==
    pool.afp # 0 =>
        \A p \in Solvables(pool), f \in DepFiles(pool) \ ToSet(pool.nonstd) :
            In(f, pool.solv[p].provides) <=> f \in FilesOf(pool, p) \/ In(f, pool.own[p])
=============================================================================
