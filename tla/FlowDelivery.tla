---------------------------- MODULE FlowDelivery ----------------------------
(***************************************************************************)
(* From the upload of a flow package to the run that executes it: a run    *)
(* asks the registry for its version, and loads the package from object    *)
(* storage through the cache.                                              *)
(***************************************************************************)
EXTENDS FlowRegistry

CONSTANT Loads

VARIABLES load, thread, files, faults

C == INSTANCE FlowCache WITH Directories <- Versions, Nowhere <- None

cacheVars == <<load, thread, files, faults>>

vars == <<registryVars, cacheVars>>

Init == RegistryInit /\ C!CacheInit

\* A lease names a version; the engine takes what the registry makes of it.
Resolve(l, n) ==
    /\ Executable(Resolved(n))
    /\ C!BeginLoad(l, Resolved(n))
    /\ UNCHANGED registryVars

Fetch(l) ==
    /\ load[l].dir # None
    /\ C!Fetch(l, packageKey[load[l].dir] \in stored \ damaged)
    /\ UNCHANGED registryVars

Crash == RegistryCrash /\ C!CacheCrash

Next ==
    \/ RegistryStep /\ UNCHANGED cacheVars
    \/ C!CacheStep /\ UNCHANGED registryVars
    \/ \E l \in Loads : Fetch(l) \/ \E n \in Numbers : Resolve(l, n)
    \/ Crash

Spec == Init /\ [][Next]_vars

-----------------------------------------------------------------------------
(* Correctness                                                             *)

TypeOK == RegistryTypeOK /\ C!CacheTypeOK

\* A cache that passes for valid is whole (FlowCache).
ValidIsWhole == C!ValidIsWhole

\* A load that reads is not disturbed (FlowCache).
ReadersUndisturbed == C!ReadersUndisturbed

\* A load that is not cut short by an outage or for want of a newer engine
\* (UNAVAILABLE, of which nothing is claimed) gets the version the run was
\* given, even when the version is deprecated or disabled, its flow disabled or
\* others uploaded meanwhile: it finds the content wrong or gone only after
\* damage in storage or on disk, or by a thread that outlived its load.
RunsCanLoad ==
    \A l \in Loads :
        load[l].at = "FAILED" =>
            \/ packageKey[load[l].dir] \in damaged
            \/ faults \cap {"orphan", "decay", "rot"} # {}
=============================================================================
