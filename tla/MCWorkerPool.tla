---------------------------- MODULE MCWorkerPool ----------------------------
(***************************************************************************)
(* Instances of WorkerPool for TLC.                                        *)
(***************************************************************************)
EXTENDS WorkerPool, TLC

CONSTANTS l1, l2, r1

\* Two leases of one run: an execution and its repetition.
OneRun == l1 :> r1 @@ l2 :> r1

\* Engines are interchangeable, and so are the leases of one run.
Symmetry == Permutations(Engines) \cup Permutations(Leases)
=============================================================================
