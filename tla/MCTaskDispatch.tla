--------------------------- MODULE MCTaskDispatch ---------------------------
(* Instances of TaskDispatch for TLC.                                      *)
EXTENDS TaskDispatch, TLC

CONSTANTS l1, l2, l3, l4, w1, w2, login

\* Every status from which the transition table leads to QUEUED.
AnyStart == {"DRAFT", "READY", "RUNNING", "FAILED"}

\* The statuses in which the Electron client offers the start button, and the
\* one from which a retry is offered.
ClientStart == {"DRAFT", "READY", "FAILED"}

AllOutcomes == FinishStatuses

\* No BOE task; all tasks sharing one portal login.
NoLogins   == [t \in Tasks |-> NoLogin]
OneLogin   == [t \in Tasks |-> login]

AllChained == Tasks

\* Lease and worker identifiers are interchangeable.
IdSymmetry == Permutations(Leases) \cup Permutations(Workers)

-----------------------------------------------------------------------------
(* Liveness with finitely many lease identifiers, of which the code never runs *)
(* out: the identifier of a lease that is over is used again once its holder   *)
(* has no more to say, so that leases may expire any number of times. What a   *)
(* run remembers of it, runLease and leaseWorker, stays until the run's next   *)
(* lease; with one worker it is no different then.                             *)

Recycle(l) ==
    /\ leaseState[l] = "DELETED"
    /\ leaseState' = [leaseState EXCEPT ![l] = "UNUSED"]
    /\ leaseRun' = [leaseRun EXCEPT ![l] = NoRun]
    /\ outcome' = [outcome EXCEPT ![l] = "NONE"]
    /\ UNCHANGED <<taskVars, runVars, leaseWorker, workerRun, config>>

LiveSpec ==
    /\ Init /\ [][Next \/ \E l \in Leases : Recycle(l)]_vars
    /\ Fairness /\ SomeHolderReports
    /\ \A l \in Leases : WF_vars(Recycle(l))
=============================================================================
