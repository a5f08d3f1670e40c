------------------------ MODULE MCBusinessProcesses ------------------------
(***************************************************************************)
(* An instance of BusinessProcesses for TLC: three sub-tasks, and a fourth *)
(* for what an order needs it for, a second contract.                      *)
(***************************************************************************)
EXTENDS BusinessProcesses, TLC

CONSTANTS c1, c2, line1, line2

Symmetry == Permutations(Callers)

\* The fourth sub-task is a contract, made by one request at a time.
FourthFilesAgain ==
    taskType'[4] # NoType =>
        /\ IsOrder /\ taskType'[4] = O!Archive
        /\ \E u \in Callers : \A v \in Callers \ {u} : request[v] = Idle /\ request'[v] = Idle

BoundedSpec == Init /\ [][Next /\ FourthFilesAgain]_<<subTaskVars, kind>>
=============================================================================
