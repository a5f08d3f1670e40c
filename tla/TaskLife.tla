------------------------------ MODULE TaskLife ------------------------------
(***************************************************************************)
(* What the rest of the service sees of dispatch: the status of each       *)
(* automation task, and who moves it.  A poll of a worker may take several *)
(* tasks back at once, give some up and grant one; a report is the one     *)
(* step at which the business process a task belongs to is told a result;  *)
(* everything a client does at the task centre happens behind its back.    *)
(*                                                                         *)
(* TaskDispatch implements this with runs and leases (ExclusiveDispatch);  *)
(* the business processes are built on top of it (SubTasks).               *)
(***************************************************************************)
EXTENDS Naturals, FiniteSets

CONSTANT Tasks

VARIABLE taskStatus     \* automation_tasks.status; "NONE" before creation

LifeStatuses ==
    {"NONE", "DRAFT", "READY", "QUEUED", "RUNNING", "WAITING_HUMAN",
     "HUMAN_OPERATING", "SUCCESS", "SUCCESS_MANUAL", "FAILED", "CANCELLED"}

Reports == {"SUCCESS", "FAILED", "WAITING_HUMAN", "CANCELLED"}

\* What a client can make of a task: submit, start, retry, cancel, mark done
\* by hand; open, confirm and cancel the human action it waits for.
ClientMoves(s) ==
    CASE s = "DRAFT"           -> {"READY", "QUEUED", "CANCELLED"}
      [] s = "READY"           -> {"QUEUED", "CANCELLED"}
      [] s = "QUEUED"          -> {"CANCELLED"}
      [] s = "RUNNING"         -> {"QUEUED", "CANCELLED"}
      [] s = "WAITING_HUMAN"   -> {"HUMAN_OPERATING", "SUCCESS_MANUAL", "CANCELLED"}
      [] s = "HUMAN_OPERATING" -> {"SUCCESS_MANUAL", "CANCELLED"}
      [] s = "FAILED"          -> {"READY", "QUEUED"}
      [] OTHER                 -> {}

LifeInit == taskStatus = [t \in Tasks |-> "NONE"]

Create(t) ==
    /\ taskStatus[t] = "NONE"
    /\ \E s \in {"DRAFT", "QUEUED"} : taskStatus' = [taskStatus EXCEPT ![t] = s]

ByClient(t) ==
    \E s \in ClientMoves(taskStatus[t]) : taskStatus' = [taskStatus EXCEPT ![t] = s]

\* The statuses once the tasks of released have lost their worker.
Requeued(released) ==
    [t \in Tasks |->
        IF t \in released /\ taskStatus[t] = "RUNNING" THEN "QUEUED" ELSE taskStatus[t]]

\* One lease_task call: expired tasks are queued again, queued ones whose
\* settings are invalid are given up, and at most one is granted.
Poll(released, dropped, granted) ==
    /\ \A t \in dropped \cup granted : Requeued(released)[t] = "QUEUED"
    /\ dropped \cap granted = {}
    /\ \A t, u \in granted : t = u
    /\ taskStatus' =
          [t \in Tasks |->
              IF t \in granted THEN "RUNNING"
              ELSE IF t \in dropped THEN "CANCELLED"
              ELSE Requeued(released)[t]]

\* A FINISH: only a running task has a result. A worker whose task was queued
\* again under its feet can still cancel it.
MayReport(t, o) == taskStatus[t] = "RUNNING" \/ (taskStatus[t] = "QUEUED" /\ o = "CANCELLED")

Reported(t, o) == [taskStatus EXCEPT ![t] = o]
=============================================================================
