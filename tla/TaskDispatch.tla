---------------------------- MODULE TaskDispatch ----------------------------
(***************************************************************************)
(* The Task service's side of dispatch: automation tasks, their runs, the  *)
(* leases workers hold on them, the human actions a run may wait for and   *)
(* the successor jobs a successful run leaves behind.                      *)
(*                                                                         *)
(* Every HTTP handler of service/app/services/{dispatch,automation_task,   *)
(* human_action}_service.py that changes state is one action, executed as  *)
(* the single database transaction it is: handlers are serialised here.    *)
(* What unlocked reads let overlapping handlers do to each other is not    *)
(* part of this module.                                                    *)
(*                                                                         *)
(* The worker side is reduced to what it can send: for each lease at most  *)
(* one FINISH, which may be delivered late, any number of times, or never. *)
(*                                                                         *)
(* A definition named Faulty... is a variant of the one that follows it    *)
(* with a bug the code could have had; no action uses it. They show that   *)
(* the properties notice such bugs.                                        *)
(***************************************************************************)
EXTENDS Naturals, FiniteSets

CONSTANTS
    NumTasks,       \* bound: tasks, numbered in the order of created_at
    MaxRuns,        \* bound: runs created for one task
    Leases,         \* lease identifiers (lease_id, a fresh uuid per grant)
    Workers,        \* worker_id of the registered workers
    NoLease, NoWorker,
    LoginOf,        \* login account of the task's portal if it is a BOE task
    NoLogin,        \* ... and this value if it is not
    Chained,        \* tasks whose binding configures a successor
    StartFrom,      \* task statuses in which clients call POST /tasks/{id}/start
    Outcomes,       \* statuses a worker may report with FINISH
    MaxCandidates,  \* _MAX_LEASE_CANDIDATES
    MaxConfigs      \* bound: versions of binding/portal/template settings

Tasks == 1..NumTasks
Runs  == Tasks \X (1..MaxRuns)
NoRun == <<0, 0>>
TaskOf(r) == r[1]
Configs == 1..MaxConfigs

FinishStatuses == {"SUCCESS", "FAILED", "WAITING_HUMAN", "CANCELLED"}

ASSUME BoundsAssumption ==
    /\ NumTasks \in Nat /\ MaxRuns \in Nat
    /\ MaxCandidates \in Nat /\ MaxConfigs \in Nat \ {0}
ASSUME NullsAssumption == NoLease \notin Leases /\ NoWorker \notin Workers
ASSUME InputsAssumption == Chained \subseteq Tasks /\ Outcomes \subseteq FinishStatuses

VARIABLES
    taskStatus,     \* automation_tasks.status; "NONE" before creation
    runStatus,      \* rpa_runs.status; "NONE" before creation
    runLease,       \* rpa_runs.lease_id: the last lease granted for the run
    runCommand,     \* rpa_runs.command_snapshot: the settings it was built from, 0 if none
    leaseState,     \* worker_leases: LIVE, EXPIRED (past lease_expires_at), DELETED
    leaseRun,       \* worker_leases.run_id
    leaseWorker,    \* worker_leases.worker_id
    workerRun,      \* rpa_workers.current_run_id
    actionStatus,   \* human_actions.status of the run's action
    successorJobs,  \* runs for which a task_successor_jobs row exists
    outcome,        \* the status the holder of a lease reports with FINISH
    config          \* current version of the settings commands are built from

taskVars  == <<taskStatus, actionStatus, successorJobs>>
runVars   == <<runStatus, runLease, runCommand>>
leaseVars == <<leaseState, leaseRun, leaseWorker>>
vars == <<taskVars, runVars, leaseVars, workerRun, outcome, config>>

-----------------------------------------------------------------------------
(* Task status machine                                                     *)

TaskStatuses ==
    {"DRAFT", "READY", "QUEUED", "LEASED", "RUNNING", "WAITING_HUMAN",
     "HUMAN_OPERATING", "SUCCESS", "SUCCESS_MANUAL", "FAILED", "CANCELLED"}

\* PARTIAL_SUCCESS, which no handler ever assigns, is left out.
Transitions ==
    [s \in TaskStatuses |->
        CASE s = "DRAFT"           -> {"READY", "CANCELLED"}
          [] s = "READY"           -> {"QUEUED", "DRAFT", "CANCELLED"}
          [] s = "QUEUED"          -> {"LEASED", "CANCELLED"}
          [] s = "LEASED"          -> {"RUNNING", "QUEUED", "CANCELLED"}
          [] s = "RUNNING"         -> {"QUEUED", "WAITING_HUMAN", "SUCCESS", "FAILED", "CANCELLED"}
          [] s = "WAITING_HUMAN"   -> {"HUMAN_OPERATING", "SUCCESS_MANUAL", "FAILED", "CANCELLED"}
          [] s = "HUMAN_OPERATING" -> {"SUCCESS_MANUAL", "FAILED", "CANCELLED"}
          [] s = "FAILED"          -> {"READY", "QUEUED"}
          [] OTHER                 -> {}]

FaultyCanTransition(s, target) == s \in TaskStatuses /\ target \in TaskStatuses

CanTransition(s, target) == s \in TaskStatuses /\ target \in Transitions[s]

RunStatuses      == {"QUEUED", "RUNNING"} \cup FinishStatuses
FaultyTerminalRun == FinishStatuses \ {"WAITING_HUMAN"}
TerminalRun      == FinishStatuses
FaultyCancellableRun == {"QUEUED", "WAITING_HUMAN"}
CancellableRun   == {"QUEUED", "RUNNING", "WAITING_HUMAN"}
BusyStatuses     == {"LEASED", "RUNNING", "WAITING_HUMAN"}
ActiveActions    == {"PENDING", "OPENED"}
ActionStatuses   == ActiveActions \cup {"CONFIRMED", "CANCELLED"}

\* Runs a lease would execute: the handler looks for the task's QUEUED or
\* RUNNING run and expects at most one.
ActiveRuns(t) == {r \in Runs : TaskOf(r) = t /\ runStatus[r] \in {"QUEUED", "RUNNING"}}

\* A lease row that is not soft-deleted.
Held(l) == leaseState[l] \in {"LIVE", "EXPIRED"}

LeaseTaskOf(l) == TaskOf(leaseRun[l])

Init ==
    /\ taskStatus = [t \in Tasks |-> "NONE"]
    /\ runStatus = [r \in Runs |-> "NONE"]
    /\ runLease = [r \in Runs |-> NoLease]
    /\ runCommand = [r \in Runs |-> 0]
    /\ leaseState = [l \in Leases |-> "UNUSED"]
    /\ leaseRun = [l \in Leases |-> NoRun]
    /\ leaseWorker = [l \in Leases |-> NoWorker]
    /\ workerRun = [w \in Workers |-> NoRun]
    /\ actionStatus = [r \in Runs |-> "NONE"]
    /\ successorJobs = {}
    /\ outcome = [l \in Leases |-> "NONE"]
    /\ config = 1

-----------------------------------------------------------------------------
(* Client requests                                                         *)

NextTask(t) == taskStatus[t] = "NONE" /\ \A u \in 1..(t - 1) : taskStatus[u] # "NONE"

\* The row the next RpaRun(...) of task t becomes.
FreshRun(t, r) ==
    /\ TaskOf(r) = t /\ runStatus[r] = "NONE"
    /\ \A k \in 1..(r[2] - 1) : runStatus[<<t, k>>] # "NONE"

CreateTask(t) ==
    /\ NextTask(t)
    /\ taskStatus' = [taskStatus EXCEPT ![t] = "DRAFT"]
    /\ UNCHANGED <<actionStatus, successorJobs, runVars, leaseVars, workerRun, outcome, config>>

\* Business processes create their sub-tasks already queued, with a run.
CreateQueuedTask(t) ==
    /\ NextTask(t)
    /\ taskStatus' = [taskStatus EXCEPT ![t] = "QUEUED"]
    /\ \E r \in Runs :
          /\ FreshRun(t, r)
          /\ runStatus' = [runStatus EXCEPT ![r] = "QUEUED"]
    /\ UNCHANGED <<actionStatus, successorJobs, runLease, runCommand, leaseVars,
                   workerRun, outcome, config>>

SubmitTask(t) ==
    /\ CanTransition(taskStatus[t], "READY")
    /\ taskStatus' = [taskStatus EXCEPT ![t] = "READY"]
    /\ UNCHANGED <<actionStatus, successorJobs, runVars, leaseVars, workerRun, outcome, config>>

\* The handler's only check is the transition itself (a DRAFT task is made
\* READY on the way), and RUNNING -> QUEUED is allowed: starting a running
\* task queues it again, with a second run, under the holder's feet.
StartTask(t) ==
    /\ taskStatus[t] \in StartFrom
    /\ taskStatus[t] = "DRAFT" \/ CanTransition(taskStatus[t], "QUEUED")
    /\ taskStatus' = [taskStatus EXCEPT ![t] = "QUEUED"]
    /\ \E r \in Runs :
          /\ FreshRun(t, r)
          /\ runStatus' = [runStatus EXCEPT ![r] = "QUEUED"]
    /\ UNCHANGED <<actionStatus, successorJobs, runLease, runCommand, leaseVars,
                   workerRun, outcome, config>>

RetryTask(t) ==
    /\ taskStatus[t] = "FAILED"
    /\ taskStatus' = [taskStatus EXCEPT ![t] = "QUEUED"]
    /\ \E r \in Runs :
          /\ FreshRun(t, r)
          /\ runStatus' = [runStatus EXCEPT ![r] = "QUEUED"]
    /\ UNCHANGED <<actionStatus, successorJobs, runLease, runCommand, leaseVars,
                   workerRun, outcome, config>>

\* Neither the lease, nor the worker, nor a pending human action is touched.
CancelTask(t) ==
    /\ CanTransition(taskStatus[t], "CANCELLED")
    /\ taskStatus' = [taskStatus EXCEPT ![t] = "CANCELLED"]
    /\ runStatus' = [r \in Runs |->
          IF TaskOf(r) = t /\ runStatus[r] \in CancellableRun
          THEN "CANCELLED" ELSE runStatus[r]]
    /\ UNCHANGED <<actionStatus, successorJobs, runLease, runCommand, leaseVars,
                   workerRun, outcome, config>>

\* RUNNING passes the handler's own check and fails the transition.
MarkSuccessManual(t) ==
    /\ taskStatus[t] \in {"WAITING_HUMAN", "HUMAN_OPERATING", "RUNNING"}
    /\ CanTransition(taskStatus[t], "SUCCESS_MANUAL")
    /\ taskStatus' = [taskStatus EXCEPT ![t] = "SUCCESS_MANUAL"]
    /\ UNCHANGED <<actionStatus, successorJobs, runVars, leaseVars, workerRun, outcome, config>>

\* The three human-action handlers move the action and its task together.
MoveAction(r, from, actionTo, taskTo) ==
    /\ actionStatus[r] \in from
    /\ CanTransition(taskStatus[TaskOf(r)], taskTo)
    /\ actionStatus' = [actionStatus EXCEPT ![r] = actionTo]
    /\ taskStatus' = [taskStatus EXCEPT ![TaskOf(r)] = taskTo]
    /\ UNCHANGED <<successorJobs, runVars, leaseVars, workerRun, outcome, config>>

FaultyConfirmHumanAction(r) ==
    MoveAction(r, {"PENDING", "OPENED"}, "CONFIRMED", "HUMAN_OPERATING")

OpenHumanAction(r)    == MoveAction(r, {"PENDING"}, "OPENED", "HUMAN_OPERATING")
ConfirmHumanAction(r) == MoveAction(r, {"PENDING", "OPENED"}, "CONFIRMED", "SUCCESS_MANUAL")
CancelHumanAction(r)  == MoveAction(r, ActiveActions, "CANCELLED", "CANCELLED")

\* An administrator edits the binding, the portal account or the template.
EditSettings ==
    /\ config < MaxConfigs
    /\ config' = config + 1
    /\ UNCHANGED <<taskVars, runVars, leaseVars, workerRun, outcome>>

-----------------------------------------------------------------------------
(* lease_task                                                              *)

\* What the transaction sees once _expire_stale_leases has run.
Expired == {l \in Leases : leaseState[l] = "EXPIRED"}

FaultyStatusAfterExpiry ==
    [t \in Tasks |->
        IF /\ taskStatus[t] = "LEASED"
           /\ \E l \in Expired : TaskOf(leaseRun[l]) = t
        THEN "QUEUED" ELSE taskStatus[t]]

FaultyRequeueStatus ==
    [t \in Tasks |->
        IF /\ taskStatus[t] \in {"LEASED", "RUNNING"}
           /\ \E l \in Expired : TaskOf(leaseRun[l]) = t
        THEN "LEASED" ELSE taskStatus[t]]

StatusAfterExpiry ==
    [t \in Tasks |->
        IF /\ taskStatus[t] \in {"LEASED", "RUNNING"}
           /\ \E l \in Expired : TaskOf(leaseRun[l]) = t
        THEN "QUEUED" ELSE taskStatus[t]]

LeasesAfterExpiry ==
    [l \in Leases |-> IF l \in Expired THEN "DELETED" ELSE leaseState[l]]

\* Runs left QUEUED by the cancellation of their task are cancelled too.
RunsAfterExpiry ==
    [r \in Runs |->
        IF runStatus[r] = "QUEUED" /\ StatusAfterExpiry[TaskOf(r)] = "CANCELLED"
        THEN "CANCELLED" ELSE runStatus[r]]

Queue == {t \in Tasks : StatusAfterExpiry[t] = "QUEUED"}

FaultyLoginBusy(t) ==
    /\ LoginOf[t] # NoLogin
    /\ \E u \in Tasks \ {t} :
          LoginOf[u] = LoginOf[t] /\ StatusAfterExpiry[u] \in {"LEASED", "RUNNING"}

\* Another BOE task with the same portal login is under way.
LoginBusy(t) ==
    /\ LoginOf[t] # NoLogin
    /\ \E u \in Tasks \ {t} :
          LoginOf[u] = LoginOf[t] /\ StatusAfterExpiry[u] \in BusyStatuses

\* One iteration of the loop per queued task, oldest first.
Candidates == {t \in Queue : Cardinality({u \in Queue : u < t}) < MaxCandidates}

\* invalid: the queued tasks whose binding, portal or credentials this call
\* finds disabled or incomplete.
Leasable(invalid) == {t \in Candidates \ invalid : ~LoginBusy(t)}

FaultyAnyRun(t, r) ==
    \/ r \in ActiveRuns(t)
    \/ ActiveRuns(t) = {} /\ FreshRun(t, r)

FaultyNewRun(t, r) == Cardinality(ActiveRuns(t)) <= 1 /\ FreshRun(t, r)

\* The QUEUED or RUNNING run of the task, or a new one. With two of them
\* scalar_one_or_none raises and the whole call is rolled back.
RunToExecute(t, r) ==
    \/ ActiveRuns(t) = {r}
    \/ ActiveRuns(t) = {} /\ FreshRun(t, r)

FaultyCommandFor(r) == config

\* The snapshot built for an earlier lease of the run is used again.
CommandFor(r) == IF runCommand[r] = 0 THEN config ELSE runCommand[r]

\* The tasks given up before the loop ends are those of dropped.
StatusAfterDrop(dropped) ==
    [t \in Tasks |-> IF t \in dropped THEN "CANCELLED" ELSE StatusAfterExpiry[t]]

RunsAfterDrop(dropped) ==
    [r \in Runs |->
        IF TaskOf(r) \in dropped /\ RunsAfterExpiry[r] \in {"QUEUED", "RUNNING"}
        THEN "CANCELLED" ELSE RunsAfterExpiry[r]]

\* The oldest leasable candidate t goes to worker w under the new lease l.
\* LEASED is passed through within the transaction.
Grant(w, t, r, l, invalid) ==
    LET dropped == {u \in Candidates \cap invalid : u < t} IN
    /\ t \in Leasable(invalid) /\ \A u \in Leasable(invalid) : t <= u
    /\ RunToExecute(t, r)
    /\ leaseState[l] = "UNUSED"
    /\ taskStatus' = [StatusAfterDrop(dropped) EXCEPT ![t] = "RUNNING"]
    /\ runStatus' = [RunsAfterDrop(dropped) EXCEPT ![r] = "RUNNING"]
    /\ runLease' = [runLease EXCEPT ![r] = l]
    /\ runCommand' = [runCommand EXCEPT ![r] = CommandFor(r)]
    /\ leaseState' = [LeasesAfterExpiry EXCEPT ![l] = "LIVE"]
    /\ leaseRun' = [leaseRun EXCEPT ![l] = r]
    /\ leaseWorker' = [leaseWorker EXCEPT ![l] = w]
    /\ workerRun' = [workerRun EXCEPT ![w] = r]
    /\ UNCHANGED <<actionStatus, successorJobs, outcome, config>>

\* Nothing can be leased, but candidates were passed over: the expiry and the
\* cancellations are committed. With no candidate at all nothing is committed,
\* not even the expiry.
NothingToGrant(invalid) ==
    LET dropped == Candidates \cap invalid IN
    /\ Leasable(invalid) = {} /\ Candidates # {}
    /\ taskStatus' = StatusAfterDrop(dropped)
    /\ runStatus' = RunsAfterDrop(dropped)
    /\ leaseState' = LeasesAfterExpiry
    /\ UNCHANGED <<actionStatus, successorJobs, runLease, runCommand, leaseRun,
                   leaseWorker, workerRun, outcome, config>>

LeaseTask(w) ==
    \E invalid \in SUBSET Queue :
        \/ NothingToGrant(invalid)
        \/ \E t \in Queue, r \in Runs, l \in Leases : Grant(w, t, r, l, invalid)

-----------------------------------------------------------------------------
(* Leases and callbacks                                                    *)

\* lease_expires_at passes: the holder did not renew in time. A renewal in
\* time (renew_lease) only postpones this and changes nothing else.
LeaseTimesOut(l) ==
    /\ leaseState[l] = "LIVE"
    /\ leaseState' = [leaseState EXCEPT ![l] = "EXPIRED"]
    /\ UNCHANGED <<taskVars, runVars, leaseRun, leaseWorker, workerRun, outcome, config>>

\* The holder of l has its result, and reports it whatever became of l.
ExecutionEnds(l, o) ==
    /\ leaseRun[l] # NoRun /\ outcome[l] = "NONE"
    /\ outcome' = [outcome EXCEPT ![l] = o]
    /\ UNCHANGED <<taskVars, runVars, leaseVars, workerRun, config>>

FaultyLeasesWithout(r) == leaseState

\* Soft-deletes every lease of the run.
LeasesWithout(r) ==
    [k \in Leases |-> IF leaseRun[k] = r /\ Held(k) THEN "DELETED" ELSE leaseState[k]]

\* The task status a FINISH asks for is the run status itself. The worker set
\* free is the run's current one (rpa_worker_id), and every lease of the run
\* goes, whoever sent the callback.
FinishRun(l) ==
    LET r == leaseRun[l]
        t == TaskOf(r)
        o == outcome[l]
    IN
    /\ o # "NONE"
    /\ runStatus[r] \notin TerminalRun
    /\ CanTransition(taskStatus[t], o)
    /\ runStatus' = [runStatus EXCEPT ![r] = o]
    /\ taskStatus' = [taskStatus EXCEPT ![t] = o]
    /\ successorJobs' = IF o = "SUCCESS" /\ t \in Chained
                        THEN successorJobs \cup {r} ELSE successorJobs
    /\ actionStatus' = IF o = "WAITING_HUMAN" /\ actionStatus[r] \notin ActiveActions
                       THEN [actionStatus EXCEPT ![r] = "PENDING"] ELSE actionStatus
    /\ workerRun' = [workerRun EXCEPT ![leaseWorker[runLease[r]]] = NoRun]
    /\ leaseState' = LeasesWithout(r)
    /\ UNCHANGED <<runLease, runCommand, leaseRun, leaseWorker, outcome, config>>

-----------------------------------------------------------------------------
TaskRequest ==
    \E t \in Tasks :
        \/ CreateTask(t) \/ CreateQueuedTask(t) \/ SubmitTask(t) \/ StartTask(t)
        \/ CancelTask(t) \/ RetryTask(t) \/ MarkSuccessManual(t)

ActionRequest ==
    \E r \in Runs :
        OpenHumanAction(r) \/ ConfirmHumanAction(r) \/ CancelHumanAction(r)

WorkerCall ==
    \/ \E w \in Workers : LeaseTask(w)
    \/ \E l \in Leases : FinishRun(l)

Environment ==
    \/ EditSettings
    \/ \E l \in Leases : LeaseTimesOut(l)
    \/ \E l \in Leases, o \in Outcomes : ExecutionEnds(l, o)

Next == TaskRequest \/ ActionRequest \/ WorkerCall \/ Environment

Spec == Init /\ [][Next]_vars

\* Engines keep polling, and a holder either reports its result or stops
\* renewing, be it because it died. One whose lease is over owes nothing.
HolderStep(l) ==
    /\ leaseState[l] = "LIVE"
    /\ LeaseTimesOut(l) \/ FinishRun(l) \/ \E o \in Outcomes : ExecutionEnds(l, o)

Fairness ==
    /\ WF_vars(\E w \in Workers : LeaseTask(w))
    /\ \A l \in Leases : WF_vars(HolderStep(l))

LiveLeasesOf(t) == {l \in Leases : leaseState[l] = "LIVE" /\ LeaseTaskOf(l) = t}

\* An assumption about the deployment, not about the code, which queues a task
\* again as often as its holders die: a task that is leased again and again gets
\* a holder that has a result in time, and one whose FINISH arrives in time.
SomeHolderReports ==
    \A t \in Tasks :
        /\ SF_vars(\E l \in LiveLeasesOf(t), o \in Outcomes : ExecutionEnds(l, o))
        /\ SF_vars(\E l \in LiveLeasesOf(t) : FinishRun(l))

-----------------------------------------------------------------------------
(* Correctness                                                             *)

\* Every variable has its type. LEASED is never seen between transactions.
TypeOK ==
    /\ taskStatus \in [Tasks -> (TaskStatuses \ {"LEASED"}) \cup {"NONE"}]
    /\ runStatus \in [Runs -> RunStatuses \cup {"NONE"}]
    /\ runLease \in [Runs -> Leases \cup {NoLease}]
    /\ runCommand \in [Runs -> Configs \cup {0}]
    /\ leaseState \in [Leases -> {"UNUSED", "LIVE", "EXPIRED", "DELETED"}]
    /\ leaseRun \in [Leases -> Runs \cup {NoRun}]
    /\ leaseWorker \in [Leases -> Workers \cup {NoWorker}]
    /\ workerRun \in [Workers -> Runs \cup {NoRun}]
    /\ actionStatus \in [Runs -> ActionStatuses \cup {"NONE"}]
    /\ successorJobs \in SUBSET Runs
    /\ outcome \in [Leases -> Outcomes \cup {"NONE"}]
    /\ config \in Configs

\* A lease that is not deleted belongs to a task that is running under it, or
\* that was cancelled or started again meanwhile; while the task is RUNNING the
\* leased run is the running one and carries that very lease_id (expiry, finish,
\* cancellation and re-lease keep the three tables together).
LeaseAgreement ==
    \A l \in Leases : Held(l) =>
        /\ leaseRun[l] \in Runs
        /\ taskStatus[LeaseTaskOf(l)] \in {"RUNNING", "QUEUED", "CANCELLED"}
        /\ taskStatus[LeaseTaskOf(l)] = "RUNNING" =>
              runStatus[leaseRun[l]] = "RUNNING" /\ runLease[leaseRun[l]] = l

\* No task is dispatched twice: however expiries, late callbacks, restarts and
\* cancellations mix, a task has at most one lease that is not deleted.
ExclusiveLease ==
    \A l, k \in Leases :
        Held(l) /\ Held(k) /\ LeaseTaskOf(l) = LeaseTaskOf(k) => l = k

\* A RUNNING task always has a lease left to expire: nothing else ever gets it
\* out of RUNNING when its worker is gone.
RunningIsHeld ==
    \A t \in Tasks : taskStatus[t] = "RUNNING" =>
        \E l \in Leases : Held(l) /\ LeaseTaskOf(l) = t

\* What lease_task will look for is there, and nothing else: a RUNNING task has
\* exactly the leased run active, a QUEUED one has a run to execute, and no run
\* goes on once the task is finished. Only a cancelled task may have a QUEUED
\* run left over, for the next poll to cancel.
RunsFollowTask ==
    /\ \A t \in Tasks :
          /\ taskStatus[t] = "RUNNING" =>
                \E r \in Runs : ActiveRuns(t) = {r} /\ runStatus[r] = "RUNNING"
          /\ taskStatus[t] = "QUEUED" => ActiveRuns(t) # {}
    /\ \A r \in Runs :
          /\ runStatus[r] = "RUNNING" => taskStatus[TaskOf(r)] \in {"RUNNING", "QUEUED"}
          /\ runStatus[r] = "QUEUED" => taskStatus[TaskOf(r)] \in {"QUEUED", "CANCELLED"}

\* A task waits for a human only while there is an action a human can take on
\* it, in the matching state: otherwise open, confirm and cancel all fail.
HumanCheckpoint ==
    \A t \in Tasks :
        /\ taskStatus[t] = "WAITING_HUMAN" =>
              \E r \in Runs : TaskOf(r) = t /\ actionStatus[r] = "PENDING"
        /\ taskStatus[t] = "HUMAN_OPERATING" =>
              \E r \in Runs : TaskOf(r) = t /\ actionStatus[r] = "OPENED"

\* Successor work exists only for a run and a task that both succeeded, and at
\* most once per task, whatever is retried or delivered twice.
SuccessorJustified ==
    \A r \in successorJobs :
        /\ runStatus[r] = "SUCCESS" /\ taskStatus[TaskOf(r)] = "SUCCESS"
        /\ \A q \in successorJobs : TaskOf(q) = TaskOf(r) => q = r

\* The portal login of a task is in use while the task is under way, the time a
\* human needs included, and while a worker has a lease on it, even if it has been
\* cancelled meanwhile.
UsesLogin(t) ==
    \/ taskStatus[t] \in {"RUNNING", "WAITING_HUMAN", "HUMAN_OPERATING"}
    \/ \E l \in Leases : Held(l) /\ LeaseTaskOf(l) = t

SharedLogin(t, u) == t # u /\ LoginOf[t] # NoLogin /\ LoginOf[t] = LoginOf[u]

\* Two BOE tasks of one portal login are in use of it at once only if one of them
\* is operated by a human, or was cancelled or queued again under its worker:
\* these are the tasks the poll does not count as busy. Expiries, late results
\* and tasks that wait for a human add no other case.
LoginExclusive ==
    \A t, u \in Tasks :
        SharedLogin(t, u) /\ UsesLogin(t) /\ UsesLogin(u)
        => {taskStatus[t], taskStatus[u]} \cap {"HUMAN_OPERATING", "CANCELLED", "QUEUED"} # {}

\* While clients only start tasks that are not being executed, no queued task
\* has a second active run for lease_task to fail on.
OneActiveRun ==
    \A r, q \in Runs :
        /\ TaskOf(r) = TaskOf(q)
        /\ runStatus[r] \in {"QUEUED", "RUNNING"} /\ runStatus[q] \in {"QUEUED", "RUNNING"}
        /\ taskStatus[TaskOf(r)] # "CANCELLED"
        => r = q

\* Every worker that ever executes a run gets the same command, even when the
\* settings it was built from are edited between two leases.
CommandFrozen ==
    [][\A r \in Runs : runCommand[r] # 0 => runCommand'[r] = runCommand[r]]_vars

\* Results stand: a finished run keeps its status (a run waiting for a human
\* may still be cancelled with its task) and a finished task keeps its own, against
\* duplicate and late callbacks, retries and cancellations.
ResultsStand ==
    [][/\ \A r \in Runs : runStatus[r] \in {"SUCCESS", "FAILED", "CANCELLED"} =>
             runStatus'[r] = runStatus[r]
       /\ \A r \in Runs : runStatus[r] = "WAITING_HUMAN" =>
             runStatus'[r] \in {"WAITING_HUMAN", "CANCELLED"}
       /\ \A t \in Tasks : taskStatus[t] \in {"SUCCESS", "SUCCESS_MANUAL", "CANCELLED"} =>
             taskStatus'[t] = taskStatus[t]]_vars

\* A queued task is eventually decided or handed to a human, or it waits for a
\* login that another task keeps until a human has come. Lost callbacks, tasks
\* that are invalid and holders that die keep none QUEUED or RUNNING for ever, as
\* long as not all its holders die (SomeHolderReports).
EventuallyDecided ==
    \A t \in Tasks :
        taskStatus[t] \in {"QUEUED", "RUNNING"} ~>
            \/ taskStatus[t] \notin {"QUEUED", "RUNNING"}
            \/ \E u \in Tasks : SharedLogin(t, u) /\ taskStatus[u] = "WAITING_HUMAN"

-----------------------------------------------------------------------------
(* The abstract specification this module implements                       *)

Holders == [t \in Tasks |-> {l \in Leases : Held(l) /\ LeaseTaskOf(l) = t}]

Exclusive == INSTANCE ExclusiveDispatch WITH holders <- Holders

\* Whatever runs, leases, expiries and late callbacks do, a client of the service
\* sees each task as a lock with a timeout: granted to one lease at a time, and
\* only while free; RUNNING only while held; decided by a report of its holder's
\* run or by the client itself.
ExclusiveSpec == Exclusive!ExSpec

-----------------------------------------------------------------------------
(* What the documents say and the code does not do                         *)

\* "Task must ... use leaseId to reject the stale FINISH of an old attempt":
\* a running run only ever gets the result its current holder reports.
StaleFinishRejected ==
    [][\A r \in Runs :
          runStatus[r] = "RUNNING" /\ runStatus'[r] \in {"SUCCESS", "FAILED", "WAITING_HUMAN"}
          => runStatus'[r] = outcome[runLease[r]]]_vars

\* "A disabled portal or invalid binding must not fail the whole claim queue, or
\* runnable tasks behind it are stuck for ever": no queued task may make the
\* poll that reaches it fail, as one with two active runs does.
PollNeverFails ==
    \A t \in Queue : \E r \in Runs : RunToExecute(t, r)
=============================================================================
