------------------------------ MODULE SubTasks ------------------------------
(***************************************************************************)
(* What every business process (process_instances) has in common: columns  *)
(* that requests and results rewrite, and sub-tasks that dispatch carries  *)
(* out.  A module that EXTENDS this one is one process.                    *)
(*                                                                         *)
(* A result is handled inside the FINISH that brings it, with the row      *)
(* locked: one step.  A request reads without a lock, decides, and writes  *)
(* the columns it changed when it commits: two steps, between which        *)
(* anything may happen.                                                    *)
(***************************************************************************)
EXTENDS TaskLife

CONSTANTS
    Callers,    \* bound: requests (of users, timers, scans) under way at once
    NoType,     \* the type of a sub-task that was not created
    Overlap,    \* see irregular
    Rerun       \* see irregular

VARIABLES
    proc,       \* the columns of the process's rows that control it
    taskType,   \* automation_tasks.task_type
    request,    \* what the request of each caller is going to write
    facts,      \* history: what was reported done at the portal, and what the
                \* process was not told or put up with, where a property needs it
    irregular   \* history: Overlap once a request wrote although its process
                \* had changed since it was read; Rerun once a failed sub-task
                \* was run again at the task centre

subTaskVars == <<proc, taskType, taskStatus, request, facts, irregular>>

ASSUME TasksAssumption == Tasks \subseteq Nat

NoWrites == <<>>

\* No request: it would write nothing.
Idle == [writes |-> NoWrites, type |-> NoType, fresh |-> TRUE]

Start(columns) ==
    /\ LifeInit
    /\ proc = columns
    /\ taskType = [t \in Tasks |-> NoType]
    /\ request = [u \in Callers |-> Idle]
    /\ facts = {}
    /\ irregular = {}

OfType(type, statuses) == \E t \in Tasks : taskType[t] = type /\ taskStatus[t] \in statuses

\* The columns once those of writes are flushed: the others keep what other
\* transactions have made of them.
Flushed(writes) ==
    [c \in DOMAIN proc |-> IF c \in DOMAIN writes THEN writes[c] ELSE proc[c]]

FaultyCreateSubTask(type, statuses) ==
    \E t \in Tasks :
        /\ taskType[t] = NoType /\ \A k \in Tasks : k < t => taskType[k] # NoType
        /\ taskType' = [taskType EXCEPT ![t] = type]
        /\ taskStatus' = statuses

\* _create_sub_task, on top of the statuses given: a queued task with a run.
CreateSubTask(type, statuses) ==
    \E t \in Tasks :
        /\ taskType[t] = NoType /\ \A k \in Tasks : k < t => taskType[k] # NoType
        /\ taskType' = [taskType EXCEPT ![t] = type]
        /\ taskStatus' = [statuses EXCEPT ![t] = "QUEUED"]

NewTask(type, statuses) ==
    IF type = NoType
    THEN taskStatus' = statuses /\ UNCHANGED taskType
    ELSE CreateSubTask(type, statuses)

\* The requests under way, but for those of done, once this step is taken: what
\* they have read is old if the step changed a column or created a sub-task.
Requests(done) ==
    [u \in Callers |->
        IF u \in done THEN Idle
        ELSE IF request[u] = Idle \/ (proc' = proc /\ taskType' = taskType) THEN request[u]
        ELSE [writes |-> request[u].writes, type |-> request[u].type, fresh |-> FALSE]]

-----------------------------------------------------------------------------
\* A column assigned the value that was read is not part of the UPDATE.
Dirty(writes) ==
    [c \in {d \in DOMAIN writes : writes[d] # proc[d]} |-> writes[c]]

\* A request has read the process, passed its checks and made up its mind.
Decide(u, writes, type) ==
    /\ request[u] = Idle
    /\ request' = [request EXCEPT ![u] = [writes |-> writes, type |-> type, fresh |-> TRUE]]
    /\ UNCHANGED <<proc, taskType, taskStatus, facts, irregular>>

Begin(u, writes, type) == Decide(u, Dirty(writes), type)

Commit(u) ==
    /\ request[u] # Idle
    /\ proc' = Flushed(request[u].writes)
    /\ NewTask(request[u].type, taskStatus)
    /\ irregular' = IF request[u].fresh THEN irregular ELSE irregular \cup {Overlap}
    /\ request' = Requests({u})
    /\ UNCHANGED facts

\* A transaction that nothing overlaps: an INSERT that a unique index decides.
Insert(writes, type) ==
    /\ proc' = Flushed(writes)
    /\ NewTask(type, taskStatus)
    /\ request' = Requests({})
    /\ UNCHANGED <<facts, irregular>>

\* The FINISH of task t with result o: the process writes, may create its next
\* sub-task, and what the result says was done becomes a fact.
Finish(t, o, writes, next, done) ==
    /\ MayReport(t, o)
    /\ proc' = Flushed(writes)
    /\ NewTask(next, Reported(t, o))
    /\ facts' = done
    /\ request' = Requests({})
    /\ UNCHANGED irregular

\* The task centre and the workers' polls, neither of which tells the process.
\* How one of the types a process waits for was lost is kept for a property.
AtTaskCentre(t, awaited) ==
    /\ taskType[t] # NoType
    /\ ByClient(t)
    /\ irregular' = IF taskStatus[t] = "FAILED" THEN irregular \cup {Rerun} ELSE irregular
    /\ facts' = IF taskType[t] \in awaited /\ taskStatus'[t] \in {"CANCELLED", "SUCCESS_MANUAL"}
                THEN facts \cup {"taken"} ELSE facts
    /\ UNCHANGED <<proc, taskType, request>>

Polled(awaited) ==
    /\ \E released \in SUBSET {t \in Tasks : taskStatus[t] = "RUNNING"} :
          \E dropped, granted \in SUBSET {t \in Tasks : Requeued(released)[t] = "QUEUED"} :
              /\ Poll(released, dropped, granted)
              /\ facts' = IF \E t \in dropped : taskType[t] \in awaited
                          THEN facts \cup {"dropped"} ELSE facts
    /\ UNCHANGED <<proc, taskType, request, irregular>>

SubTaskStep(awaited) == Polled(awaited) \/ \E t \in Tasks : AtTaskCentre(t, awaited)
=============================================================================
