----------------------------- MODULE WorkerPool -----------------------------
(***************************************************************************)
(* The engine's worker pool (workers/pool.py, repository.py): engines poll *)
(* the Task service for leases, execute the flow of each in a coroutine of *)
(* its own, keep the lease renewed, and record the outcome and its FINISH  *)
(* callback in one transaction. Engines share a database; a worker_id is   *)
(* that of one engine, which may crash and start again.                    *)
(*                                                                         *)
(* Every wait of _execute is a step: a crash, a shutdown's cancellation or *)
(* a database failure may come at each. Of the Task service only its       *)
(* leases are here. The worker's own row (status, heartbeat) is left out.  *)
(*                                                                         *)
(* Definitions named Faulty... are variants with a bug, used by no action. *)
(***************************************************************************)
EXTENDS Naturals, FiniteSets, FiniteSetsExt

CONSTANTS
    Leases,     \* lease identifiers
    Runs,
    RunOf,      \* the run a lease is for
    Engines,    \* engine processes, each with a worker_id of its own
    NoEngine,
    Slots       \* worker_max_concurrent_runs

ASSUME LeasesAssumption == RunOf \in [Leases -> Runs]
ASSUME EnginesAssumption == NoEngine \notin Engines /\ Slots \in Nat

Active   == {"LEASED", "RUNNING"}
Results  == {"SUCCESS", "FAILED", "WAITING_HUMAN"}
Terminal == Results \cup {"ABANDONED"}

\* Where the coroutine that executes a lease is: before an attempt is recorded,
\* before it is RUNNING, before the handler starts, waiting for the handler;
\* writing the handler's result, a failure, or that it was cancelled.
Phases   == {"IDLE", "ENTERED", "RECORDED", "STARTED", "HANDLING",
             "COMPLETING", "GIVING_UP", "CANCELLED"}
Writing  == {"COMPLETING", "GIVING_UP", "CANCELLED"}

VARIABLES
    leaseState, \* the Task service's lease: "FREE", "LIVE" or "OVER"
    holder,     \* the engine it was given to
    overdue,    \* leases whose lease_expires_at is past
    settled,    \* runs the Task service has settled
    mode,       \* of an engine: "UP", "STOPPING" or "DOWN"
    phase,      \* of a lease's execution
    renewing,   \* executions that wait for a renewal
    child,      \* the runtime task: "NONE", "BUSY", "IGNORES" (a cancellation) or its result
    verdict,    \* the status _complete_attempt is called with
    handled,    \* how often the handler was started for a lease
    attempt,    \* rpa_execution_attempts.status, "NONE" without a row
    attemptNo,
    finish,     \* the status in the attempt's FINISH callback, "NONE" without one
    told        \* leases refused by a direct finish call

taskVars      == <<leaseState, holder, overdue, settled>>
executionVars == <<phase, renewing, child, verdict, handled>>
tableVars     == <<attempt, attemptNo, finish>>
vars == <<taskVars, mode, executionVars, tableVars, told>>

Init ==
    /\ leaseState = [l \in Leases |-> "FREE"]
    /\ holder = [l \in Leases |-> NoEngine]
    /\ overdue = {}
    /\ settled = {}
    /\ mode = [e \in Engines |-> "UP"]
    /\ phase = [l \in Leases |-> "IDLE"]
    /\ renewing = {}
    /\ child = [l \in Leases |-> "NONE"]
    /\ verdict = [l \in Leases |-> "FAILED"]
    /\ handled = [l \in Leases |-> 0]
    /\ attempt = [l \in Leases |-> "NONE"]
    /\ attemptNo = [l \in Leases |-> 0]
    /\ finish = [l \in Leases |-> "NONE"]
    /\ told = {}

SameRun(l) == {k \in Leases : RunOf[k] = RunOf[l]}
HeldBy(e)  == {l \in Leases : holder[l] = e}

\* _active_tasks
ActiveOf(e) == {l \in HeldBy(e) : phase[l] # "IDLE"}

-----------------------------------------------------------------------------
(* The Task service's leases                                               *)

Grantable(l) ==
    /\ leaseState[l] = "FREE" /\ RunOf[l] \notin settled
    /\ \A k \in SameRun(l) : leaseState[k] # "LIVE"

DeadlinePasses(l) ==
    /\ leaseState[l] = "LIVE" /\ l \notin overdue
    /\ overdue' = overdue \cup {l}
    /\ UNCHANGED <<leaseState, holder, settled, mode, executionVars, tableVars, told>>

LeaseExpires(l) ==
    /\ leaseState[l] = "LIVE" /\ l \in overdue
    /\ leaseState' = [leaseState EXCEPT ![l] = "OVER"]
    /\ UNCHANGED <<holder, overdue, settled, mode, executionVars, tableVars, told>>

\* What an engine reports of lease l ends the lease its run has by now; only a
\* run that waits for a human is given out again.
ReportArrives(l) ==
    /\ finish[l] # "NONE" \/ l \in told
    /\ leaseState' = [k \in Leases |->
          IF k \in SameRun(l) /\ leaseState[k] = "LIVE" THEN "OVER" ELSE leaseState[k]]
    /\ settled' = IF finish[l] = "WAITING_HUMAN" /\ l \notin told THEN settled
                  ELSE settled \cup {RunOf[l]}
    /\ UNCHANGED <<holder, overdue, mode, executionVars, tableVars, told>>

-----------------------------------------------------------------------------
(* Polling and dispatching                                                 *)

\* The response brings at most as many leases as there are free slots; it may
\* be lost, and the leases with it.
Poll(e, granted, arrives) ==
    /\ mode[e] = "UP"
    /\ granted # {} /\ Cardinality(granted) + Cardinality(ActiveOf(e)) <= Slots
    /\ \A l \in granted : Grantable(l) /\ SameRun(l) \cap granted = {l}
    /\ leaseState' = [l \in Leases |-> IF l \in granted THEN "LIVE" ELSE leaseState[l]]
    /\ holder' = [l \in Leases |-> IF l \in granted THEN e ELSE holder[l]]
    /\ phase' = [l \in Leases |-> IF arrives /\ l \in granted THEN "ENTERED" ELSE phase[l]]
    /\ UNCHANGED <<overdue, settled, mode, renewing, child, verdict, handled, tableVars, told>>

\* The command source hands a lease over once more.
Redeliver(l) ==
    LET e == holder[l] IN
    /\ leaseState[l] = "LIVE" /\ mode[e] = "UP"
    /\ phase[l] = "IDLE" /\ Cardinality(ActiveOf(e)) < Slots
    /\ phase' = [phase EXCEPT ![l] = "ENTERED"]
    /\ UNCHANGED <<taskVars, mode, renewing, child, verdict, handled, tableVars, told>>

-----------------------------------------------------------------------------
(* _execute                                                                *)

\* The coroutine of l goes on to phase p.
GoesTo(l, p) == phase' = [phase EXCEPT ![l] = p]

\* ... where it will write status v.
WillWrite(l, p, v) == GoesTo(l, p) /\ verdict' = [verdict EXCEPT ![l] = v]

Ends(l) == WillWrite(l, "IDLE", "FAILED")

FaultyRecorded(l) == phase[l] # "ENTERED"

Recorded(l) == attempt[l] # "NONE"

AlreadyRecorded(l) ==
    /\ phase[l] = "ENTERED" /\ Recorded(l)
    /\ GoesTo(l, "IDLE")
    /\ UNCHANGED <<taskVars, mode, renewing, child, verdict, handled, tableVars, told>>

\* A coroutine that knows of no attempt tells the Task service that the run has
\* FAILED, by a direct call that nobody retries.
ReportDirectly(l) == GoesTo(l, "IDLE") /\ told' = told \cup {l}

\* No such flow version.
RefuseUnrecorded(l) ==
    /\ phase[l] = "ENTERED" /\ ~Recorded(l)
    /\ ReportDirectly(l)
    /\ UNCHANGED <<taskVars, mode, renewing, child, verdict, handled, tableVars>>

NextAttemptNo(l) == Max({attemptNo[k] : k \in SameRun(l)}) + 1

\* create_lease_attempt, under the run's advisory lock.
CreateAttempt(l) ==
    /\ ~Recorded(l)
    /\ attempt' = [attempt EXCEPT ![l] = "LEASED"]
    /\ attemptNo' = [attemptNo EXCEPT ![l] = NextAttemptNo(l)]
    /\ UNCHANGED finish

Record(l) ==
    /\ phase[l] = "ENTERED"
    /\ CreateAttempt(l) /\ GoesTo(l, "RECORDED")
    /\ UNCHANGED <<taskVars, mode, renewing, child, verdict, handled, told>>

\* The lease, the flow's contract or the capabilities do not fit.
Refuse(l) ==
    /\ phase[l] = "RECORDED"
    /\ WillWrite(l, "GIVING_UP", "FAILED")
    /\ UNCHANGED <<taskVars, mode, renewing, child, handled, tableVars, told>>

\* _transition reads the row and looks at nothing in it.
MarkRunning(l) ==
    /\ l \notin overdue
    /\ attempt' = [attempt EXCEPT ![l] = "RUNNING"]
    /\ UNCHANGED <<attemptNo, finish>>

Start(l) ==
    /\ phase[l] = "RECORDED"
    /\ MarkRunning(l) /\ GoesTo(l, "STARTED")
    /\ UNCHANGED <<taskVars, mode, renewing, child, verdict, handled, told>>

Handle(l) ==
    /\ phase[l] = "STARTED"
    /\ GoesTo(l, "HANDLING")
    /\ child' = [child EXCEPT ![l] = "BUSY"]
    /\ handled' = [handled EXCEPT ![l] = @ + 1]
    /\ UNCHANGED <<taskVars, mode, renewing, verdict, tableVars, told>>

-----------------------------------------------------------------------------
(* _monitor_execution                                                      *)

ChildEnds(l, result) ==
    /\ child[l] \in {"BUSY", "IGNORES"}
    /\ child' = [child EXCEPT ![l] = IF @ = "BUSY" THEN result ELSE "NONE"]
    /\ UNCHANGED <<taskVars, mode, phase, renewing, verdict, handled, tableVars, told>>

\* _cancel_runtime_child: after a few seconds it is left alone.
CancelChild(l) ==
    \E c \in {"NONE"} \cup (IF child[l] = "BUSY" THEN {"IGNORES"} ELSE {}) :
        child' = [child EXCEPT ![l] = c]

Monitoring(l) == phase[l] = "HANDLING" /\ l \notin renewing

HandlerReturns(l) ==
    /\ Monitoring(l) /\ child[l] \in Results
    /\ WillWrite(l, "COMPLETING", child[l])
    /\ CancelChild(l)
    /\ UNCHANGED <<taskVars, mode, renewing, handled, tableVars, told>>

RenewalStarts(l) ==
    /\ Monitoring(l) /\ child[l] = "BUSY" /\ l \notin overdue
    /\ renewing' = renewing \cup {l}
    /\ UNCHANGED <<taskVars, mode, phase, child, verdict, handled, tableVars, told>>

\* Granted, if the lease is still there, or failed: the deadline stands.
RenewalEnds(l) ==
    /\ l \in renewing
    /\ renewing' = renewing \ {l}
    /\ overdue' \in {overdue, IF leaseState[l] = "LIVE" THEN overdue \ {l} ELSE overdue}
    /\ UNCHANGED <<leaseState, holder, settled, mode, phase, child, verdict, handled, tableVars, told>>

\* Any error but a TaskApiError.
RenewalRaises(l) ==
    /\ l \in renewing
    /\ renewing' = renewing \ {l}
    /\ WillWrite(l, "GIVING_UP", "FAILED")
    /\ CancelChild(l)
    /\ UNCHANGED <<taskVars, mode, handled, tableVars, told>>

NoticeExpiry(l) ==
    /\ Monitoring(l) /\ l \in overdue /\ child[l] = "BUSY"
    /\ WillWrite(l, "COMPLETING", "ABANDONED")
    /\ CancelChild(l)
    /\ UNCHANGED <<taskVars, mode, renewing, handled, tableVars, told>>

-----------------------------------------------------------------------------
(* _complete_attempt                                                       *)

FaultyNewStatus(l) == verdict[l]

\* A terminal attempt keeps its status.
NewStatus(l) == IF attempt[l] \in Terminal THEN attempt[l] ELSE verdict[l]

\* The Task service knows no abandoned run.
Reported(s) == IF s = "ABANDONED" THEN "FAILED" ELSE s

FaultyEnqueueFinish(l, s) == s

\* enqueue_finish: the attempt has one FINISH row, the first.
EnqueueFinish(l, s) == IF finish[l] = "NONE" THEN Reported(s) ELSE finish[l]

Commit(l) ==
    /\ attempt' = [attempt EXCEPT ![l] = NewStatus(l)]
    /\ finish' = [finish EXCEPT ![l] = EnqueueFinish(l, NewStatus(l))]
    /\ UNCHANGED attemptNo

Complete(l) ==
    /\ phase[l] \in Writing
    /\ Commit(l) /\ Ends(l)
    /\ UNCHANGED <<taskVars, mode, renewing, child, handled, told>>

-----------------------------------------------------------------------------
(* Failures of the database                                                *)

\* The write the coroutine waits for. It may have been committed although the
\* coroutine gets an error, or a cancellation, in place of an answer.
PendingWrite(l) ==
    \/ phase[l] = "ENTERED" /\ CreateAttempt(l)
    \/ phase[l] = "RECORDED" /\ MarkRunning(l)
    \/ phase[l] \in Writing /\ Commit(l)

\* ... before the coroutine knows of an attempt, be it recorded or not: it
\* cannot look the lease up, or does not learn that it has been recorded.
RecordFails(l) ==
    /\ phase[l] = "ENTERED"
    /\ PendingWrite(l) \/ UNCHANGED tableVars
    /\ ReportDirectly(l)
    /\ UNCHANGED <<taskVars, mode, renewing, child, verdict, handled>>

\* ... before the handler starts: RUNNING, the worker's row or the event.
StartFails(l) ==
    /\ phase[l] \in {"RECORDED", "STARTED"}
    /\ PendingWrite(l) \/ UNCHANGED tableVars
    /\ WillWrite(l, "GIVING_UP", "FAILED")
    /\ UNCHANGED <<taskVars, mode, renewing, child, handled, told>>

\* ... with an outcome; only the handler's result is followed by another try,
\* which reports a failure.
CompleteFails(l) ==
    /\ phase[l] \in Writing
    /\ PendingWrite(l) \/ UNCHANGED tableVars
    /\ IF phase[l] = "COMPLETING" THEN WillWrite(l, "GIVING_UP", "FAILED")
       ELSE Ends(l)
    /\ UNCHANGED <<taskVars, mode, renewing, child, handled, told>>

-----------------------------------------------------------------------------
(* Shutdown, crash and restart                                             *)

\* The poll loop ends; executions have a grace period to end by themselves.
Stop(e) ==
    /\ mode[e] = "UP"
    /\ mode' = [mode EXCEPT ![e] = "STOPPING"]
    /\ UNCHANGED <<taskVars, executionVars, tableVars, told>>

\* A cancelled execution writes that it is abandoned, over whatever the write it
\* was cancelled in has left, or reports directly; the write of a failure is
\* not shielded and is given up, the one of a cancellation is shielded.
Cancel(l) ==
    /\ phase[l] # "IDLE" /\ mode[holder[l]] = "STOPPING"
    /\ renewing' = renewing \ {l}
    /\ PendingWrite(l) \/ UNCHANGED tableVars
    /\ \/ /\ phase[l] = "ENTERED"
          /\ ReportDirectly(l) /\ UNCHANGED <<child, verdict>>
       \/ /\ phase[l] \in {"RECORDED", "STARTED", "HANDLING", "COMPLETING"}
          /\ WillWrite(l, "CANCELLED", "ABANDONED") /\ CancelChild(l) /\ UNCHANGED told
       \/ /\ phase[l] = "GIVING_UP"
          /\ Ends(l) /\ UNCHANGED <<child, told>>
    /\ UNCHANGED <<taskVars, mode, handled>>

\* The process ends: it crashes, or is done with stopping.
Exit(e) ==
    /\ mode[e] # "DOWN"
    /\ mode' = [mode EXCEPT ![e] = "DOWN"]
    /\ phase' = [l \in Leases |-> IF l \in HeldBy(e) THEN "IDLE" ELSE phase[l]]
    /\ verdict' = [l \in Leases |-> IF l \in HeldBy(e) THEN "FAILED" ELSE verdict[l]]
    /\ child' = [l \in Leases |-> IF l \in HeldBy(e) THEN "NONE" ELSE child[l]]
    /\ renewing' = renewing \ HeldBy(e)
    /\ UNCHANGED <<taskVars, handled, tableVars, told>>

FaultyOnlyRunning(e) == {l \in HeldBy(e) : attempt[l] = "RUNNING"}

\* list_active_for_worker
Interrupted(e) == {l \in HeldBy(e) : attempt[l] \in Active}

\* start, with _recover_interrupted_attempts
Restart(e) ==
    /\ mode[e] = "DOWN"
    /\ mode' = [mode EXCEPT ![e] = "UP"]
    /\ attempt' = [l \in Leases |-> IF l \in Interrupted(e) THEN "ABANDONED" ELSE attempt[l]]
    /\ finish' = [l \in Leases |->
          IF l \in Interrupted(e) THEN EnqueueFinish(l, "ABANDONED") ELSE finish[l]]
    /\ UNCHANGED <<taskVars, executionVars, attemptNo, told>>

-----------------------------------------------------------------------------
Executing(l) ==
    \/ AlreadyRecorded(l) \/ RefuseUnrecorded(l) \/ Record(l)
    \/ Refuse(l) \/ Start(l) \/ Handle(l)
    \/ HandlerReturns(l) \/ RenewalEnds(l) \/ RenewalRaises(l) \/ NoticeExpiry(l)
    \/ Complete(l)

DatabaseFails == \E l \in Leases : RecordFails(l) \/ StartFails(l) \/ CompleteFails(l)

\* Every step but those of a database that fails.
HealthyNext ==
    \/ \E l \in Leases : DeadlinePasses(l) \/ LeaseExpires(l) \/ ReportArrives(l)
    \/ \E e \in Engines, granted \in SUBSET Leases, arrives \in BOOLEAN : Poll(e, granted, arrives)
    \/ \E l \in Leases : Redeliver(l) \/ Executing(l) \/ RenewalStarts(l) \/ Cancel(l)
    \/ \E l \in Leases, result \in Results : ChildEnds(l, result)
    \/ \E e \in Engines : Stop(e) \/ Exit(e) \/ Restart(e)

Next == HealthyNext \/ DatabaseFails

Spec == Init /\ [][Next]_vars

\* Coroutines run on, flows are subject to a timeout, a stopping process ends,
\* and a process that ended is started again.
Fairness ==
    /\ \A l \in Leases : WF_vars(Executing(l))
    /\ \A l \in Leases : WF_vars(\E result \in Results : ChildEnds(l, result))
    /\ \A e \in Engines : WF_vars(mode[e] = "STOPPING" /\ Exit(e)) /\ WF_vars(Restart(e))

HealthySpec == Init /\ [][HealthyNext]_vars /\ Fairness

-----------------------------------------------------------------------------
(* Correctness                                                             *)

\* Types, and the unique index on run and attempt number.
TypeOK ==
    /\ leaseState \in [Leases -> {"FREE", "LIVE", "OVER"}]
    /\ holder \in [Leases -> Engines \cup {NoEngine}]
    /\ overdue \in SUBSET Leases
    /\ settled \in SUBSET Runs
    /\ mode \in [Engines -> {"UP", "STOPPING", "DOWN"}]
    /\ phase \in [Leases -> Phases]
    /\ renewing \in SUBSET Leases
    /\ child \in [Leases -> {"NONE", "BUSY", "IGNORES"} \cup Results]
    /\ verdict \in [Leases -> Terminal]
    /\ handled \in [Leases -> Nat]
    /\ attempt \in [Leases -> {"NONE"} \cup Active \cup Terminal]
    /\ attemptNo \in [Leases -> Nat]
    /\ \A l \in Leases : \A k \in SameRun(l) :
          l # k /\ Recorded(l) /\ Recorded(k) => attemptNo[l] # attemptNo[k]
    /\ finish \in [Leases -> {"NONE"} \cup Results]
    /\ told \in SUBSET Leases

\* The two tables agree: an attempt that is over has a FINISH in the outbox, with
\* its own outcome, and no other attempt has one, whatever is retried,
\* cancelled, recovered or committed unseen. It is about the tables only: the
\* direct calls (told) go past both.
FinishMatchesAttempt ==
    \A l \in Leases :
        finish[l] = IF attempt[l] \in Terminal THEN Reported(attempt[l]) ELSE "NONE"

\* No second completion, recovery of some engine or late cancellation changes
\* the outcome of an attempt, not even a cancellation that arrives when the
\* outcome has been committed and goes on to write ABANDONED.
OutcomesStand ==
    [][\A l \in Leases : attempt[l] \in Terminal => attempt'[l] = attempt[l]]_vars

\* The flow of a lease is started at most once, though leases are handed over
\* repeatedly and engines restart.
HandledOnce == \A l \in Leases : handled[l] <= 1

\* The handler works only on an attempt that is RUNNING: nobody else has
\* completed or recovered it.
HandlerHasAttempt ==
    \A l \in Leases : phase[l] = "HANDLING" => attempt[l] = "RUNNING"

\* "drives Runtime attempts to a terminal state": true as long as the database
\* takes the writes.
AttemptsEnd == \A l \in Leases : attempt[l] \in Active ~> attempt[l] \in Terminal
=============================================================================
