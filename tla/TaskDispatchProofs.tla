------------------------- MODULE TaskDispatchProofs -------------------------
(***************************************************************************)
(* Proofs about TaskDispatch, for any number of tasks, runs, leases and    *)
(* workers.                                                                *)
(***************************************************************************)
EXTENDS TaskDispatch, TLAPS

\* The rows of the transition table the handlers ask for.
LEMMA TransitionFacts ==
    /\ \A s : CanTransition(s, "CANCELLED") <=>
          s \in {"DRAFT", "READY", "QUEUED", "LEASED", "RUNNING", "WAITING_HUMAN", "HUMAN_OPERATING"}
    /\ \A s : CanTransition(s, "READY") <=> s \in {"DRAFT", "FAILED"}
    /\ \A s : CanTransition(s, "QUEUED") <=> s \in {"READY", "LEASED", "RUNNING", "FAILED"}
    /\ \A s : CanTransition(s, "SUCCESS") <=> s = "RUNNING"
    /\ \A s : CanTransition(s, "WAITING_HUMAN") <=> s = "RUNNING"
    /\ \A s : CanTransition(s, "FAILED") <=> s \in {"RUNNING", "WAITING_HUMAN", "HUMAN_OPERATING"}
    /\ \A s : CanTransition(s, "HUMAN_OPERATING") <=> s = "WAITING_HUMAN"
    /\ \A s : CanTransition(s, "SUCCESS_MANUAL") <=> s \in {"WAITING_HUMAN", "HUMAN_OPERATING"}
BY DEF CanTransition, Transitions, TaskStatuses

\* Runs are pairs, and the null run is none of them.
LEMMA RunFacts ==
    /\ \A r \in Runs : TaskOf(r) \in Tasks
    /\ NoRun \notin Runs
BY BoundsAssumption DEF Runs, TaskOf, Tasks, NoRun

-----------------------------------------------------------------------------
(* Type correctness                                                        *)

\* TypeOK alone is not inductive: a callback names the run of its lease, which
\* is a run because only the holder of a granted lease reports anything.
ReportsAreOnRuns == \A l \in Leases : outcome[l] # "NONE" => leaseRun[l] \in Runs

TypeInv == TypeOK /\ ReportsAreOnRuns

LEMMA InitTypeInv == Init => TypeInv
BY BoundsAssumption DEF Init, TypeInv, ReportsAreOnRuns, TypeOK, Configs, TaskStatuses, RunStatuses

LEMMA NextTypeInv == TypeInv /\ [Next]_vars => TypeInv'
<1> SUFFICES ASSUME TypeInv, [Next]_vars PROVE TypeInv'
    OBVIOUS
<1> USE DEF TypeInv, ReportsAreOnRuns, TypeOK, TaskStatuses, RunStatuses, FinishStatuses, ActionStatuses, ActiveActions
<1>1. ASSUME NEW t \in Tasks, CreateTask(t) PROVE TypeInv'
    BY <1>1 DEF CreateTask, runVars, leaseVars
<1>2. ASSUME NEW t \in Tasks, CreateQueuedTask(t) PROVE TypeInv'
    BY <1>2 DEF CreateQueuedTask, leaseVars
<1>3. ASSUME NEW t \in Tasks, SubmitTask(t) PROVE TypeInv'
    BY <1>3 DEF SubmitTask, runVars, leaseVars
<1>4. ASSUME NEW t \in Tasks, StartTask(t) PROVE TypeInv'
    BY <1>4 DEF StartTask, leaseVars
<1>5. ASSUME NEW t \in Tasks, RetryTask(t) PROVE TypeInv'
    BY <1>5 DEF RetryTask, leaseVars
<1>6. ASSUME NEW t \in Tasks, CancelTask(t) PROVE TypeInv'
    BY <1>6 DEF CancelTask, leaseVars
<1>7. ASSUME NEW t \in Tasks, MarkSuccessManual(t) PROVE TypeInv'
    BY <1>7 DEF MarkSuccessManual, runVars, leaseVars
<1>8. ASSUME NEW r \in Runs,
             OpenHumanAction(r) \/ ConfirmHumanAction(r) \/ CancelHumanAction(r)
      PROVE  TypeInv'
    BY <1>8, RunFacts DEF OpenHumanAction, ConfirmHumanAction, CancelHumanAction,
       MoveAction, runVars, leaseVars
<1>9. ASSUME NEW w \in Workers, LeaseTask(w) PROVE TypeInv'
  <2> DEFINE Scanned(d) == /\ StatusAfterDrop(d) \in [Tasks -> (TaskStatuses \ {"LEASED"}) \cup {"NONE"}]
                           /\ RunsAfterDrop(d) \in [Runs -> RunStatuses \cup {"NONE"}]
                           /\ LeasesAfterExpiry \in [Leases -> {"UNUSED", "LIVE", "EXPIRED", "DELETED"}]
  <2>1. \A d : Scanned(d)
      BY RunFacts DEF StatusAfterDrop, StatusAfterExpiry, RunsAfterDrop, RunsAfterExpiry, LeasesAfterExpiry
  <2>2. ASSUME NEW invalid \in SUBSET Queue, NothingToGrant(invalid) PROVE TypeInv'
      BY <2>1, <2>2 DEF NothingToGrant
  <2>3. ASSUME NEW invalid \in SUBSET Queue, NEW t \in Queue, NEW r \in Runs, NEW l \in Leases,
               Grant(w, t, r, l, invalid)
        PROVE  TypeInv'
    <3> DEFINE d == {u \in Candidates \cap invalid : u < t}
    <3>1. Scanned(d)
        BY <2>1
    <3>2. /\ taskStatus' = [StatusAfterDrop(d) EXCEPT ![t] = "RUNNING"]
          /\ runStatus' = [RunsAfterDrop(d) EXCEPT ![r] = "RUNNING"]
          /\ runLease' = [runLease EXCEPT ![r] = l]
          /\ runCommand' = [runCommand EXCEPT ![r] = CommandFor(r)]
          /\ leaseState' = [LeasesAfterExpiry EXCEPT ![l] = "LIVE"]
          /\ leaseRun' = [leaseRun EXCEPT ![l] = r]
          /\ leaseWorker' = [leaseWorker EXCEPT ![l] = w]
          /\ workerRun' = [workerRun EXCEPT ![w] = r]
          /\ UNCHANGED <<actionStatus, successorJobs, outcome, config>>
        BY <2>3 DEF Grant
    <3> HIDE DEF d
    <3> QED
        BY <3>1, <3>2 DEF CommandFor
  <2>4. QED
      BY <1>9, <2>2, <2>3 DEF LeaseTask
<1>10. ASSUME NEW l \in Leases, FinishRun(l) PROVE TypeInv'
    BY <1>10, RunFacts, InputsAssumption DEF FinishRun, LeasesWithout
<1>11. CASE EditSettings
    BY <1>11, BoundsAssumption DEF EditSettings, Configs, taskVars, runVars, leaseVars
<1>12. ASSUME NEW l \in Leases, LeaseTimesOut(l) PROVE TypeInv'
    BY <1>12 DEF LeaseTimesOut, taskVars, runVars
<1>13. ASSUME NEW l \in Leases, NEW o \in Outcomes, ExecutionEnds(l, o) PROVE TypeInv'
    BY <1>13 DEF ExecutionEnds, taskVars, runVars, leaseVars
<1>14. CASE UNCHANGED vars
    BY <1>14 DEF vars, taskVars, runVars, leaseVars
<1>15. QED
    BY <1>1, <1>2, <1>3, <1>4, <1>5, <1>6, <1>7, <1>8, <1>9, <1>10, <1>11, <1>12, <1>13, <1>14
       DEF Next, TaskRequest, ActionRequest, WorkerCall, Environment

\* Every reachable state is well typed, whatever the constants are.
THEOREM TypeCorrect == Spec => []TypeOK
<1>1. TypeInv => TypeOK
    BY DEF TypeInv
<1>2. QED
    BY <1>1, InitTypeInv, NextTypeInv, PTL DEF Spec

-----------------------------------------------------------------------------
(* Leases, runs and tasks stay together                                    *)

\* A run someone held a lease on has been started.
LeasedRunsStarted ==
    \A l \in Leases : leaseRun[l] \in Runs => runStatus[leaseRun[l]] \notin {"NONE", "QUEUED"}

\* At most one run of a task is RUNNING.
OneRunning ==
    \A r, q \in Runs :
        runStatus[r] = "RUNNING" /\ runStatus[q] = "RUNNING" /\ TaskOf(r) = TaskOf(q) => r = q

\* A task queued again under its holder's feet has two active runs, and is
\* therefore never granted: the only thing that keeps a second lease from it.
RestartBlocksGrant ==
    \A l \in Leases : Held(l) /\ taskStatus[LeaseTaskOf(l)] = "QUEUED" =>
        /\ runStatus[leaseRun[l]] = "RUNNING"
        /\ \E q \in ActiveRuns(LeaseTaskOf(l)) : q # leaseRun[l]

LeaseInv ==
    /\ TypeInv
    /\ LeaseAgreement /\ ExclusiveLease /\ RunningIsHeld /\ RunsFollowTask
    /\ LeasedRunsStarted /\ OneRunning /\ RestartBlocksGrant

LEMMA InitLeaseInv == Init => LeaseInv
<1> SUFFICES ASSUME Init PROVE LeaseInv
    OBVIOUS
<1>1. TypeInv
    BY InitTypeInv
<1>2. QED
    BY <1>1, RunFacts
       DEF Init, LeaseInv, LeaseAgreement, ExclusiveLease, RunningIsHeld, RunsFollowTask,
           LeasedRunsStarted, OneRunning, RestartBlocksGrant, Held, ActiveRuns

\* A task that is neither queued, running nor cancelled has no part in the
\* invariant, and may be given any other such status.
LEMMA IdleStep ==
    ASSUME LeaseInv, TypeInv', NEW t \in Tasks,
           taskStatus[t] \notin {"QUEUED", "RUNNING", "CANCELLED"},
           NEW s, s \notin {"QUEUED", "RUNNING"},
           taskStatus' = [taskStatus EXCEPT ![t] = s],
           UNCHANGED <<runVars, leaseVars>>
    PROVE  LeaseInv'
<1> USE DEF LeaseInv, TypeInv, TypeOK, runVars, leaseVars, Held, LeaseTaskOf
<1>1. LeaseAgreement'
    BY RunFacts DEF LeaseAgreement
<1>2. ExclusiveLease'
    BY DEF ExclusiveLease
<1>3. RunningIsHeld'
    BY DEF RunningIsHeld
<1>4. RunsFollowTask'
    BY RunFacts DEF RunsFollowTask, ActiveRuns
<1>5. LeasedRunsStarted' /\ OneRunning'
    BY DEF LeasedRunsStarted, OneRunning
<1>6. RestartBlocksGrant'
    BY DEF RestartBlocksGrant, ActiveRuns, LeaseAgreement
<1>7. QED
    BY <1>1, <1>2, <1>3, <1>4, <1>5, <1>6

\* Queueing a task with a new run, whether or not it is being executed.
LEMMA QueueStep ==
    ASSUME LeaseInv, TypeInv', NEW t \in Tasks, NEW r \in Runs,
           taskStatus[t] \notin {"QUEUED", "CANCELLED"}, FreshRun(t, r),
           taskStatus' = [taskStatus EXCEPT ![t] = "QUEUED"],
           runStatus' = [runStatus EXCEPT ![r] = "QUEUED"],
           UNCHANGED <<runLease, leaseVars>>
    PROVE  LeaseInv'
<1> USE DEF LeaseInv, TypeInv, TypeOK, leaseVars, Held, LeaseTaskOf, FreshRun
<1>1. LeaseAgreement'
    BY RunFacts DEF LeaseAgreement
<1>2. ExclusiveLease'
    BY DEF ExclusiveLease
<1>3. RunningIsHeld'
    BY DEF RunningIsHeld
<1>4. RunsFollowTask'
  <2>1. \A u \in Tasks : u # t => ActiveRuns(u)' = ActiveRuns(u)
      BY DEF ActiveRuns
  <2>2. r \in ActiveRuns(t)'
      BY DEF ActiveRuns
  <2>3. \A u \in Tasks : u # t => \A q \in ActiveRuns(u) : q # r
      BY DEF ActiveRuns
  <2>4. QED
      BY <2>1, <2>2, <2>3, RunFacts DEF RunsFollowTask
<1>5. LeasedRunsStarted' /\ OneRunning'
    BY DEF LeasedRunsStarted, OneRunning
<1>6. RestartBlocksGrant'
  <2> SUFFICES ASSUME NEW l \in Leases, Held(l), taskStatus'[LeaseTaskOf(l)] = "QUEUED"
               PROVE  /\ runStatus'[leaseRun[l]] = "RUNNING"
                      /\ \E q \in ActiveRuns(LeaseTaskOf(l))' : q # leaseRun[l]
      BY DEF RestartBlocksGrant
  <2>1. leaseRun[l] \in Runs /\ leaseRun[l] # r
      BY DEF LeaseAgreement, LeasedRunsStarted
  <2>2. CASE LeaseTaskOf(l) = t
      BY <2>1, <2>2 DEF LeaseAgreement, ActiveRuns
  <2>3. CASE LeaseTaskOf(l) # t
      BY <2>1, <2>3, RunFacts DEF RestartBlocksGrant, ActiveRuns
  <2>4. QED
      BY <2>2, <2>3
<1>7. QED
    BY <1>1, <1>2, <1>3, <1>4, <1>5, <1>6

\* Cancelling a task ends every run it has.
LEMMA CancelStep ==
    ASSUME LeaseInv, TypeInv', NEW t \in Tasks, CancelTask(t)
    PROVE  LeaseInv'
<1> USE DEF LeaseInv, TypeInv, TypeOK, leaseVars, Held, LeaseTaskOf, CancelTask, CancellableRun
<1>1. LeaseAgreement'
    BY RunFacts DEF LeaseAgreement
<1>2. ExclusiveLease'
    BY DEF ExclusiveLease
<1>3. RunningIsHeld'
    BY DEF RunningIsHeld
<1>4. RunsFollowTask'
  <2>1. \A u \in Tasks : u # t => ActiveRuns(u)' = ActiveRuns(u)
      BY DEF ActiveRuns
  <2>2. \A q \in Runs : TaskOf(q) # t => runStatus'[q] = runStatus[q]
      OBVIOUS
  <2>3. \A q \in Runs : TaskOf(q) = t => runStatus'[q] \notin {"QUEUED", "RUNNING"}
      OBVIOUS
  <2>4. \A u \in Tasks : \A q \in ActiveRuns(u) : q \in Runs /\ TaskOf(q) = u
      BY DEF ActiveRuns
  <2>5. QED
      BY <2>1, <2>2, <2>3, <2>4, RunFacts DEF RunsFollowTask
<1>5. LeasedRunsStarted' /\ OneRunning'
    BY DEF LeasedRunsStarted, OneRunning
<1>6. RestartBlocksGrant'
    BY RunFacts DEF RestartBlocksGrant, ActiveRuns, LeaseAgreement
<1>7. QED
    BY <1>1, <1>2, <1>3, <1>4, <1>5, <1>6

\* A FINISH settles the one running run of the task and drops its leases.
LEMMA FinishStep ==
    ASSUME LeaseInv, TypeInv', NEW l \in Leases, FinishRun(l)
    PROVE  LeaseInv'
<1> DEFINE r == leaseRun[l]
           t == TaskOf(r)
           o == outcome[l]
<1> USE DEF LeaseInv, TypeInv, TypeOK, Held, LeaseTaskOf
<1>1. /\ r \in Runs /\ t \in Tasks
      /\ o \in FinishStatuses
      /\ runStatus[r] = "RUNNING"
    BY RunFacts, InputsAssumption
       DEF FinishRun, ReportsAreOnRuns, LeasedRunsStarted, TerminalRun, RunStatuses, FinishStatuses
<1>2. /\ taskStatus[t] \in {"RUNNING", "QUEUED"}
      /\ taskStatus[t] = "QUEUED" => o = "CANCELLED"
    BY <1>1, TransitionFacts DEF FinishRun, RunsFollowTask, FinishStatuses
<1>3. /\ runStatus' = [runStatus EXCEPT ![r] = o]
      /\ taskStatus' = [taskStatus EXCEPT ![t] = o]
      /\ leaseState' = [k \in Leases |->
            IF leaseRun[k] = r /\ Held(k) THEN "DELETED" ELSE leaseState[k]]
      /\ UNCHANGED <<runLease, leaseRun>>
    BY DEF FinishRun, LeasesWithout
<1>4. \A k \in Leases : Held(k)' => Held(k) /\ leaseRun[k] # r
    BY <1>3
<1>5. \A k \in Leases : Held(k)' /\ LeaseTaskOf(k) = t => taskStatus[t] = "QUEUED"
  <2> SUFFICES ASSUME NEW k \in Leases, Held(k)', LeaseTaskOf(k) = t, taskStatus[t] # "QUEUED"
               PROVE  FALSE
      OBVIOUS
  <2>1. leaseRun[k] \in Runs /\ runStatus[leaseRun[k]] = "RUNNING"
      BY <1>2, <1>4 DEF LeaseAgreement
  <2>2. QED
      BY <1>1, <1>4, <2>1 DEF OneRunning
<1> HIDE DEF r, t, o
<1>6. LeaseAgreement'
    BY <1>1, <1>2, <1>3, <1>4, <1>5 DEF LeaseAgreement
<1>7. ExclusiveLease'
    BY <1>3, <1>4 DEF ExclusiveLease
<1>8. RunningIsHeld'
  <2> SUFFICES ASSUME NEW u \in Tasks, taskStatus'[u] = "RUNNING"
               PROVE  \E k \in Leases : Held(k)' /\ TaskOf(leaseRun'[k]) = u
      BY DEF RunningIsHeld
  <2>1. u # t /\ taskStatus[u] = "RUNNING"
      BY <1>1, <1>3 DEF FinishStatuses
  <2>2. PICK k \in Leases : Held(k) /\ LeaseTaskOf(k) = u
      BY <2>1 DEF RunningIsHeld
  <2>3. leaseRun[k] # r
      BY <2>1, <2>2 DEF t
  <2>4. QED
      BY <1>3, <2>2, <2>3
<1>9. RunsFollowTask'
  <2>1. \A u \in Tasks : u # t => ActiveRuns(u)' = ActiveRuns(u)
      BY <1>1, <1>3 DEF ActiveRuns, t
  <2>2. \A u \in Tasks : u # t => r \notin ActiveRuns(u)
      BY DEF ActiveRuns, t
  <2>3. ASSUME NEW q \in Runs, TaskOf(q) = t, q # r
        PROVE  /\ runStatus[q] # "RUNNING"
               /\ runStatus[q] = "QUEUED" => taskStatus[t] = "QUEUED"
    <3>1. runStatus[q] # "RUNNING"
        BY <1>1, <2>3 DEF OneRunning, t
    <3>2. CASE taskStatus[t] = "RUNNING"
        BY <1>1, <2>3, <3>2 DEF RunsFollowTask, ActiveRuns, t
    <3>3. QED
        BY <1>2, <3>1, <3>2
  <2>4. QED
      BY <1>1, <1>2, <1>3, <2>1, <2>2, <2>3, RunFacts DEF RunsFollowTask, FinishStatuses
<1>10. LeasedRunsStarted' /\ OneRunning'
    BY <1>1, <1>3 DEF LeasedRunsStarted, OneRunning, FinishStatuses
<1>11. RestartBlocksGrant'
  <2> SUFFICES ASSUME NEW k \in Leases, Held(k)', taskStatus'[LeaseTaskOf(k)] = "QUEUED"
               PROVE  /\ runStatus'[leaseRun[k]] = "RUNNING"
                      /\ \E q \in ActiveRuns(LeaseTaskOf(k))' : q # leaseRun[k]
      BY <1>3 DEF RestartBlocksGrant
  <2>1. LeaseTaskOf(k) # t
      BY <1>1, <1>3 DEF FinishStatuses
  <2>2. Held(k) /\ taskStatus[LeaseTaskOf(k)] = "QUEUED" /\ leaseRun[k] # r
      BY <1>3, <1>4, <2>1
  <2>3. \A q \in ActiveRuns(LeaseTaskOf(k)) : q # r
      BY <2>1 DEF ActiveRuns, t
  <2>4. QED
      BY <1>3, <2>1, <2>2, <2>3 DEF RestartBlocksGrant, ActiveRuns, LeaseAgreement
<1>12. QED
    BY <1>6, <1>7, <1>8, <1>9, <1>10, <1>11

\* What a poll finds once leases past their expiry are collected: a task keeps
\* its status, or was RUNNING under an expired lease and is queued.
LEMMA ExpiryFacts ==
    ASSUME LeaseInv
    PROVE  /\ \A u \in Tasks : \/ StatusAfterExpiry[u] = taskStatus[u]
                               \/ taskStatus[u] = "RUNNING" /\ StatusAfterExpiry[u] = "QUEUED"
           /\ \A u \in Tasks : StatusAfterExpiry[u] = "RUNNING" =>
                 \E k \in Leases : leaseState[k] = "LIVE" /\ LeaseTaskOf(k) = u
           /\ \A k \in Leases : leaseState[k] = "LIVE" /\ taskStatus[LeaseTaskOf(k)] = "RUNNING" =>
                 StatusAfterExpiry[LeaseTaskOf(k)] = "RUNNING"
           /\ \A q \in Runs : \/ RunsAfterExpiry[q] = runStatus[q]
                              \/ /\ runStatus[q] = "QUEUED" /\ RunsAfterExpiry[q] = "CANCELLED"
                                 /\ taskStatus[TaskOf(q)] = "CANCELLED"
<1> USE DEF LeaseInv, TypeInv, TypeOK, LeaseTaskOf
<1>1. \A u \in Tasks : \/ StatusAfterExpiry[u] = taskStatus[u]
                       \/ taskStatus[u] = "RUNNING" /\ StatusAfterExpiry[u] = "QUEUED"
    BY DEF StatusAfterExpiry
<1>2. ASSUME NEW u \in Tasks, StatusAfterExpiry[u] = "RUNNING"
      PROVE  \E k \in Leases : leaseState[k] = "LIVE" /\ LeaseTaskOf(k) = u
  <2>1. taskStatus[u] = "RUNNING" /\ ~ \E k \in Expired : TaskOf(leaseRun[k]) = u
      BY <1>2 DEF StatusAfterExpiry
  <2>2. PICK k \in Leases : Held(k) /\ LeaseTaskOf(k) = u
      BY <2>1 DEF RunningIsHeld
  <2>3. QED
      BY <2>1, <2>2 DEF Held, Expired
<1>3. ASSUME NEW k \in Leases, leaseState[k] = "LIVE", taskStatus[LeaseTaskOf(k)] = "RUNNING"
      PROVE  StatusAfterExpiry[LeaseTaskOf(k)] = "RUNNING"
  <2>1. \A j \in Expired : LeaseTaskOf(j) # LeaseTaskOf(k)
      BY <1>3 DEF Expired, Held, ExclusiveLease
  <2>2. LeaseTaskOf(k) \in Tasks
      BY <1>3, RunFacts DEF LeaseAgreement, Held
  <2>3. QED
      BY <1>3, <2>1, <2>2 DEF StatusAfterExpiry
<1>4. \A q \in Runs : \/ RunsAfterExpiry[q] = runStatus[q]
                      \/ /\ runStatus[q] = "QUEUED" /\ RunsAfterExpiry[q] = "CANCELLED"
                         /\ taskStatus[TaskOf(q)] = "CANCELLED"
    BY <1>1, RunFacts DEF RunsAfterExpiry
<1>5. QED
    BY <1>1, <1>2, <1>3, <1>4

\* A queued task with a single active run is held by nobody: a lease that the
\* poll keeps belongs to some other task.
LEMMA GrantIsExclusive ==
    ASSUME LeaseInv, NEW t \in Queue, NEW r \in Runs, RunToExecute(t, r)
    PROVE  /\ ActiveRuns(t) = {r}
           /\ \A k \in Leases : leaseState[k] = "LIVE" => LeaseTaskOf(k) # t
<1> USE DEF LeaseInv, TypeInv, TypeOK, LeaseTaskOf
<1>1. t \in Tasks /\ taskStatus[t] \in {"QUEUED", "RUNNING"}
    BY ExpiryFacts DEF Queue
<1>2. ActiveRuns(t) = {r}
    BY <1>1 DEF RunsFollowTask, RunToExecute
<1>3. ASSUME NEW k \in Leases, leaseState[k] = "LIVE", LeaseTaskOf(k) = t PROVE FALSE
  <2>1. taskStatus[t] = "QUEUED"
      BY <1>1, <1>3, ExpiryFacts DEF Queue
  <2>2. leaseRun[k] \in ActiveRuns(t) /\ \E q \in ActiveRuns(t) : q # leaseRun[k]
      BY <1>3, <2>1 DEF RestartBlocksGrant, Held, LeaseAgreement, ActiveRuns
  <2>3. QED
      BY <1>2, <2>2
<1>4. QED
    BY <1>2, <1>3

\* A poll that only collects leases and gives up invalid tasks.
LEMMA NothingToGrantStep ==
    ASSUME LeaseInv, TypeInv', NEW invalid \in SUBSET Queue, NothingToGrant(invalid)
    PROVE  LeaseInv'
<1> DEFINE d == Candidates \cap invalid
<1> USE DEF LeaseInv, TypeInv, TypeOK, Held, LeaseTaskOf
<1>1. d \subseteq Tasks /\ \A u \in d : StatusAfterExpiry[u] = "QUEUED"
    BY DEF Candidates, Queue
<1>2. /\ taskStatus' = [u \in Tasks |-> IF u \in d THEN "CANCELLED" ELSE StatusAfterExpiry[u]]
      /\ runStatus' = [q \in Runs |->
            IF TaskOf(q) \in d /\ RunsAfterExpiry[q] \in {"QUEUED", "RUNNING"}
            THEN "CANCELLED" ELSE RunsAfterExpiry[q]]
      /\ \A k \in Leases : Held(k)' <=> leaseState[k] = "LIVE"
      /\ UNCHANGED <<runLease, leaseRun>>
    BY DEF NothingToGrant, StatusAfterDrop, RunsAfterDrop, LeasesAfterExpiry, Expired
<1> HIDE DEF d
<1>3. ASSUME NEW u \in Tasks, u \notin d, taskStatus[u] # "CANCELLED"
      PROVE  /\ \A q \in Runs : TaskOf(q) = u => runStatus'[q] = runStatus[q]
             /\ ActiveRuns(u)' = ActiveRuns(u)
  <2>1. \A q \in Runs : TaskOf(q) = u => runStatus'[q] = runStatus[q]
      BY <1>2, <1>3, ExpiryFacts
  <2>2. QED
      BY <2>1 DEF ActiveRuns
<1>4. LeaseAgreement'
    BY <1>1, <1>2, ExpiryFacts, RunFacts DEF LeaseAgreement
<1>5. ExclusiveLease'
    BY <1>2 DEF ExclusiveLease
<1>6. RunningIsHeld'
    BY <1>1, <1>2, ExpiryFacts DEF RunningIsHeld
<1>7. RunsFollowTask'
  <2>1. ASSUME NEW u \in Tasks, taskStatus'[u] = "RUNNING"
        PROVE  \E r \in Runs : ActiveRuns(u)' = {r} /\ runStatus'[r] = "RUNNING"
    <3>1. u \notin d /\ taskStatus[u] = "RUNNING"
        BY <1>2, <2>1, ExpiryFacts
    <3>2. PICK r \in Runs : ActiveRuns(u) = {r} /\ runStatus[r] = "RUNNING"
        BY <3>1 DEF RunsFollowTask
    <3>3. TaskOf(r) = u
        BY <3>2 DEF ActiveRuns
    <3>4. QED
        BY <1>3, <3>1, <3>2, <3>3
  <2>2. ASSUME NEW u \in Tasks, taskStatus'[u] = "QUEUED" PROVE ActiveRuns(u)' # {}
    <3>1. u \notin d /\ taskStatus[u] \in {"QUEUED", "RUNNING"}
        BY <1>2, <2>2, ExpiryFacts
    <3>2. ActiveRuns(u) # {}
        BY <3>1 DEF RunsFollowTask
    <3>3. QED
        BY <1>3, <3>1, <3>2
  <2>3. ASSUME NEW q \in Runs, runStatus'[q] = "RUNNING"
        PROVE  taskStatus'[TaskOf(q)] \in {"RUNNING", "QUEUED"}
    <3>1. runStatus[q] = "RUNNING" /\ TaskOf(q) \notin d
        BY <1>2, <2>3, ExpiryFacts
    <3>2. QED
        BY <1>2, <3>1, ExpiryFacts, RunFacts DEF RunsFollowTask
  <2>4. ASSUME NEW q \in Runs, runStatus'[q] = "QUEUED"
        PROVE  taskStatus'[TaskOf(q)] \in {"QUEUED", "CANCELLED"}
    <3>1. runStatus[q] = "QUEUED"
        BY <1>2, <2>4, ExpiryFacts
    <3>2. QED
        BY <1>2, <3>1, ExpiryFacts, RunFacts DEF RunsFollowTask
  <2>5. QED
      BY <2>1, <2>2, <2>3, <2>4 DEF RunsFollowTask
<1>8. LeasedRunsStarted' /\ OneRunning'
    BY <1>1, <1>2, ExpiryFacts DEF LeasedRunsStarted, OneRunning
<1>9. RestartBlocksGrant'
  <2> SUFFICES ASSUME NEW k \in Leases, Held(k)', (taskStatus[LeaseTaskOf(k)] = "QUEUED")'
               PROVE  (/\ runStatus[leaseRun[k]] = "RUNNING"
                       /\ \E q \in ActiveRuns(LeaseTaskOf(k)) : q # leaseRun[k])'
      BY DEF RestartBlocksGrant
  <2>1. leaseState[k] = "LIVE" /\ leaseRun[k] \in Runs /\ LeaseTaskOf(k) \in Tasks
      BY <1>2, RunFacts DEF LeaseAgreement
  <2>2. LeaseTaskOf(k) \notin d /\ taskStatus[LeaseTaskOf(k)] = "QUEUED"
      BY <1>2, <2>1, ExpiryFacts
  <2>3. PICK q \in ActiveRuns(LeaseTaskOf(k)) : q # leaseRun[k]
      BY <2>1, <2>2 DEF RestartBlocksGrant
  <2>4. runStatus[leaseRun[k]] = "RUNNING"
      BY <2>1, <2>2 DEF RestartBlocksGrant
  <2>5. runStatus'[leaseRun[k]] = "RUNNING" /\ runStatus'[q] = runStatus[q]
      BY <1>3, <2>1, <2>2, <2>4, <2>3 DEF ActiveRuns
  <2>6. QED
      BY <1>2, <2>3, <2>5 DEF ActiveRuns
<1>10. QED
    BY <1>4, <1>5, <1>6, <1>7, <1>8, <1>9

\* A poll that grants a lease, after collecting expired ones and giving up the
\* invalid tasks ahead of the one it grants.
LEMMA GrantStep ==
    ASSUME LeaseInv, TypeInv', NEW w \in Workers, NEW invalid \in SUBSET Queue,
           NEW t \in Queue, NEW r \in Runs, NEW l \in Leases, Grant(w, t, r, l, invalid)
    PROVE  LeaseInv'
<1> DEFINE d == {u \in Candidates \cap invalid : u < t}
<1> USE DEF LeaseInv, TypeInv, TypeOK, Held, LeaseTaskOf
<1>1. /\ d \subseteq Tasks /\ \A u \in d : StatusAfterExpiry[u] = "QUEUED"
      /\ t \in Tasks /\ t \notin d /\ taskStatus[t] \in {"QUEUED", "RUNNING"}
    BY ExpiryFacts DEF Candidates, Queue, Tasks
<1>2. /\ taskStatus' = [u \in Tasks |-> IF u = t THEN "RUNNING"
                                        ELSE IF u \in d THEN "CANCELLED" ELSE StatusAfterExpiry[u]]
      /\ runStatus' = [q \in Runs |->
            IF q = r THEN "RUNNING"
            ELSE IF TaskOf(q) \in d /\ RunsAfterExpiry[q] \in {"QUEUED", "RUNNING"}
                 THEN "CANCELLED" ELSE RunsAfterExpiry[q]]
      /\ \A k \in Leases : Held(k)' <=> k = l \/ leaseState[k] = "LIVE"
      /\ runLease' = [runLease EXCEPT ![r] = l]
      /\ leaseRun' = [leaseRun EXCEPT ![l] = r]
      /\ leaseState[l] = "UNUSED"
  <2>1. /\ taskStatus' = [StatusAfterDrop(d) EXCEPT ![t] = "RUNNING"]
        /\ runStatus' = [RunsAfterDrop(d) EXCEPT ![r] = "RUNNING"]
        /\ leaseState' = [LeasesAfterExpiry EXCEPT ![l] = "LIVE"]
        /\ runLease' = [runLease EXCEPT ![r] = l]
        /\ leaseRun' = [leaseRun EXCEPT ![l] = r]
        /\ leaseState[l] = "UNUSED"
      BY DEF Grant
  <2> HIDE DEF d
  <2>2. taskStatus' = [u \in Tasks |-> IF u = t THEN "RUNNING"
                                       ELSE IF u \in d THEN "CANCELLED" ELSE StatusAfterExpiry[u]]
      BY <2>1 DEF StatusAfterDrop
  <2>3. runStatus' = [q \in Runs |->
            IF q = r THEN "RUNNING"
            ELSE IF TaskOf(q) \in d /\ RunsAfterExpiry[q] \in {"QUEUED", "RUNNING"}
                 THEN "CANCELLED" ELSE RunsAfterExpiry[q]]
      BY <2>1 DEF RunsAfterDrop
  <2>4. \A k \in Leases : Held(k)' <=> k = l \/ leaseState[k] = "LIVE"
      BY <2>1 DEF LeasesAfterExpiry, Expired
  <2>5. QED
      BY <2>1, <2>2, <2>3, <2>4
<1>3. /\ ActiveRuns(t) = {r} /\ TaskOf(r) = t
      /\ \A k \in Leases : leaseState[k] = "LIVE" => TaskOf(leaseRun[k]) # t
  <2>1. RunToExecute(t, r)
      BY DEF Grant
  <2>2. QED
      BY <2>1, GrantIsExclusive DEF ActiveRuns
<1> HIDE DEF d
<1>4. ASSUME NEW u \in Tasks, u # t, u \notin d, taskStatus[u] # "CANCELLED"
      PROVE  /\ \A q \in Runs : TaskOf(q) = u => runStatus'[q] = runStatus[q]
             /\ ActiveRuns(u)' = ActiveRuns(u)
  <2>1. \A q \in Runs : TaskOf(q) = u => runStatus'[q] = runStatus[q]
      BY <1>2, <1>3, <1>4, ExpiryFacts
  <2>2. QED
      BY <2>1 DEF ActiveRuns
<1>5. ActiveRuns(t)' = {r}
  <2>1. \A q \in Runs : TaskOf(q) = t /\ q # r => runStatus'[q] = runStatus[q]
      BY <1>1, <1>2, ExpiryFacts
  <2>2. \A q \in Runs : TaskOf(q) = t /\ q # r => runStatus[q] \notin {"QUEUED", "RUNNING"}
      BY <1>3 DEF ActiveRuns
  <2>3. runStatus'[r] = "RUNNING"
      BY <1>2
  <2>4. QED
      BY <1>3, <2>1, <2>2, <2>3 DEF ActiveRuns
<1>6. ASSUME NEW k \in Leases, leaseState[k] = "LIVE"
      PROVE  /\ k # l /\ leaseRun'[k] = leaseRun[k] /\ leaseRun[k] \in Runs
             /\ leaseRun[k] # r /\ LeaseTaskOf(k) # t /\ LeaseTaskOf(k) \in Tasks
    BY <1>2, <1>3, <1>6, RunFacts DEF LeaseAgreement
<1>7. LeaseAgreement'
  <2> SUFFICES ASSUME NEW k \in Leases, Held(k)'
               PROVE  (/\ leaseRun[k] \in Runs
                       /\ taskStatus[LeaseTaskOf(k)] \in {"RUNNING", "QUEUED", "CANCELLED"}
                       /\ taskStatus[LeaseTaskOf(k)] = "RUNNING" =>
                             runStatus[leaseRun[k]] = "RUNNING" /\ runLease[leaseRun[k]] = k)'
      BY DEF LeaseAgreement
  <2>1. CASE k = l
      BY <1>1, <1>2, <1>3, <2>1
  <2>2. CASE leaseState[k] = "LIVE"
    <3>1. taskStatus'[TaskOf(leaseRun[k])] \in {"RUNNING", "QUEUED", "CANCELLED"}
        BY <1>1, <1>2, <1>6, <2>2, ExpiryFacts DEF LeaseAgreement
    <3>2. ASSUME taskStatus'[TaskOf(leaseRun[k])] = "RUNNING"
          PROVE  runStatus'[leaseRun[k]] = "RUNNING" /\ runLease'[leaseRun[k]] = k
      <4>1. taskStatus[TaskOf(leaseRun[k])] = "RUNNING" /\ TaskOf(leaseRun[k]) \notin d
          BY <1>2, <1>6, <2>2, <3>2, ExpiryFacts
      <4>2. QED
          BY <1>2, <1>4, <1>6, <2>2, <4>1 DEF LeaseAgreement
    <3>3. QED
        BY <1>6, <2>2, <3>1, <3>2
  <2>3. QED
      BY <1>2, <2>1, <2>2
<1>8. ExclusiveLease'
    BY <1>2, <1>3, <1>6 DEF ExclusiveLease
<1>9. RunningIsHeld'
  <2> SUFFICES ASSUME NEW u \in Tasks, taskStatus'[u] = "RUNNING"
               PROVE  \E k \in Leases : Held(k)' /\ TaskOf(leaseRun'[k]) = u
      BY DEF RunningIsHeld
  <2>1. CASE u = t
      BY <1>2, <1>3, <2>1
  <2>2. CASE u # t
    <3>1. StatusAfterExpiry[u] = "RUNNING"
        BY <1>2, <2>2
    <3>2. PICK k \in Leases : leaseState[k] = "LIVE" /\ TaskOf(leaseRun[k]) = u
        BY <3>1, ExpiryFacts
    <3>3. QED
        BY <1>2, <1>6, <3>2
  <2>3. QED
      BY <2>1, <2>2
<1>10. RunsFollowTask'
  <2>1. ASSUME NEW u \in Tasks, taskStatus'[u] = "RUNNING"
        PROVE  \E q \in Runs : ActiveRuns(u)' = {q} /\ runStatus'[q] = "RUNNING"
    <3>1. CASE u = t
        BY <1>2, <1>5, <3>1
    <3>2. CASE u # t
      <4>1. u \notin d /\ taskStatus[u] = "RUNNING"
          BY <1>2, <2>1, <3>2, ExpiryFacts
      <4>2. PICK q \in Runs : ActiveRuns(u) = {q} /\ runStatus[q] = "RUNNING"
          BY <4>1 DEF RunsFollowTask
      <4>3. TaskOf(q) = u
          BY <4>2 DEF ActiveRuns
      <4>4. QED
          BY <1>4, <3>2, <4>1, <4>2, <4>3
    <3>3. QED
        BY <3>1, <3>2
  <2>2. ASSUME NEW u \in Tasks, taskStatus'[u] = "QUEUED" PROVE ActiveRuns(u)' # {}
    <3>1. u # t /\ u \notin d /\ taskStatus[u] \in {"QUEUED", "RUNNING"}
        BY <1>2, <2>2, ExpiryFacts
    <3>2. ActiveRuns(u) # {}
        BY <3>1 DEF RunsFollowTask
    <3>3. QED
        BY <1>4, <3>1, <3>2
  <2>3. ASSUME NEW q \in Runs, runStatus'[q] = "RUNNING"
        PROVE  taskStatus'[TaskOf(q)] \in {"RUNNING", "QUEUED"}
    <3>1. CASE q = r
        BY <1>1, <1>2, <1>3, <3>1
    <3>2. CASE q # r
      <4>1. runStatus[q] = "RUNNING" /\ TaskOf(q) \notin d
          BY <1>2, <2>3, <3>2, ExpiryFacts
      <4>2. QED
          BY <1>2, <4>1, ExpiryFacts, RunFacts DEF RunsFollowTask
    <3>3. QED
        BY <3>1, <3>2
  <2>4. ASSUME NEW q \in Runs, runStatus'[q] = "QUEUED"
        PROVE  taskStatus'[TaskOf(q)] \in {"QUEUED", "CANCELLED"}
    <3>1. runStatus[q] = "QUEUED" /\ q # r
        BY <1>2, <2>4, ExpiryFacts
    <3>2. TaskOf(q) # t
        BY <1>3, <3>1 DEF ActiveRuns
    <3>3. QED
        BY <1>2, <3>1, <3>2, ExpiryFacts, RunFacts DEF RunsFollowTask
  <2>5. QED
      BY <2>1, <2>2, <2>3, <2>4 DEF RunsFollowTask
<1>11. LeasedRunsStarted'
    BY <1>1, <1>2, ExpiryFacts DEF LeasedRunsStarted
<1>12. OneRunning'
  <2>1. \A q \in Runs : runStatus'[q] = "RUNNING" /\ TaskOf(q) = t => q = r
      BY <1>5 DEF ActiveRuns
  <2>2. \A q \in Runs : runStatus'[q] = "RUNNING" /\ q # r => runStatus[q] = "RUNNING"
      BY <1>2, ExpiryFacts
  <2>3. QED
      BY <1>3, <2>1, <2>2 DEF OneRunning
<1>13. RestartBlocksGrant'
  <2> SUFFICES ASSUME NEW k \in Leases, Held(k)', (taskStatus[LeaseTaskOf(k)] = "QUEUED")'
               PROVE  (/\ runStatus[leaseRun[k]] = "RUNNING"
                       /\ \E q \in ActiveRuns(LeaseTaskOf(k)) : q # leaseRun[k])'
      BY DEF RestartBlocksGrant
  <2>1. leaseState[k] = "LIVE"
      BY <1>1, <1>2, <1>3
  <2>2. LeaseTaskOf(k) \notin d /\ taskStatus[LeaseTaskOf(k)] = "QUEUED"
      BY <1>2, <1>6, <2>1, ExpiryFacts
  <2>3. PICK q \in ActiveRuns(LeaseTaskOf(k)) : q # leaseRun[k]
      BY <2>1, <2>2 DEF RestartBlocksGrant
  <2>4. runStatus[leaseRun[k]] = "RUNNING"
      BY <2>1, <2>2 DEF RestartBlocksGrant
  <2>5. runStatus'[leaseRun[k]] = "RUNNING" /\ runStatus'[q] = runStatus[q]
      BY <1>4, <1>6, <2>1, <2>2, <2>4, <2>3 DEF ActiveRuns
  <2>6. QED
      BY <1>6, <2>1, <2>3, <2>5 DEF ActiveRuns
<1>14. QED
    BY <1>7, <1>8, <1>9, <1>10, <1>11, <1>12, <1>13

-----------------------------------------------------------------------------
(* Human actions                                                           *)

\* An action is open to operators only on a task that waits, or that was closed
\* over the action's head: never on one that is queued or running again.
ActionsOfWaiting ==
    \A r \in Runs : actionStatus[r] \in ActiveActions =>
        taskStatus[TaskOf(r)] \in {"WAITING_HUMAN", "HUMAN_OPERATING", "SUCCESS_MANUAL", "CANCELLED"}

HumanInv == ActionsOfWaiting /\ HumanCheckpoint

\* A step that touches no action and leaves waiting tasks alone or closes them.
LEMMA NoActionStep ==
    ASSUME HumanInv, TypeInv, TypeInv', actionStatus' = actionStatus,
           \A t \in Tasks :
              \/ taskStatus'[t] = taskStatus[t]
              \/ /\ taskStatus'[t] \notin {"WAITING_HUMAN", "HUMAN_OPERATING"}
                 /\ taskStatus[t] \in {"WAITING_HUMAN", "HUMAN_OPERATING", "SUCCESS_MANUAL", "CANCELLED"} =>
                       taskStatus'[t] \in {"SUCCESS_MANUAL", "CANCELLED"}
    PROVE  HumanInv'
<1> USE DEF HumanInv, TypeInv, TypeOK
<1>1. ActionsOfWaiting'
    BY RunFacts DEF ActionsOfWaiting
<1>2. HumanCheckpoint'
    BY DEF HumanCheckpoint
<1>3. QED
    BY <1>1, <1>2

\* The run that starts to wait gets a PENDING action in the same transaction.
LEMMA FinishActionStep ==
    ASSUME LeaseInv, HumanInv, TypeInv', NEW l \in Leases, FinishRun(l)
    PROVE  HumanInv'
<1> DEFINE r == leaseRun[l]
           t == TaskOf(r)
           o == outcome[l]
<1> USE DEF LeaseInv, HumanInv, TypeInv, TypeOK
<1>1. r \in Runs /\ t \in Tasks /\ o \in FinishStatuses
    BY RunFacts, InputsAssumption DEF FinishRun, ReportsAreOnRuns
<1>2. taskStatus[t] \in {"RUNNING", "QUEUED"} /\ (taskStatus[t] = "QUEUED" => o = "CANCELLED")
  <2>1. runStatus[r] = "RUNNING"
      BY <1>1 DEF FinishRun, LeasedRunsStarted, TerminalRun, RunStatuses, FinishStatuses
  <2>2. QED
      BY <1>1, <2>1, TransitionFacts DEF FinishRun, RunsFollowTask, FinishStatuses
<1>3. /\ taskStatus' = [taskStatus EXCEPT ![t] = o]
      /\ actionStatus' = IF o = "WAITING_HUMAN" /\ actionStatus[r] \notin ActiveActions
                         THEN [actionStatus EXCEPT ![r] = "PENDING"] ELSE actionStatus
    BY DEF FinishRun
<1>4. \A q \in Runs : TaskOf(q) = t => actionStatus[q] \notin ActiveActions
    BY <1>2 DEF ActionsOfWaiting
<1>5. CASE o = "WAITING_HUMAN"
  <2>1. actionStatus' = [actionStatus EXCEPT ![r] = "PENDING"]
      BY <1>1, <1>3, <1>4, <1>5
  <2>2. ActionsOfWaiting'
      BY <1>1, <1>3, <1>4, <1>5, <2>1, RunFacts DEF ActionsOfWaiting
  <2>3. HumanCheckpoint'
      BY <1>1, <1>3, <1>4, <1>5, <2>1 DEF HumanCheckpoint, ActiveActions
  <2>4. QED
      BY <2>2, <2>3
<1>6. CASE o # "WAITING_HUMAN"
  <2>1. actionStatus' = actionStatus
      BY <1>3, <1>6
  <2>2. \A u \in Tasks :
           \/ taskStatus'[u] = taskStatus[u]
           \/ /\ taskStatus'[u] \notin {"WAITING_HUMAN", "HUMAN_OPERATING"}
              /\ taskStatus[u] \notin {"WAITING_HUMAN", "HUMAN_OPERATING", "SUCCESS_MANUAL", "CANCELLED"}
      BY <1>1, <1>2, <1>3, <1>6 DEF FinishStatuses
  <2>3. QED
      BY <2>1, <2>2, NoActionStep
<1>7. QED
    BY <1>5, <1>6

\* Opening, confirming or cancelling an action moves its task with it.
LEMMA MoveActionStep ==
    ASSUME HumanInv, TypeInv, TypeInv', NEW r \in Runs,
           NEW a \in {"OPENED", "CONFIRMED", "CANCELLED"},
           NEW s \in {"HUMAN_OPERATING", "SUCCESS_MANUAL", "CANCELLED"},
           a = "OPENED" <=> s = "HUMAN_OPERATING",
           actionStatus[r] \in ActiveActions,
           taskStatus' = [taskStatus EXCEPT ![TaskOf(r)] = s],
           actionStatus' = [actionStatus EXCEPT ![r] = a]
    PROVE  HumanInv'
<1> USE DEF HumanInv, TypeInv, TypeOK
<1>1. /\ TaskOf(r) \in Tasks
      /\ taskStatus[TaskOf(r)] \in {"WAITING_HUMAN", "HUMAN_OPERATING", "SUCCESS_MANUAL", "CANCELLED"}
    BY RunFacts DEF ActionsOfWaiting
<1>2. ActionsOfWaiting'
    BY <1>1, RunFacts DEF ActionsOfWaiting, ActiveActions
<1>3. HumanCheckpoint'
    BY <1>1, RunFacts DEF HumanCheckpoint
<1>4. QED
    BY <1>2, <1>3

LEMMA NextHumanInv == LeaseInv /\ HumanInv /\ [Next]_vars => HumanInv'
<1> SUFFICES ASSUME LeaseInv, HumanInv, [Next]_vars PROVE HumanInv'
    OBVIOUS
<1>1. TypeInv /\ TypeInv'
    BY NextTypeInv DEF LeaseInv
<1> USE DEF TypeInv, TypeOK
<1>2. ASSUME NEW t \in Tasks,
             \/ CreateTask(t) \/ CreateQueuedTask(t) \/ SubmitTask(t) \/ StartTask(t)
             \/ CancelTask(t) \/ RetryTask(t) \/ MarkSuccessManual(t)
      PROVE  HumanInv'
  <2>1. /\ actionStatus' = actionStatus
        /\ \E s : /\ taskStatus' = [taskStatus EXCEPT ![t] = s]
                  /\ s \notin {"WAITING_HUMAN", "HUMAN_OPERATING"}
                  /\ taskStatus[t] \in {"WAITING_HUMAN", "HUMAN_OPERATING", "SUCCESS_MANUAL", "CANCELLED"}
                        => s \in {"SUCCESS_MANUAL", "CANCELLED"}
      BY <1>2, TransitionFacts
         DEF CreateTask, CreateQueuedTask, NextTask, SubmitTask, StartTask, CancelTask, RetryTask,
             MarkSuccessManual
  <2>2. QED
      BY <1>1, <2>1, NoActionStep
<1>3. ASSUME NEW r \in Runs,
             OpenHumanAction(r) \/ ConfirmHumanAction(r) \/ CancelHumanAction(r)
      PROVE  HumanInv'
  <2>1. CASE OpenHumanAction(r)
      BY <1>1, <2>1, MoveActionStep DEF OpenHumanAction, MoveAction, ActiveActions
  <2>2. CASE ConfirmHumanAction(r)
      BY <1>1, <2>2, MoveActionStep DEF ConfirmHumanAction, MoveAction, ActiveActions
  <2>3. CASE CancelHumanAction(r)
      BY <1>1, <2>3, MoveActionStep DEF CancelHumanAction, MoveAction
  <2>4. QED
      BY <1>3, <2>1, <2>2, <2>3
<1>4. ASSUME NEW w \in Workers, LeaseTask(w) PROVE HumanInv'
  <2> DEFINE Polled ==
        /\ actionStatus' = actionStatus
        /\ \A u \in Tasks : \/ taskStatus'[u] = taskStatus[u]
                            \/ /\ taskStatus[u] \in {"QUEUED", "RUNNING"}
                               /\ taskStatus'[u] \in {"QUEUED", "RUNNING", "CANCELLED"}
  <2>1. ASSUME NEW invalid \in SUBSET Queue, NothingToGrant(invalid) PROVE Polled
      BY <2>1, ExpiryFacts DEF NothingToGrant, StatusAfterDrop, Candidates, Queue
  <2>2. ASSUME NEW invalid \in SUBSET Queue, NEW t \in Queue, NEW r \in Runs, NEW l \in Leases,
               Grant(w, t, r, l, invalid)
        PROVE  Polled
    <3> DEFINE d == {u \in Candidates \cap invalid : u < t}
    <3>1. /\ actionStatus' = actionStatus
          /\ taskStatus' = [StatusAfterDrop(d) EXCEPT ![t] = "RUNNING"]
        BY <2>2 DEF Grant
    <3>2. d \subseteq Queue
        BY DEF Candidates
    <3> HIDE DEF d
    <3>3. QED
        BY <3>1, <3>2, ExpiryFacts DEF StatusAfterDrop, Queue
  <2>3. Polled
      BY <1>4, <2>1, <2>2 DEF LeaseTask
  <2>4. QED
      BY <1>1, <2>3, NoActionStep
<1>5. ASSUME NEW l \in Leases, FinishRun(l) PROVE HumanInv'
    BY <1>1, <1>5, FinishActionStep
<1>6. ASSUME Environment \/ UNCHANGED vars PROVE HumanInv'
  <2>1. UNCHANGED <<taskStatus, actionStatus>>
      BY <1>6 DEF Environment, EditSettings, ExecutionEnds, LeaseTimesOut, vars, taskVars
  <2>2. QED
      BY <1>1, <2>1, NoActionStep
<1>7. QED
    BY <1>2, <1>3, <1>4, <1>5, <1>6 DEF Next, TaskRequest, ActionRequest, WorkerCall

-----------------------------------------------------------------------------
(* The inductive invariant                                                 *)

DispatchInv == LeaseInv /\ HumanInv

LEMMA NextLeaseInv == LeaseInv /\ HumanInv /\ [Next]_vars => LeaseInv'
<1> SUFFICES ASSUME LeaseInv, HumanInv, [Next]_vars PROVE LeaseInv'
    OBVIOUS
<1>1. TypeInv'
    BY NextTypeInv DEF LeaseInv
<1> USE DEF LeaseInv, TypeInv, TypeOK
<1>2. ASSUME NEW t \in Tasks, CreateTask(t) \/ SubmitTask(t) \/ MarkSuccessManual(t)
      PROVE  LeaseInv'
  <2>1. /\ UNCHANGED <<runVars, leaseVars>>
        /\ taskStatus[t] \notin {"QUEUED", "RUNNING", "CANCELLED"}
        /\ \E s : s \notin {"QUEUED", "RUNNING"} /\ taskStatus' = [taskStatus EXCEPT ![t] = s]
      BY <1>2, TransitionFacts DEF CreateTask, NextTask, SubmitTask, MarkSuccessManual
  <2>2. QED
      BY <1>1, <2>1, IdleStep
<1>3. ASSUME NEW t \in Tasks, CreateQueuedTask(t) \/ StartTask(t) \/ RetryTask(t)
      PROVE  LeaseInv'
  <2>1. /\ UNCHANGED <<runLease, leaseVars>>
        /\ taskStatus[t] \notin {"QUEUED", "CANCELLED"}
        /\ taskStatus' = [taskStatus EXCEPT ![t] = "QUEUED"]
        /\ \E r \in Runs : FreshRun(t, r) /\ runStatus' = [runStatus EXCEPT ![r] = "QUEUED"]
      BY <1>3, TransitionFacts DEF CreateQueuedTask, NextTask, StartTask, RetryTask
  <2>2. QED
      BY <1>1, <2>1, QueueStep
<1>4. ASSUME NEW t \in Tasks, CancelTask(t) PROVE LeaseInv'
    BY <1>1, <1>4, CancelStep
<1>5. ASSUME NEW r \in Runs,
             OpenHumanAction(r) \/ ConfirmHumanAction(r) \/ CancelHumanAction(r)
      PROVE  LeaseInv'
  <2>1. /\ UNCHANGED <<runVars, leaseVars>>
        /\ TaskOf(r) \in Tasks
        /\ \E s \in {"HUMAN_OPERATING", "SUCCESS_MANUAL", "CANCELLED"} :
              /\ CanTransition(taskStatus[TaskOf(r)], s)
              /\ actionStatus[r] \in ActiveActions
              /\ taskStatus' = [taskStatus EXCEPT ![TaskOf(r)] = s]
      BY <1>5, RunFacts, TransitionFacts
         DEF OpenHumanAction, ConfirmHumanAction, CancelHumanAction, MoveAction, ActiveActions
  <2>2. taskStatus[TaskOf(r)] \notin {"QUEUED", "RUNNING", "CANCELLED"}
      BY <2>1, TransitionFacts DEF HumanInv, ActionsOfWaiting
  <2>3. QED
      BY <1>1, <2>1, <2>2, IdleStep
<1>6. ASSUME NEW w \in Workers, LeaseTask(w) PROVE LeaseInv'
    BY <1>1, <1>6, NothingToGrantStep, GrantStep DEF LeaseTask
<1>7. ASSUME NEW l \in Leases, FinishRun(l) PROVE LeaseInv'
    BY <1>1, <1>7, FinishStep
<1>8. ASSUME EditSettings \/ UNCHANGED vars
             \/ \E l \in Leases, o \in Outcomes : ExecutionEnds(l, o)
      PROVE  LeaseInv'
  <2>1. UNCHANGED <<taskStatus, runStatus, runLease, leaseState, leaseRun>>
      BY <1>8 DEF EditSettings, ExecutionEnds, vars, taskVars, runVars, leaseVars
  <2>2. QED
      BY <1>1, <2>1
         DEF LeaseAgreement, ExclusiveLease, RunningIsHeld, RunsFollowTask, LeasedRunsStarted,
             OneRunning, RestartBlocksGrant, LeaseTaskOf, Held, ActiveRuns
<1>9. ASSUME NEW l \in Leases, LeaseTimesOut(l) PROVE LeaseInv'
  <2>1. /\ UNCHANGED <<taskStatus, runStatus, runLease, leaseRun>>
        /\ \A k \in Leases : Held(k)' <=> Held(k)
      BY <1>9 DEF LeaseTimesOut, taskVars, runVars, Held
  <2>2. QED
      BY <1>1, <2>1
         DEF LeaseAgreement, ExclusiveLease, RunningIsHeld, RunsFollowTask, LeasedRunsStarted,
             OneRunning, RestartBlocksGrant, LeaseTaskOf, ActiveRuns
<1>10. QED
    BY <1>2, <1>3, <1>4, <1>5, <1>6, <1>7, <1>8, <1>9
       DEF Next, TaskRequest, ActionRequest, WorkerCall, Environment

LEMMA InitDispatchInv == Init => DispatchInv
<1>1. Init => HumanInv
    BY RunFacts DEF Init, HumanInv, ActionsOfWaiting, HumanCheckpoint, ActiveActions
<1>2. QED
    BY <1>1, InitLeaseInv DEF DispatchInv

LEMMA NextDispatchInv == DispatchInv /\ [Next]_vars => DispatchInv'
BY NextLeaseInv, NextHumanInv DEF DispatchInv

\* The dispatch tables agree in every reachable state, for any number of tasks,
\* runs, leases and workers, with clients that may even start running tasks:
\* no task is leased twice, every RUNNING task is held under a lease that
\* carries its running run, and no run outlives its task.
THEOREM DispatchSafe ==
    Spec => [](LeaseAgreement /\ ExclusiveLease /\ RunningIsHeld /\ RunsFollowTask)
<1>1. DispatchInv => LeaseAgreement /\ ExclusiveLease /\ RunningIsHeld /\ RunsFollowTask
    BY DEF DispatchInv, LeaseInv
<1>2. QED
    BY <1>1, InitDispatchInv, NextDispatchInv, PTL DEF Spec

\* The part of it about single leases: the lease, run and task tables tell the
\* same story of who executes a task (expiry, finish, cancellation, re-lease).
THEOREM LeaseTablesAgree == Spec => []LeaseAgreement
BY DispatchSafe, PTL

\* A task never waits for a human without an action the human can take.
THEOREM HumanCheckpointHolds == Spec => []HumanCheckpoint
<1>1. DispatchInv => HumanCheckpoint
    BY DEF DispatchInv, HumanInv
<1>2. QED
    BY <1>1, InitDispatchInv, NextDispatchInv, PTL DEF Spec

-----------------------------------------------------------------------------
(* What a step never does                                                  *)

LEMMA CommandStep ==
    ASSUME [Next]_vars, NEW r \in Runs, TypeOK, runCommand[r] # 0
    PROVE  runCommand'[r] = runCommand[r]
<1> USE DEF TypeOK
<1>1. ASSUME UNCHANGED runCommand PROVE runCommand'[r] = runCommand[r]
    BY <1>1
<1>2. ASSUME TaskRequest PROVE UNCHANGED runCommand
    BY <1>2 DEF TaskRequest, CreateTask, CreateQueuedTask, SubmitTask, StartTask, CancelTask,
       RetryTask, MarkSuccessManual, runVars
<1>3. ASSUME ActionRequest \/ Environment \/ UNCHANGED vars PROVE UNCHANGED runCommand
    BY <1>3 DEF ActionRequest, OpenHumanAction, ConfirmHumanAction, CancelHumanAction, MoveAction,
       Environment, EditSettings, LeaseTimesOut, ExecutionEnds, vars, runVars
<1>4. ASSUME WorkerCall PROVE runCommand'[r] = runCommand[r]
  <2>1. ASSUME NEW invalid, NothingToGrant(invalid) PROVE runCommand' = runCommand
      BY <2>1 DEF NothingToGrant
  <2>2. ASSUME NEW w, NEW t, NEW q \in Runs, NEW l, NEW invalid, Grant(w, t, q, l, invalid)
        PROVE  runCommand'[r] = runCommand[r]
    <3>1. runCommand' = [runCommand EXCEPT ![q] = CommandFor(q)]
        BY <2>2 DEF Grant
    <3>2. QED
        BY <3>1 DEF CommandFor
  <2>3. ASSUME NEW l, FinishRun(l) PROVE runCommand' = runCommand
      BY <2>3 DEF FinishRun
  <2>4. QED
      BY <1>4, <2>1, <2>2, <2>3 DEF WorkerCall, LeaseTask
<1>5. QED
    BY <1>1, <1>2, <1>3, <1>4 DEF Next

\* Once built, the command of a run never changes.
THEOREM CommandsAreFrozen == Spec => CommandFrozen
<1>1. TypeOK /\ [Next]_vars => [\A r \in Runs : runCommand[r] # 0 => runCommand'[r] = runCommand[r]]_vars
    BY CommandStep
<1>2. QED
    BY <1>1, TypeCorrect, PTL DEF Spec, CommandFrozen

\* The statuses in which a run or a task is over.
FinalRun  == {"SUCCESS", "FAILED", "CANCELLED"}
FinalTask == {"SUCCESS", "SUCCESS_MANUAL", "CANCELLED"}

LEMMA ResultStep ==
    ASSUME LeaseInv, [Next]_vars
    PROVE  /\ \A r \in Runs : runStatus[r] \in FinalRun => runStatus'[r] = runStatus[r]
           /\ \A r \in Runs : runStatus[r] = "WAITING_HUMAN" => runStatus'[r] \in {"WAITING_HUMAN", "CANCELLED"}
           /\ \A t \in Tasks : taskStatus[t] \in FinalTask => taskStatus'[t] = taskStatus[t]
<1> DEFINE RunsStand == \A r \in Runs :
              /\ runStatus[r] \in FinalRun => runStatus'[r] = runStatus[r]
              /\ runStatus[r] = "WAITING_HUMAN" => runStatus'[r] \in {"WAITING_HUMAN", "CANCELLED"}
           TasksStand == \A t \in Tasks : taskStatus[t] \in FinalTask => taskStatus'[t] = taskStatus[t]
<1> USE DEF LeaseInv, TypeInv, TypeOK, FinalRun, FinalTask
<1>1. ASSUME TaskRequest PROVE RunsStand /\ TasksStand
  <2>1. PICK t \in Tasks :
           \/ CreateTask(t) \/ CreateQueuedTask(t) \/ SubmitTask(t) \/ StartTask(t)
           \/ CancelTask(t) \/ RetryTask(t) \/ MarkSuccessManual(t)
      BY <1>1 DEF TaskRequest
  <2>2. TasksStand
      BY <2>1, TransitionFacts DEF CreateTask, CreateQueuedTask, NextTask, SubmitTask, StartTask,
         CancelTask, RetryTask, MarkSuccessManual
  <2>3. RunsStand
      BY <2>1 DEF CreateTask, CreateQueuedTask, FreshRun, SubmitTask, StartTask,
         CancelTask, CancellableRun, RetryTask, MarkSuccessManual, runVars
  <2>4. QED
      BY <2>2, <2>3
<1>2. ASSUME ActionRequest PROVE RunsStand /\ TasksStand
    BY <1>2, TransitionFacts DEF ActionRequest, OpenHumanAction, ConfirmHumanAction,
       CancelHumanAction, MoveAction, runVars
<1>3. ASSUME NEW w \in Workers, LeaseTask(w) PROVE RunsStand /\ TasksStand
  <2>1. ASSUME NEW invalid \in SUBSET Queue, NothingToGrant(invalid) PROVE RunsStand /\ TasksStand
    <3> DEFINE d == Candidates \cap invalid
    <3>1. taskStatus' = StatusAfterDrop(d) /\ runStatus' = RunsAfterDrop(d) /\ d \subseteq Queue
        BY <2>1 DEF NothingToGrant, Candidates
    <3> HIDE DEF d
    <3>2. QED
        BY <3>1, ExpiryFacts DEF StatusAfterDrop, RunsAfterDrop, Queue
  <2>2. ASSUME NEW invalid \in SUBSET Queue, NEW t \in Queue, NEW r \in Runs, NEW l \in Leases,
               Grant(w, t, r, l, invalid)
        PROVE  RunsStand /\ TasksStand
    <3> DEFINE d == {u \in Candidates \cap invalid : u < t}
    <3>1. /\ taskStatus' = [StatusAfterDrop(d) EXCEPT ![t] = "RUNNING"]
          /\ runStatus' = [RunsAfterDrop(d) EXCEPT ![r] = "RUNNING"]
          /\ RunToExecute(t, r)
        BY <2>2 DEF Grant
    <3>2. d \subseteq Queue
        BY DEF Candidates
    <3>3. r \in ActiveRuns(t)
        BY <3>1, GrantIsExclusive
    <3> HIDE DEF d
    <3>4. QED
        BY <3>1, <3>2, <3>3, ExpiryFacts DEF StatusAfterDrop, RunsAfterDrop, Queue, ActiveRuns
  <2>3. QED
      BY <1>3, <2>1, <2>2 DEF LeaseTask
<1>4. ASSUME NEW l \in Leases, FinishRun(l) PROVE RunsStand /\ TasksStand
  <2> DEFINE q == leaseRun[l]
             o == outcome[l]
  <2>1. /\ runStatus' = [runStatus EXCEPT ![q] = o] /\ runStatus[q] \notin FinishStatuses
        /\ taskStatus' = [taskStatus EXCEPT ![TaskOf(q)] = o]
        /\ CanTransition(taskStatus[TaskOf(q)], o) /\ o \in FinishStatuses
      BY <1>4, InputsAssumption DEF FinishRun, TerminalRun
  <2> HIDE DEF q, o
  <2>2. RunsStand
      BY <2>1 DEF FinishStatuses
  <2>3. taskStatus[TaskOf(q)] \notin FinalTask
      BY <2>1, TransitionFacts DEF FinishStatuses
  <2>4. QED
      BY <2>1, <2>2, <2>3
<1>5. ASSUME Environment \/ UNCHANGED vars PROVE RunsStand /\ TasksStand
    BY <1>5 DEF Environment, EditSettings, LeaseTimesOut, ExecutionEnds, vars, taskVars, runVars
<1>6. QED
    BY <1>1, <1>2, <1>3, <1>4, <1>5 DEF Next, WorkerCall

\* Nothing overwrites a result: late and repeated callbacks, cancellations,
\* retries and expiries included.
THEOREM ResultsAlwaysStand == Spec => ResultsStand
<1>1. DispatchInv => LeaseInv
    BY DEF DispatchInv
<1>2. LeaseInv /\ [Next]_vars =>
        [/\ \A r \in Runs : runStatus[r] \in {"SUCCESS", "FAILED", "CANCELLED"} =>
               runStatus'[r] = runStatus[r]
         /\ \A r \in Runs : runStatus[r] = "WAITING_HUMAN" =>
               runStatus'[r] \in {"WAITING_HUMAN", "CANCELLED"}
         /\ \A t \in Tasks : taskStatus[t] \in {"SUCCESS", "SUCCESS_MANUAL", "CANCELLED"} =>
               taskStatus'[t] = taskStatus[t]]_vars
    BY ResultStep DEF FinalRun, FinalTask
<1>3. QED
    BY <1>1, <1>2, InitDispatchInv, NextDispatchInv, PTL DEF Spec, ResultsStand
=============================================================================
