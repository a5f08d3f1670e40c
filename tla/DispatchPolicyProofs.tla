------------------------ MODULE DispatchPolicyProofs ------------------------
(***************************************************************************)
(* Proofs about what dispatch does with its tables, resting on the         *)
(* invariant of TaskDispatchProofs: exclusive logins, successor jobs,      *)
(* clients that leave running tasks alone, and the abstract specification  *)
(* that dispatch implements.                                               *)
(***************************************************************************)
EXTENDS TaskDispatchProofs

\* A poll tells what becomes of tasks and runs: it cancels the tasks of some d,
\* and may set one queued task with its only active run RUNNING.
LEMMA PollOutcome ==
    ASSUME LeaseInv, NEW w \in Workers, LeaseTask(w)
    PROVE  /\ UNCHANGED successorJobs
           /\ \E d \in SUBSET Queue :
                 \/ taskStatus' = StatusAfterDrop(d) /\ runStatus' = RunsAfterDrop(d)
                 \/ \E t \in Queue, r \in Runs :
                       /\ ~LoginBusy(t) /\ ActiveRuns(t) = {r}
                       /\ taskStatus' = [StatusAfterDrop(d) EXCEPT ![t] = "RUNNING"]
                       /\ runStatus' = [RunsAfterDrop(d) EXCEPT ![r] = "RUNNING"]
<1>1. ASSUME NEW invalid \in SUBSET Queue, NothingToGrant(invalid)
      PROVE  /\ UNCHANGED successorJobs
             /\ \E d \in SUBSET Queue : taskStatus' = StatusAfterDrop(d) /\ runStatus' = RunsAfterDrop(d)
    BY <1>1 DEF NothingToGrant, Candidates
<1>2. PICK invalid \in SUBSET Queue :
         \/ NothingToGrant(invalid)
         \/ \E t \in Queue, r \in Runs, l \in Leases : Grant(w, t, r, l, invalid)
    BY DEF LeaseTask
<1>3. CASE NothingToGrant(invalid)
    BY <1>1, <1>3
<1>4. CASE \E t \in Queue, r \in Runs, l \in Leases : Grant(w, t, r, l, invalid)
  <2>1. PICK t \in Queue, r \in Runs, l \in Leases : Grant(w, t, r, l, invalid)
      BY <1>4
  <2> DEFINE d == {u \in Candidates \cap invalid : u < t}
  <2>2. /\ UNCHANGED successorJobs
        /\ t \in Leasable(invalid) /\ RunToExecute(t, r)
        /\ taskStatus' = [StatusAfterDrop(d) EXCEPT ![t] = "RUNNING"]
        /\ runStatus' = [RunsAfterDrop(d) EXCEPT ![r] = "RUNNING"]
      BY <2>1 DEF Grant
  <2>3. d \in SUBSET Queue
      BY DEF Candidates
  <2> HIDE DEF d
  <2>4. ~LoginBusy(t)
      BY <2>2 DEF Leasable
  <2>5. ActiveRuns(t) = {r}
      BY <2>2, GrantIsExclusive
  <2>6. QED
      BY <2>2, <2>3, <2>4, <2>5
<1>5. QED
    BY <1>2, <1>3, <1>4

-----------------------------------------------------------------------------
(* One login, one task                                                     *)

\* Tasks get busy one by one, by a poll that has looked at the others.
LEMMA BusyStep ==
    ASSUME LeaseInv, [Next]_vars
    PROVE  \/ \A u \in Tasks : taskStatus'[u] \in BusyStatuses => taskStatus[u] \in BusyStatuses
           \/ \E t \in Tasks :
                 /\ ~LoginBusy(t)
                 /\ \A u \in Tasks \ {t} :
                       taskStatus'[u] \in BusyStatuses => StatusAfterExpiry[u] \in BusyStatuses
<1> DEFINE NoneGetsBusy == \A u \in Tasks : taskStatus'[u] \in BusyStatuses => taskStatus[u] \in BusyStatuses
           OneGetsBusy  == \E t \in Tasks :
                             /\ ~LoginBusy(t)
                             /\ \A u \in Tasks \ {t} :
                                   taskStatus'[u] \in BusyStatuses => StatusAfterExpiry[u] \in BusyStatuses
<1> USE DEF LeaseInv, TypeInv, TypeOK, BusyStatuses
<1>1. ASSUME TaskRequest PROVE NoneGetsBusy
    BY <1>1, TransitionFacts DEF TaskRequest, CreateTask, CreateQueuedTask, SubmitTask, StartTask,
       CancelTask, RetryTask, MarkSuccessManual
<1>2. ASSUME ActionRequest PROVE NoneGetsBusy
    BY <1>2, RunFacts DEF ActionRequest, OpenHumanAction, ConfirmHumanAction, CancelHumanAction, MoveAction
<1>3. ASSUME NEW w \in Workers, LeaseTask(w) PROVE NoneGetsBusy \/ OneGetsBusy
  <2>1. ASSUME NEW d \in SUBSET Queue, taskStatus' = StatusAfterDrop(d) PROVE NoneGetsBusy
      BY <2>1, ExpiryFacts DEF StatusAfterDrop
  <2>2. ASSUME NEW d \in SUBSET Queue, NEW t \in Queue, ~LoginBusy(t),
               taskStatus' = [StatusAfterDrop(d) EXCEPT ![t] = "RUNNING"]
        PROVE  OneGetsBusy
      BY <2>2 DEF StatusAfterDrop, Queue
  <2>3. QED
      BY <1>3, <2>1, <2>2, PollOutcome
<1>4. ASSUME NEW l \in Leases, FinishRun(l) PROVE NoneGetsBusy
  <2> DEFINE t == TaskOf(leaseRun[l])
             o == outcome[l]
  <2>1. /\ taskStatus' = [taskStatus EXCEPT ![t] = o]
        /\ CanTransition(taskStatus[t], o) /\ o \in FinishStatuses
      BY <1>4, InputsAssumption DEF FinishRun
  <2> HIDE DEF t, o
  <2>2. o = "WAITING_HUMAN" => taskStatus[t] = "RUNNING"
      BY <2>1, TransitionFacts
  <2>3. QED
      BY <2>1, <2>2 DEF FinishStatuses
<1>5. ASSUME Environment \/ UNCHANGED vars PROVE NoneGetsBusy
    BY <1>5 DEF Environment, EditSettings, LeaseTimesOut, ExecutionEnds, vars, taskVars
<1>6. QED
    BY <1>1, <1>2, <1>3, <1>4, <1>5 DEF Next, WorkerCall

\* What a poll decides on: of the tasks of one login at most one is busy.
BusyApart ==
    \A t, u \in Tasks :
        ~(SharedLogin(t, u) /\ taskStatus[t] \in BusyStatuses /\ taskStatus[u] \in BusyStatuses)

LEMMA LoginStep == LeaseInv /\ BusyApart /\ [Next]_vars => BusyApart'
<1> SUFFICES ASSUME LeaseInv, BusyApart, [Next]_vars,
                    NEW t \in Tasks, NEW u \in Tasks,
                    SharedLogin(t, u),
                    taskStatus'[t] \in BusyStatuses, taskStatus'[u] \in BusyStatuses
             PROVE  FALSE
    BY DEF BusyApart
<1>1. CASE \A x \in Tasks : taskStatus'[x] \in BusyStatuses => taskStatus[x] \in BusyStatuses
    BY <1>1 DEF BusyApart
<1>2. ASSUME NEW s \in Tasks, ~LoginBusy(s),
             \A x \in Tasks \ {s} :
                taskStatus'[x] \in BusyStatuses => StatusAfterExpiry[x] \in BusyStatuses
      PROVE  FALSE
  <2>1. CASE s = t \/ s = u
      BY <1>2, <2>1 DEF LoginBusy, SharedLogin
  <2>2. CASE s # t /\ s # u
    <3>1. \A x \in Tasks : StatusAfterExpiry[x] \in BusyStatuses => taskStatus[x] \in BusyStatuses
        BY ExpiryFacts DEF BusyStatuses
    <3>2. QED
        BY <1>2, <2>2, <3>1 DEF BusyApart
  <2>3. QED
      BY <2>1, <2>2
<1>3. QED
    BY <1>1, <1>2, BusyStep

\* A task that uses its login is busy or one of the exceptions: a lease that is
\* held belongs to a task that runs, was cancelled or was queued again.
LEMMA BusyTasksUseLogins == LeaseInv /\ BusyApart => LoginExclusive
<1> SUFFICES ASSUME LeaseInv, BusyApart, NEW t \in Tasks, NEW u \in Tasks,
                    SharedLogin(t, u), UsesLogin(t), UsesLogin(u),
                    {taskStatus[t], taskStatus[u]} \cap {"HUMAN_OPERATING", "CANCELLED", "QUEUED"} = {}
             PROVE  FALSE
    BY DEF LoginExclusive
<1>1. ASSUME NEW x \in Tasks, UsesLogin(x),
             taskStatus[x] \notin {"HUMAN_OPERATING", "CANCELLED", "QUEUED"}
      PROVE  taskStatus[x] \in BusyStatuses
    BY <1>1 DEF UsesLogin, BusyStatuses, LeaseInv, LeaseAgreement
<1>2. QED
    BY <1>1 DEF BusyApart

\* The portal login of BOE tasks is used by one task at a time, for any number of
\* tasks, workers and logins, but for the tasks _boe_rpa_login_busy does not
\* count: operated by a human, cancelled or queued again under their worker.
THEOREM LoginsAreExclusive == Spec => []LoginExclusive
<1>1. Init => BusyApart
    BY DEF Init, BusyApart, BusyStatuses
<1>2. DispatchInv => LeaseInv
    BY DEF DispatchInv
<1>3. QED
    BY <1>1, <1>2, LoginStep, BusyTasksUseLogins, InitDispatchInv, NextDispatchInv, PTL DEF Spec

-----------------------------------------------------------------------------
(* Successor jobs                                                          *)

\* Jobs come from FINISH alone, one at a time.
LEMMA SuccessorStep ==
    ASSUME LeaseInv, [Next]_vars
    PROVE  \/ UNCHANGED successorJobs
           \/ \E r \in Runs :
                 /\ successorJobs' = successorJobs \cup {r}
                 /\ taskStatus[TaskOf(r)] = "RUNNING"
                 /\ runStatus'[r] = "SUCCESS" /\ taskStatus'[TaskOf(r)] = "SUCCESS"
<1>1. ASSUME NEW l \in Leases, FinishRun(l), successorJobs' # successorJobs
      PROVE  \E r \in Runs :
                 /\ successorJobs' = successorJobs \cup {r}
                 /\ taskStatus[TaskOf(r)] = "RUNNING"
                 /\ runStatus'[r] = "SUCCESS" /\ taskStatus'[TaskOf(r)] = "SUCCESS"
  <2>1. leaseRun[l] \in Runs /\ TaskOf(leaseRun[l]) \in Tasks
      BY <1>1, RunFacts DEF FinishRun, LeaseInv, TypeInv, ReportsAreOnRuns
  <2>2. /\ successorJobs' = successorJobs \cup {leaseRun[l]}
        /\ CanTransition(taskStatus[TaskOf(leaseRun[l])], "SUCCESS")
        /\ runStatus' = [runStatus EXCEPT ![leaseRun[l]] = "SUCCESS"]
        /\ taskStatus' = [taskStatus EXCEPT ![TaskOf(leaseRun[l])] = "SUCCESS"]
      BY <1>1 DEF FinishRun
  <2>3. QED
      BY <2>1, <2>2, TransitionFacts DEF LeaseInv, TypeInv, TypeOK
<1>2. ASSUME NEW w \in Workers, LeaseTask(w) PROVE UNCHANGED successorJobs
    BY <1>2, PollOutcome
<1>3. ASSUME TaskRequest \/ ActionRequest \/ Environment \/ UNCHANGED vars PROVE UNCHANGED successorJobs
    BY <1>3 DEF TaskRequest, CreateTask, CreateQueuedTask, SubmitTask, StartTask, CancelTask, RetryTask,
       MarkSuccessManual, ActionRequest, OpenHumanAction, ConfirmHumanAction, CancelHumanAction,
       MoveAction, Environment, EditSettings, LeaseTimesOut, ExecutionEnds, vars, taskVars
<1>4. QED
    BY <1>1, <1>2, <1>3 DEF Next, WorkerCall

LEMMA SuccessorInvStep == LeaseInv /\ SuccessorJustified /\ [Next]_vars => SuccessorJustified'
<1> SUFFICES ASSUME LeaseInv, SuccessorJustified, [Next]_vars PROVE SuccessorJustified'
    OBVIOUS
<1>1. successorJobs \subseteq Runs
    BY DEF LeaseInv, TypeInv, TypeOK
<1>2. \A r \in successorJobs : runStatus'[r] = "SUCCESS" /\ taskStatus'[TaskOf(r)] = "SUCCESS"
    BY <1>1, ResultStep, RunFacts DEF SuccessorJustified, FinalRun, FinalTask
<1>3. CASE UNCHANGED successorJobs
    BY <1>2, <1>3 DEF SuccessorJustified
<1>4. ASSUME NEW r \in Runs, successorJobs' = successorJobs \cup {r},
             taskStatus[TaskOf(r)] = "RUNNING",
             runStatus'[r] = "SUCCESS", taskStatus'[TaskOf(r)] = "SUCCESS"
      PROVE  SuccessorJustified'
    BY <1>2, <1>4 DEF SuccessorJustified
<1>5. QED
    BY <1>3, <1>4, SuccessorStep

\* Successor work is queued only for a success that stands, and at most once
\* per task, whatever is repeated, cancelled or retried (finish_run).
THEOREM SuccessorsAreJustified == Spec => []SuccessorJustified
<1>1. Init => SuccessorJustified
    BY DEF Init, SuccessorJustified
<1>2. DispatchInv => LeaseInv
    BY DEF DispatchInv
<1>3. QED
    BY <1>1, <1>2, SuccessorInvStep, InitDispatchInv, NextDispatchInv, PTL DEF Spec

-----------------------------------------------------------------------------
(* Clients that start only idle tasks                                      *)

Active(r) == runStatus[r] \in {"QUEUED", "RUNNING"}

\* A run becomes active as the first of its task, and none does otherwise.
LEMMA ActiveStep ==
    ASSUME LeaseInv, [Next]_vars, "RUNNING" \notin StartFrom
    PROVE  \/ \A r \in Runs : Active(r)' => Active(r)
           \/ \E r \in Runs :
                 /\ \A q \in Runs : Active(q)' => Active(q) \/ q = r
                 /\ \A q \in Runs : TaskOf(q) = TaskOf(r) => ~Active(q)
<1> DEFINE NoneStarts == \A r \in Runs : Active(r)' => Active(r)
           FirstStarts == \E r \in Runs :
                            /\ \A q \in Runs : Active(q)' => Active(q) \/ q = r
                            /\ \A q \in Runs : TaskOf(q) = TaskOf(r) => ~Active(q)
<1> USE DEF LeaseInv, TypeInv, TypeOK, Active
<1>1. ASSUME NEW t \in Tasks, CreateQueuedTask(t) \/ StartTask(t) \/ RetryTask(t) PROVE FirstStarts
  <2>1. taskStatus[t] \notin {"QUEUED", "RUNNING", "CANCELLED"}
      BY <1>1, TransitionFacts DEF CreateQueuedTask, NextTask, StartTask, RetryTask
  <2>2. \A q \in Runs : TaskOf(q) = t => ~Active(q)
      BY <2>1 DEF RunsFollowTask
  <2>3. PICK r \in Runs : TaskOf(r) = t /\ runStatus' = [runStatus EXCEPT ![r] = "QUEUED"]
      BY <1>1 DEF CreateQueuedTask, StartTask, RetryTask, FreshRun
  <2>4. QED
      BY <2>2, <2>3
<1>2. ASSUME NEW t \in Tasks, CreateTask(t) \/ SubmitTask(t) \/ CancelTask(t) \/ MarkSuccessManual(t)
      PROVE  NoneStarts
    BY <1>2 DEF CreateTask, SubmitTask, CancelTask, MarkSuccessManual, runVars
<1>3. ASSUME ActionRequest \/ Environment \/ UNCHANGED vars PROVE NoneStarts
    BY <1>3 DEF ActionRequest, OpenHumanAction, ConfirmHumanAction, CancelHumanAction, MoveAction,
       Environment, EditSettings, LeaseTimesOut, ExecutionEnds, vars, runVars
<1>4. ASSUME NEW w \in Workers, LeaseTask(w) PROVE NoneStarts
  <2>1. ASSUME NEW d \in SUBSET Queue, NEW q \in Runs, RunsAfterDrop(d)[q] \in {"QUEUED", "RUNNING"}
        PROVE  Active(q)
      BY <2>1, ExpiryFacts DEF RunsAfterDrop
  <2>2. ASSUME NEW d \in SUBSET Queue, runStatus' = RunsAfterDrop(d) PROVE NoneStarts
      BY <2>1, <2>2
  <2>3. ASSUME NEW d \in SUBSET Queue, NEW t \in Queue, NEW r \in Runs, ActiveRuns(t) = {r},
               runStatus' = [RunsAfterDrop(d) EXCEPT ![r] = "RUNNING"]
        PROVE  NoneStarts
    <3>1. Active(r)
        BY <2>3 DEF ActiveRuns
    <3>2. \A q \in Runs \ {r} : runStatus'[q] = RunsAfterDrop(d)[q]
        BY <2>3 DEF RunsAfterDrop
    <3>3. QED
        BY <2>1, <3>1, <3>2
  <2>4. QED
      BY <1>4, <2>2, <2>3, PollOutcome
<1>5. ASSUME NEW l \in Leases, FinishRun(l) PROVE NoneStarts
    BY <1>5, InputsAssumption DEF FinishRun, FinishStatuses
<1>6. QED
    BY <1>1, <1>2, <1>3, <1>4, <1>5 DEF Next, TaskRequest, WorkerCall

LEMMA OneActiveStep ==
    ASSUME "RUNNING" \notin StartFrom
    PROVE  LeaseInv /\ OneActiveRun /\ [Next]_vars => OneActiveRun'
<1> SUFFICES ASSUME LeaseInv, OneActiveRun, [Next]_vars,
                    NEW r \in Runs, NEW q \in Runs, TaskOf(r) = TaskOf(q),
                    Active(r)', Active(q)', taskStatus'[TaskOf(r)] # "CANCELLED"
             PROVE  r = q
    BY DEF OneActiveRun, Active
<1>1. taskStatus[TaskOf(r)] # "CANCELLED"
    BY ResultStep, RunFacts DEF FinalTask
<1>2. QED
    BY <1>1, ActiveStep DEF OneActiveRun, Active

\* As long as clients start only tasks that are not running, no task that is
\* not cancelled has a second active run for a poll to fail on (start_task,
\* retry_task, the sub-tasks of business processes, lease_task).
THEOREM IdleStartsAreSafe ==
    ASSUME "RUNNING" \notin StartFrom
    PROVE  Spec => []OneActiveRun
<1>1. Init => OneActiveRun
    BY DEF Init, OneActiveRun
<1>2. DispatchInv => LeaseInv
    BY DEF DispatchInv
<1>3. LeaseInv /\ OneActiveRun /\ [Next]_vars => OneActiveRun'
    BY OneActiveStep
<1>4. QED
    BY <1>1, <1>2, <1>3, InitDispatchInv, NextDispatchInv, PTL DEF Spec
-----------------------------------------------------------------------------
(* TaskDispatch implements ExclusiveDispatch: every step of the service,   *)
(* seen through the statuses of the tasks and the leases that hold them,   *)
(* is a step of a lock with a timeout, or changes neither.                 *)

\* A step of the abstract specification, or a stuttering one.
Implemented == [Exclusive!ExNext]_(Exclusive!lifeVars)

LEMMA SameHolders ==
    ASSUME LeaseInv, UNCHANGED leaseRun, \A l \in Leases : Held(l)' <=> Held(l)
    PROVE  UNCHANGED Holders
BY DEF Holders, LeaseTaskOf

\* Creating, submitting, starting, cancelling and retrying move one task as
\* ClientMoves allows, and no lease.
LEMMA RequestStep ==
    ASSUME LeaseInv, NEW t \in Tasks,
           \/ CreateTask(t) \/ CreateQueuedTask(t) \/ SubmitTask(t) \/ StartTask(t)
           \/ CancelTask(t) \/ RetryTask(t) \/ MarkSuccessManual(t)
    PROVE  Exclusive!ClientStep(t)
<1>1. UNCHANGED <<leaseState, leaseRun>>
    BY DEF CreateTask, CreateQueuedTask, SubmitTask, StartTask, CancelTask, RetryTask,
       MarkSuccessManual, leaseVars
<1>2. UNCHANGED Holders
    BY <1>1, SameHolders DEF Held
<1>3. taskStatus \in [Tasks -> (TaskStatuses \ {"LEASED"}) \cup {"NONE"}]
    BY DEF LeaseInv, TypeInv, TypeOK
<1>4. CASE CreateTask(t) \/ CreateQueuedTask(t)
  <2>1. Exclusive!Create(t)
      BY <1>4 DEF CreateTask, CreateQueuedTask, NextTask, Exclusive!Create
  <2>2. QED
      BY <1>2, <2>1 DEF Exclusive!ClientStep
<1>5. ASSUME NEW s, s \in Exclusive!ClientMoves(taskStatus[t]),
             taskStatus' = [taskStatus EXCEPT ![t] = s]
      PROVE  Exclusive!ClientStep(t)
    BY <1>2, <1>5 DEF Exclusive!ClientStep, Exclusive!ByClient
<1>6. CASE SubmitTask(t)
    BY <1>3, <1>5, <1>6, TransitionFacts DEF SubmitTask, Exclusive!ClientMoves
<1>7. CASE StartTask(t) \/ RetryTask(t)
    BY <1>3, <1>5, <1>7, TransitionFacts DEF StartTask, RetryTask, Exclusive!ClientMoves
<1>8. CASE CancelTask(t)
    BY <1>3, <1>5, <1>8, TransitionFacts DEF CancelTask, TaskStatuses, Exclusive!ClientMoves
<1>9. CASE MarkSuccessManual(t)
    BY <1>3, <1>5, <1>9, TransitionFacts DEF MarkSuccessManual, Exclusive!ClientMoves
<1>10. QED
    BY <1>4, <1>6, <1>7, <1>8, <1>9

\* So do the three handlers of human actions.
LEMMA ActionStep ==
    ASSUME LeaseInv, NEW r \in Runs,
           OpenHumanAction(r) \/ ConfirmHumanAction(r) \/ CancelHumanAction(r)
    PROVE  Exclusive!ClientStep(TaskOf(r))
<1>1. PICK s \in {"HUMAN_OPERATING", "SUCCESS_MANUAL", "CANCELLED"} :
         /\ CanTransition(taskStatus[TaskOf(r)], s)
         /\ taskStatus' = [taskStatus EXCEPT ![TaskOf(r)] = s]
         /\ UNCHANGED <<leaseState, leaseRun>>
    BY DEF OpenHumanAction, ConfirmHumanAction, CancelHumanAction, MoveAction, leaseVars
<1>2. UNCHANGED Holders
    BY <1>1, SameHolders DEF Held
<1>3. TaskOf(r) \in Tasks /\ taskStatus[TaskOf(r)] # "LEASED"
    BY RunFacts DEF LeaseInv, TypeInv, TypeOK, TaskStatuses
<1>4. s \in Exclusive!ClientMoves(taskStatus[TaskOf(r)])
    BY <1>1, <1>3, TransitionFacts DEF Exclusive!ClientMoves
<1>5. QED
    BY <1>1, <1>2, <1>4 DEF Exclusive!ClientStep, Exclusive!ByClient

\* The tasks whose leases a poll collects.
Released == {t \in Tasks : \E l \in Expired : LeaseTaskOf(l) = t}

\* What a poll does to them is to queue the running ones again, and to leave
\* them to nobody.
LEMMA ReleaseFacts ==
    ASSUME LeaseInv
    PROVE  /\ StatusAfterExpiry = Exclusive!Requeued(Released)
           /\ \A t \in Released : Holders[t] # {}
           /\ \A l \in Leases : leaseState[l] = "LIVE" => LeaseTaskOf(l) \notin Released
           /\ \A l \in Leases : Held(l) /\ leaseState[l] # "LIVE" => LeaseTaskOf(l) \in Released
<1> USE DEF LeaseInv, TypeInv, TypeOK, LeaseTaskOf
<1>1. StatusAfterExpiry = Exclusive!Requeued(Released)
    BY DEF StatusAfterExpiry, Exclusive!Requeued, Released
<1>2. \A t \in Released : Holders[t] # {}
    BY DEF Released, Expired, Holders, Held
<1>3. \A l \in Leases : leaseState[l] = "LIVE" => LeaseTaskOf(l) \notin Released
    BY DEF Released, Expired, ExclusiveLease, Held
<1>4. \A l \in Leases : Held(l) /\ leaseState[l] # "LIVE" => LeaseTaskOf(l) \in Released
    BY RunFacts DEF Released, Expired, LeaseAgreement, Held
<1>5. QED
    BY <1>1, <1>2, <1>3, <1>4

\* A poll that only collects leases and gives up tasks.
LEMMA NothingStep ==
    ASSUME LeaseInv, NEW invalid \in SUBSET Queue, NothingToGrant(invalid)
    PROVE  Exclusive!ExNext
<1> DEFINE d == Candidates \cap invalid
<1>1. /\ d \in SUBSET Tasks /\ \A t \in d : StatusAfterExpiry[t] = "QUEUED"
      /\ taskStatus' = [t \in Tasks |-> IF t \in d THEN "CANCELLED" ELSE StatusAfterExpiry[t]]
      /\ leaseState' = LeasesAfterExpiry /\ leaseRun' = leaseRun
    BY DEF NothingToGrant, StatusAfterDrop, Candidates, Queue
<1> HIDE DEF d
<1>2. \A l \in Leases : Held(l)' <=> Held(l) /\ LeaseTaskOf(l) \notin Released
    BY <1>1, ReleaseFacts DEF LeasesAfterExpiry, Expired, Held
<1>3. Holders' = [t \in Tasks |-> IF t \in Released THEN {} ELSE Holders[t]]
    BY <1>1, <1>2 DEF Holders, LeaseTaskOf
<1>4. Exclusive!Poll(Released, d, {})
    BY <1>1, ReleaseFacts DEF Exclusive!Poll, Exclusive!Requeued
<1>5. PICK lease : lease \in [{} -> Leases]
  <2> DEFINE f == [t \in {} |-> CHOOSE l \in Leases : TRUE]
  <2>1. f \in [{} -> Leases]
      OBVIOUS
  <2>2. QED
      BY <2>1
<1>6. Exclusive!LeaseStep(Released, d, {})
    BY <1>3, <1>4, <1>5, ReleaseFacts DEF Exclusive!LeaseStep
<1>7. QED
    BY <1>1, <1>6 DEF Exclusive!ExNext, Released

\* A poll that grants task t: nobody holds t but, at most, an expired lease.
LEMMA GrantedStep ==
    ASSUME LeaseInv, NEW w \in Workers, NEW invalid \in SUBSET Queue,
           NEW t \in Queue, NEW r \in Runs, NEW l \in Leases, Grant(w, t, r, l, invalid)
    PROVE  Exclusive!ExNext
<1> DEFINE d == {u \in Candidates \cap invalid : u < t}
<1>1. /\ d \in SUBSET Tasks /\ \A u \in d : StatusAfterExpiry[u] = "QUEUED"
      /\ t \in Tasks /\ t \notin d /\ StatusAfterExpiry[t] = "QUEUED"
    BY DEF Candidates, Queue, Tasks
<1>2. /\ taskStatus' = [StatusAfterDrop(d) EXCEPT ![t] = "RUNNING"]
      /\ leaseState[l] = "UNUSED"
      /\ leaseState' = [LeasesAfterExpiry EXCEPT ![l] = "LIVE"]
      /\ leaseRun' = [leaseRun EXCEPT ![l] = r]
      /\ RunToExecute(t, r)
    BY DEF Grant
<1> HIDE DEF d
<1>3. ActiveRuns(t) = {r} /\ \A k \in Leases : leaseState[k] = "LIVE" => LeaseTaskOf(k) # t
    BY <1>2, GrantIsExclusive
<1>4. TaskOf(r) = t
    BY <1>3 DEF ActiveRuns
<1>5. leaseRun'[l] = r /\ \A k \in Leases \ {l} : leaseRun'[k] = leaseRun[k]
    BY <1>2 DEF LeaseInv, TypeInv, TypeOK
<1>6. \A k \in Leases : Held(k)' <=> k = l \/ (Held(k) /\ LeaseTaskOf(k) \notin Released)
    BY <1>2, ReleaseFacts DEF LeasesAfterExpiry, Expired, Held
<1>7. Holders' = [u \in Tasks |-> IF u = t THEN {l}
                                  ELSE IF u \in Released THEN {} ELSE Holders[u]]
  <2>1. \A u \in Tasks, k \in Leases : Held(k)' /\ TaskOf(leaseRun'[k]) = u <=>
            \/ k = l /\ u = t
            \/ k # l /\ Held(k) /\ LeaseTaskOf(k) = u /\ u \notin Released
      BY <1>4, <1>5, <1>6 DEF LeaseTaskOf
  <2>2. ~Held(l)
      BY <1>2 DEF Held
  <2>3. \A k \in Leases : Held(k) /\ LeaseTaskOf(k) = t => t \in Released
      BY <1>3, ReleaseFacts
  <2>4. \A u \in Tasks : Holders'[u] = {k \in Leases : Held(k)' /\ TaskOf(leaseRun'[k]) = u}
      BY DEF Holders, LeaseTaskOf
  <2>5. \A u \in Tasks : Holders[u] = {k \in Leases : Held(k) /\ LeaseTaskOf(k) = u}
      BY DEF Holders
  <2>6. Holders'[t] = {l}
      BY <1>1, <2>1, <2>3, <2>4
  <2>7. ASSUME NEW u \in Tasks, u # t
        PROVE  Holders'[u] = IF u \in Released THEN {} ELSE Holders[u]
    <3>1. \A k \in Leases : Held(k)' /\ TaskOf(leaseRun'[k]) = u <=>
              Held(k) /\ LeaseTaskOf(k) = u /\ u \notin Released
        BY <2>1, <2>2, <2>7
    <3>2. Holders'[u] = {k \in Leases : Held(k) /\ LeaseTaskOf(k) = u /\ u \notin Released}
        BY <2>4, <3>1
    <3>3. QED
        BY <2>5, <3>2
  <2>8. Holders' = [u \in Tasks |-> Holders'[u]]
      BY DEF Holders
  <2>9. QED
      BY <1>1, <2>6, <2>7, <2>8
<1>8. t \in Released \/ Holders[t] = {}
    BY <1>1, <1>3, ReleaseFacts DEF Holders
<1>9. Exclusive!Poll(Released, d, {t})
  <2>1. taskStatus' = [u \in Tasks |-> IF u \in {t} THEN "RUNNING"
                                       ELSE IF u \in d THEN "CANCELLED" ELSE StatusAfterExpiry[u]]
      BY <1>1, <1>2 DEF StatusAfterDrop
  <2>2. \A u \in d \cup {t} : StatusAfterExpiry[u] = "QUEUED"
      BY <1>1
  <2>3. StatusAfterExpiry = Exclusive!Requeued(Released)
      BY ReleaseFacts
  <2>4. d \cap {t} = {} /\ \A u, v \in {t} : u = v
      BY <1>1
  <2>5. QED
      BY <2>1, <2>2, <2>3, <2>4 DEF Exclusive!Poll
<1>10. Exclusive!LeaseStep(Released, d, {t})
  <2> DEFINE lease == [u \in {t} |-> l]
  <2>1. lease \in [{t} -> Leases] /\ lease[t] = l
      OBVIOUS
  <2>2. Holders' = [u \in Tasks |-> IF u \in {t} THEN {lease[u]}
                                    ELSE IF u \in Released THEN {} ELSE Holders[u]]
      BY <1>7, <2>1
  <2>3. \A u \in Released : Holders[u] # {}
      BY ReleaseFacts
  <2> HIDE DEF lease
  <2>4. QED
      BY <1>8, <1>9, <2>1, <2>2, <2>3 DEF Exclusive!LeaseStep
<1>11. QED
  <2>1. Released \in SUBSET Tasks /\ {t} \in SUBSET Tasks
      BY <1>1 DEF Released
  <2>2. QED
      BY <1>1, <1>10, <2>1 DEF Exclusive!ExNext

\* A FINISH decides the task, and no lease is left on it: a task has but one
\* running run, and with it go all its leases.
LEMMA ReportedStep ==
    ASSUME LeaseInv, NEW l \in Leases, FinishRun(l)
    PROVE  Exclusive!ReportStep(TaskOf(leaseRun[l])) /\ TaskOf(leaseRun[l]) \in Tasks
<1> DEFINE r == leaseRun[l]
           t == TaskOf(r)
           o == outcome[l]
<1> USE DEF LeaseInv, TypeInv, TypeOK
<1>1. /\ r \in Runs /\ t \in Tasks
      /\ o \in FinishStatuses
      /\ runStatus[r] = "RUNNING"
    BY RunFacts, InputsAssumption
       DEF FinishRun, ReportsAreOnRuns, LeasedRunsStarted, TerminalRun, RunStatuses, FinishStatuses
<1>2. taskStatus[t] = "RUNNING" \/ (taskStatus[t] = "QUEUED" /\ o = "CANCELLED")
    BY <1>1, TransitionFacts DEF FinishRun, RunsFollowTask, FinishStatuses
<1>3. /\ taskStatus' = [taskStatus EXCEPT ![t] = o]
      /\ leaseState' = LeasesWithout(r) /\ leaseRun' = leaseRun
    BY DEF FinishRun
<1> HIDE DEF r, t, o
<1>4. \A k \in Leases : Held(k) /\ LeaseTaskOf(k) = t <=> Held(k) /\ leaseRun[k] = r
  <2>1. ASSUME NEW k \in Leases, Held(k), LeaseTaskOf(k) = t PROVE leaseRun[k] = r
    <3>1. leaseRun[k] \in Runs /\ runStatus[leaseRun[k]] = "RUNNING"
        BY <1>2, <2>1 DEF LeaseAgreement, RestartBlocksGrant
    <3>2. QED
        BY <1>1, <2>1, <3>1 DEF OneRunning, LeaseTaskOf, t
  <2>2. QED
      BY <2>1 DEF LeaseTaskOf, t
<1>5. \A k \in Leases : Held(k)' <=> Held(k) /\ LeaseTaskOf(k) # t
    BY <1>3, <1>4 DEF LeasesWithout, Held
<1>6. Holders' = [Holders EXCEPT ![t] = {}]
    BY <1>1, <1>3, <1>5 DEF Holders, LeaseTaskOf
<1>7. Exclusive!MayReport(t, o) /\ o \in Exclusive!Reports /\ taskStatus' = Exclusive!Reported(t, o)
    BY <1>1, <1>2, <1>3 DEF Exclusive!MayReport, Exclusive!Reports, Exclusive!Reported, FinishStatuses
<1>8. QED
    BY <1>1, <1>6, <1>7 DEF Exclusive!ReportStep, t, r

LEMMA ImplementedStep == LeaseInv /\ [Next]_vars => Implemented
<1> SUFFICES ASSUME LeaseInv, [Next]_vars PROVE Implemented
    OBVIOUS
<1>1. Exclusive!ExNext => Implemented
    BY DEF Implemented
<1>2. ASSUME TaskRequest PROVE Exclusive!ExNext
    BY <1>2, RequestStep DEF TaskRequest, Exclusive!ExNext
<1>3. ASSUME ActionRequest PROVE Exclusive!ExNext
    BY <1>3, ActionStep, RunFacts DEF ActionRequest, Exclusive!ExNext
<1>4. ASSUME NEW w \in Workers, LeaseTask(w) PROVE Exclusive!ExNext
    BY <1>4, NothingStep, GrantedStep DEF LeaseTask
<1>5. ASSUME NEW l \in Leases, FinishRun(l) PROVE Exclusive!ExNext
    BY <1>5, ReportedStep DEF Exclusive!ExNext
<1>6. ASSUME Environment \/ UNCHANGED vars PROVE Implemented
  <2>1. UNCHANGED <<taskStatus, leaseRun>>
      BY <1>6 DEF Environment, EditSettings, LeaseTimesOut, ExecutionEnds, vars, taskVars, leaseVars
  <2>2. \A l \in Leases : Held(l)' <=> Held(l)
      BY <1>6 DEF Environment, EditSettings, LeaseTimesOut, ExecutionEnds, vars, taskVars, leaseVars, Held,
                  LeaseInv, TypeInv, TypeOK
  <2>3. QED
      BY <2>1, <2>2, SameHolders DEF Implemented, Exclusive!lifeVars
<1>7. QED
    BY <1>1, <1>2, <1>3, <1>4, <1>5, <1>6 DEF Next, WorkerCall

\* Whatever the numbers of tasks, runs, leases and workers, the service is a
\* lock with a timeout on every task (lease_task, finish_run and the handlers of
\* the task centre): granted to one lease at a time and only while free, taken
\* back only from a lease that expired, decided by one report or by a client.
THEOREM DispatchImplementsExclusive == Spec => ExclusiveSpec
<1>1. Init => Exclusive!ExInit
    BY DEF Init, Exclusive!ExInit, Exclusive!LifeInit, Holders, Held
<1>2. DispatchInv => LeaseInv
    BY DEF DispatchInv
<1>3. LeaseInv /\ [Next]_vars => [Exclusive!ExNext]_(Exclusive!lifeVars)
    BY ImplementedStep DEF Implemented
<1>4. QED
    BY <1>1, <1>2, <1>3, InitDispatchInv, NextDispatchInv, PTL
       DEF Spec, ExclusiveSpec, Exclusive!ExSpec
=============================================================================
