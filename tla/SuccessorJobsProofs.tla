------------------------- MODULE SuccessorJobsProofs -------------------------
(***************************************************************************)
(* Proofs about SuccessorJobs, for any number of jobs, processors, batch   *)
(* size and attempts.                                                      *)
(***************************************************************************)
EXTENDS SuccessorJobs, TLAPS

\* What an open transaction holds is still to be decided, and is held by no
\* other transaction; it has found nothing of jobs it does not hold.
BatchIsOpen ==
    \A p \in Processors : \A j \in batch[p] :
        /\ status[j] \in {"PENDING", "RETRYING"} /\ j \notin waiting
        /\ \A q \in Processors : j \in batch[q] => p = q

\* Before each attempt there is one left.
AttemptLeft ==
    \A j \in Jobs : status[j] \in {"PENDING", "RETRYING"} => attempts[j] < MaxAttempts

\* The inductive invariant.
JobInv ==
    /\ TypeOK /\ BatchIsOpen /\ AttemptLeft
    /\ OneChild /\ RetryBudget /\ NoneStranded

SuccessStands ==
    \A j \in Jobs : status[j] = "SUCCEEDED" =>
        status'[j] = "SUCCEEDED" /\ children'[j] = children[j]

LEMMA InitJobInv == Init => JobInv
<1> SUFFICES ASSUME Init PROVE JobInv
    OBVIOUS
<1> USE DEF Init
<1>1. TypeOK
    BY JobBounds, JobSettings DEF TypeOK, Statuses, Settings, Errors, Findings
<1>2. QED
    BY <1>1 DEF JobInv, BatchIsOpen, AttemptLeft, OneChild, RetryBudget, NoneStranded

\* Every batch consists of jobs.
LEMMA BatchFacts ==
    ASSUME TypeOK, NEW p \in Processors, NEW j \in batch[p]
    PROVE  j \in Jobs
BY DEF TypeOK

LEMMA EnqueueKeepsJobInv ==
    ASSUME JobInv, NEW j \in Jobs, Enqueue(j)
    PROVE  JobInv'
<1> USE JobSettings DEF JobInv, TypeOK, Enqueue
<1>1. TypeOK'
    BY DEF Statuses
<1>2. BatchIsOpen'
    BY BatchFacts DEF BatchIsOpen
<1>3. AttemptLeft' /\ OneChild' /\ RetryBudget' /\ NoneStranded'
    BY DEF AttemptLeft, OneChild, RetryBudget, NoneStranded
<1>4. QED
    BY <1>1, <1>2, <1>3

LEMMA RetryKeepsJobInv ==
    ASSUME JobInv, NEW j \in Jobs, Retry(j)
    PROVE  JobInv'
<1> USE JobSettings, JobBounds DEF JobInv, TypeOK, Retry
<1>1. TypeOK'
    BY DEF Statuses, Errors
<1>2. BatchIsOpen'
    BY BatchFacts DEF BatchIsOpen
<1>3. AttemptLeft' /\ OneChild' /\ RetryBudget' /\ NoneStranded'
    BY DEF AttemptLeft, OneChild, RetryBudget, NoneStranded
<1>4. QED
    BY <1>1, <1>2, <1>3

LEMMA TakeKeepsJobInv ==
    ASSUME JobInv, NEW p \in Processors, Take(p)
    PROVE  JobInv'
<1> USE DEF JobInv, TypeOK, Take, rows
<1>1. \A j \in batch'[p] : j \in Jobs /\ Ready(j)
    BY DEF Oldest
<1>2. \A q \in Processors : q # p => batch'[q] = batch[q]
    OBVIOUS
<1>3. TypeOK'
    BY <1>1 DEF Oldest
<1>4. BatchIsOpen'
  <2>1. \A j \in batch'[p] :
            /\ status'[j] \in {"PENDING", "RETRYING"} /\ j \notin waiting'
            /\ \A q \in Processors : j \in batch'[q] => p = q
      BY <1>1, <1>2 DEF Ready, Locked
  <2>2. \A q \in Processors : q # p => \A j \in batch'[q] :
            /\ status'[j] \in {"PENDING", "RETRYING"} /\ j \notin waiting'
            /\ \A r \in Processors : j \in batch'[r] => q = r
      BY <1>2, <2>1 DEF BatchIsOpen
  <2>3. QED
      BY <2>1, <2>2 DEF BatchIsOpen
<1>5. AttemptLeft' /\ OneChild' /\ RetryBudget' /\ NoneStranded'
    BY DEF AttemptLeft, OneChild, RetryBudget, NoneStranded
<1>6. QED
    BY <1>3, <1>4, <1>5

LEMMA ProcessKeepsJobInv ==
    ASSUME JobInv, NEW p \in Processors, Process(p)
    PROVE  JobInv'
<1> USE DEF JobInv, rows
<1>1. PICK j \in Oldest(Todo(p), 1) :
          /\ found' = [found EXCEPT ![p][j] = Finding(j)]
          /\ UNCHANGED <<rows, target, batch, retries>>
    BY DEF Process
<1>2. j \in Jobs /\ Finding(j) \in Findings
    BY BatchFacts DEF Oldest, Todo, Finding, Findings, Errors
<1>3. TypeOK'
    BY <1>1, <1>2 DEF TypeOK
<1>4. BatchIsOpen' /\ AttemptLeft' /\ OneChild' /\ RetryBudget' /\ NoneStranded'
    BY <1>1 DEF BatchIsOpen, AttemptLeft, OneChild, RetryBudget, NoneStranded
<1>5. QED
    BY <1>3, <1>4

\* What one attempt makes of a job that has one left.
LEMMA StatusAfterFacts ==
    ASSUME NEW finding \in Findings \ {"none"}, NEW n \in 1..MaxAttempts
    PROVE  /\ StatusAfter(finding, n) \in {"SUCCEEDED", "RETRYING", "FAILED"}
           /\ StatusAfter(finding, n) = "SUCCEEDED" <=> finding = "created"
           /\ StatusAfter(finding, n) = "RETRYING" => n < MaxAttempts /\ finding = "disabled"
           /\ StatusAfter(finding, n) = "FAILED" /\ finding = "disabled" => n = MaxAttempts
BY JobSettings DEF StatusAfter, Findings, Errors

LEMMA ReleaseKeepsBatches ==
    ASSUME TypeOK, NEW p \in Processors, Release(p)
    PROVE  /\ batch' \in [Processors -> SUBSET Jobs]
           /\ found' \in [Processors -> [Jobs -> Findings]]
           /\ batch'[p] = {}
           /\ \A q \in Processors : q # p => batch'[q] = batch[q]
BY DEF TypeOK, Release, Findings, Errors

LEMMA CommitKeepsJobInv ==
    ASSUME JobInv, NEW p \in Processors, Commit(p)
    PROVE  JobInv'
<1> DEFINE done == batch[p]
<1> USE DEF JobInv
<1>0. PICK new : new = [j \in Jobs |-> StatusAfter(found[p][j], attempts[j] + 1)]
    OBVIOUS
<1>1. /\ status' = [j \in Jobs |-> IF j \in done THEN new[j] ELSE status[j]]
      /\ attempts' = [j \in Jobs |-> IF j \in done THEN attempts[j] + 1 ELSE attempts[j]]
      /\ waiting' = waiting \cup {j \in done : new[j] = "RETRYING"}
      /\ children' = [j \in Jobs |->
             IF j \in done /\ found[p][j] = "created" THEN children[j] + 1 ELSE children[j]]
    BY <1>0, BatchFacts DEF Commit
<1>e. lastError' = [j \in Jobs |->
             IF j \notin done THEN lastError[j]
             ELSE IF found[p][j] = "created" THEN "none" ELSE found[p][j]]
    BY DEF Commit
<1>r. Release(p) /\ UNCHANGED <<target, retries>>
    BY DEF Commit
<1>2. \A j \in done :
          /\ j \in Jobs
          /\ found[p][j] \in Findings \ {"none"}
          /\ status[j] \in {"PENDING", "RETRYING"}
          /\ attempts[j] + 1 \in 1..MaxAttempts
  <2> SUFFICES ASSUME NEW j \in done
               PROVE  /\ j \in Jobs /\ found[p][j] \in Findings \ {"none"}
                      /\ status[j] \in {"PENDING", "RETRYING"}
                      /\ attempts[j] + 1 \in 1..MaxAttempts
      OBVIOUS
  <2>1. j \in Jobs /\ status[j] \in {"PENDING", "RETRYING"}
      BY BatchFacts DEF BatchIsOpen
  <2>2. found[p][j] # "none"
      BY DEF Commit, Todo
  <2>3. attempts[j] \in 0..MaxAttempts /\ attempts[j] < MaxAttempts
      BY <2>1 DEF AttemptLeft, TypeOK
  <2>4. QED
      BY <2>1, <2>2, <2>3, JobSettings DEF TypeOK
<1>3. \A j \in done :
          /\ new[j] \in {"SUCCEEDED", "RETRYING", "FAILED"}
          /\ new[j] = "SUCCEEDED" <=> found[p][j] = "created"
          /\ new[j] = "RETRYING" =>
                 attempts[j] + 1 < MaxAttempts /\ found[p][j] = "disabled"
          /\ new[j] = "FAILED" /\ found[p][j] = "disabled" => attempts[j] + 1 = MaxAttempts
    BY <1>0, <1>2, StatusAfterFacts
<1>4. TypeOK'
  <2>1. status' \in [Jobs -> Statuses]
      BY <1>1, <1>3 DEF TypeOK, Statuses
  <2>2. attempts' \in [Jobs -> 0..MaxAttempts]
      BY <1>1, <1>2, JobSettings DEF TypeOK
  <2>3. lastError' \in [Jobs -> Errors] /\ children' \in [Jobs -> Nat] /\ waiting' \in SUBSET Jobs
      BY <1>1, <1>2, <1>e DEF TypeOK, Findings, Errors
  <2>4. QED
      BY <1>r, <2>1, <2>2, <2>3, ReleaseKeepsBatches DEF TypeOK
<1>5. BatchIsOpen'
  <2> SUFFICES ASSUME NEW q \in Processors, NEW j \in batch'[q]
               PROVE  /\ status'[j] \in {"PENDING", "RETRYING"} /\ j \notin waiting'
                      /\ \A r \in Processors : j \in batch'[r] => q = r
      BY DEF BatchIsOpen
  <2>1. q # p /\ batch'[q] = batch[q] /\ batch'[p] = {}
      BY <1>r, ReleaseKeepsBatches
  <2>2. j \in Jobs /\ j \notin done /\ status[j] \in {"PENDING", "RETRYING"}
      BY <2>1, BatchFacts DEF BatchIsOpen
  <2>3. \A r \in Processors : j \in batch'[r] => r # p /\ j \in batch[r]
      BY <1>r, <2>1, ReleaseKeepsBatches
  <2>4. QED
      BY <1>1, <2>1, <2>2, <2>3 DEF BatchIsOpen
<1>6. ASSUME NEW j \in Jobs
      PROVE  IF j \in done
             THEN /\ status'[j] = new[j] /\ attempts'[j] = attempts[j] + 1
                  /\ lastError'[j] = IF found[p][j] = "created" THEN "none" ELSE found[p][j]
                  /\ children'[j] = IF found[p][j] = "created" THEN 1 ELSE 0
             ELSE /\ status'[j] = status[j] /\ attempts'[j] = attempts[j]
                  /\ lastError'[j] = lastError[j] /\ children'[j] = children[j]
    BY <1>1, <1>2, <1>e DEF OneChild
<1>7. AttemptLeft' /\ RetryBudget'
    BY <1>2, <1>3, <1>6, JobSettings DEF AttemptLeft, RetryBudget, TypeOK
<1>8. OneChild'
    BY <1>3, <1>6 DEF OneChild
<1>9. NoneStranded'
  <2>1. \A j \in Jobs : status'[j] # "PROCESSING"
      BY <1>3, <1>6 DEF NoneStranded
  <2>2. \A j \in waiting' : j \in Jobs /\ status'[j] = "RETRYING"
    <3>1. \A j \in waiting : j \in Jobs /\ status[j] = "RETRYING" 
        BY DEF NoneStranded, TypeOK
    <3>2. \A j \in waiting' : j \in waiting \/ (j \in done /\ new[j] = "RETRYING")
        BY <1>1
    <3>3. \A j \in waiting : j \notin done
        BY DEF TypeOK, BatchIsOpen
    <3>4. QED
        BY <1>2, <1>6, <3>1, <3>2, <3>3
  <2>3. QED
      BY <2>1, <2>2 DEF NoneStranded
<1>10. QED
    BY <1>4, <1>5, <1>7, <1>8, <1>9

LEMMA RollbackKeepsJobInv ==
    ASSUME JobInv, NEW p \in Processors, Rollback(p)
    PROVE  JobInv'
<1> USE DEF JobInv, Rollback, rows
<1>1. TypeOK'
    BY ReleaseKeepsBatches DEF TypeOK
<1>2. BatchIsOpen'
    BY ReleaseKeepsBatches DEF BatchIsOpen
<1>3. AttemptLeft' /\ OneChild' /\ RetryBudget' /\ NoneStranded'
    BY DEF AttemptLeft, OneChild, RetryBudget, NoneStranded
<1>4. QED
    BY <1>1, <1>2, <1>3

LEMMA EnvironmentKeepsJobInv ==
    ASSUME JobInv, NEW j \in Jobs, EditSettings(j) \/ DelayPasses(j)
    PROVE  JobInv'
<1> USE DEF JobInv, EditSettings, DelayPasses, rows
<1>1. TypeOK'
    BY DEF TypeOK
<1>2. BatchIsOpen'
    BY DEF BatchIsOpen
<1>3. AttemptLeft' /\ OneChild' /\ RetryBudget' /\ NoneStranded'
    BY DEF AttemptLeft, OneChild, RetryBudget, NoneStranded
<1>4. QED
    BY <1>1, <1>2, <1>3

LEMMA StepKeepsJobInv == JobInv /\ [Next]_vars => JobInv'
<1> SUFFICES ASSUME JobInv, [Next]_vars PROVE JobInv'
    OBVIOUS
<1>1. CASE UNCHANGED vars
    BY <1>1 DEF vars, rows, JobInv, TypeOK, BatchIsOpen, AttemptLeft, OneChild,
       RetryBudget, NoneStranded
<1>2. ASSUME NEW j \in Jobs, Enqueue(j) \/ Retry(j) \/ EditSettings(j) \/ DelayPasses(j)
      PROVE  JobInv'
    BY <1>2, EnqueueKeepsJobInv, RetryKeepsJobInv, EnvironmentKeepsJobInv
<1>3. ASSUME NEW p \in Processors, Take(p) \/ Process(p) \/ Commit(p) \/ Rollback(p)
      PROVE  JobInv'
    BY <1>3, TakeKeepsJobInv, ProcessKeepsJobInv, CommitKeepsJobInv, RollbackKeepsJobInv
<1>4. QED
    BY <1>1, <1>2, <1>3 DEF Next

\* Every reachable state is well typed: no job is attempted beyond the limit
\* of process_once.
THEOREM JobsTypeCorrect == Spec => []TypeOK
BY InitJobInv, StepKeepsJobInv, PTL DEF Spec, JobInv

\* process_once, _record_failure and retry_successor_job: one task per job
\* that says SUCCEEDED and none otherwise, a retry budget that is kept, and no
\* job left where no poll finds it.
THEOREM JobsSafe == Spec => [](OneChild /\ RetryBudget /\ NoneStranded)
BY InitJobInv, StepKeepsJobInv, PTL DEF Spec, JobInv

\* Failures, rollbacks and manual retries keep to the budget of attempts.
THEOREM RetryBudgetKept == Spec => []RetryBudget
BY JobsSafe, PTL

\* A job that has succeeded is never changed again: no repeated FINISH, poll
\* or manual retry starts its successor a second time.
THEOREM SuccessIsForGood == Spec => [][SuccessStands]_vars
<1>1. JobInv /\ [Next]_vars => [SuccessStands]_vars
  <2> SUFFICES ASSUME JobInv, Next PROVE SuccessStands
      OBVIOUS
  <2> SUFFICES ASSUME NEW j \in Jobs, status[j] = "SUCCEEDED"
               PROVE  status'[j] = "SUCCEEDED" /\ children'[j] = children[j]
      BY DEF SuccessStands
  <2>1. ASSUME NEW i \in Jobs, Enqueue(i) \/ Retry(i) \/ EditSettings(i) \/ DelayPasses(i)
        PROVE  status'[j] = "SUCCEEDED" /\ children'[j] = children[j]
      BY <2>1 DEF Enqueue, Retry, EditSettings, DelayPasses, rows, JobInv, TypeOK
  <2>2. ASSUME NEW p \in Processors, Take(p) \/ Process(p) \/ Rollback(p)
        PROVE  status'[j] = "SUCCEEDED" /\ children'[j] = children[j]
      BY <2>2 DEF Take, Process, Rollback, rows
  <2>3. ASSUME NEW p \in Processors, Commit(p)
        PROVE  status'[j] = "SUCCEEDED" /\ children'[j] = children[j]
    <3>1. j \notin batch[p]
        BY DEF JobInv, BatchIsOpen
    <3>2. QED
        BY <2>3, <3>1 DEF Commit
  <2>4. QED
      BY <2>1, <2>2, <2>3 DEF Next
<1>2. QED
    BY InitJobInv, StepKeepsJobInv, <1>1, PTL DEF Spec
=============================================================================
