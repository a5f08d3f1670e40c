---------------------------- MODULE SuccessorJobs ----------------------------
(***************************************************************************)
(* The successor job processor of the Task service                         *)
(* (service/app/services/task_successor_service.py): the job a successful  *)
(* run leaves behind becomes the next task of its chain.                   *)
(*                                                                         *)
(* A processor takes a batch of jobs FOR UPDATE SKIP LOCKED and works on   *)
(* all of them in one transaction: what it did becomes visible when it     *)
(* commits, and is lost as a whole when the process dies, the database     *)
(* fails or one job of the batch raises an error other than                *)
(* SuccessorJobError.  Settings are edited while the transaction runs.     *)
(*                                                                         *)
(* The many checks of _create_successor_task are reduced to the three      *)
(* classes the code tells apart: the binding is disabled (retried), any    *)
(* other SuccessorJobError (final), an unexpected error (batch lost).      *)
(* Faulty... definitions are used by no action.                            *)
(***************************************************************************)
EXTENDS Naturals, FiniteSets

CONSTANTS
    NumJobs,        \* bound: jobs, numbered in the order of created_at
    Processors,     \* processors of the running service processes
    BatchSize,      \* SUCCESSOR_JOB_BATCH_SIZE
    MaxAttempts,    \* SUCCESSOR_JOB_MAX_ATTEMPTS
    MaxRetries      \* bound: manual retries

Jobs == 1..NumJobs

ASSUME JobBounds == NumJobs \in Nat /\ MaxRetries \in Nat
ASSUME JobSettings == BatchSize \in Nat \ {0} /\ MaxAttempts \in Nat \ {0}

VARIABLES
    status,     \* task_successor_jobs.status; "NONE" before creation
    attempts,   \* attempt_count
    waiting,    \* jobs whose next_attempt_at lies ahead
    lastError,  \* last_error_code
    children,   \* number of tasks created for the job
    target,     \* what the settings of the target binding make of the job
    batch,      \* jobs locked by the processor's open transaction
    found,      \* what that transaction found of each of them
    retries     \* manual retries so far

rows == <<status, attempts, waiting, lastError, children>>
vars == <<rows, target, batch, found, retries>>

Statuses == {"NONE", "PENDING", "PROCESSING", "RETRYING", "SUCCEEDED", "FAILED"}
Settings == {"ENABLED", "DISABLED", "INVALID"}
Errors   == {"none", "disabled", "invalid"}
Findings == Errors \cup {"created"}
Decided  == {"SUCCEEDED", "FAILED"}

Init ==
    /\ status = [j \in Jobs |-> "NONE"]
    /\ attempts = [j \in Jobs |-> 0]
    /\ waiting = {}
    /\ lastError = [j \in Jobs |-> "none"]
    /\ children = [j \in Jobs |-> 0]
    /\ target = [j \in Jobs |-> "ENABLED"]
    /\ batch = [p \in Processors |-> {}]
    /\ found = [p \in Processors |-> [j \in Jobs |-> "none"]]
    /\ retries = 0

-----------------------------------------------------------------------------
(* Jobs come into being, and are retried by hand                           *)

FaultyEnqueue(j) ==
    /\ \A i \in 1..(j - 1) : status[i] # "NONE"
    /\ status' = [status EXCEPT ![j] = "PENDING"]
    /\ attempts' = [attempts EXCEPT ![j] = 0]
    /\ UNCHANGED <<waiting, lastError, children, target, batch, found, retries>>

\* finish_run's successful branch; a job there is already stays as it is.
Enqueue(j) ==
    /\ \A i \in 1..(j - 1) : status[i] # "NONE"
    /\ status[j] = "NONE"
    /\ status' = [status EXCEPT ![j] = "PENDING"]
    /\ attempts' = [attempts EXCEPT ![j] = 0]
    /\ UNCHANGED <<waiting, lastError, children, target, batch, found, retries>>

Locked(j) == \E p \in Processors : j \in batch[p]

FaultyRetry(j) ==
    /\ retries < MaxRetries
    /\ status[j] = "FAILED" /\ ~Locked(j)
    /\ status' = [status EXCEPT ![j] = "PENDING"]
    /\ lastError' = [lastError EXCEPT ![j] = "none"]
    /\ retries' = retries + 1
    /\ UNCHANGED <<attempts, waiting, children, target, batch, found>>

Retry(j) ==
    /\ retries < MaxRetries
    /\ status[j] = "FAILED" /\ ~Locked(j)
    /\ status' = [status EXCEPT ![j] = "PENDING"]
    /\ attempts' = [attempts EXCEPT ![j] = 0]
    /\ lastError' = [lastError EXCEPT ![j] = "none"]
    /\ retries' = retries + 1
    /\ UNCHANGED <<waiting, children, target, batch, found>>

-----------------------------------------------------------------------------
(* A processor's transaction                                               *)

FaultyUnlocked(j) == status[j] \in {"PENDING", "RETRYING"} /\ j \notin waiting
FaultyPendingOnly(j) == status[j] = "PENDING" /\ j \notin waiting /\ ~Locked(j)

Ready(j) == status[j] \in {"PENDING", "RETRYING"} /\ j \notin waiting /\ ~Locked(j)

Oldest(S, n) == {j \in S : Cardinality({i \in S : i < j}) < n}

Take(p) ==
    /\ batch[p] = {}
    /\ batch' = [batch EXCEPT ![p] = Oldest({j \in Jobs : Ready(j)}, BatchSize)]
    /\ batch'[p] # {}
    /\ UNCHANGED <<rows, target, found, retries>>

Todo(p) == {j \in batch[p] : found[p][j] = "none"}

Finding(j) ==
    CASE target[j] = "DISABLED" -> "disabled"
      [] target[j] = "INVALID"  -> "invalid"
      [] OTHER                  -> "created"

Process(p) ==
    \E j \in Oldest(Todo(p), 1) :
        /\ found' = [found EXCEPT ![p][j] = Finding(j)]
        /\ UNCHANGED <<rows, target, batch, retries>>

FaultyStatusAfter(finding, n) ==
    CASE finding = "created"                     -> "SUCCEEDED"
      [] finding = "disabled" /\ n <= MaxAttempts -> "RETRYING"
      [] OTHER                                   -> "FAILED"

StatusAfter(finding, n) ==
    CASE finding = "created"                     -> "SUCCEEDED"
      [] finding = "disabled" /\ n < MaxAttempts -> "RETRYING"
      [] OTHER                                   -> "FAILED"

Release(p) ==
    /\ batch' = [batch EXCEPT ![p] = {}]
    /\ found' = [found EXCEPT ![p] = [j \in Jobs |-> "none"]]

Commit(p) ==
    LET done == batch[p]
        new(j) == StatusAfter(found[p][j], attempts[j] + 1)
    IN  /\ done # {} /\ Todo(p) = {}
        /\ status' = [j \in Jobs |-> IF j \in done THEN new(j) ELSE status[j]]
        /\ attempts' = [j \in Jobs |-> IF j \in done THEN attempts[j] + 1 ELSE attempts[j]]
        /\ waiting' = waiting \cup {j \in done : new(j) = "RETRYING"}
        /\ lastError' = [j \in Jobs |->
               IF j \notin done THEN lastError[j]
               ELSE IF found[p][j] = "created" THEN "none" ELSE found[p][j]]
        /\ children' = [j \in Jobs |->
               IF j \in done /\ found[p][j] = "created" THEN children[j] + 1 ELSE children[j]]
        /\ Release(p)
        /\ UNCHANGED <<target, retries>>

\* Unexpected error, failing database or process death: all is rolled back.
Rollback(p) ==
    /\ batch[p] # {}
    /\ Release(p)
    /\ UNCHANGED <<rows, target, retries>>

-----------------------------------------------------------------------------
(* The world around                                                        *)

EditSettings(j) ==
    /\ \E s \in Settings : target' = [target EXCEPT ![j] = s]
    /\ UNCHANGED <<rows, batch, found, retries>>

DelayPasses(j) ==
    /\ j \in waiting
    /\ waiting' = waiting \ {j}
    /\ UNCHANGED <<status, attempts, lastError, children, target, batch, found, retries>>

Next ==
    \/ \E j \in Jobs : Enqueue(j) \/ Retry(j) \/ EditSettings(j) \/ DelayPasses(j)
    \/ \E p \in Processors : Take(p) \/ Process(p) \/ Commit(p) \/ Rollback(p)

Spec == Init /\ [][Next]_vars

\* The poll loop goes on for as long as its service runs, clocks advance, and
\* a transaction goes on until it commits or fails.
Fairness ==
    /\ \A j \in Jobs : WF_vars(DelayPasses(j))
    /\ \A p \in Processors :
           WF_vars(Take(p)) /\ WF_vars(Process(p)) /\ WF_vars(Commit(p))

FairSpec == Spec /\ Fairness

-----------------------------------------------------------------------------
(* Correctness                                                             *)

TypeOK ==
    /\ status \in [Jobs -> Statuses]
    /\ attempts \in [Jobs -> 0..MaxAttempts]
    /\ waiting \in SUBSET Jobs
    /\ lastError \in [Jobs -> Errors]
    /\ children \in [Jobs -> Nat]
    /\ target \in [Jobs -> Settings]
    /\ batch \in [Processors -> SUBSET Jobs]
    /\ found \in [Processors -> [Jobs -> Findings]]
    /\ retries \in 0..MaxRetries

\* A job has exactly one task if it says SUCCEEDED and none otherwise, however
\* often its run's FINISH is repeated, processors overlap, batches are rolled
\* back and operators retry: no order of the supplier is answered twice.
OneChild == \A j \in Jobs : children[j] = IF status[j] = "SUCCEEDED" THEN 1 ELSE 0

\* A disabled binding is retried until the attempts are used up, and no
\* longer: a job is given up for it exactly at the limit, counted anew from
\* each manual retry.
RetryBudget ==
    \A j \in Jobs :
        /\ status[j] = "RETRYING" => attempts[j] < MaxAttempts /\ lastError[j] = "disabled"
        /\ status[j] = "FAILED" /\ lastError[j] = "disabled" => attempts[j] = MaxAttempts

\* The transaction of a dead processor leaves no job behind in PROCESSING,
\* which nobody would ever take up again, and a waiting job is one that is
\* going to be retried.
NoneStranded ==
    /\ \A j \in Jobs : status[j] # "PROCESSING"
    /\ \A j \in waiting : status[j] = "RETRYING"

\* Once batches stop being rolled back, every job is decided, whatever is
\* edited meanwhile.  (A job whose task can never be written, for a title that
\* is too long say, takes that hope away from all jobs of its batches: they
\* are rolled back for ever.)
JobsDecided ==
    <>[][\A p \in Processors : ~Rollback(p)]_vars
        => \A j \in Jobs : status[j] = "PENDING" ~> status[j] \in Decided
=============================================================================
