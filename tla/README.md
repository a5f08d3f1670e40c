# Verification of the autotask workspace

TLA+ models, TLC runs and TLAPS proofs about `autotask-workspace`: a Task service
(`service/`, FastAPI over PostgreSQL) that owns automation tasks, an RPA engine
(`rpa-engine/`, a worker pool that executes Playwright flows) and an Electron client
(`app/`) operators use. The modules are written from the source. `PROJECT.json`
holds the machine-readable part: which lines each definition stands for (`map`),
the runs, the bugs the properties are known to notice (`mutants`), the places where
this code can go wrong (`hazards`) and the proved theorems.

Contents: 1 the system, 2 what makes it hard, 3 the modules and how they
correspond to the code, 4 the runs, 5 where code and documents disagree, 6 fairness,
7 the proofs, 8 what is not modelled, 9 the plan.

Paths below are relative to `src/`; `services/` is `service/app/services/` and
`engine/` is `rpa-engine/src/nodeskclaw_rpa_engine/`.

## 1. The system

In the normal course a client (or a timer, or a business process) creates a task; an
engine polls `POST /workers/lease` and gets the oldest task it can execute together
with a lease that expires unless it is renewed; the engine records an attempt, runs
the flow, and writes EVENT and FINISH callbacks to its outbox, which delivers them to
the Task service; FINISH settles run and task, opens a human action, queues a
successor job or moves the business process the task belongs to.

| Component | State | Operations | What makes it correct |
| --- | --- | --- | --- |
| **Task dispatch and lifecycle** `services/{dispatch,automation_task,human_action}_service.py`, `task_state_machine.py` | `automation_tasks`, `rpa_runs`, `worker_leases`, `rpa_workers`, `human_actions` | create, submit, start, cancel, retry, mark done by hand; lease, renew, finish; open, confirm and cancel a human action | a task is leased to one worker at a time; every RUNNING task can time out; task, run and lease tables agree; results stand; a waiting task has an action to take; BOE logins are not shared but with tasks a poll does not count as busy (section 5); queued tasks get decided |
| **Successor jobs** `services/task_successor_service.py` | `task_successor_jobs`, the tasks they create | enqueue on success, process a batch, retry by hand | one next task per success; retries bounded; no job forgotten |
| **Engine worker pool** `engine/workers/{pool,repository,service}.py` | `rpa_execution_attempts`, executions in memory, slots | poll, record, start, execute, renew, complete, cancel, stop, recover | an attempt and its FINISH in the outbox agree; a lease is executed once; attempts end |
| **Callback outbox** `engine/workers/{outbox,task_client}.py` | `rpa_callback_outbox` | enqueue, recover stale, claim, deliver, mark, retry, give up | callbacks of an attempt arrive in order; SENT means received; all get settled |
| **Order processes (Tiandy)** `services/process_instance_service.py`, `tiandy_timers.py` | `process_instances`, `process_line_items`, `process_stage_history` | scan, create order, enter dates, sign, poll for the reply, archive, cancel, retry | no step before the one it needs; one task of a kind at a time; an order being entered has work under way, unless it was taken away and the process not told; dates are counted |
| **Statements** `services/statement_service.py` | `statement_bills` and their process | query receipts, generate, upload an invoice, submit, delete the file, cancel | bill and process agree, but for late failed generations; submitted only after an invoice was scanned |
| **BOE packing** `services/boe_packing_service.py`, `domain/boe_packing.py` | process and its `summary` JSON | match delivery plans, fetch, enrich, save a draft, review, submit, delete the draft | one open packing per delivery; nothing submitted that was not saved; a cancelled packing leaves no draft of known number at the portal |
| **Timers and schedules** `services/timer_*.py`, `scheduler_job_service.py`, `scan_scheduler.py`, `boe_srm_login_service.py` | `timers`, `timer_runs`, `scheduler_jobs`, jobs of APScheduler | sync, fire, run by hand, login wave | a firing is recorded and finished; one instance of a timer |
| **Flow registry** `engine/flows/` | `rpa_flows`, `rpa_flow_versions`, validations, audits, packages in S3 | upload, validate, publish, deprecate, disable, roll back | every version keeps its package; only a checked version is published; a version number keeps its meaning |
| **Flow runtime** `engine/runtime/` | package cache on disk, session cache with file locks, browser | load, run, wait for a human, cancel | a cache that passes for valid is whole, unless the disk loses what is in it; a run can load the version it was given; one user of a session at a time |
| **Engine API, configuration, storage** `engine/{main,api,core,object_storage}` | none of its own | wiring, health | - |
| **Portals, bindings, templates, permissions** `services/{portal_account,workflow_binding,workflow_template,permission}_service.py` ... | configuration rows | edit, enable, disable | the environment of the models |
| **Artifacts, mail codes, integration logs** | files and logs | store, read | - |
| **ERP and SMC clients** `services/{sdms,boe_smc}_client.py` ... | none | HTTP calls | - |
| **Desktop client** `app/` | views | requests to the service | its requests are the client actions of the models |
| **Flow packages and tools** `rpa-flows/`, scripts, mock portal | none | browser scripts | - |

How they interact:

- engine -> service over HTTP: lease, renew, events, FINISH. FINISH names the run, not
  the lease;
- engine processes among themselves: only through their database (attempts, outbox,
  an advisory lock per run) and a file lock per portal session;
- dispatch -> successor jobs: a row written by `finish_run` in its own transaction;
- dispatch -> business processes: `finish_run` calls `on_sub_task_finished` inside its
  transaction, and commits although it failed, unless the database refuses the transaction; business
  processes -> dispatch: tasks created QUEUED together with a run;
- flow registry -> flow runtime: a lease names a flow key and a version number, the
  registry makes a package of it, the loader caches it;
- clients -> everything, at any time, and mostly without row locks.

## 2. What makes it hard

`PROJECT.json` lists each hazard at its line. In short:

- **leases without a fence** - they expire inside some later poll, while callbacks of
  the old holder are still under way, after cancellations and restarts of the task;
- **actions on running tasks** - cancel, start and mark-done touch the task and its runs
  and leave lease, worker and human action as they are; a poll drops queued tasks and tells nobody;
- **two senders of one callback** - a slow batch is recovered by another dispatcher;
  requests and answers get lost or come late;
- **death between two writes** - the engine's outcome, its FINISH and its memory of the
  flow must agree after any restart; writes fail, or succeed unseen;
- **whole-batch transactions** - one failing job rolls back the work of its batch;
- **limits** - tries in the outbox, attempts of a job, slots, candidates of a poll;
- **results that come too late** - a sub-task ends after its process was cancelled, failed
  or repeated; most handlers look at neither;
- **requests on what they read before** - a click, a timer or a scan reads a process
  without a lock, and writes columns, or a whole JSON document, over a later state;
- **a row and an object, a file and a marker** - uploads, publications and cache
  replacements span two stores, and break off, or are cancelled, between them.

## 3. The modules

Each `Faulty...` definition is a variant, with a plausible bug, of the definition
after it. No action uses it; it is there to show that a property notices the bug.

### `TaskDispatch` (+ `MCTaskDispatch`, `TaskDispatchProofs`, `DispatchPolicyProofs`)

One action per handler, executed as the one transaction it is.

| Action | Code |
| --- | --- |
| `CreateTask`, `SubmitTask`, `StartTask`, `CancelTask`, `RetryTask`, `MarkSuccessManual` | handlers of `automation_task_service.py` |
| `CreateQueuedTask` | `_create_sub_task` of the business processes: a task already QUEUED, with its run |
| `OpenHumanAction`, `ConfirmHumanAction`, `CancelHumanAction` | `human_action_service.py` |
| `LeaseTask` = `Grant` or `NothingToGrant` | `lease_task`: expire stale leases, cancel orphaned runs, walk at most `MaxCandidates` queued tasks, drop the ones whose binding or portal is invalid, skip busy logins, lease the first that fits |
| `FinishRun` | `finish_run`, with the worker, lease, action and successor rows it touches |
| `LeaseTimesOut`, `ExecutionEnds`, `EditSettings` | environment: the clock, the worker, an administrator |

Abstractions. The binding's and portal's validity, as a poll finds it, is the nondeterministic set
`invalid`. The command snapshot is the version number of the settings it was built from. A holder
has one outcome per lease, and may deliver it late, repeatedly or never. A renewal only postpones
`LeaseTimesOut`. PARTIAL_SUCCESS, which no handler assigns, and LEASED, which never survives its
transaction, are not reachable. Left out, because no status depends on them: step runs, run events,
artifacts and `rpa_workers.status`. The hook into the business processes is what `SubTasks` is
about.

### `TaskLife`, `ExclusiveDispatch`

`TaskLife` is what the rest of the service sees of dispatch: the status of each task, and
who moves it - clients (`ByClient`), polls of workers (`Poll`: several tasks requeued or
given up, at most one granted) and reports (`MayReport`, `Reported`). `ExclusiveDispatch`
adds the leases that hold each task, and says what `TaskDispatch` promises: a task is a
lock with a timeout, granted only while free. `TaskDispatch!Exclusive` is the instance with
`holders <- Holders`, the leases of each task that were not deleted; `ExclusiveSpec` is
checked as a property of `dispatch_one_task` and proved in `DispatchPolicyProofs`. What looks
odd in it is the code's: a client may queue a running task again, and then the report of
its holder can still cancel it.

### `CallbackOutbox`, `OrderedDelivery` (+ `MCCallbackOutbox`, `CallbackOutboxProofs`)

`Enqueue` is `_enqueue` under the attempt's row lock: sequence numbers without gaps,
one row per key. `Poll` is the first transaction of `dispatch_once` (`recover_stale`,
then `claim_ready`), `Deliver` sends, `Mark` is `mark_sent` or `mark_failed`,
`ClaimLost` the LookupError that abandons the rest of a batch, `Crash` the death of the
process. A request lives in `network` on its own: it may be applied, rejected or
lost after the dispatcher gave it up. Time is abstracted: being due is the choice
of `claimed`, and a lock may be stale any time after it was taken. The Task side is
reduced to what a repeated request does: a second event row, or an unchanged run.

`OrderedDelivery` is what of this matters to attempts and to the Task service: a channel for each
attempt, into which callbacks are written in sequence, at most one of them a FINISH; the Task service
first hears of one when all before it are closed; one is closed, when its turn has come, as sent if it
was received, or as given up. `CallbackOutbox!Channel` is the instance, with the sets of rows by status
and of callbacks that were applied; `DeliversInOrder` is its specification.

### `WorkerPool` (+ `MCWorkerPool`, `WorkerPoolProofs`)

Every `await` of `_execute` is a step, so that a crash, a shutdown's cancellation or a
failing write can come at each. `phase` is where the coroutine is, `child` the runtime
task with the flow (which may ignore its cancellation), `attempt` and `finish` the rows.
Engines share the tables; a `worker_id` is one process, as the configuration demands.
The Task service is reduced to leases that are FREE, LIVE or OVER, their deadlines and
the settled runs; reports may be delivered any number of times. A coroutine that waits for a write
may see an error, or its cancellation, whether or not the write was committed: `PendingWrite` is what
the table gets if it was (`DatabaseFails`, `Cancel`). What goes to the service past the outbox, because the
lease was refused, is `ReportDirectly` (`told`), and is also sent for a lease that was recorded
(section 5): `FinishMatchesAttempt` is about the two tables only.
Left out: the row of the worker (status, heartbeat) and the read-only API.

### `SuccessorJobs` (+ `MCSuccessorJobs`, `SuccessorJobsProofs`)

`Take` selects a batch FOR UPDATE SKIP LOCKED; `Process` works on its next job;
`Commit` writes what was found, `Rollback` loses all of it. The many checks of
`_create_successor_task` become the three classes the code tells apart: disabled
(retry later), any other SuccessorJobError (final), anything else (rollback). The settings may
change between the steps. `Retry` is the manual retry, refused while the row is locked.

### `SubTasks`, `OrderProcess`, `StatementBill`, `BoePacking`, `BusinessProcesses` (+ `MCBusinessProcesses`, `BusinessProcessesProofs`, `ProcessTasksProofs`)

`SubTasks` extends `TaskLife` with what the three kinds of process share: the columns that
control a process (`proc`: status, stage, and per kind the lines, the bill or the draft
number in the summary), the sub-tasks with their types, and two kinds of transaction:

- a result is handled inside the FINISH that brings it, with the process row locked: one step
  (`Finish`);
- a request of a user, a timer or a scan reads without a lock, decides and commits: two steps
  (`Begin`, `Commit`), between which anything may happen. As SQLAlchemy does, the commit
  writes the columns the request changed and no others (`Dirty`, `Flushed`): a request
  that sets a status to the value it has writes nothing. The summary is one column: an
  edit writes all of it (`Decide`).

| Module | Actions | Code |
| --- | --- | --- |
| `OrderProcess` | `CreateFromScan`, `EnsurePrepareSubTask`, `SubmitLineDate`, `RequestSign`, `CreateCheckReplyTask`, `ArchiveSignedOrder`, `CancelInstance`, `RetryInstance`, `OrderFinished` | `process_instance_service.py`: requests, the timers' polls, handlers of four results |
| `StatementBill` | `NewBill`, `Regenerate`, `UploadInvoice`, `SubmitReview`, `DeleteInvoiceFile`, `CancelStatement`, `StatementFinished` | `statement_service.py` |
| `BoePacking` | `MatchDeliveryPlans`, `MatchOpenPlan`, `FetchWms`, `RetryPacking`, `CancelPacking`, `CancelAgain`, `PatchInstance`, `SubmitInstance`, `PackingFinished` | `boe_packing_service.py` |

`BusinessProcesses` is one instance of any of the kinds. What a flow read at a portal, or
SDMS and WMS answered, is a choice among the classes the code tells apart: failed, a dry
run that found the button, not signed yet, a draft saved without a number, a list without usable lines.
A result that a unique index rejects (lines or a bill that exist) rolls the FINISH back and
is no step; repeating it is the business of the outbox.

Two history variables say under which circumstances the weaker properties hold:

- `facts`: what was reported done - "ordered" in SDMS, contract "replied", bill
  "generated", invoice "scanned", draft "saved", and "draft" while one of known number is at the
  portal. `StepsInOrder` relates tasks and stages to them, in all behaviours. Four more name
  what happened that makes a weaker property false, each of them something the code does
  (section 5): "taken" and "dropped", the creation of an order was marked or cancelled at the task
  centre, or dropped by a poll, and the process not told; "reactivated", a generation failed after its
  bill was decided; "unnumbered", a draft was saved without a number.
- `irregular`: contains `Overlap` once a request committed although a column or a sub-task had
  changed since it read, and `Rerun` once somebody ran a failed sub-task again at the task
  centre, which the process is not told. Without locks the code cannot promise
  `OneTaskAtATime`, `DatesCounted`, `BillFollowsProcess` and `CancelledHasNoDraft` then, and
  the properties name this exception. `BillFollowsProcess` also excepts "reactivated", and
  `CancelledHasNoDraft` "unnumbered". `CreatingHasWork` needs no exception for overlaps, and excepts
  "taken" and "dropped". Through every other late result, cancellation and retry that overlaps with
  no request they hold.

For the contract of an order `OneTaskAtATime` counts the tasks a flow works on or waits in, and those
that succeeded: it is what the code keeps. `ArchiveNotRepeated` is what the requirement
asks, and does not hold (section 5).

### `FlowRegistry`, `FlowCache`, `FlowDelivery` (+ `MCFlowDelivery`, `FlowDeliveryProofs`)

`FlowRegistry` is one flow key of one tenant: a GLOBAL and a TENANT flow, each with numbered
versions. An upload puts its object (`PutPackage`), inserts its rows (`InsertVersion`) and may
fail, be cancelled or lose the answer to its COMMIT anywhere; `AfterFailure` is the code's
rule for deleting the object again. A publication validates the package first (`CheckPackage`) and
decides under the row's lock (`PublishVersion`); `GuardFlowVersion` is the database's trigger. `checked`
and `refused` are history: which versions a publication found intact, and whether the trigger
ever had to raise.

`FlowCache` is the loader: an `asyncio.Lock` per directory, a thread that unpacks beside it, removes
the old directory file by file and renames the new one in place, and readers outside the lock. A
cancelled load gives its lock back while its thread works on. What a directory holds is two bits,
the marker (`package.zip` and `.ready`, all that `_cache_is_valid` looks at) and the flow that was
extracted. `faults` records four kinds of trouble: "orphan", a thread outlived its load; "torn", a
removal broke off half way, in a crash or because the disk failed (`ThreadBreaks`); "decay", a
marker was lost; "rot", what was extracted was lost under its marker. A load that ends for another
reason - storage or disk do not answer, the package wants a newer engine - is `Unavailable`, and
nothing is claimed of it.

`FlowDelivery` composes them: `Resolve` gives a load the version the registry makes of a
number, `Fetch` gets what object storage has under that version's key, `Crash` hits both.

## 4. The runs

| Run | Instance | Properties | Shows |
| --- | --- | --- | --- |
| `dispatch_one_task` | 1 task, 3 runs, 3 leases, 2 workers, clients start tasks in any status, settings edited once | `LeaseAgreement`, `RunsFollowTask`, `HumanCheckpoint`, `SuccessorJustified`, `CommandFrozen`, `ResultsStand`, `ExclusiveSpec` | lease, run and task tables agree; a waiting task has its action; successor jobs only for successes that stand; commands are frozen; results stand; the task behaves as a lock with a timeout |
| `dispatch_shared_login` | 2 BOE tasks of one login, 2 runs each, 3 leases, clients start idle tasks only | `TypeOK`, `LoginExclusive`, `OneActiveRun` | the login is used twice at once only beside a task that a human operates, or that was cancelled or queued again under its worker; no task that a poll would fail on |
| `dispatch_live` | 2 tasks, 1 run each, 2 leases whose identifiers are used again, 1 worker, fairness | `EventuallyDecided` | every queued task is decided, however often its lease expires, as long as not all its holders die |
| `stale_finish` | violation | `StaleFinishRejected` | see 5 |
| `poll_fails` | violation | `PollNeverFails` | see 5 |
| `outbox` | 2 callbacks of 1 attempt and 2 dispatchers, or 1 callback of each of 2 attempts and 1 dispatcher; 2 tries, batches of 2, fairness | `TypeOK`, `FirstArrivalInOrder`, `SentIsApplied`, `DeliversInOrder`, `EventuallySettled` | callbacks are first received in order; SENT means received; all of it is an ordered channel, where settled callbacks stay settled; every callback is settled, also those of an abandoned batch |
| `pool_crashes` | 1 run, 2 leases, 2 engines with 2 slots, crashes, shutdowns, writes that fail or are committed unseen | `TypeOK`, `FinishMatchesAttempt`, `HandledOnce`, `OutcomesStand` | the rows of attempt and FINISH agree; a lease is executed once; outcomes stand |
| `pool_live` | 1 run, 2 leases, 1 engine, healthy database, fairness | `AttemptsEnd` | every attempt ends, restarts included |
| `successors` | 2 jobs, 2 processors, batches of 2, 2 attempts, 1 manual retry, fairness | `TypeOK`, `OneChild`, `RetryBudget`, `JobsDecided` | one task per finished job; retry budget kept; every job decided |
| `processes` | one process of any kind, 3 sub-tasks and a second contract, 2 requests at once, 2 order lines | `TypeOK`, `StepsInOrder`, `OneTaskAtATime`, `CreatingHasWork`, `DatesCounted`, `BillFollowsProcess`, `CancelledHasNoDraft` | no step before the one it needs, in any order of results and requests; without overlap, one task at a time at the portal, and bill, process, lines and draft agree, but for the exceptions of section 5; an order being entered has work unless it was taken away |
| `contract_twice` | violation | `ArchiveNotRepeated` | see 5 |
| `flow_delivery` | versions 1 and 2 of the global flow and 1 of the tenant's, 2 uploads, 1 publisher, 2 loads, crashes, outages, damage | `TypeOK`, `VersionHasPackage`, `PublishedWasChecked`, `TriggerNeverRaises`, `ValidIsWhole`, `RunsCanLoad`, `SameResolution` | every version keeps its package; only what was found intact is published; a cache without its marker heals; a load finds the wrong content only after damage or an orphaned thread |

Why the bounds are enough. The dispatch tables interact per task, except for the queue and the
shared login: one task with three runs and leases reaches "expired, leased again, started again, old
FINISH arrives", two tasks reach the competition. Two callbacks show order, two tries a claim that
is recovered and claimed again, and the limit, two dispatchers the takeover; a batch of two over two
attempts shows what an abandoned batch leaves behind (`MCCallbackOutbox`). Two leases of one run are
an execution and its repetition, on one engine or on two. Two jobs and processors show overlapping
batches and a batch with two different endings; three jobs are too many for the liveness check.
Processes meet only in the queue of tasks, which dispatch owns, so one at a time is enough; three
sub-tasks are a step, its late repetition and the step that follows, two requests a pair that
overlaps, two lines one that is dated and one that is not. A fourth sub-task is only used for the
contract an order files again (`MCBusinessProcesses!FourthFilesAgain`). Three offered versions are a
pair that a rollback swaps and a tenant's version that hides a global one; two uploads may bring the
same version; two loads are one that reads and one that replaces, or an orphaned thread and its
successor; a behaviour is followed up to the fault that makes cache and load properties true by
their exceptions (`MCFlowDelivery!NotExcused`: "rot", or an orphan and a torn removal). What holds
for every instance is the business of section 7.

`CHECK_DEADLOCK FALSE` is set where the bounds let an instance stop: all identifiers
used and all work done. Symmetry is used in runs without liveness properties only.
`processes` has about 2.1 million distinct states, `flow_delivery` 1.3 million.

`MCTaskDispatch!Recycle` makes the identifier of a lease that was deleted, and whose holder has
nothing more to report, one to use again: in `dispatch_live` leases expire any number of times, as in the code,
which requeues without bound.

## 5. Where code and documents disagree

Three runs show it:

- `stale_finish` - FINISH carries no lease: `finish_run` (`services/dispatch_service.py:700`)
  lets the worker of an expired lease settle a run another worker is executing, while
  the responsibility document of the engine says it is rejected by `leaseId`.
- `poll_fails` - starting a RUNNING task leaves it QUEUED with two active runs; the poll
  that reaches it raises MultipleResultsFound and is rolled back, and so is
  every later one, although the comment at `services/dispatch_service.py:382` says one bad
  task must not block the queue.
- `contract_twice` - `_ARCHIVE_SKIP_STATUSES` (`services/process_instance_service.py:70`) lacks
  HUMAN_OPERATING, the status of an archive task once a user has opened the action it waits for
  (`services/human_action_service.py:98`): the archive button then creates a second one, although
  `project-docs/prd/tiandy/v2.02客户订单-业务需求.md:96` wants it skipped while one is in progress.

Four more are visible in the models and have no run of their own:

- the service stores each event it is sent (`services/dispatch_service.py:557`) and does not
  deduplicate it by its key as `rpa-engine/lat.md/callback-outbox.md:25` requires: a lost answer
  gives two rows (`CallbackOutbox`, where an EVENT may be received more than once);
- a flow that ignores its cancellation (`engine/workers/pool.py:365`) works on while
  its run is given to another engine, although `rpa-engine/lat.md/worker-pool.md:52` says execution
  ends at the known expiry (`WorkerPool`, where `child` outlives its lease);
- the tasks that keep a poll from granting another of their login
  (`services/dispatch_service.py:289`) are those in BUSY_LEASE_STATUSES
  (`domain/boe_packing.py:27`), which lacks HUMAN_OPERATING, and a task that was cancelled or queued
  again under its worker is in none of them. So a session is used twice where `lat.md/domain.md:161`
  has BOE tasks of one login serialized when leasing and
  `.cursor/plans/boe/boe_packing_sop_b4b4fca4.plan.md:126` demands it. `LoginExclusive` names these
  cases and shows that there is no other;
- when the engine fails to look up whether a lease is recorded, it refuses it with a direct FAILED
  finish although it may be (`engine/workers/pool.py:230`, `:310`), even executed successfully;
  `rpa-engine/lat.md/callback-outbox.md:47` allows direct calls only before an attempt row exists
  (`WorkerPool`, where `told` may contain a recorded lease).

And four states are reached from which the code does not get out by itself, of which no document says that they
are excluded. The properties name them as their exceptions:

- a poll that finds binding or portal of a queued task invalid cancels it and tells no
  process (`services/dispatch_service.py:381`): the order whose creation it was stays in CREATING_SDMS
  without work, and is not FAILED, which a retry requires (`services/process_instance_service.py:896`); it can
  only be cancelled. The same goes for one marked done or cancelled at the task centre (`CreatingHasWork`);
- a generation that fails after its bill was checked or voided makes the process ACTIVE again
  (`services/statement_service.py:976`; `BillFollowsProcess`);
- a draft saved without a number goes to review (`services/boe_packing_service.py:1104`), and a cancellation
  then deletes nothing at the portal (`:839`); `lat.md/domain.md:195` describes it so (`CancelledHasNoDraft`);
- a cache whose extracted files were lost under `package.zip` and `.ready` passes for valid
  (`engine/runtime/loader.py:164`), fails each load and is never replaced (`ValidIsWhole`).

## 6. Fairness

- Dispatch: some worker keeps polling (engines poll for as long as they run), and a
  holder with a live lease reports or stops renewing. Beyond the code, which requeues an expired task
  without bound, `SomeHolderReports` assumes of the deployment that a task which is leased again
  and again gets some holder that comes to a result and reports it in time. Nothing is assumed of clients,
  late callbacks or administrators.
- Outbox: the poll loop of one dispatcher runs (or a restarted process goes on for it), a delivery
  ends by answer or timeout, and a lock that is not released grows stale with time. Nothing is
  assumed of the other dispatchers, which may hold what they claimed for ever, nor of the network:
  all requests may be lost. Crashes may go on for ever, each costs a try.
- Pool: a coroutine that can go on does; a flow ends, by its timeout if not by itself; a
  process that is stopping ends; one that is down is started again.
- Successors: the poll loop runs, delays pass, a transaction goes on until it commits
  or fails. `JobsDecided` states its own condition: batches are not rolled back for ever.

## 7. The proofs

The proof modules extend the model and TLAPS. Each theorem holds for every value of the
constants under the module's named assumptions: bounds are naturals, null values are
not identifiers, inputs are of their type.

**`TaskDispatchProofs`.** `TypeCorrect`, `DispatchSafe` (`LeaseAgreement`,
`ExclusiveLease`, `RunningIsHeld`, `RunsFollowTask`), `HumanCheckpointHolds`,
`CommandsAreFrozen` and `ResultsAlwaysStand`. None of them assumes anything of the
clients: starting a running task is allowed throughout. The inductive invariant is `DispatchInv`:

- `LeaseInv` adds to the properties that a report belongs to a lease with a run, that
  the run of a held lease was started, that a task has at most one RUNNING run, and, the
  crux, `RestartBlocksGrant`: a lease that is still held while its task is QUEUED means
  that the task was started under its holder, and then the task has two active runs, so
  no poll can grant it a second lease until the first expires. Without it
  `ExclusiveLease` is not inductive.
- `HumanInv` adds `ActionsOfWaiting`: an open action belongs to a task that waits or was
  closed over the action's head, never to one that is queued or running again.

**`DispatchPolicyProofs`** extends `TaskDispatchProofs`. `LoginsAreExclusive` rests on `BusyApart`:
of the tasks of a login, at most one is in a status that the poll counts as busy. A task that uses
its login in another status is operated by a human, or is no longer running but still has a holder:
the exceptions `LoginExclusive` names. `SuccessorsAreJustified` follows from `LeaseInv` and what a
poll does to statuses (`PollOutcome`). `IdleStartsAreSafe` (`OneActiveRun`) has the one assumption
about clients in these proofs, `"RUNNING" \notin StartFrom`: without it the property is false, as
`poll_fails` shows. Which tasks are started is the only thing a deployment has to watch.
`DispatchImplementsExclusive` is the refinement: every step of `TaskDispatch`, for any number of
tasks, runs, leases and workers, is a step of `ExclusiveDispatch` under `holders <- Holders`, or
changes neither statuses nor holders. It rests on `LeaseInv`: `GrantedStep` needs
`RestartBlocksGrant` to show that a task which a poll grants has no holder left, and `ReportedStep`
that a report that is accepted comes from the run of the one lease it ends.

**`CallbackOutboxProofs`.** `OutboxTypeCorrect`, `OutboxSafe` (of which `SentWasReceived` is a part)
and `SettledIsForGood`, for any number of attempts, callbacks, dispatchers and tries. The
strengthening says that only claimed rows are stale, that a delivery under way, in a batch or on the
network implies that its row exists and every earlier callback is settled (`UnderWayInOrder`: late
requests keep the order of first arrivals), and that an "ok" in a dispatcher's hands means the
callback was applied. `OutboxIsOrderedDelivery` is the refinement: enqueueing is `Write`, a poll is
`GiveUpAll` of the stale claims that had their last try, marking is `Confirm`, `GiveUpAll` or
nothing, an arrival is `Receive` the first time and nothing again. A claimed callback is the one
whose turn it is (`ClaimedIsDue`), which is why no mark can reopen or overtake anything.

**`WorkerPoolProofs`.** `PoolTablesAgree`, `PoolExecutesOnce` and `PoolOutcomesStand`, for any
number of leases, runs, engines and slots, with crashes, stops, failing writes and flows that ignore
their cancellation. `PoolInv` says that an execution belongs to a lease that has a holder
(`LeasesHaveHolders`) and lives in a process that is up (`ExecutionsLive`), that what a coroutine
takes the attempt's status to be between two `await`s is what the row says (`PhaseKnowsAttempt`; one
that writes FAILED or ABANDONED knows only that the attempt exists, it may be over), that only a
running handler waits for a renewal (`RenewalsAreMonitored`), and that no flow has run before its
attempt is RUNNING (`HandlerWaitsItsTurn`). `PhaseKnowsAttempt` is the crux: `_transition` writes
RUNNING without looking at the status, so `OutcomesStand` rests on no attempt being over while its
lease is RECORDED; afterwards it rests on `NewStatus`, as a cancellation or an error may come after
the outcome was committed. `PoolTypeCorrect` needs one fact the prover cannot be left to find: the
attempts of a run are finitely many, so that their highest number, and the next, is a natural
(`AttemptsNumbered`).

**`SuccessorJobsProofs`.** `JobsTypeCorrect`, `JobsSafe` (with `RetryBudgetKept`) and `SuccessIsForGood`. The
strengthening says that a locked batch consists of open jobs and that batches are disjoint
(`BatchIsOpen`), and that an open job has an attempt left (`AttemptLeft`); with it a
commit of one processor cannot disturb what another is doing.

**`BusinessProcessesProofs`.** `StepsAreInOrder`, for any number of sub-tasks, requests under way
and order lines. The inductive invariant of each kind (`PackingInv`, `StatementInv`, `OrderInv`)
says of every column what its value tells about `facts` (`TellsOfDraft`, `TellsOfBill`,
`TellsOfOrder`), and says the same of what each request is *about to write*: as facts are never
taken back (but for the deleted draft, on which no step rests), what was justified when a request
read is justified when it commits, however old it has become. That is why this property, unlike the
others of the run, needs no exception for overlapping requests. `BillsFollowProcesses` and
`DatesAreCounted` do need it: `BillInv` and `DatesInv` say that, while `Overlap` has not happened,
both the columns and what they would be once a *fresh* request is committed agree; a process beside
a decided bill may be active only if a late failed generation "reactivated" it. A step that changes
a column leaves no request fresh but the idle ones, and a commit of any other sets `Overlap`; so
only the guards of each request and the writes of each result have to be looked at. `KindInv` puts
the kinds together.

**`FlowDeliveryProofs`.** `PackagesAreKept`, `PublishedVersionsWereChecked`, `TriggerIsNeverNeeded` and
`ResolutionIsStable` from `RegistryInv`, whose part `PackagesKept` says that the key in a row
is that of an upload that is over and will delete nothing any more. `ValidCachesAreWhole`,
`ReadersAreUndisturbed` and `RunsLoadTheirVersion` from `CacheInv`: while no thread has outlived
its load, the lock does its work (`Orderly`: one load replaces a directory, and only one
without the marker; a thread that is about to rename finds nothing in its place); with
an orphan, only that a thread belongs to a load that waits or has ended. The exceptions are in the
properties: an orphan with a torn removal, or "rot", for `ValidIsWhole`; an orphan, damage in storage or on disk for
`RunsCanLoad`, which says nothing of loads that ended `UNAVAILABLE`. `FlowTypeCorrect` needs both.

**`ProcessTasksProofs`**, about what processes and sub-tasks have to do with each other, again for
any number of sub-tasks, requests and lines.

- `ProcessTypeCorrect` from `TypeInv` (`WellTyped` for each kind): the values of each column, also
  those that requests are about to write, and no sub-task with a status but without a type.
- `OrdersHaveWork` (`CreatingHasWork`) from `WorkInv`, with no exception for overlapping requests: a
  request that is about to enter CREATING_SDMS brings its own task (`StartsWithWork`), no other
  write makes an order ACTIVE there, and every result of the creation moves the stage (`Continues`).
  What takes the task away otherwise is "taken" or "dropped", after which nothing is claimed. It
  also needs that a FAILED order is in no first stage: a retry writes only what it changes, and
  would otherwise write a status without its stage.
- `PortalWorkedOnByOne` (`OneTaskAtATime`): while nothing irregular happened, what a *fresh* request
  is about to create is what its guards still allow. For orders (`FlightInv`) that no task
  blocks it (`OrderBlocks`); for packing lists (`PortalInv`) that nobody is at work and the task is
  the one of the stage the request leaves behind (`PackingAllowed`). `RegularMoves` is the lemma
  behind it: without second runs, polls and clients move sub-tasks towards their end, so a guard
  that was true stays true. The one task at work being that of the stage, its result is never
  among the ignored ones.
- `NoDraftLeftBehind` (`CancelledHasNoDraft`) from the same `PortalInv`: status, stage and summary
  agree (`PackingAgrees`), before and after each fresh request is written. It is about drafts of
  known number: a process that met a save without one ("unnumbered") is excepted.

`OrderIsSubTasks`, `StatementIsSubTasks` and `PackingIsSubTasks` say once that the operators of
`SubTasks` that the instances `O`, `S` and `B` bring along are `SubTasks`' own. `TypeInv` and
`TasksInv` were checked by TLC on instances with three and with four sub-tasks before they were
proved.

Only model-checked: liveness (`EventuallyDecided`, `EventuallySettled`, `AttemptsEnd`,
`JobsDecided`), which the prover cannot do. Every invariant and action property of the passing
runs is proved.

## 8. What is not modelled

- **Most of the repository's lines.** The map covers the service's and the engine's own logic; the bulk
  of `src/` is versions of Playwright flow packages under `rpa-flows/` (page by page browser
  scripts, each version a near copy of the one before), the client's views and their styles,
  tests and documents. A flow keeps no state between calls: what it does to the models is
  to return, raise, overrun or ignore its cancellation (`WorkerPool`), and to report one of the results
  the processes' handlers tell apart. Modelling its lines would say nothing about them.
- Transactions that overlap inside dispatch. Its handlers are serialised, which
  READ COMMITTED is not: `_expire_stale_leases`, cancel, start and retry read
  without locks. The hazards list the lost updates this allows; a model of their separate reads
  and writes is planned.
- Business processes: the legacy handler of fill-line tasks, which nothing creates any more; the
  statement receipt query, whose task touches no bill; the unique date and amount of a second
  bill, reduced to the rollback it causes; quantities, required fields and attachments, which
  decide whether a request is refused and not what it writes; files and what the ERP answers. A cancelled order
  is not scanned again as a new process.
- Flow registry: what makes a package valid is one bit. Validation records and audits are logs,
  and checking a binding only reads.
- Flow runtime: browser, session cache with its file locks, artifacts.
- Engine pool: the row of the worker, and the read-only API.
- Timers and schedules: who calls a poll or a scan, and when, is any time in the models. The
  recording of firings is planned.
- CRUD of configuration, permissions, logs, files, mail and the ERP clients: no
  states that depend on each other, or pure I/O; their effect on the models is a step of
  the environment.
- The desktop client makes the requests the models take from anywhere.

## 9. The plan

Done: dispatch and outbox with their abstract specifications and refinements, pool, successors, the three
business processes, flow registry and cache, and the proofs above. Left, in this order:

1. `TaskDispatchRaces`: the unlocked reads and writes of expiry, cancel, start, retry and
   FINISH as separate steps.
2. The composition of pool, outbox (as `OrderedDelivery`) and dispatch: events of an abandoned flow
   after the FINISH, a FINISH that dies.
3. `OrderProcess`, `StatementBill` and `BoePacking` as clients of `TaskDispatch` itself instead of
   `TaskLife`: it holds by the refinement that they see no other behaviours, so this would only
   check the composition of the two.
4. Timers and the session locks.
