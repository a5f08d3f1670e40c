------------------------- MODULE ProcessTasksProofs -------------------------
(***************************************************************************)
(* Proofs about the sub-tasks of BusinessProcesses, for any number of      *)
(* sub-tasks, requests under way and order lines: types, an order being    *)
(* entered has work under way that nobody took away, and, as long as no    *)
(* request overlaps with a change, a portal is worked on by one task at a  *)
(* time and a cancelled packing list leaves no draft of a known number.    *)
(***************************************************************************)
EXTENDS BusinessProcesses, TLAPS

-----------------------------------------------------------------------------
(* Invariants                                                              *)

\* The values of each column, and the types of sub-tasks, that the results and
\* the requests under way may write.
WritesTyped(values, types, writes, type) ==
    /\ type \in types \cup {NoType}
    /\ \A c \in DOMAIN writes \cap DOMAIN values : writes[c] \in values[c]

WellTyped(values, types) ==
    /\ DOMAIN proc = DOMAIN values
    /\ \A c \in DOMAIN values : proc[c] \in values[c]
    /\ taskType \in [Tasks -> types \cup {NoType}]
    /\ taskStatus \in [Tasks -> LifeStatuses]
    /\ \A t \in Tasks : taskType[t] = NoType <=> taskStatus[t] = "NONE"
    /\ request = [u \in Callers |-> request[u]]
    /\ \A u \in Callers : WritesTyped(values, types, request[u].writes, request[u].type)

OrderValues ==
    [c \in O!Columns |->
        CASE c = "status" -> {"NONE", "ACTIVE", "FAILED", "CANCELLED", "COMPLETED"}
          [] c = "stage"  -> O!OrderStages
          [] OTHER        -> {"NONE", "PENDING", "WRITTEN"}]

BillValues ==
    [status  |-> {"NONE", "ACTIVE", "CANCELLED", "COMPLETED"},
     stage   |-> {"NONE", "STMT_GENERATING", "STMT_PENDING_INVOICE",
                  "STMT_SUBMITTED", "STMT_CANCELLED"},
     check   |-> {"NONE", "DRAFT", "UNCHECKED", "CHECKED", "VOID"},
     invoice |-> {"NONE", "NOT_UPLOADED", "UPLOADED", "REVIEWING"},
     number  |-> {"NONE", "SCANNED"}]

PackingValues ==
    [status  |-> {"NONE", "ACTIVE", "CANCELLED", "COMPLETED"},
     stage   |-> {"NONE", "FETCH_WMS", "ENRICH", "SAVE_DRAFT", "REVIEW",
                  "SUBMITTING", "SUBMITTED", "DELETING_DRAFT", "CANCELLED"},
     summary |-> {"NONE", "DRAFT"}]

TypeInv ==
    /\ IsOrder \/ IsStatement \/ IsPacking
    /\ IsOrder => WellTyped(OrderValues, O!OrderTypes)
    /\ IsStatement => WellTyped(BillValues, S!StatementTypes)
    /\ IsPacking => WellTyped(PackingValues, B!PackingTypes)

\* The stages an order enters together with becoming ACTIVE.
FirstStages == {"CREATING_SDMS", "SDMS_CREATED"}

\* A request that enters one of them also makes the order ACTIVE, and the other
\* way round; one that enters CREATING_SDMS brings the task for it.
StartsWithWork(writes, type) ==
    /\ "status" \in DOMAIN writes =>
          /\ writes["status"] \in {"ACTIVE", "CANCELLED"}
          /\ writes["status"] = "ACTIVE" =>
                "stage" \in DOMAIN writes /\ writes["stage"] \in FirstStages
    /\ "stage" \in DOMAIN writes /\ writes["stage"] \in FirstStages =>
          /\ "status" \in DOMAIN writes /\ writes["status"] = "ACTIVE"
          /\ writes["stage"] = "CREATING_SDMS" => type = O!CreateSdms

WorkInv ==
    /\ proc["status"] = "NONE" =>
          (\A t \in Tasks : taskType[t] = NoType) /\ \A u \in Callers : request[u] = Idle
    /\ proc["status"] = "FAILED" => proc["stage"] \notin FirstStages
    /\ \A u \in Callers : StartsWithWork(request[u].writes, request[u].type)
    /\ O!CreatingHasWork

\* While nothing irregular happened, sub-tasks wait for nobody to submit them.
NoneToSubmit == \A t \in Tasks : taskStatus[t] \notin {"DRAFT", "READY"}

\* The statuses in which a task of an order keeps another of its type away.
OrderBlocks ==
    [y \in {O!Sign, O!CheckReply, O!Archive} |->
        CASE y = O!Sign       -> O!SignInFlight
          [] y = O!CheckReply -> O!ReplyInFlight
          [] y = O!Archive    -> O!ReplyInFlight \cup {"SUCCESS"}]

\* A fresh request creates nothing that a task keeps away.
FlightInv ==
    irregular = {} =>
        /\ NoneToSubmit
        /\ \A y \in DOMAIN OrderBlocks : O!AtMostOne(y, OrderBlocks[y])
        /\ \A u \in Callers : request[u].fresh /\ request[u].type \in DOMAIN OrderBlocks =>
              ~OfType(request[u].type, OrderBlocks[request[u].type])

WorkStages == {"ENRICH", "SAVE_DRAFT", "SUBMITTING", "DELETING_DRAFT"}

Working == {t \in Tasks : taskStatus[t] \in {"QUEUED", "RUNNING"}}

\* A draft is at the portal, of those saved with a number.
DraftOf(known) == "draft" \in known /\ "unnumbered" \notin known

\* Status, stage and summary p of a packing list tell the same story, and do not
\* hide a draft of a known number.
PackingAgrees(p) ==
    /\ p["status"] = "NONE" <=> p["stage"] = "NONE"
    /\ p["status"] = "COMPLETED" <=> p["stage"] = "SUBMITTED"
    /\ p["status"] = "CANCELLED" <=> p["stage"] = "CANCELLED"
    /\ DraftOf(facts) => p["summary"] = "DRAFT" /\ p["status"] # "CANCELLED"

WorkedOnAt(stage) ==
    \A t \in Working : stage \in WorkStages /\ taskType[t] = B!TaskOfStage(stage)

\* What a fresh request writes agrees, and what it creates is the task of the
\* stage it leaves behind.
PackingAllowed(writes, type) ==
    LET p == Flushed(writes) IN
    /\ PackingAgrees(p)
    /\ type = NoType => WorkedOnAt(p["stage"])
    /\ type # NoType => /\ Working = {} /\ p["stage"] \in WorkStages
                        /\ type = B!TaskOfStage(p["stage"])

PortalInv ==
    irregular = {} =>
        /\ NoneToSubmit
        /\ \A t, k \in Working : t = k
        /\ PackingAgrees(proc)
        /\ WorkedOnAt(proc["stage"])
        /\ \A u \in Callers : request[u].fresh => PackingAllowed(request[u].writes, request[u].type)

TasksInv ==
    /\ IsOrder => WorkInv /\ FlightInv
    /\ IsPacking => PortalInv

-----------------------------------------------------------------------------
(* What the kinds share is SubTasks itself                                 *)

LEMMA OrderIsSubTasks ==
    /\ \A columns : O!Start(columns) <=> Start(columns)
    /\ \A u, writes, type : O!Begin(u, writes, type) <=> Begin(u, writes, type)
    /\ \A u, writes, type : O!Decide(u, writes, type) <=> Decide(u, writes, type)
    /\ \A u : O!Commit(u) <=> Commit(u)
    /\ \A writes, type : O!Insert(writes, type) <=> Insert(writes, type)
    /\ \A t, o, writes, next, done :
          O!Finish(t, o, writes, next, done) <=> Finish(t, o, writes, next, done)
    /\ \A awaited : O!SubTaskStep(awaited) <=> SubTaskStep(awaited)
    /\ \A type, statuses : O!OfType(type, statuses) <=> OfType(type, statuses)
    /\ O!NoWrites = << >>
BY DEF O!Start, O!LifeInit, O!Idle, O!NoWrites, O!Begin, O!Decide, O!Dirty, O!Commit, O!Flushed,
       O!NewTask, O!CreateSubTask, O!Requests, O!Insert, O!Finish, O!MayReport, O!Reported,
       O!SubTaskStep, O!Polled, O!AtTaskCentre, O!ByClient, O!ClientMoves, O!Requeued, O!Poll,
       O!OfType, Start, LifeInit, Idle, NoWrites, Begin, Decide, Dirty, Commit, Flushed, NewTask,
       CreateSubTask, Requests, Insert, Finish, MayReport, Reported, SubTaskStep, Polled,
       AtTaskCentre, ByClient, ClientMoves, Requeued, Poll, OfType

LEMMA StatementIsSubTasks ==
    /\ \A columns : S!Start(columns) <=> Start(columns)
    /\ \A u, writes, type : S!Begin(u, writes, type) <=> Begin(u, writes, type)
    /\ \A u, writes, type : S!Decide(u, writes, type) <=> Decide(u, writes, type)
    /\ \A u : S!Commit(u) <=> Commit(u)
    /\ \A writes, type : S!Insert(writes, type) <=> Insert(writes, type)
    /\ \A t, o, writes, next, done :
          S!Finish(t, o, writes, next, done) <=> Finish(t, o, writes, next, done)
    /\ \A awaited : S!SubTaskStep(awaited) <=> SubTaskStep(awaited)
    /\ \A type, statuses : S!OfType(type, statuses) <=> OfType(type, statuses)
    /\ S!NoWrites = << >>
BY DEF S!Start, S!LifeInit, S!Idle, S!NoWrites, S!Begin, S!Decide, S!Dirty, S!Commit, S!Flushed,
       S!NewTask, S!CreateSubTask, S!Requests, S!Insert, S!Finish, S!MayReport, S!Reported,
       S!SubTaskStep, S!Polled, S!AtTaskCentre, S!ByClient, S!ClientMoves, S!Requeued, S!Poll,
       S!OfType, Start, LifeInit, Idle, NoWrites, Begin, Decide, Dirty, Commit, Flushed, NewTask,
       CreateSubTask, Requests, Insert, Finish, MayReport, Reported, SubTaskStep, Polled,
       AtTaskCentre, ByClient, ClientMoves, Requeued, Poll, OfType

LEMMA PackingIsSubTasks ==
    /\ \A columns : B!Start(columns) <=> Start(columns)
    /\ \A u, writes, type : B!Begin(u, writes, type) <=> Begin(u, writes, type)
    /\ \A u, writes, type : B!Decide(u, writes, type) <=> Decide(u, writes, type)
    /\ \A u : B!Commit(u) <=> Commit(u)
    /\ \A writes, type : B!Insert(writes, type) <=> Insert(writes, type)
    /\ \A t, o, writes, next, done :
          B!Finish(t, o, writes, next, done) <=> Finish(t, o, writes, next, done)
    /\ \A awaited : B!SubTaskStep(awaited) <=> SubTaskStep(awaited)
    /\ \A type, statuses : B!OfType(type, statuses) <=> OfType(type, statuses)
    /\ B!NoWrites = << >>
BY DEF B!Start, B!LifeInit, B!Idle, B!NoWrites, B!Begin, B!Decide, B!Dirty, B!Commit, B!Flushed,
       B!NewTask, B!CreateSubTask, B!Requests, B!Insert, B!Finish, B!MayReport, B!Reported,
       B!SubTaskStep, B!Polled, B!AtTaskCentre, B!ByClient, B!ClientMoves, B!Requeued, B!Poll,
       B!OfType, Start, LifeInit, Idle, NoWrites, Begin, Decide, Dirty, Commit, Flushed, NewTask,
       CreateSubTask, Requests, Insert, Finish, MayReport, Reported, SubTaskStep, Polled,
       AtTaskCentre, ByClient, ClientMoves, Requeued, Poll, OfType

\* Only what a step writes and creates matters to the requests that outlive it.
LEMMA RequestsAfter ==
    ASSUME NEW done, request' = Requests(done)
    PROVE  /\ request' = [u \in Callers |-> request'[u]]
           /\ \A u \in Callers :
                 \/ request'[u] = Idle
                 \/ /\ request'[u].writes = request[u].writes /\ request'[u].type = request[u].type
                    /\ request'[u].fresh =>
                          request'[u] = request[u] /\ proc' = proc /\ taskType' = taskType
BY DEF Requests

\* At most one sub-task is new, it is queued, and the others have the statuses given.
LEMMA NewTaskFacts ==
    ASSUME NEW type, NEW statuses, NewTask(type, statuses),
           taskType = [t \in Tasks |-> taskType[t]], statuses = [t \in Tasks |-> statuses[t]]
    PROVE  \/ type = NoType /\ taskType' = taskType /\ taskStatus' = statuses
           \/ /\ type # NoType
              /\ \E t \in Tasks :
                    /\ taskType[t] = NoType
                    /\ taskType' = [taskType EXCEPT ![t] = type]
                    /\ taskStatus' = [statuses EXCEPT ![t] = "QUEUED"]
BY DEF NewTask, CreateSubTask

\* The columns after a write.
LEMMA FlushedFacts ==
    ASSUME NEW writes
    PROVE  /\ DOMAIN Flushed(writes) = DOMAIN proc
           /\ \A c \in DOMAIN proc :
                 Flushed(writes)[c] = IF c \in DOMAIN writes THEN writes[c] ELSE proc[c]
BY DEF Flushed

\* What a request will write is what it has changed of what it read.
LEMMA DirtyFacts ==
    ASSUME NEW writes
    PROVE  /\ DOMAIN Dirty(writes) = {c \in DOMAIN writes : writes[c] # proc[c]}
           /\ \A c \in DOMAIN Dirty(writes) : Dirty(writes)[c] = writes[c]
BY DEF Dirty

\* The task centre and the polls move sub-tasks to statuses only, and none of
\* them into being or out of it.
LEMMA SubTaskStepFacts ==
    ASSUME NEW awaited, SubTaskStep(awaited), taskStatus \in [Tasks -> LifeStatuses],
           \A t \in Tasks : taskType[t] = NoType => taskStatus[t] = "NONE"
    PROVE  /\ UNCHANGED <<proc, taskType, request>>
           /\ facts \subseteq facts' /\ (awaited = {} => facts' = facts)
           /\ taskStatus' \in [Tasks -> LifeStatuses]
           /\ \A t \in Tasks : taskStatus'[t] = "NONE" <=> taskStatus[t] = "NONE"
<1> USE DEF LifeStatuses
<1>1. CASE Polled(awaited)
    BY <1>1 DEF Polled, Poll, Requeued
<1>2. ASSUME NEW t \in Tasks, AtTaskCentre(t, awaited)
      PROVE  /\ UNCHANGED <<proc, taskType, request>>
             /\ facts \subseteq facts' /\ (awaited = {} => facts' = facts)
             /\ taskStatus' \in [Tasks -> LifeStatuses]
             /\ \A k \in Tasks : taskStatus'[k] = "NONE" <=> taskStatus[k] = "NONE"
  <2>1. PICK s \in ClientMoves(taskStatus[t]) : taskStatus' = [taskStatus EXCEPT ![t] = s]
      BY <1>2 DEF AtTaskCentre, ByClient
  <2>2. s \in LifeStatuses \ {"NONE"} /\ taskStatus[t] # "NONE"
      BY <2>1 DEF ClientMoves
  <2>3. QED
      BY <1>2, <2>1, <2>2 DEF AtTaskCentre
<1>3. QED
    BY <1>1, <1>2 DEF SubTaskStep

-----------------------------------------------------------------------------
(* Types: what is the same for every kind                                  *)

LEMMA TypedStart ==
    ASSUME NEW values, NEW types, NEW columns, Start(columns), DOMAIN columns = DOMAIN values,
           \A c \in DOMAIN values : columns[c] \in values[c]
    PROVE  WellTyped(values, types)
BY DEF Start, LifeInit, LifeStatuses, Idle, NoWrites, WellTyped, WritesTyped

LEMMA TypedWrite ==
    ASSUME NEW values, NEW types, NoType \notin types, WellTyped(values, types),
           NEW writes, NEW type, WritesTyped(values, types, writes, type),
           NEW statuses \in [Tasks -> LifeStatuses],
           \A t \in Tasks : statuses[t] = "NONE" <=> taskStatus[t] = "NONE",
           NEW done, proc' = Flushed(writes), NewTask(type, statuses), request' = Requests(done)
    PROVE  WellTyped(values, types)'
<1>1. DOMAIN proc' = DOMAIN values /\ \A c \in DOMAIN values : proc'[c] \in values[c]
    BY FlushedFacts DEF WellTyped, WritesTyped
<1>2. /\ taskType' \in [Tasks -> types \cup {NoType}] /\ taskStatus' \in [Tasks -> LifeStatuses]
      /\ \A t \in Tasks : taskType'[t] = NoType <=> taskStatus'[t] = "NONE"
    BY NewTaskFacts DEF WellTyped, WritesTyped, LifeStatuses
<1>3. /\ request' = [u \in Callers |-> request'[u]]
      /\ \A u \in Callers : WritesTyped(values, types, request'[u].writes, request'[u].type)
    BY RequestsAfter DEF WellTyped, WritesTyped, Idle, NoWrites
<1>4. QED
    BY <1>1, <1>2, <1>3 DEF WellTyped, WritesTyped

LEMMA TypedDecide ==
    ASSUME NEW values, NEW types, WellTyped(values, types),
           NEW writes, NEW type, WritesTyped(values, types, writes, type),
           NEW u \in Callers, Decide(u, writes, type) \/ Begin(u, writes, type)
    PROVE  WellTyped(values, types)'
<1>1. PICK w : WritesTyped(values, types, w, type) /\ Decide(u, w, type)
    BY DirtyFacts DEF Begin, WritesTyped
<1>2. /\ request' = [request EXCEPT ![u] = [writes |-> w, type |-> type, fresh |-> TRUE]]
      /\ UNCHANGED <<proc, taskType, taskStatus>>
    BY <1>1 DEF Decide
<1>3. request' = [k \in Callers |-> request'[k]]
    BY <1>2 DEF WellTyped
<1>4. \A k \in Callers : WritesTyped(values, types, request'[k].writes, request'[k].type)
    BY <1>1, <1>2 DEF WellTyped
<1>5. QED
    BY <1>2, <1>3, <1>4 DEF WellTyped, WritesTyped

LEMMA TypedFinish ==
    ASSUME NEW values, NEW types, NoType \notin types, WellTyped(values, types),
           NEW writes, NEW next, WritesTyped(values, types, writes, next),
           NEW t \in Tasks, NEW o \in Reports, NEW done, Finish(t, o, writes, next, done)
    PROVE  WellTyped(values, types)'
<1>1. /\ proc' = Flushed(writes) /\ NewTask(next, Reported(t, o)) /\ request' = Requests({})
      /\ taskStatus[t] # "NONE"
    BY DEF Finish, MayReport
<1>2. /\ Reported(t, o) \in [Tasks -> LifeStatuses]
      /\ \A k \in Tasks : Reported(t, o)[k] = "NONE" <=> taskStatus[k] = "NONE"
    BY <1>1 DEF WellTyped, Reported, Reports, LifeStatuses
<1>3. QED
    BY <1>1, <1>2, TypedWrite

\* The steps of every process that write what it has read or inserts.
LEMMA TypedStep ==
    ASSUME NEW values, NEW types, NoType \notin types, WellTyped(values, types),
           \/ \E awaited : SubTaskStep(awaited)
           \/ \E u \in Callers : Commit(u)
           \/ \E writes, type : WritesTyped(values, types, writes, type) /\ Insert(writes, type)
    PROVE  WellTyped(values, types)'
<1>1. ASSUME NEW awaited, SubTaskStep(awaited) PROVE WellTyped(values, types)'
    BY <1>1, SubTaskStepFacts DEF WellTyped, WritesTyped
<1>2. ASSUME NEW u \in Callers, Commit(u) PROVE WellTyped(values, types)'
  <2>1. PICK writes, type : writes = request[u].writes /\ type = request[u].type
      OBVIOUS
  <2>2. /\ proc' = Flushed(writes) /\ NewTask(type, taskStatus) /\ request' = Requests({u})
        /\ WritesTyped(values, types, writes, type)
      BY <1>2, <2>1 DEF Commit, WellTyped
  <2>3. QED
      BY <2>2, TypedWrite DEF WellTyped
<1>3. ASSUME NEW writes, NEW type, WritesTyped(values, types, writes, type), Insert(writes, type)
      PROVE  WellTyped(values, types)'
    BY <1>3, TypedWrite DEF Insert, WellTyped
<1>4. QED
    BY <1>1, <1>2, <1>3

-----------------------------------------------------------------------------
(* Types: orders                                                           *)

\* What an order's columns may hold.
LEMMA OrderValuesFacts ==
    /\ DOMAIN OrderValues = O!Columns
    /\ OrderValues["status"] = {"NONE", "ACTIVE", "FAILED", "CANCELLED", "COMPLETED"}
    /\ OrderValues["stage"] = O!OrderStages
    /\ \A l \in Lines : OrderValues[l] = {"NONE", "PENDING", "WRITTEN"}
    /\ \A c \in O!Columns : c \in Lines \/ c = "status" \/ c = "stage"
    /\ NoType \notin O!OrderTypes
<1>1. \A c \in Lines : c # "status" /\ c # "stage"
    BY NamesAssumption
<1>2. QED
    BY <1>1, NamesAssumption DEF OrderValues, O!Columns

LEMMA OrderRequestTyped ==
    ASSUME NEW u \in Callers, O!OrderRequest(u)
    PROVE  \E writes, type : /\ Begin(u, writes, type)
                             /\ WritesTyped(OrderValues, O!OrderTypes, writes, type)
<1> DEFINE Typed(w, y) == WritesTyped(OrderValues, O!OrderTypes, w, y)
<1>1. \A y \in O!OrderTypes : Typed(<< >>, y)
    BY DEF WritesTyped
<1>2. CASE \/ O!EnsurePrepareSubTask(u) \/ O!RequestSign(u) \/ O!CreateCheckReplyTask(u)
           \/ O!ArchiveSignedOrder(u)
  <2>1. PICK y \in O!OrderTypes : Begin(u, << >>, y)
      BY <1>2, OrderIsSubTasks
         DEF O!EnsurePrepareSubTask, O!RequestSign, O!CreateCheckReplyTask, O!ArchiveSignedOrder, O!OrderTypes
  <2>2. QED
      BY <1>1, <2>1
<1>3. CASE O!CancelInstance(u)
  <2>1. Begin(u, [status |-> "CANCELLED", stage |-> "FAILED"], NoType)
      BY <1>3, OrderIsSubTasks DEF O!CancelInstance
  <2>2. Typed([status |-> "CANCELLED", stage |-> "FAILED"], NoType)
      BY OrderValuesFacts DEF WritesTyped, O!OrderStages
  <2>3. QED
      BY <2>1, <2>2
<1>4. CASE O!RetryInstance(u)
  <2>1. PICK stage \in {"SDMS_CREATED", "CREATING_SDMS"}, y \in O!OrderTypes \cup {NoType} :
           Begin(u, [status |-> "ACTIVE", stage |-> stage], y)
      BY <1>4, OrderIsSubTasks DEF O!RetryInstance, O!OrderTypes
  <2>2. Typed([status |-> "ACTIVE", stage |-> stage], y)
      BY OrderValuesFacts DEF WritesTyped, O!OrderStages
  <2>3. QED
      BY <2>1, <2>2
<1>5. ASSUME NEW l \in Lines, O!SubmitLineDate(u, l) PROVE \E w, y : Begin(u, w, y) /\ Typed(w, y)
  <2>1. PICK b : Begin(u, O!Dated(l, b), NoType)
      BY <1>5, OrderIsSubTasks DEF O!SubmitLineDate, O!WriteLineDate
  <2>2. Typed(O!Dated(l, b), NoType)
      BY OrderValuesFacts, NamesAssumption DEF WritesTyped, O!Dated, O!OrderStages
  <2>3. QED
      BY <2>1, <2>2
<1>6. QED
    BY <1>2, <1>3, <1>4, <1>5 DEF O!OrderRequest

LEMMA OrderFinishedTyped ==
    ASSUME NEW t, NEW o, O!OrderFinished(t, o)
    PROVE  \E writes, next, done : /\ Finish(t, o, writes, next, done)
                                   /\ WritesTyped(OrderValues, O!OrderTypes, writes, next)
<1> DEFINE Typed(w, y) == WritesTyped(OrderValues, O!OrderTypes, w, y)
           Goal == \E w, y, d : Finish(t, o, w, y, d) /\ Typed(w, y)
<1>1. Typed(<< >>, NoType)
    BY DEF WritesTyped
<1>2. \A stage \in O!OrderStages, y \in O!OrderTypes \cup {NoType} : Typed([stage |-> stage], y)
    BY OrderValuesFacts DEF WritesTyped
<1>3. CASE O!HandleCreateSdmsFinished(t, o)
  <2>1. CASE O!Finish(t, o, O!FailInstance, NoType, facts)
    <3>1. Typed(O!FailInstance, NoType)
        BY OrderValuesFacts DEF WritesTyped, O!FailInstance, O!OrderStages
    <3>2. QED
        BY <2>1, <3>1, OrderIsSubTasks
  <2>2. CASE O!Finish(t, o, [c \in Lines \cup {"stage"} |-> IF c \in Lines THEN "PENDING" ELSE "SIGN_REQUESTED"],
                      NoType, facts \cup {"ordered"})
    <3>1. Typed([c \in Lines \cup {"stage"} |-> IF c \in Lines THEN "PENDING" ELSE "SIGN_REQUESTED"], NoType)
        BY OrderValuesFacts, NamesAssumption DEF WritesTyped, O!OrderStages
    <3>2. QED
        BY <2>2, <3>1, OrderIsSubTasks
  <2>3. CASE O!Finish(t, o, [stage |-> "SIGN_REQUESTED"], NoType, facts \cup {"ordered"})
      BY <1>2, <2>3, OrderIsSubTasks DEF O!OrderStages
  <2>4. QED
      BY <1>3, <2>1, <2>2, <2>3 DEF O!HandleCreateSdmsFinished
<1>4. CASE O!HandleSignFinished(t, o)
    BY <1>1, <1>2, <1>4, OrderIsSubTasks DEF O!HandleSignFinished, O!OrderStages
<1>5. CASE O!HandleCheckReplyFinished(t, o)
  <2>1. CASE \E d : O!Finish(t, o, O!NoWrites, NoType, d)
      BY <1>1, <2>1, OrderIsSubTasks
  <2>2. CASE \E y \in {O!Archive, NoType} : \E d : O!Finish(t, o, [stage |-> "SIGNED"], y, d)
      BY <1>2, <2>2, OrderIsSubTasks DEF O!OrderStages, O!OrderTypes
  <2>3. QED
      BY <1>5, <2>1, <2>2 DEF O!HandleCheckReplyFinished, O!TriggerArchiveIfNeeded
<1>6. CASE O!HandleArchiveFinished(t, o)
  <2>1. Typed([stage |-> "ARCHIVED", status |-> "COMPLETED"], NoType)
      BY OrderValuesFacts DEF WritesTyped, O!OrderStages
  <2>2. QED
      BY <1>1, <1>6, <2>1, OrderIsSubTasks DEF O!HandleArchiveFinished
<1>7. QED
    BY <1>3, <1>4, <1>5, <1>6 DEF O!OrderFinished

LEMMA OrderTyped ==
    /\ O!OrderInit => WellTyped(OrderValues, O!OrderTypes)
    /\ WellTyped(OrderValues, O!OrderTypes) /\ O!OrderNext => WellTyped(OrderValues, O!OrderTypes)'
<1>1. ASSUME O!OrderInit PROVE WellTyped(OrderValues, O!OrderTypes)
  <2> DEFINE columns == [c \in O!Columns |-> "NONE"]
  <2>1. Start(columns)
      BY <1>1, OrderIsSubTasks DEF O!OrderInit
  <2>2. DOMAIN columns = DOMAIN OrderValues /\ \A c \in DOMAIN OrderValues : columns[c] \in OrderValues[c]
      BY OrderValuesFacts DEF O!OrderStages
  <2>3. QED
      BY <2>1, <2>2, TypedStart
<1>2. ASSUME WellTyped(OrderValues, O!OrderTypes), O!OrderNext PROVE WellTyped(OrderValues, O!OrderTypes)'
  <2>1. CASE O!CreateFromScan
    <3>1. PICK y \in {O!CreateSdms, NoType} : Insert([status |-> "ACTIVE", stage |-> "CREATING_SDMS"], y)
        BY <2>1, OrderIsSubTasks DEF O!CreateFromScan
    <3>2. WritesTyped(OrderValues, O!OrderTypes, [status |-> "ACTIVE", stage |-> "CREATING_SDMS"], y)
        BY OrderValuesFacts DEF WritesTyped, O!OrderTypes, O!OrderStages
    <3>3. QED
        BY <1>2, <3>1, <3>2, OrderValuesFacts, TypedStep
  <2>2. ASSUME NEW u \in Callers, O!OrderRequest(u) PROVE WellTyped(OrderValues, O!OrderTypes)'
      BY <1>2, <2>2, OrderRequestTyped, TypedDecide
  <2>3. ASSUME NEW t \in Tasks, NEW o \in Reports, O!OrderFinished(t, o)
        PROVE  WellTyped(OrderValues, O!OrderTypes)'
      BY <1>2, <2>3, OrderFinishedTyped, OrderValuesFacts, TypedFinish
  <2>4. CASE SubTaskStep({O!CreateSdms}) \/ \E u \in Callers : Commit(u)
      BY <1>2, <2>4, OrderValuesFacts, TypedStep
  <2>5. QED
      BY <1>2, <2>1, <2>2, <2>3, <2>4, OrderIsSubTasks DEF O!OrderNext, O!Reports, Reports
<1>3. QED
    BY <1>1, <1>2

-----------------------------------------------------------------------------
(* Types: statements and packing lists                                     *)

LEMMA StatementRequestTyped ==
    ASSUME NEW u \in Callers, S!StatementRequest(u)
    PROVE  \E writes, type : /\ Begin(u, writes, type)
                             /\ WritesTyped(BillValues, S!StatementTypes, writes, type)
<1> USE DEF WritesTyped, BillValues
<1>1. CASE S!Regenerate(u)
  <2>1. Begin(u, [status |-> "ACTIVE", stage |-> "STMT_GENERATING"], S!Generate)
      BY <1>1, StatementIsSubTasks DEF S!Regenerate
  <2>2. WritesTyped(BillValues, S!StatementTypes, [status |-> "ACTIVE", stage |-> "STMT_GENERATING"], S!Generate)
      BY DEF S!StatementTypes
  <2>3. QED
      BY <2>1, <2>2
<1>2. CASE S!UploadInvoice(u) \/ S!SubmitReview(u)
  <2>1. PICK y \in S!StatementTypes : Begin(u, << >>, y)
      BY <1>2, StatementIsSubTasks DEF S!UploadInvoice, S!SubmitReview, S!StatementTypes
  <2>2. WritesTyped(BillValues, S!StatementTypes, << >>, y)
      OBVIOUS
  <2>3. QED
      BY <2>1, <2>2
<1>3. CASE S!DeleteInvoiceFile(u)
  <2>1. Begin(u, [number |-> "NONE", invoice |-> "NOT_UPLOADED"], NoType)
      BY <1>3, StatementIsSubTasks DEF S!DeleteInvoiceFile
  <2>2. WritesTyped(BillValues, S!StatementTypes, [number |-> "NONE", invoice |-> "NOT_UPLOADED"], NoType)
      OBVIOUS
  <2>3. QED
      BY <2>1, <2>2
<1>4. CASE S!CancelStatement(u)
  <2> DEFINE writes == [check |-> "VOID", status |-> "CANCELLED", stage |-> "STMT_CANCELLED"]
  <2>1. Begin(u, writes, NoType)
      BY <1>4, StatementIsSubTasks DEF S!CancelStatement
  <2>2. WritesTyped(BillValues, S!StatementTypes, writes, NoType)
      OBVIOUS
  <2>3. QED
      BY <2>1, <2>2
<1>5. QED
    BY <1>1, <1>2, <1>3, <1>4 DEF S!StatementRequest

\* The handlers of a bill's results create no sub-task.
LEMMA StatementFinishedTyped ==
    ASSUME NEW t, NEW o, S!StatementFinished(t, o)
    PROVE  \E writes, done : /\ Finish(t, o, writes, NoType, done)
                             /\ WritesTyped(BillValues, S!StatementTypes, writes, NoType)
<1> DEFINE Typed(w) == WritesTyped(BillValues, S!StatementTypes, w, NoType)
           Goal == \E w, d : Finish(t, o, w, NoType, d) /\ Typed(w)
<1>1. /\ Typed(<< >>)
      /\ Typed([status |-> "ACTIVE"])
      /\ Typed([status |-> "ACTIVE", check |-> "DRAFT"])
      /\ Typed([check |-> "UNCHECKED", status |-> "ACTIVE", stage |-> "STMT_PENDING_INVOICE"])
      /\ Typed([number |-> "SCANNED", invoice |-> "UPLOADED", check |-> "UNCHECKED", status |-> "ACTIVE"])
      /\ Typed([check |-> "UNCHECKED", invoice |-> "NOT_UPLOADED", status |-> "ACTIVE"])
      /\ \A number \in {"SCANNED", "NONE"} : Typed(S!Submitted(number))
    BY DEF WritesTyped, BillValues, S!Submitted
<1> HIDE DEF Typed
<1>2. ASSUME S!OnGenerateFinished(t, o) PROVE Goal
    BY <1>1, <1>2, StatementIsSubTasks DEF S!OnGenerateFinished
<1>3. ASSUME S!OnUploadFinished(t, o) PROVE Goal
    BY <1>1, <1>3, StatementIsSubTasks DEF S!OnUploadFinished
<1>4. ASSUME S!OnSubmitFinished(t, o) PROVE Goal
    BY <1>1, <1>4, StatementIsSubTasks DEF S!OnSubmitFinished
<1>5. QED
    BY <1>2, <1>3, <1>4 DEF S!StatementFinished, Typed

LEMMA StatementTyped ==
    /\ S!StatementInit => WellTyped(BillValues, S!StatementTypes)
    /\ WellTyped(BillValues, S!StatementTypes) /\ S!StatementNext => WellTyped(BillValues, S!StatementTypes)'
<1>0. NoType \notin S!StatementTypes
    BY NamesAssumption
<1>1. ASSUME S!StatementInit PROVE WellTyped(BillValues, S!StatementTypes)
  <2> DEFINE columns == [c \in S!BillColumns |-> "NONE"]
  <2>1. Start(columns)
      BY <1>1, StatementIsSubTasks DEF S!StatementInit
  <2>2. DOMAIN columns = DOMAIN BillValues /\ \A c \in DOMAIN BillValues : columns[c] \in BillValues[c]
      BY DEF BillValues, S!BillColumns
  <2>3. QED
      BY <2>1, <2>2, TypedStart
<1>2. ASSUME WellTyped(BillValues, S!StatementTypes), S!StatementNext
      PROVE  WellTyped(BillValues, S!StatementTypes)'
  <2>1. CASE S!NewBill
    <3> DEFINE writes == [status |-> "ACTIVE", stage |-> "STMT_GENERATING", check |-> "DRAFT",
                          invoice |-> "NOT_UPLOADED"]
    <3>1. Insert(writes, S!Generate)
        BY <2>1, StatementIsSubTasks DEF S!NewBill
    <3>2. WritesTyped(BillValues, S!StatementTypes, writes, S!Generate)
        BY DEF WritesTyped, BillValues, S!StatementTypes
    <3>3. QED
        BY <1>0, <1>2, <3>1, <3>2, TypedStep
  <2>2. ASSUME NEW u \in Callers, S!StatementRequest(u) PROVE WellTyped(BillValues, S!StatementTypes)'
      BY <1>2, <2>2, StatementRequestTyped, TypedDecide
  <2>3. ASSUME NEW t \in Tasks, NEW o \in Reports, S!StatementFinished(t, o)
        PROVE  WellTyped(BillValues, S!StatementTypes)'
      BY <1>0, <1>2, <2>3, StatementFinishedTyped, TypedFinish
  <2>4. CASE SubTaskStep({}) \/ \E u \in Callers : Commit(u)
      BY <1>0, <1>2, <2>4, TypedStep
  <2>5. QED
      BY <1>2, <2>1, <2>2, <2>3, <2>4, StatementIsSubTasks DEF S!StatementNext, S!Reports, Reports
<1>3. QED
    BY <1>1, <1>2

\* The four stages in which a packing list is worked on, and their tasks.
LEMMA TaskOfStageFacts ==
    /\ B!TaskOfStage("ENRICH") = B!Enrich
    /\ B!TaskOfStage("SAVE_DRAFT") = B!SaveDraft
    /\ B!TaskOfStage("SUBMITTING") = B!SubmitDoc
    /\ B!TaskOfStage("DELETING_DRAFT") = B!DeleteDraft
BY DEF B!TaskOfStage

LEMMA PackingRequestTyped ==
    ASSUME WellTyped(PackingValues, B!PackingTypes), NEW u \in Callers, B!PackingRequest(u)
    PROVE  \E writes, type : /\ Begin(u, writes, type) \/ Decide(u, writes, type)
                             /\ WritesTyped(PackingValues, B!PackingTypes, writes, type)
<1> DEFINE Typed(w, y) == WritesTyped(PackingValues, B!PackingTypes, w, y)
           Goal == \E w, y : (Begin(u, w, y) \/ Decide(u, w, y)) /\ Typed(w, y)
<1>1. ASSUME NEW y \in B!PackingTypes \cup {NoType}
      PROVE  /\ Typed(<< >>, y)
             /\ Typed([summary |-> proc.summary], y)
             /\ Typed([summary |-> proc.summary, stage |-> "ENRICH"], y)
             /\ Typed([stage |-> "DELETING_DRAFT"], y)
             /\ Typed([stage |-> "SUBMITTING"], y)
             /\ Typed([status |-> "CANCELLED", stage |-> "CANCELLED"], y)
  <2>1. proc.summary \in {"NONE", "DRAFT"}
      BY DEF WellTyped, PackingValues
  <2>2. QED
      BY <2>1 DEF WritesTyped, PackingValues
<1>2. NoType \in B!PackingTypes \cup {NoType} /\ B!DeleteDraft \in B!PackingTypes
      /\ B!SubmitDoc \in B!PackingTypes /\ B!Enrich \in B!PackingTypes
    BY DEF B!PackingTypes
<1> HIDE DEF Typed
<1>3. ASSUME B!MatchOpenPlan(u) \/ B!PatchInstance(u) PROVE Goal
    BY <1>1, <1>2, <1>3, PackingIsSubTasks DEF B!MatchOpenPlan, B!PatchInstance
<1>4. ASSUME B!FetchWms(u) PROVE Goal
    BY <1>1, <1>2, <1>4, PackingIsSubTasks DEF B!FetchWms, B!EnqueuedIfBound, B!Enqueued
<1>5. ASSUME \E y \in B!PackingTypes : B!Begin(u, B!NoWrites, y) PROVE Goal
    BY <1>1, <1>5, PackingIsSubTasks
<1>6. ASSUME B!RetryPacking(u) \/ B!CancelAgain(u) PROVE Goal
    BY <1>2, <1>4, <1>5, <1>6, TaskOfStageFacts DEF B!RetryPacking, B!CancelAgain, B!PackingTypes
<1>7. ASSUME B!CancelPacking(u) PROVE Goal
    BY <1>1, <1>2, <1>7, PackingIsSubTasks DEF B!CancelPacking, B!Enqueued
<1>8. ASSUME B!SubmitInstance(u) PROVE Goal
    BY <1>1, <1>2, <1>8, PackingIsSubTasks DEF B!SubmitInstance, B!Enqueued
<1>9. QED
    BY <1>3, <1>6, <1>7, <1>8 DEF B!PackingRequest, Typed

LEMMA PackingFinishedTyped ==
    ASSUME NEW t, NEW o, B!PackingFinished(t, o)
    PROVE  \E writes, next, done : /\ Finish(t, o, writes, next, done)
                                   /\ WritesTyped(PackingValues, B!PackingTypes, writes, next)
<1> DEFINE Typed(w, y) == WritesTyped(PackingValues, B!PackingTypes, w, y)
           Goal == \E w, y, d : Finish(t, o, w, y, d) /\ Typed(w, y)
<1>1. /\ \A y \in B!PackingTypes \cup {NoType} : Typed(<< >>, y) /\ Typed([stage |-> "SAVE_DRAFT"], y)
      /\ Typed([stage |-> "REVIEW"], NoType)
      /\ Typed([stage |-> "REVIEW", summary |-> "DRAFT"], NoType)
      /\ Typed([stage |-> "SUBMITTED", status |-> "COMPLETED"], NoType)
      /\ Typed([stage |-> "CANCELLED", status |-> "CANCELLED"], NoType)
    BY DEF WritesTyped, PackingValues
<1>2. NoType \in B!PackingTypes \cup {NoType} /\ B!SaveDraft \in B!PackingTypes
    BY DEF B!PackingTypes
<1> HIDE DEF Typed
<1>3. \A w : B!Applied(t, w) = w \/ B!Applied(t, w) = << >>
    BY PackingIsSubTasks DEF B!Applied
<1>4. ASSUME B!OnEnrichFinished(t, o) PROVE Goal
    BY <1>1, <1>2, <1>3, <1>4, PackingIsSubTasks DEF B!OnEnrichFinished, B!EnqueuedIfBound, B!Enqueued
<1>5. ASSUME B!OnSaveDraftFinished(t, o) PROVE Goal
    BY <1>1, <1>2, <1>3, <1>5, PackingIsSubTasks DEF B!OnSaveDraftFinished
<1>6. ASSUME B!OnSubmitFinished(t, o) PROVE Goal
    BY <1>1, <1>2, <1>3, <1>6, PackingIsSubTasks DEF B!OnSubmitFinished
<1>7. ASSUME B!OnDeleteDraftFinished(t, o) PROVE Goal
    BY <1>1, <1>2, <1>3, <1>7, PackingIsSubTasks DEF B!OnDeleteDraftFinished
<1>8. QED
    BY <1>4, <1>5, <1>6, <1>7 DEF B!PackingFinished, Typed

LEMMA PackingTyped ==
    /\ B!PackingInit => WellTyped(PackingValues, B!PackingTypes)
    /\ WellTyped(PackingValues, B!PackingTypes) /\ B!PackingNext => WellTyped(PackingValues, B!PackingTypes)'
<1>0. NoType \notin B!PackingTypes
    BY NamesAssumption
<1>1. ASSUME B!PackingInit PROVE WellTyped(PackingValues, B!PackingTypes)
  <2> DEFINE columns == [c \in B!PackingColumns |-> "NONE"]
  <2>1. Start(columns)
      BY <1>1, PackingIsSubTasks DEF B!PackingInit
  <2>2. DOMAIN columns = DOMAIN PackingValues /\ \A c \in DOMAIN PackingValues : columns[c] \in PackingValues[c]
      BY DEF PackingValues, B!PackingColumns
  <2>3. QED
      BY <2>1, <2>2, TypedStart
<1>2. ASSUME WellTyped(PackingValues, B!PackingTypes), B!PackingNext
      PROVE  WellTyped(PackingValues, B!PackingTypes)'
  <2>1. CASE B!MatchDeliveryPlans
    <3>1. PICK stage \in {"FETCH_WMS", "ENRICH"}, y \in B!PackingTypes \cup {NoType} :
             Insert([status |-> "ACTIVE", stage |-> stage], y)
        BY <2>1, PackingIsSubTasks DEF B!MatchDeliveryPlans, B!EnqueuedIfBound, B!Enqueued, B!PackingTypes
    <3>2. WritesTyped(PackingValues, B!PackingTypes, [status |-> "ACTIVE", stage |-> stage], y)
        BY DEF WritesTyped, PackingValues
    <3>3. QED
        BY <1>0, <1>2, <3>1, <3>2, TypedStep
  <2>2. ASSUME NEW u \in Callers, B!PackingRequest(u) PROVE WellTyped(PackingValues, B!PackingTypes)'
      BY <1>2, <2>2, PackingRequestTyped, TypedDecide
  <2>3. ASSUME NEW t \in Tasks, NEW o \in Reports, B!PackingFinished(t, o)
        PROVE  WellTyped(PackingValues, B!PackingTypes)'
      BY <1>0, <1>2, <2>3, PackingFinishedTyped, TypedFinish
  <2>4. CASE SubTaskStep({}) \/ \E u \in Callers : Commit(u)
      BY <1>0, <1>2, <2>4, TypedStep
  <2>5. QED
      BY <1>2, <2>1, <2>2, <2>3, <2>4, PackingIsSubTasks DEF B!PackingNext, B!Reports, Reports
<1>3. QED
    BY <1>1, <1>2

-----------------------------------------------------------------------------
(* Types: the three kinds together                                         *)

LEMMA TypeInvHolds == Spec => []TypeInv
<1>1. Init => TypeInv
    BY OrderTyped, StatementTyped, PackingTyped DEF Init, TypeInv, IsOrder, IsStatement, IsPacking
<1>2. TypeInv /\ [Next]_<<subTaskVars, kind>> => TypeInv'
  <2> SUFFICES ASSUME TypeInv, [Next]_<<subTaskVars, kind>> PROVE TypeInv'
      OBVIOUS
  <2>1. CASE Next
      BY <2>1, OrderTyped, StatementTyped, PackingTyped
         DEF Next, OrderStep, StatementStep, PackingStep, TypeInv, IsOrder, IsStatement, IsPacking
  <2>2. CASE UNCHANGED <<subTaskVars, kind>>
    <3>1. UNCHANGED <<proc, taskType, taskStatus, request, kind>>
        BY <2>2 DEF subTaskVars
    <3>2. \A values, types : WellTyped(values, types) => WellTyped(values, types)'
        BY <3>1 DEF WellTyped, WritesTyped
    <3>3. QED
        BY <3>1, <3>2 DEF TypeInv, IsOrder, IsStatement, IsPacking
  <2>3. QED
      BY <2>1, <2>2
<1>3. QED
    BY <1>1, <1>2, PTL DEF Spec

\* The columns of a process of any kind hold only values of their own, its
\* sub-tasks are of its own types, and a sub-task has a type from the moment it
\* has a status, whatever results, requests and retries write over each other
\* (process_instance_service.py, statement_service.py, boe_packing_service.py).
THEOREM ProcessTypeCorrect == Spec => []TypeOK
<1>1. TypeInv => TypeOK
  <2> SUFFICES ASSUME TypeInv PROVE TypeOK
      OBVIOUS
  <2>1. IsOrder => O!OrderTypeOK
    <3>1. {"status", "stage"} \cup Lines \subseteq O!Columns
        BY DEF O!Columns
    <3>2. QED
        BY <3>1, OrderValuesFacts DEF TypeInv, WellTyped, O!OrderTypeOK
  <2>2. IsStatement => S!StatementTypeOK
      BY DEF TypeInv, WellTyped, BillValues, S!StatementTypeOK, S!BillColumns
  <2>3. IsPacking => B!PackingTypeOK
      BY DEF TypeInv, WellTyped, PackingValues, B!PackingTypeOK, B!PackingColumns
  <2>4. QED
      BY <2>1, <2>2, <2>3 DEF TypeInv, WellTyped, TypeOK
<1>2. QED
    BY <1>1, TypeInvHolds, PTL

-----------------------------------------------------------------------------
(* An order being entered has work under way                               *)

OrderIsTyped == WellTyped(OrderValues, O!OrderTypes)

\* What a request or a result may write without leaving an order that is being
\* entered alone.
Continues(writes, type) ==
    /\ "status" \in DOMAIN writes =>
          /\ writes["status"] # "NONE"
          /\ writes["status"] = "ACTIVE" => "stage" \in DOMAIN writes
          /\ writes["status"] = "FAILED" =>
                "stage" \in DOMAIN writes /\ writes["stage"] \notin FirstStages
    /\ "stage" \in DOMAIN writes /\ writes["stage"] \in FirstStages =>
          /\ "status" \in DOMAIN writes /\ writes["status"] = "ACTIVE"
          /\ writes["stage"] = "CREATING_SDMS" => type = O!CreateSdms

LEMMA StatusAndStage ==
    ASSUME OrderIsTyped
    PROVE  "status" \in DOMAIN proc /\ "stage" \in DOMAIN proc
BY OrderValuesFacts DEF OrderIsTyped, WellTyped, O!Columns

\* Only a result of the creation itself ends the work, and it moves the stage.
LEMMA WorkWrite ==
    ASSUME OrderIsTyped, WorkInv, proc["status"] # "NONE",
           NEW writes, NEW type, Continues(writes, type),
           NEW statuses, statuses = [t \in Tasks |-> statuses[t]],
           "stage" \in DOMAIN writes
               \/ \A t \in Tasks : taskType[t] = O!CreateSdms => statuses[t] = taskStatus[t],
           NEW done, proc' = Flushed(writes), NewTask(type, statuses), request' = Requests(done),
           facts \subseteq facts'
    PROVE  WorkInv'
<1>1. /\ proc'["status"] = IF "status" \in DOMAIN writes THEN writes["status"] ELSE proc["status"]
      /\ proc'["stage"] = IF "stage" \in DOMAIN writes THEN writes["stage"] ELSE proc["stage"]
    BY StatusAndStage, FlushedFacts
<1>2. proc'["status"] # "NONE" /\ (proc'["status"] = "FAILED" => proc'["stage"] \notin FirstStages)
    BY <1>1 DEF WorkInv, Continues
<1>3. \A u \in Callers : StartsWithWork(request'[u].writes, request'[u].type)
    BY RequestsAfter DEF WorkInv, StartsWithWork, Idle, NoWrites
<1>4. taskType = [t \in Tasks |-> taskType[t]]
    BY DEF OrderIsTyped, WellTyped
<1>5. O!CreatingHasWork'
  <2>1. CASE type = O!CreateSdms
    <3>1. type # NoType
        BY <2>1, NamesAssumption DEF O!OrderTypes
    <3>2. \E t \in Tasks : taskType'[t] = O!CreateSdms /\ taskStatus'[t] = "QUEUED"
        BY <1>4, <2>1, <3>1, NewTaskFacts
    <3>3. QED
        BY <3>2 DEF O!CreatingHasWork, O!OfType
  <2>2. CASE type # O!CreateSdms
    <3> SUFFICES ASSUME proc'["status"] = "ACTIVE", proc'["stage"] = "CREATING_SDMS",
                        facts' \cap {"taken", "dropped"} = {}
                 PROVE  O!CreatingHasWork'
        BY DEF O!CreatingHasWork, O!Active
    <3>1. "stage" \notin DOMAIN writes /\ proc["status"] = "ACTIVE" /\ proc["stage"] = "CREATING_SDMS"
        BY <1>1, <2>2 DEF Continues, FirstStages
    <3>2. \A t \in Tasks : taskType[t] = O!CreateSdms => statuses[t] = taskStatus[t]
        BY <3>1
    <3>3. \A t \in Tasks : taskType'[t] = O!CreateSdms =>
              taskType[t] = O!CreateSdms /\ taskStatus'[t] = taskStatus[t]
        BY <1>4, <2>2, <3>2, NewTaskFacts
    <3>4. \A t \in Tasks : taskType[t] = O!CreateSdms =>
              taskType'[t] = O!CreateSdms /\ taskStatus'[t] = taskStatus[t]
      <4>1. O!CreateSdms # NoType
          BY NamesAssumption DEF O!OrderTypes
      <4>2. QED
          BY <1>4, <4>1, <3>2, NewTaskFacts
    <3>5. facts \cap {"taken", "dropped"} = {}
        OBVIOUS
    <3>6. QED
        BY <3>1, <3>3, <3>4, <3>5 DEF WorkInv, O!CreatingHasWork, O!Active, O!OfType
  <2>3. QED
      BY <2>1, <2>2
<1>6. QED
    BY <1>2, <1>3, <1>5 DEF WorkInv, StartsWithWork

LEMMA WorkDecide ==
    ASSUME OrderIsTyped, WorkInv, NEW u \in Callers, NEW writes, NEW type, Begin(u, writes, type),
           proc["status"] # "NONE", StartsWithWork(Dirty(writes), type)
    PROVE  WorkInv'
<1> DEFINE dirty == Dirty(writes)
<1>1. /\ request' = [request EXCEPT ![u] = [writes |-> dirty, type |-> type, fresh |-> TRUE]]
      /\ UNCHANGED <<proc, taskType, taskStatus, facts>>
    BY DEF Begin, Decide
<1>2. StartsWithWork(dirty, type)
    OBVIOUS
<1> HIDE DEF dirty
<1>3. \A k \in Callers : StartsWithWork(request'[k].writes, request'[k].type)
    BY <1>1, <1>2 DEF WorkInv, OrderIsTyped, WellTyped
<1>4. QED
    BY <1>1, <1>3 DEF WorkInv, StartsWithWork, O!CreatingHasWork, O!Active, O!OfType

\* Retrying a failed order writes its status and its stage: neither is what it was.
LEMMA WorkRequestStep ==
    ASSUME OrderIsTyped, WorkInv, NEW u \in Callers, O!OrderRequest(u)
    PROVE  WorkInv'
<1> USE DEF StartsWithWork, FirstStages
<1>1. \A y : StartsWithWork(Dirty(<< >>), y)
  <2>1. DOMAIN Dirty(<< >>) = {}
      BY DEF Dirty
  <2>2. QED
      BY <2>1
<1>2. CASE \/ O!EnsurePrepareSubTask(u) \/ O!RequestSign(u) \/ O!CreateCheckReplyTask(u)
           \/ O!ArchiveSignedOrder(u)
  <2>1. PICK y : Begin(u, << >>, y) /\ proc["status"] = "ACTIVE"
      BY <1>2, OrderIsSubTasks
         DEF O!EnsurePrepareSubTask, O!RequestSign, O!CreateCheckReplyTask, O!ArchiveSignedOrder, O!Active
  <2>2. QED
      BY <1>1, <2>1, WorkDecide
<1>3. CASE O!CancelInstance(u)
  <2>1. Begin(u, [status |-> "CANCELLED", stage |-> "FAILED"], NoType) /\ proc["status"] # "NONE"
      BY <1>3, OrderIsSubTasks DEF O!CancelInstance
  <2>2. StartsWithWork(Dirty([status |-> "CANCELLED", stage |-> "FAILED"]), NoType)
      BY DirtyFacts
  <2>3. QED
      BY <2>1, <2>2, WorkDecide
<1>4. CASE O!RetryInstance(u)
  <2>1. PICK stage \in FirstStages :
           \E y : /\ Begin(u, [status |-> "ACTIVE", stage |-> stage], y)
                  /\ stage = "CREATING_SDMS" => y = O!CreateSdms
                  /\ proc["status"] = "FAILED"
      BY <1>4, OrderIsSubTasks DEF O!RetryInstance
  <2>2. PICK y :
           /\ Begin(u, [status |-> "ACTIVE", stage |-> stage], y)
           /\ stage = "CREATING_SDMS" => y = O!CreateSdms
           /\ proc["status"] = "FAILED"
      BY <2>1
  <2>3. proc["stage"] \notin FirstStages
      BY <2>2 DEF WorkInv
  <2>4. StartsWithWork(Dirty([status |-> "ACTIVE", stage |-> stage]), y)
      BY <2>2, <2>3, DirtyFacts
  <2>5. QED
      BY <2>2, <2>4, WorkDecide
<1>5. ASSUME NEW l \in Lines, O!SubmitLineDate(u, l) PROVE WorkInv'
  <2>1. PICK b : Begin(u, O!Dated(l, b), NoType) /\ proc["status"] = "ACTIVE"
      BY <1>5, OrderIsSubTasks DEF O!SubmitLineDate, O!WriteLineDate, O!Active
  <2>2. l # "status" /\ l # "stage"
      BY NamesAssumption
  <2>3. StartsWithWork(Dirty(O!Dated(l, b)), NoType)
      BY <2>2, DirtyFacts DEF O!Dated
  <2>4. QED
      BY <2>1, <2>3, WorkDecide
<1>6. QED
    BY <1>2, <1>3, <1>4, <1>5 DEF O!OrderRequest

LEMMA WorkFinish ==
    ASSUME OrderIsTyped, WorkInv, NEW t \in Tasks, NEW o, NEW writes, NEW next, NEW done,
           Finish(t, o, writes, next, done), facts \subseteq done,
           taskType[t] # NoType, Continues(writes, next),
           "stage" \in DOMAIN writes \/ taskType[t] # O!CreateSdms
    PROVE  WorkInv'
<1>1. /\ proc' = Flushed(writes) /\ NewTask(next, Reported(t, o)) /\ request' = Requests({})
      /\ proc["status"] # "NONE" /\ facts \subseteq facts'
    BY DEF Finish, WorkInv
<1>2. /\ Reported(t, o) = [k \in Tasks |-> Reported(t, o)[k]]
      /\ \A k \in Tasks \ {t} : Reported(t, o)[k] = taskStatus[k]
    BY DEF Reported, OrderIsTyped, WellTyped
<1>3. QED
    BY <1>1, <1>2, WorkWrite

\* Every result of the creation moves the stage, and no result moves it back.
LEMMA WorkFinishedStep ==
    ASSUME OrderIsTyped, WorkInv, NEW t \in Tasks, NEW o, O!OrderFinished(t, o)
    PROVE  WorkInv'
<1>0. taskType[t] \in O!OrderTypes /\ taskType[t] # NoType
    BY NamesAssumption DEF O!OrderFinished, O!OrderTypes
<1>1. /\ \A y : Continues(<< >>, y)
      /\ \A y : Continues([stage |-> "SIGNED"], y)
      /\ \A stage \in {"DATES_COMPLETE", "SIGN_REQUESTED"} : Continues([stage |-> stage], NoType)
      /\ Continues([stage |-> "ARCHIVED", status |-> "COMPLETED"], NoType)
      /\ Continues(O!FailInstance, NoType)
      /\ Continues([c \in Lines \cup {"stage"} |-> IF c \in Lines THEN "PENDING" ELSE "SIGN_REQUESTED"], NoType)
    BY NamesAssumption DEF Continues, FirstStages, O!FailInstance
<1>2. CASE taskType[t] = O!CreateSdms /\ O!HandleCreateSdmsFinished(t, o)
  <2>1. PICK writes, done : /\ Finish(t, o, writes, NoType, done) /\ facts \subseteq done
                            /\ Continues(writes, NoType) /\ "stage" \in DOMAIN writes
      BY <1>1, <1>2, OrderIsSubTasks DEF O!HandleCreateSdmsFinished, O!FailInstance
  <2>2. QED
      BY <1>0, <2>1, WorkFinish
<1>3. CASE taskType[t] # O!CreateSdms
  <2>1. PICK writes, next, done : /\ Finish(t, o, writes, next, done) /\ facts \subseteq done
                                  /\ Continues(writes, next)
      BY <1>1, <1>3, OrderIsSubTasks
         DEF O!OrderFinished, O!HandleSignFinished, O!HandleCheckReplyFinished, O!TriggerArchiveIfNeeded,
             O!HandleArchiveFinished
  <2>2. QED
      BY <1>0, <1>3, <2>1, WorkFinish
<1>4. QED
    BY <1>2, <1>3 DEF O!OrderFinished, O!CreateSdms, O!Sign, O!CheckReply, O!Archive

\* A creation that is queued or running leaves the workers' hands for a human's,
\* or is dropped by a poll, which both is remembered.
LEMMA WorkSubTaskStep ==
    ASSUME OrderIsTyped, WorkInv, SubTaskStep({O!CreateSdms})
    PROVE  WorkInv'
<1> DEFINE open == {"QUEUED", "RUNNING"}
           untold == facts' \cap {"taken", "dropped"} = {}
<1>1. /\ UNCHANGED <<proc, taskType, request>>
      /\ facts \subseteq facts'
      /\ \A t \in Tasks : taskStatus'[t] = "NONE" <=> taskStatus[t] = "NONE"
      /\ taskStatus' \in [Tasks -> LifeStatuses]
    BY SubTaskStepFacts DEF OrderIsTyped, WellTyped
<1>2. ASSUME untold, NEW t \in Tasks, taskType[t] = O!CreateSdms, taskStatus[t] \in open
      PROVE  taskStatus'[t] \in open
  <2>1. CASE Polled({O!CreateSdms})
      BY <1>2, <2>1 DEF Polled, Poll, Requeued, OrderIsTyped, WellTyped
  <2>2. ASSUME NEW k \in Tasks, AtTaskCentre(k, {O!CreateSdms})
        PROVE  taskStatus'[t] \in open
    <3>1. PICK s \in ClientMoves(taskStatus[k]) : taskStatus' = [taskStatus EXCEPT ![k] = s]
        BY <2>2 DEF AtTaskCentre, ByClient
    <3>2. CASE k = t
      <4>1. s \in {"QUEUED", "RUNNING", "CANCELLED", "SUCCESS_MANUAL"} /\ taskStatus'[t] = s
          BY <1>2, <3>1, <3>2 DEF ClientMoves, OrderIsTyped, WellTyped
      <4>2. taskStatus'[t] \notin {"CANCELLED", "SUCCESS_MANUAL"}
          BY <1>2, <2>2, <3>2 DEF AtTaskCentre
      <4>3. QED
          BY <4>1, <4>2
    <3>3. CASE k # t
        BY <1>2, <3>1, <3>3 DEF OrderIsTyped, WellTyped
    <3>4. QED
        BY <3>2, <3>3
  <2>3. QED
      BY <2>1, <2>2 DEF SubTaskStep
<1>3. O!CreatingHasWork'
  <2> SUFFICES ASSUME untold, O!Active({"CREATING_SDMS"})', O!OfType(O!CreateSdms, O!LifeStatuses)'
               PROVE  O!OfType(O!CreateSdms, {"QUEUED", "RUNNING"})'
      BY DEF O!CreatingHasWork
  <2>1. facts \cap {"taken", "dropped"} = {} /\ O!Active({"CREATING_SDMS"})
      BY <1>1 DEF O!Active
  <2>2. O!OfType(O!CreateSdms, O!LifeStatuses)
      BY <1>1 DEF O!OfType, O!LifeStatuses, LifeStatuses, OrderIsTyped, WellTyped
  <2>3. PICK t \in Tasks : taskType[t] = O!CreateSdms /\ taskStatus[t] \in open
      BY <2>1, <2>2 DEF WorkInv, O!CreatingHasWork, O!OfType
  <2>4. QED
      BY <1>1, <1>2, <2>3 DEF O!OfType
<1>4. QED
    BY <1>1, <1>3 DEF WorkInv, StartsWithWork

LEMMA WorkInvStep == OrderIsTyped /\ WorkInv /\ O!OrderNext => WorkInv'
<1> SUFFICES ASSUME OrderIsTyped, WorkInv, O!OrderNext PROVE WorkInv'
    OBVIOUS
<1>1. CASE O!CreateFromScan
  <2> DEFINE writes == [status |-> "ACTIVE", stage |-> "CREATING_SDMS"]
  <2>1. PICK first \in {O!CreateSdms, NoType} : Insert(writes, first) /\ proc["status"] = "NONE"
      BY <1>1, OrderIsSubTasks DEF O!CreateFromScan
  <2>2. /\ proc' = Flushed(writes) /\ NewTask(first, taskStatus) /\ request' = Requests({})
        /\ \A t \in Tasks : taskType[t] = NoType
        /\ \A u \in Callers : request[u] = Idle
      BY <2>1 DEF Insert, WorkInv
  <2>3. proc'["status"] = "ACTIVE"
      BY <2>2, StatusAndStage, FlushedFacts
  <2>4. \A u \in Callers : request'[u] = Idle
      BY <2>2 DEF Requests
  <2>5. \A t \in Tasks : taskType'[t] = O!CreateSdms => taskStatus'[t] = "QUEUED"
    <3>1. taskType = [t \in Tasks |-> taskType[t]] /\ taskStatus = [t \in Tasks |-> taskStatus[t]]
          /\ O!CreateSdms # NoType
        BY NamesAssumption DEF OrderIsTyped, WellTyped, O!OrderTypes
    <3>2. QED
        BY <2>2, <3>1, NewTaskFacts
  <2>6. QED
      BY <2>3, <2>4, <2>5 DEF WorkInv, StartsWithWork, Idle, NoWrites, O!CreatingHasWork, O!OfType
<1>2. ASSUME NEW u \in Callers, Commit(u) PROVE WorkInv'
  <2>1. PICK writes, type : writes = request[u].writes /\ type = request[u].type
      OBVIOUS
  <2>2. /\ proc' = Flushed(writes) /\ NewTask(type, taskStatus) /\ request' = Requests({u})
        /\ proc["status"] # "NONE" /\ facts \subseteq facts'
      BY <1>2, <2>1 DEF Commit, WorkInv
  <2>3. Continues(writes, type)
      BY <2>1 DEF WorkInv, StartsWithWork, Continues
  <2>4. QED
      BY <2>2, <2>3, WorkWrite DEF OrderIsTyped, WellTyped
<1>3. QED
    BY <1>1, <1>2, WorkRequestStep, WorkFinishedStep, WorkSubTaskStep, OrderIsSubTasks DEF O!OrderNext

-----------------------------------------------------------------------------
(* While nothing irregular happens                                         *)

\* Without the task centre's second runs, a sub-task that left the workers'
\* hands does not come back.
LEMMA RegularMoves ==
    ASSUME NEW awaited, SubTaskStep(awaited), irregular' = {}, taskStatus \in [Tasks -> LifeStatuses],
           \A t \in Tasks : taskType[t] = NoType <=> taskStatus[t] = "NONE"
    PROVE  /\ irregular = {}
           /\ NoneToSubmit => NoneToSubmit'
           /\ NoneToSubmit =>
                 \A t \in Tasks :
                    \/ taskStatus'[t] = taskStatus[t]
                    \/ /\ taskStatus[t] \in {"QUEUED", "RUNNING"}
                       /\ taskStatus'[t] \in {"QUEUED", "RUNNING", "CANCELLED"}
                    \/ /\ taskStatus[t] \in {"WAITING_HUMAN", "HUMAN_OPERATING"}
                       /\ taskStatus'[t] \in {"HUMAN_OPERATING", "SUCCESS_MANUAL", "CANCELLED"}
<1> USE DEF NoneToSubmit, LifeStatuses
<1>1. CASE Polled(awaited)
    BY <1>1 DEF Polled, Poll, Requeued
<1>2. ASSUME NEW t \in Tasks, AtTaskCentre(t, awaited)
      PROVE  /\ irregular = {} /\ taskStatus[t] # "FAILED"
             /\ \E s \in ClientMoves(taskStatus[t]) : taskStatus' = [taskStatus EXCEPT ![t] = s]
    BY <1>2 DEF AtTaskCentre, ByClient
<1>3. ASSUME NEW t \in Tasks, NEW s \in ClientMoves(taskStatus[t]), taskStatus[t] # "FAILED", NoneToSubmit
      PROVE  \/ taskStatus[t] = "QUEUED" /\ s = "CANCELLED"
             \/ taskStatus[t] = "RUNNING" /\ s \in {"QUEUED", "CANCELLED"}
             \/ taskStatus[t] = "WAITING_HUMAN" /\ s \in {"HUMAN_OPERATING", "SUCCESS_MANUAL", "CANCELLED"}
             \/ taskStatus[t] = "HUMAN_OPERATING" /\ s \in {"SUCCESS_MANUAL", "CANCELLED"}
    BY <1>3 DEF ClientMoves
<1>4. QED
    BY <1>1, <1>2, <1>3 DEF SubTaskStep

\* An overlap is not forgotten, and a request that commits without one is fresh.
LEMMA RegularCommit ==
    ASSUME NEW u, Commit(u), irregular' = {}, Overlap \notin irregular'
    PROVE  irregular = {} /\ request[u].fresh
BY DEF Commit

-----------------------------------------------------------------------------
(* Orders: one signature, reply and contract at a time                     *)

LEMMA OrderBlocksFacts ==
    /\ DOMAIN OrderBlocks = {O!Sign, O!CheckReply, O!Archive}
    /\ OrderBlocks[O!Sign] = {"QUEUED", "RUNNING"}
    /\ OrderBlocks[O!CheckReply] = {"QUEUED", "RUNNING", "WAITING_HUMAN"}
    /\ OrderBlocks[O!Archive] = {"QUEUED", "RUNNING", "WAITING_HUMAN", "SUCCESS"}
    /\ NoType \notin DOMAIN OrderBlocks
<1>1. /\ DOMAIN OrderBlocks = {O!Sign, O!CheckReply, O!Archive}
      /\ OrderBlocks[O!Sign] = O!SignInFlight
      /\ OrderBlocks[O!CheckReply] = O!ReplyInFlight
      /\ OrderBlocks[O!Archive] = O!ReplyInFlight \cup {"SUCCESS"}
    BY DEF OrderBlocks, O!Sign, O!CheckReply, O!Archive
<1>2. QED
    BY <1>1, NamesAssumption DEF O!SignInFlight, O!ReplyInFlight, O!OrderTypes

LEMMA FlightWrite ==
    ASSUME OrderIsTyped, FlightInv, irregular = {}, NEW type, NEW statuses, NEW done,
           NewTask(type, statuses), request' = Requests(done),
           statuses = [t \in Tasks |-> statuses[t]],
           \A t \in Tasks :
              /\ statuses[t] \notin {"DRAFT", "READY"}
              /\ \A y \in DOMAIN OrderBlocks : statuses[t] \in OrderBlocks[y] => taskStatus[t] \in OrderBlocks[y],
           type \in DOMAIN OrderBlocks => ~OfType(type, OrderBlocks[type])
    PROVE  FlightInv'
<1>0. taskType = [t \in Tasks |-> taskType[t]]
    BY DEF OrderIsTyped, WellTyped
<1>1. \A t \in Tasks :
         \/ taskType'[t] = taskType[t] /\ taskStatus'[t] = statuses[t]
         \/ taskType[t] = NoType /\ taskType'[t] = type /\ taskStatus'[t] = "QUEUED"
    BY <1>0, NewTaskFacts
<1>2. NoneToSubmit'
    BY <1>1 DEF NoneToSubmit
<1>3. ASSUME NEW y \in DOMAIN OrderBlocks PROVE O!AtMostOne(y, OrderBlocks[y])'
  <2>1. O!AtMostOne(y, OrderBlocks[y]) /\ y # NoType
      BY OrderBlocksFacts DEF FlightInv
  <2>2. CASE type = NoType
      BY <1>0, <2>1, <2>2, NewTaskFacts DEF O!AtMostOne
  <2>3. CASE type # NoType
    <3>1. PICK t \in Tasks : /\ taskType' = [taskType EXCEPT ![t] = type]
                             /\ taskStatus' = [statuses EXCEPT ![t] = "QUEUED"]
        BY <1>0, <2>3, NewTaskFacts
    <3>2. CASE type = y
      <4>1. \A k \in Tasks \ {t} : ~(taskType'[k] = y /\ taskStatus'[k] \in OrderBlocks[y])
          BY <1>0, <3>1, <3>2 DEF OfType
      <4>2. QED
          BY <4>1 DEF O!AtMostOne
    <3>3. CASE type # y
      <4>1. \A k \in Tasks : taskType'[k] = y /\ taskStatus'[k] \in OrderBlocks[y] =>
                taskType[k] = y /\ taskStatus[k] \in OrderBlocks[y]
          BY <1>0, <3>1, <3>3
      <4>2. QED
          BY <2>1, <4>1 DEF O!AtMostOne
    <3>4. QED
        BY <3>2, <3>3
  <2>4. QED
      BY <2>2, <2>3
<1>4. ASSUME NEW u \in Callers, request'[u].fresh, request'[u].type \in DOMAIN OrderBlocks
      PROVE  ~ \E t \in Tasks : /\ taskType'[t] = request'[u].type
                                /\ taskStatus'[t] \in OrderBlocks[request'[u].type]
  <2>1. request'[u] = request[u] /\ taskType' = taskType
      BY <1>4, RequestsAfter, OrderBlocksFacts DEF Idle
  <2>2. \A t \in Tasks : taskType[t] = request[u].type => taskStatus'[t] = statuses[t]
      BY <1>0, <1>1, <1>4, <2>1, OrderBlocksFacts, NewTaskFacts
  <2>3. ~OfType(request[u].type, OrderBlocks[request[u].type])
      BY <1>4, <2>1 DEF FlightInv
  <2>4. QED
      BY <1>4, <2>1, <2>2, <2>3 DEF OfType
<1>5. QED
    BY <1>2, <1>3, <1>4 DEF FlightInv, OfType

LEMMA FlightDecide ==
    ASSUME OrderIsTyped, FlightInv, NEW u \in Callers, NEW writes, NEW type, Begin(u, writes, type),
           type \in DOMAIN OrderBlocks => ~OfType(type, OrderBlocks[type])
    PROVE  FlightInv'
<1> DEFINE dirty == Dirty(writes)
<1>1. /\ request' = [request EXCEPT ![u] = [writes |-> dirty, type |-> type, fresh |-> TRUE]]
      /\ UNCHANGED <<taskType, taskStatus, irregular>>
    BY DEF Begin, Decide
<1> HIDE DEF dirty
<1>2. \A k \in Callers : \/ /\ request'[k].type = request[k].type
                            /\ request'[k].fresh = request[k].fresh
                         \/ request'[k].type = type
    BY <1>1 DEF OrderIsTyped, WellTyped
<1>3. QED
    BY <1>1, <1>2 DEF FlightInv, NoneToSubmit, O!AtMostOne, OfType

LEMMA FlightRequestStep ==
    ASSUME OrderIsTyped, FlightInv, NEW u \in Callers, O!OrderRequest(u)
    PROVE  FlightInv'
<1> USE OrderBlocksFacts, OrderIsSubTasks
<1>1. CASE O!RequestSign(u)
  <2>1. Begin(u, << >>, O!Sign) /\ ~OfType(O!Sign, OrderBlocks[O!Sign])
      BY <1>1 DEF O!RequestSign, O!SignInFlight
  <2>2. QED
      BY <2>1, FlightDecide
<1>2. CASE O!CreateCheckReplyTask(u)
  <2>1. Begin(u, << >>, O!CheckReply) /\ ~OfType(O!CheckReply, OrderBlocks[O!CheckReply])
      BY <1>2 DEF O!CreateCheckReplyTask, O!ReplyInFlight
  <2>2. QED
      BY <2>1, FlightDecide
<1>3. CASE O!ArchiveSignedOrder(u)
  <2>1. Begin(u, << >>, O!Archive) /\ ~OfType(O!Archive, OrderBlocks[O!Archive])
      BY <1>3 DEF O!ArchiveSignedOrder, O!ArchiveSkip, O!ReplyInFlight, OfType
  <2>2. QED
      BY <2>1, FlightDecide
<1>4. CASE \/ O!EnsurePrepareSubTask(u) \/ O!CancelInstance(u) \/ O!RetryInstance(u)
           \/ \E l \in Lines : O!SubmitLineDate(u, l)
  <2>1. \E writes : Begin(u, writes, O!CreateSdms) \/ Begin(u, writes, NoType)
    <3>1. CASE O!EnsurePrepareSubTask(u)
        BY <3>1 DEF O!EnsurePrepareSubTask
    <3>2. CASE O!CancelInstance(u)
        BY <3>2 DEF O!CancelInstance
    <3>3. CASE O!RetryInstance(u)
        BY <3>3 DEF O!RetryInstance
    <3>4. ASSUME NEW l \in Lines, O!SubmitLineDate(u, l)
          PROVE  \E writes : Begin(u, writes, NoType)
        BY <3>4 DEF O!SubmitLineDate, O!WriteLineDate
    <3>5. QED
        BY <1>4, <3>1, <3>2, <3>3, <3>4
  <2>2. O!CreateSdms \notin DOMAIN OrderBlocks /\ NoType \notin DOMAIN OrderBlocks
      BY DEF O!CreateSdms, O!Sign, O!CheckReply, O!Archive
  <2>3. QED
      BY <2>1, <2>2, FlightDecide
<1>5. QED
    BY <1>1, <1>2, <1>3, <1>4 DEF O!OrderRequest

\* A report comes from a task in flight, and leaves it there or takes it out.
LEMMA FlightFinishedStep ==
    ASSUME OrderIsTyped, FlightInv, NEW t \in Tasks, NEW o \in Reports, O!OrderFinished(t, o)
    PROVE  FlightInv'
<1>1. PICK next :
         /\ \E writes, done : Finish(t, o, writes, next, done)
         /\ next = NoType \/ (next = O!Archive /\ ~OfType(O!Archive, O!ArchiveSkip))
  <2> DEFINE Finishes(next) == \E writes, done : Finish(t, o, writes, next, done)
  <2>1. CASE O!HandleCreateSdmsFinished(t, o)
    <3>1. Finishes(NoType)
        BY <2>1, OrderIsSubTasks DEF O!HandleCreateSdmsFinished
    <3>2. QED
        BY <3>1
  <2>2. CASE O!HandleSignFinished(t, o)
    <3>1. Finishes(NoType)
        BY <2>2, OrderIsSubTasks DEF O!HandleSignFinished
    <3>2. QED
        BY <3>1
  <2>3. CASE O!HandleArchiveFinished(t, o)
    <3>1. Finishes(NoType)
        BY <2>3, OrderIsSubTasks DEF O!HandleArchiveFinished
    <3>2. QED
        BY <3>1
  <2>4. CASE O!HandleCheckReplyFinished(t, o)
    <3>1. \/ Finishes(NoType)
          \/ Finishes(O!Archive) /\ ~OfType(O!Archive, O!ArchiveSkip)
        BY <2>4, OrderIsSubTasks DEF O!HandleCheckReplyFinished, O!TriggerArchiveIfNeeded
    <3>2. QED
        BY <3>1
  <2>5. QED
      BY <2>1, <2>2, <2>3, <2>4 DEF O!OrderFinished
<1>2. /\ NewTask(next, Reported(t, o)) /\ request' = Requests({}) /\ irregular' = irregular
      /\ taskStatus[t] \in {"QUEUED", "RUNNING"}
    BY <1>1 DEF Finish, MayReport
<1>3. SUFFICES ASSUME irregular = {} PROVE FlightInv'
    BY <1>2 DEF FlightInv
<1>4. next \in DOMAIN OrderBlocks => ~OfType(next, OrderBlocks[next])
    BY <1>1, OrderBlocksFacts DEF OfType, O!ArchiveSkip, O!ReplyInFlight
<1>5. /\ Reported(t, o) = [k \in Tasks |-> Reported(t, o)[k]]
      /\ Reported(t, o)[t] = o
      /\ \A k \in Tasks \ {t} : Reported(t, o)[k] = taskStatus[k]
    BY DEF Reported, OrderIsTyped, WellTyped
<1>6. \A k \in Tasks :
         /\ Reported(t, o)[k] \notin {"DRAFT", "READY"}
         /\ \A y \in DOMAIN OrderBlocks : Reported(t, o)[k] \in OrderBlocks[y] => taskStatus[k] \in OrderBlocks[y]
    BY <1>2, <1>3, <1>5, OrderBlocksFacts DEF FlightInv, NoneToSubmit, Reports
<1>7. QED
    BY <1>2, <1>3, <1>4, <1>5, <1>6, FlightWrite

LEMMA FlightInvStep == OrderIsTyped /\ FlightInv /\ O!OrderNext => FlightInv'
<1> SUFFICES ASSUME OrderIsTyped, FlightInv, O!OrderNext, irregular' = {} PROVE FlightInv'
    BY DEF FlightInv
<1>0. /\ taskStatus \in [Tasks -> LifeStatuses]
      /\ \A t \in Tasks : taskType[t] = NoType <=> taskStatus[t] = "NONE"
    BY DEF OrderIsTyped, WellTyped
<1>1. CASE O!CreateFromScan
  <2>1. PICK first \in {O!CreateSdms, NoType} :
           Insert([status |-> "ACTIVE", stage |-> "CREATING_SDMS"], first)
      BY <1>1, OrderIsSubTasks DEF O!CreateFromScan
  <2>2. /\ NewTask(first, taskStatus) /\ request' = Requests({}) /\ irregular = {}
        /\ first \notin DOMAIN OrderBlocks
      BY <2>1, OrderBlocksFacts DEF Insert, O!CreateSdms, O!Sign, O!CheckReply, O!Archive
  <2>3. QED
      BY <1>0, <2>2, FlightWrite DEF FlightInv, NoneToSubmit
<1>2. ASSUME NEW u \in Callers, Commit(u) PROVE FlightInv'
  <2>1. PICK type : type = request[u].type
      OBVIOUS
  <2>2. /\ NewTask(type, taskStatus) /\ request' = Requests({u})
        /\ irregular = {} /\ request[u].fresh
      BY <1>2, <2>1, RegularCommit DEF Commit
  <2>3. type \in DOMAIN OrderBlocks => ~OfType(type, OrderBlocks[type])
      BY <2>1, <2>2 DEF FlightInv
  <2>4. QED
      BY <1>0, <2>2, <2>3, FlightWrite DEF FlightInv, NoneToSubmit
<1>3. CASE SubTaskStep({O!CreateSdms})
  <2>1. UNCHANGED <<taskType, request>> /\ irregular = {}
      BY <1>0, <1>3, SubTaskStepFacts, RegularMoves
  <2>2. NoneToSubmit
      BY <2>1 DEF FlightInv
  <2>3. \A y \in DOMAIN OrderBlocks, t \in Tasks :
           taskStatus'[t] \in OrderBlocks[y] => taskStatus[t] \in OrderBlocks[y]
      BY <1>0, <1>3, <2>2, RegularMoves, OrderBlocksFacts
  <2>4. NoneToSubmit'
      BY <1>0, <1>3, <2>2, RegularMoves
  <2>5. QED
      BY <2>1, <2>3, <2>4 DEF FlightInv, O!AtMostOne, OfType
<1>4. QED
    BY <1>1, <1>2, <1>3, FlightRequestStep, FlightFinishedStep, OrderIsSubTasks DEF O!OrderNext, O!Reports, Reports

-----------------------------------------------------------------------------
(* Packing lists: one task at a time, and no draft left behind             *)

PackingIsTyped == WellTyped(PackingValues, B!PackingTypes)

AtWork == {"QUEUED", "RUNNING"}

LEMMA PackingColumnsFacts ==
    ASSUME PackingIsTyped
    PROVE  /\ DOMAIN proc = {"status", "stage", "summary"}
           /\ proc["status"] \in {"NONE", "ACTIVE", "CANCELLED", "COMPLETED"}
           /\ taskType = [t \in Tasks |-> taskType[t]]
           /\ taskStatus = [t \in Tasks |-> taskStatus[t]]
           /\ taskStatus \in [Tasks -> LifeStatuses]
           /\ \A t \in Tasks : taskType[t] = NoType <=> taskStatus[t] = "NONE"
           /\ request = [u \in Callers |-> request[u]]
           /\ \A writes : \A c \in {"status", "stage", "summary"} :
                 Flushed(writes)[c] = IF c \in DOMAIN writes THEN writes[c] ELSE proc[c]
BY FlushedFacts DEF PackingIsTyped, WellTyped, PackingValues

LEMMA DirtyAllowed ==
    ASSUME PackingIsTyped, NEW writes, NEW type
    PROVE  PackingAllowed(Dirty(writes), type) <=> PackingAllowed(writes, type)
<1>1. Flushed(Dirty(writes)) = Flushed(writes)
    BY DirtyFacts DEF Flushed
<1>2. QED
    BY <1>1 DEF PackingAllowed

\* A write that agrees, while nobody works on the portal or for the one who does.
LEMMA PortalWrite ==
    ASSUME PackingIsTyped, PackingIsTyped', PortalInv, irregular = {},
           NEW writes, NEW type, NEW statuses, NEW done,
           proc' = Flushed(writes), NewTask(type, statuses), request' = Requests(done),
           statuses = [t \in Tasks |-> statuses[t]],
           \A t \in Tasks : /\ statuses[t] \notin {"DRAFT", "READY"}
                            /\ statuses[t] \in AtWork => t \in Working,
           PackingAgrees(proc)',
           type = NoType => \A t \in Tasks : statuses[t] \in AtWork =>
               proc'["stage"] \in WorkStages /\ taskType[t] = B!TaskOfStage(proc'["stage"]),
           type # NoType => /\ \A t \in Tasks : statuses[t] \notin AtWork
                            /\ proc'["stage"] \in WorkStages /\ type = B!TaskOfStage(proc'["stage"]),
           proc' = proc /\ DraftOf(facts)' => DraftOf(facts)
    PROVE  PortalInv'
<1>0. taskType = [t \in Tasks |-> taskType[t]]
    BY PackingColumnsFacts
<1>1. NoneToSubmit'
    BY <1>0, NewTaskFacts DEF NoneToSubmit
<1>2. \A t, k \in Working' : t = k
    BY <1>0, NewTaskFacts DEF PortalInv, Working, AtWork
<1>3. WorkedOnAt(proc["stage"])'
    BY <1>0, NewTaskFacts DEF WorkedOnAt, Working, AtWork
<1>4. PackingAllowed(<< >>, NoType)'
  <2>1. DOMAIN proc' = {"status", "stage", "summary"}
      BY DEF PackingIsTyped, WellTyped, PackingValues
  <2>2. \A c \in {"status", "stage", "summary"} : Flushed(<< >>)'[c] = proc'[c]
      BY <2>1 DEF Flushed
  <2>3. QED
      BY <1>3, <2>2 DEF PackingAllowed, PackingAgrees, WorkedOnAt
<1>5. ASSUME NEW w, NEW y, PackingAllowed(w, y), proc' = proc, taskType' = taskType
      PROVE  PackingAllowed(w, y)'
  <2>1. type = NoType /\ taskStatus' = statuses
    <3>1. ASSUME NEW t \in Tasks, type # NoType, taskType[t] = NoType,
                 taskType' = [taskType EXCEPT ![t] = type]
          PROVE  FALSE
        BY <1>0, <1>5, <3>1
    <3>2. QED
        BY <1>0, <3>1, NewTaskFacts
  <2>2. Working' \subseteq Working
      BY <2>1 DEF Working, AtWork
  <2>3. Flushed(w)' = Flushed(w)
      BY <1>5 DEF Flushed
  <2>4. QED
      BY <1>5, <2>2, <2>3 DEF PackingAllowed, PackingAgrees, WorkedOnAt
<1>6. \A u \in Callers : request'[u].fresh =>
          \/ request'[u] = [writes |-> << >>, type |-> NoType, fresh |-> TRUE]
          \/ request'[u] = request[u] /\ proc' = proc /\ taskType' = taskType
    BY RequestsAfter DEF Idle, NoWrites
<1>7. (\A u \in Callers : request[u].fresh => PackingAllowed(request[u].writes, request[u].type))'
    BY <1>4, <1>5, <1>6 DEF PortalInv
<1>8. QED
    BY <1>1, <1>2, <1>3, <1>7 DEF PortalInv

LEMMA PortalDecide ==
    ASSUME PackingIsTyped, PortalInv, NEW u \in Callers, NEW writes, NEW type,
           Decide(u, writes, type) \/ Begin(u, writes, type),
           irregular = {} => PackingAllowed(writes, type)
    PROVE  PortalInv'
<1>1. PICK w : Decide(u, w, type) /\ (irregular = {} => PackingAllowed(w, type))
    BY DirtyAllowed DEF Begin
<1>2. /\ request' = [request EXCEPT ![u] = [writes |-> w, type |-> type, fresh |-> TRUE]]
      /\ UNCHANGED <<proc, taskType, taskStatus, facts, irregular>>
    BY <1>1 DEF Decide
<1>3. \A k \in Callers : request'[k] = request[k]
                         \/ request'[k] = [writes |-> w, type |-> type, fresh |-> TRUE]
    BY <1>2, PackingColumnsFacts
<1>4. \A x, y : PackingAllowed(x, y) => PackingAllowed(x, y)'
    BY <1>2 DEF PackingAllowed, Flushed, PackingAgrees, WorkedOnAt, Working
<1>5. irregular = {} => (\A k \in Callers : request[k].fresh => PackingAllowed(request[k].writes, request[k].type))'
    BY <1>1, <1>3, <1>4 DEF PortalInv
<1>6. QED
    BY <1>2, <1>5 DEF PortalInv, NoneToSubmit, Working, PackingAgrees, WorkedOnAt

\* A task at work is the one of the stage: without it, nothing is.
LEMMA NothingAtWork ==
    ASSUME PackingIsTyped, PortalInv, irregular = {}
    PROVE  /\ proc["stage"] \notin WorkStages => Working = {}
           /\ ~B!Busy({B!TaskOfStage(proc["stage"])}) => Working = {}
           /\ proc["stage"] # "DELETING_DRAFT" /\ ~B!Busy({B!Enrich, B!SaveDraft, B!SubmitDoc}) =>
                 Working = {}
<1>1. ASSUME NEW t \in Working, NEW types, taskType[t] \in types PROVE B!Busy(types)
    BY <1>1 DEF Working, B!Busy, B!PackingInFlight, B!OfType
<1>2. ASSUME NEW t \in Working
      PROVE  proc["stage"] \in WorkStages /\ taskType[t] = B!TaskOfStage(proc["stage"])
    BY <1>2 DEF PortalInv, WorkedOnAt
<1>3. proc["stage"] \in WorkStages \ {"DELETING_DRAFT"} =>
         B!TaskOfStage(proc["stage"]) \in {B!Enrich, B!SaveDraft, B!SubmitDoc}
    BY DEF WorkStages, B!TaskOfStage
<1>4. ~B!Busy({B!TaskOfStage(proc["stage"])}) => Working = {}
    BY <1>1, <1>2
<1>5. proc["stage"] # "DELETING_DRAFT" /\ ~B!Busy({B!Enrich, B!SaveDraft, B!SubmitDoc}) =>
         Working = {}
  <2> SUFFICES ASSUME NEW t \in Working, proc["stage"] # "DELETING_DRAFT"
               PROVE  B!Busy({B!Enrich, B!SaveDraft, B!SubmitDoc})
      OBVIOUS
  <2>1. taskType[t] \in {B!Enrich, B!SaveDraft, B!SubmitDoc}
      BY <1>2, <1>3
  <2>2. QED
      BY <1>1, <2>1
<1>6. QED
    BY <1>2, <1>4, <1>5

LEMMA PortalRequestStep ==
    ASSUME PackingIsTyped, PortalInv, NEW u \in Callers, B!PackingRequest(u)
    PROVE  PortalInv'
<1> DEFINE Asks(writes, type) ==
               /\ Decide(u, writes, type) \/ Begin(u, writes, type)
               /\ irregular = {} => PackingAllowed(writes, type)
<1> SUFFICES \E writes, type : Asks(writes, type)
    BY PortalDecide
<1>1. irregular = {} =>
         /\ PackingAgrees(proc) /\ WorkedOnAt(proc["stage"])
         /\ proc["stage"] \notin WorkStages => Working = {}
         /\ ~B!Busy({B!TaskOfStage(proc["stage"])}) => Working = {}
         /\ proc["stage"] # "DELETING_DRAFT" /\ ~B!Busy({B!Enrich, B!SaveDraft, B!SubmitDoc}) =>
               Working = {}
    BY NothingAtWork DEF PortalInv
\* An edit rewrites the summary that it has read.
<1>2. Decide(u, [summary |-> proc["summary"]], NoType) => Asks([summary |-> proc["summary"]], NoType)
  <2>1. \A c \in {"status", "stage", "summary"} : Flushed([summary |-> proc["summary"]])[c] = proc[c]
      BY PackingColumnsFacts
  <2>2. QED
      BY <1>1, <2>1 DEF PackingAllowed, PackingAgrees, WorkedOnAt
<1>3. CASE B!MatchOpenPlan(u) \/ B!PatchInstance(u)
    BY <1>2, <1>3, PackingIsSubTasks DEF B!MatchOpenPlan, B!PatchInstance
<1>4. CASE B!FetchWms(u)
  <2> DEFINE writes == [summary |-> proc["summary"], stage |-> "ENRICH"]
  <2>1. CASE Decide(u, [summary |-> proc["summary"]], NoType)
      BY <1>2, <2>1
  <2>2. ASSUME NEW next \in {B!Enrich, NoType}, Decide(u, writes, next), proc["stage"] = "FETCH_WMS"
        PROVE  Asks(writes, next)
    <3>1. /\ Flushed(writes)["status"] = proc["status"] /\ Flushed(writes)["stage"] = "ENRICH"
          /\ Flushed(writes)["summary"] = proc["summary"]
        BY PackingColumnsFacts
    <3>2. QED
        BY <1>1, <2>2, <3>1 DEF PackingAllowed, PackingAgrees, WorkedOnAt, WorkStages, B!TaskOfStage
  <2>3. QED
      BY <1>4, <2>1, <2>2, PackingIsSubTasks DEF B!FetchWms, B!EnqueuedIfBound, B!Enqueued
<1>5. ASSUME Begin(u, << >>, B!TaskOfStage(proc["stage"])), proc["stage"] \in WorkStages,
             ~B!Busy({B!TaskOfStage(proc["stage"])})
      PROVE  Asks(<< >>, B!TaskOfStage(proc["stage"]))
  <2>1. \A c \in {"status", "stage", "summary"} : Flushed(<< >>)[c] = proc[c]
      BY PackingColumnsFacts
  <2>2. B!TaskOfStage(proc["stage"]) # NoType
      BY <1>5, NamesAssumption DEF WorkStages, B!TaskOfStage, B!PackingTypes
  <2>3. QED
      BY <1>1, <1>5, <2>1, <2>2 DEF PackingAllowed, PackingAgrees
<1>6. CASE B!RetryPacking(u)
    BY <1>4, <1>5, <1>6, PackingIsSubTasks DEF B!RetryPacking, WorkStages
<1>7. CASE B!CancelAgain(u)
  <2>1. B!TaskOfStage("DELETING_DRAFT") = B!DeleteDraft
      BY DEF B!TaskOfStage
  <2>2. QED
      BY <1>5, <1>7, <2>1, PackingIsSubTasks DEF B!CancelAgain, WorkStages
<1>8. CASE B!CancelPacking(u)
  <2>0. proc["status"] = "ACTIVE" /\ (irregular = {} => Working = {})
      BY <1>1, <1>8 DEF B!CancelPacking
  <2>1. ASSUME NEW next \in {B!DeleteDraft, NoType}, Begin(u, [stage |-> "DELETING_DRAFT"], next)
        PROVE  Asks([stage |-> "DELETING_DRAFT"], next)
    <3>1. /\ Flushed([stage |-> "DELETING_DRAFT"])["status"] = "ACTIVE"
          /\ Flushed([stage |-> "DELETING_DRAFT"])["stage"] = "DELETING_DRAFT"
          /\ Flushed([stage |-> "DELETING_DRAFT"])["summary"] = proc["summary"]
        BY <2>0, PackingColumnsFacts
    <3>2. QED
        BY <1>1, <2>0, <2>1, <3>1 DEF PackingAllowed, PackingAgrees, WorkedOnAt, WorkStages, B!TaskOfStage
  <2>2. ASSUME Begin(u, [status |-> "CANCELLED", stage |-> "CANCELLED"], NoType), proc["summary"] # "DRAFT"
        PROVE  Asks([status |-> "CANCELLED", stage |-> "CANCELLED"], NoType)
    <3> DEFINE writes == [status |-> "CANCELLED", stage |-> "CANCELLED"]
    <3>1. /\ Flushed(writes)["status"] = "CANCELLED" /\ Flushed(writes)["stage"] = "CANCELLED"
          /\ Flushed(writes)["summary"] = proc["summary"]
        BY PackingColumnsFacts
    <3>2. QED
        BY <1>1, <2>0, <2>2, <3>1 DEF PackingAllowed, PackingAgrees, WorkedOnAt
  <2>3. QED
      BY <1>8, <2>1, <2>2, PackingIsSubTasks DEF B!CancelPacking, B!HasDraft, B!Enqueued
<1>9. CASE B!SubmitInstance(u)
  <2>1. ASSUME NEW next \in {B!SubmitDoc, NoType}, Begin(u, [stage |-> "SUBMITTING"], next),
               proc["stage"] = "REVIEW"
        PROVE  Asks([stage |-> "SUBMITTING"], next)
    <3>1. /\ Flushed([stage |-> "SUBMITTING"])["status"] = proc["status"]
          /\ Flushed([stage |-> "SUBMITTING"])["stage"] = "SUBMITTING"
          /\ Flushed([stage |-> "SUBMITTING"])["summary"] = proc["summary"]
        BY PackingColumnsFacts
    <3>2. QED
        BY <1>1, <2>1, <3>1 DEF PackingAllowed, PackingAgrees, WorkedOnAt, WorkStages, B!TaskOfStage
  <2>2. QED
      BY <1>9, <2>1, PackingIsSubTasks DEF B!SubmitInstance, B!Enqueued
<1>10. QED
    BY <1>3, <1>6, <1>7, <1>8, <1>9 DEF B!PackingRequest

\* The one task at work is the one of the stage, so its result is not ignored,
\* and is followed by at most the task of the stage it leads to.
LEMMA PortalFinish ==
    ASSUME PackingIsTyped, PackingIsTyped', PortalInv, irregular = {},
           NEW t \in Tasks, NEW o \in Reports, NEW writes, NEW next, NEW done,
           Finish(t, o, writes, next, done),
           PackingAgrees(proc)',
           next # NoType => proc'["stage"] \in WorkStages /\ next = B!TaskOfStage(proc'["stage"]),
           proc' = proc /\ DraftOf(done) => DraftOf(facts)
    PROVE  PortalInv'
<1>1. /\ proc' = Flushed(writes) /\ NewTask(next, Reported(t, o)) /\ request' = Requests({})
      /\ facts' = done /\ t \in Working
    BY DEF Finish, MayReport, Working
<1>2. /\ Reported(t, o) = [k \in Tasks |-> Reported(t, o)[k]]
      /\ Reported(t, o)[t] = o
      /\ \A k \in Tasks \ {t} : Reported(t, o)[k] = taskStatus[k]
    BY PackingColumnsFacts DEF Reported
<1>3. \A k \in Tasks : Reported(t, o)[k] \notin {"DRAFT", "READY"} /\ Reported(t, o)[k] \notin AtWork
    BY <1>1, <1>2 DEF PortalInv, NoneToSubmit, Working, AtWork, Reports
<1>4. QED
    BY <1>1, <1>2, <1>3, PortalWrite

LEMMA PortalFinishedStep ==
    ASSUME PackingIsTyped, PackingIsTyped', PortalInv, NEW t \in Tasks, NEW o \in Reports,
           B!PackingFinished(t, o)
    PROVE  PortalInv'
<1>0. /\ irregular' = irregular
      /\ MayReport(t, o)
    BY PackingIsSubTasks
       DEF B!PackingFinished, B!OnEnrichFinished, B!OnSaveDraftFinished, B!OnSubmitFinished,
           B!OnDeleteDraftFinished, Finish
<1> SUFFICES ASSUME irregular = {} PROVE PortalInv'
    BY <1>0 DEF PortalInv
<1> USE DEF PackingAgrees
<1>1. /\ proc["stage"] \in WorkStages /\ taskType[t] = B!TaskOfStage(proc["stage"])
      /\ PackingAgrees(proc)
    BY <1>0 DEF PortalInv, WorkedOnAt, Working, MayReport
<1>2. proc["status"] = "ACTIVE"
    BY <1>1, PackingColumnsFacts DEF WorkStages
<1>3. ~B!Ignored(t)
    BY <1>1, <1>2 DEF B!Ignored, B!TaskOfStage
<1>4. \A writes : B!Applied(t, writes) = writes
    BY <1>3 DEF B!Applied
\* What the handlers write, and what the columns then are.
<1>5. ASSUME NEW writes, NEW next, NEW done, Finish(t, o, writes, next, done)
      PROVE  /\ facts' = done
             /\ \A c \in {"status", "stage", "summary"} :
                   proc'[c] = IF c \in DOMAIN writes THEN writes[c] ELSE proc[c]
    BY <1>5, PackingColumnsFacts DEF Finish
<1>6. CASE Finish(t, o, << >>, NoType, facts)
    BY <1>1, <1>5, <1>6, PortalFinish
<1>7. CASE taskType[t] = B!Enrich /\ B!OnEnrichFinished(t, o)
  <2>1. ASSUME NEW next \in {B!SaveDraft, NoType}, Finish(t, o, [stage |-> "SAVE_DRAFT"], next, facts)
        PROVE  PortalInv'
    <3>1. proc'["status"] = "ACTIVE" /\ proc'["stage"] = "SAVE_DRAFT" /\ proc'["summary"] = proc["summary"]
        BY <1>2, <1>5, <2>1
    <3>2. PackingAgrees(proc)'
        BY <1>1, <1>2, <1>5, <2>1, <3>1
    <3>3. QED
        BY <2>1, <3>1, <3>2, PortalFinish DEF WorkStages, B!TaskOfStage
  <2>2. QED
      BY <1>3, <1>4, <1>6, <1>7, <2>1, PackingIsSubTasks
         DEF B!OnEnrichFinished, B!EnqueuedIfBound, B!Enqueued
<1>8. CASE taskType[t] = B!SaveDraft /\ B!OnSaveDraftFinished(t, o)
  <2>0. proc["stage"] = "SAVE_DRAFT"
      BY <1>1, <1>8 DEF WorkStages, B!TaskOfStage, B!Enrich, B!SaveDraft, B!SubmitDoc, B!DeleteDraft
  <2>1. CASE Finish(t, o, [stage |-> "REVIEW"], NoType, facts \cup {"saved", "draft", "unnumbered"})
    <3>1. proc'["status"] = "ACTIVE" /\ proc'["stage"] = "REVIEW" /\ proc'["summary"] = proc["summary"]
        BY <1>2, <1>5, <2>1
    <3>2. ~DraftOf(facts \cup {"saved", "draft", "unnumbered"})
        BY DEF DraftOf
    <3>3. PackingAgrees(proc)'
        BY <1>1, <1>2, <1>5, <2>1, <3>1, <3>2
    <3>4. QED
        BY <2>1, <3>2, <3>3, PortalFinish
  <2>2. CASE Finish(t, o, [stage |-> "REVIEW", summary |-> "DRAFT"], NoType, facts \cup {"saved", "draft"})
    <3>1. proc'["status"] = "ACTIVE" /\ proc'["stage"] = "REVIEW" /\ proc'["summary"] = "DRAFT"
        BY <1>2, <1>5, <2>2
    <3>2. PackingAgrees(proc)' /\ proc' # proc
        BY <2>0, <3>1
    <3>3. QED
        BY <2>2, <3>2, PortalFinish
  <2>3. QED
      BY <1>4, <1>6, <1>8, <2>1, <2>2, PackingIsSubTasks DEF B!OnSaveDraftFinished
<1>9. CASE taskType[t] = B!SubmitDoc /\ B!OnSubmitFinished(t, o)
  <2>1. ASSUME NEW writes \in {[stage |-> "REVIEW"], [stage |-> "SUBMITTED", status |-> "COMPLETED"]},
               Finish(t, o, writes, NoType, facts)
        PROVE  PortalInv'
    <3>1. /\ proc'["summary"] = proc["summary"]
          /\ \/ proc'["status"] = "ACTIVE" /\ proc'["stage"] = "REVIEW"
             \/ proc'["status"] = "COMPLETED" /\ proc'["stage"] = "SUBMITTED"
        BY <1>2, <1>5, <2>1
    <3>2. PackingAgrees(proc)'
        BY <1>1, <1>5, <2>1, <3>1
    <3>3. QED
        BY <2>1, <3>2, PortalFinish
  <2>2. QED
      BY <1>4, <1>9, <2>1, PackingIsSubTasks DEF B!OnSubmitFinished
<1>10. CASE taskType[t] = B!DeleteDraft /\ B!OnDeleteDraftFinished(t, o)
  <2> DEFINE left == IF "unnumbered" \in facts THEN facts ELSE facts \ {"draft"}
  <2>0. ~DraftOf(left)
      BY DEF DraftOf
  <2>1. CASE Finish(t, o, [stage |-> "CANCELLED", status |-> "CANCELLED"], NoType, left)
    <3>1. PackingAgrees(proc)'
      <4>1. proc'["status"] = "CANCELLED" /\ proc'["stage"] = "CANCELLED" /\ facts' = left
          BY <1>5, <2>1
      <4>2. QED
          BY <2>0, <4>1
    <3>2. QED
        BY <2>0, <2>1, <3>1, PortalFinish
  <2>2. QED
      BY <1>4, <1>6, <1>10, <2>1, PackingIsSubTasks DEF B!OnDeleteDraftFinished
<1>11. QED
    BY <1>7, <1>8, <1>9, <1>10 DEF B!PackingFinished

LEMMA PortalInvStep == PackingIsTyped /\ PackingIsTyped' /\ PortalInv /\ B!PackingNext => PortalInv'
<1> SUFFICES ASSUME PackingIsTyped, PackingIsTyped', PortalInv, B!PackingNext, irregular' = {}
             PROVE  PortalInv'
    BY DEF PortalInv
<1>1. CASE B!MatchDeliveryPlans
  <2>1. PICK stage \in {"FETCH_WMS", "ENRICH"}, first \in {B!Enrich, NoType} :
           /\ Insert([status |-> "ACTIVE", stage |-> stage], first)
           /\ first # NoType => stage = "ENRICH"
           /\ proc["status"] = "NONE"
    <3>1. PICK first \in {B!Enrich, NoType} :
             /\ proc["status"] = "NONE"
             /\ \/ Insert([status |-> "ACTIVE", stage |-> "FETCH_WMS"], NoType)
                \/ Insert([status |-> "ACTIVE", stage |-> "ENRICH"], first)
        BY <1>1, PackingIsSubTasks DEF B!MatchDeliveryPlans, B!EnqueuedIfBound, B!Enqueued
    <3>2. CASE Insert([status |-> "ACTIVE", stage |-> "FETCH_WMS"], NoType)
        BY <3>1, <3>2
    <3>3. CASE Insert([status |-> "ACTIVE", stage |-> "ENRICH"], first)
        BY <3>1, <3>3
    <3>4. QED
        BY <3>1, <3>2, <3>3
  <2> DEFINE writes == [status |-> "ACTIVE", stage |-> stage]
  <2>2. /\ proc' = Flushed(writes) /\ NewTask(first, taskStatus) /\ request' = Requests({})
        /\ facts' = facts /\ irregular = {}
      BY <2>1 DEF Insert
  <2>3. proc'["status"] = "ACTIVE" /\ proc'["stage"] = stage /\ proc'["summary"] = proc["summary"]
      BY <2>2, PackingColumnsFacts
  <2>4. PackingAgrees(proc) /\ proc["stage"] \notin WorkStages
      BY <2>1, <2>2 DEF PortalInv, PackingAgrees, WorkStages
  <2>5. Working = {}
      BY <2>2, <2>4, NothingAtWork
  <2>6. PackingAgrees(proc)'
      BY <2>2, <2>3, <2>4, <2>1 DEF PackingAgrees
  <2>7. \A t \in Tasks : taskStatus[t] \notin {"DRAFT", "READY"} /\ taskStatus[t] \notin AtWork
      BY <2>2, <2>5 DEF PortalInv, NoneToSubmit, Working, AtWork
  <2>8. first # NoType => proc'["stage"] \in WorkStages /\ first = B!TaskOfStage(proc'["stage"])
      BY <2>1, <2>3 DEF WorkStages, B!TaskOfStage
  <2> HIDE DEF writes
  <2>9. QED
      BY <2>2, <2>6, <2>7, <2>8, PackingColumnsFacts, PortalWrite
<1>2. ASSUME NEW u \in Callers, Commit(u) PROVE PortalInv'
  <2>1. PICK writes, type : writes = request[u].writes /\ type = request[u].type
      OBVIOUS
  <2>2. /\ proc' = Flushed(writes) /\ NewTask(type, taskStatus) /\ request' = Requests({u})
        /\ facts' = facts /\ irregular = {} /\ request[u].fresh
      BY <1>2, <2>1, RegularCommit DEF Commit
  <2>3. PackingAllowed(writes, type)
      BY <2>1, <2>2 DEF PortalInv
  <2>4. PackingAgrees(proc)'
      BY <2>2, <2>3 DEF PackingAllowed, PackingAgrees
  <2>5. /\ type = NoType => \A t \in Tasks : taskStatus[t] \in AtWork =>
              proc'["stage"] \in WorkStages /\ taskType[t] = B!TaskOfStage(proc'["stage"])
        /\ type # NoType => /\ \A t \in Tasks : taskStatus[t] \notin AtWork
                            /\ proc'["stage"] \in WorkStages /\ type = B!TaskOfStage(proc'["stage"])
      BY <2>2, <2>3 DEF PackingAllowed, WorkedOnAt, Working, AtWork
  <2>6. \A t \in Tasks : /\ taskStatus[t] \notin {"DRAFT", "READY"}
                         /\ taskStatus[t] \in AtWork => t \in Working
      BY <2>2 DEF PortalInv, NoneToSubmit, Working, AtWork
  <2>7. QED
      BY <2>2, <2>4, <2>5, <2>6, PackingColumnsFacts, PortalWrite
<1>3. CASE SubTaskStep({})
  <2>1. UNCHANGED <<proc, taskType, request, facts>> /\ irregular = {}
      BY <1>3, SubTaskStepFacts, RegularMoves, PackingColumnsFacts
  <2>2. NoneToSubmit
      BY <2>1 DEF PortalInv
  <2>3. NoneToSubmit' /\ Working' \subseteq Working
      BY <1>3, <2>2, RegularMoves, PackingColumnsFacts DEF Working
  <2>4. \A w, y : PackingAllowed(w, y) => PackingAllowed(w, y)'
      BY <2>1, <2>3 DEF PackingAllowed, Flushed, PackingAgrees, WorkedOnAt
  <2>5. QED
      BY <2>1, <2>3, <2>4 DEF PortalInv, PackingAgrees, WorkedOnAt
<1>4. QED
    BY <1>1, <1>2, <1>3, PortalRequestStep, PortalFinishedStep, PackingIsSubTasks
       DEF B!PackingNext, B!Reports, Reports

-----------------------------------------------------------------------------
(* The invariant, and what it says of the three kinds                      *)

LEMMA TasksInvInit == Init => TasksInv
<1>1. ASSUME O!OrderInit PROVE WorkInv /\ FlightInv
  <2>1. PICK columns : Start(columns) /\ columns = [c \in O!Columns |-> "NONE"]
      BY <1>1, OrderIsSubTasks DEF O!OrderInit
  <2>2. /\ proc["status"] = "NONE"
        /\ taskType = [t \in Tasks |-> NoType] /\ taskStatus = [t \in Tasks |-> "NONE"]
        /\ \A u \in Callers : request[u] = Idle
      BY <2>1 DEF Start, LifeInit, O!Columns
  <2>3. WorkInv
    <3>1. \A u \in Callers : StartsWithWork(request[u].writes, request[u].type)
        BY <2>2 DEF StartsWithWork, Idle, NoWrites
    <3>2. QED
        BY <2>2, <3>1 DEF WorkInv, O!CreatingHasWork, O!Active
  <2>4. FlightInv
      BY <2>2, OrderBlocksFacts DEF FlightInv, NoneToSubmit, O!AtMostOne, Idle
  <2>5. QED
      BY <2>3, <2>4
<1>2. ASSUME B!PackingInit PROVE PortalInv
  <2>1. PICK columns : Start(columns) /\ columns = [c \in B!PackingColumns |-> "NONE"]
      BY <1>2, PackingIsSubTasks DEF B!PackingInit
  <2>2. /\ proc = [c \in {"status", "stage", "summary"} |-> "NONE"] /\ facts = {}
        /\ taskStatus = [t \in Tasks |-> "NONE"]
        /\ \A u \in Callers : request[u] = [writes |-> << >>, type |-> NoType, fresh |-> TRUE]
      BY <2>1 DEF Start, LifeInit, Idle, NoWrites, B!PackingColumns
  <2>3. Working = {} /\ NoneToSubmit
      BY <2>2 DEF Working, NoneToSubmit
  <2>4. PackingAgrees(proc) /\ PackingAllowed(<< >>, NoType) /\ WorkedOnAt(proc["stage"])
      BY <2>2, <2>3 DEF PackingAllowed, PackingAgrees, DraftOf, WorkedOnAt, Flushed
  <2>5. QED
      BY <2>2, <2>3, <2>4 DEF PortalInv
<1>3. QED
    BY <1>1, <1>2 DEF Init, TasksInv, IsOrder, IsPacking

LEMMA TasksInvStep == TypeInv /\ TypeInv' /\ TasksInv /\ [Next]_<<subTaskVars, kind>> => TasksInv'
<1> SUFFICES ASSUME TypeInv, TypeInv', TasksInv, [Next]_<<subTaskVars, kind>> PROVE TasksInv'
    OBVIOUS
<1>1. CASE Next
  <2>1. kind' = kind
      BY <1>1 DEF Next
  <2>2. ASSUME IsOrder PROVE WorkInv' /\ FlightInv'
    <3>1. OrderIsTyped /\ WorkInv /\ FlightInv /\ O!OrderNext
        BY <1>1, <2>2 DEF TypeInv, TasksInv, OrderIsTyped, Next, OrderStep, StatementStep, PackingStep, IsOrder
    <3>2. QED
        BY <3>1, WorkInvStep, FlightInvStep
  <2>3. ASSUME IsPacking PROVE PortalInv'
    <3>1. PackingIsTyped /\ PackingIsTyped' /\ PortalInv /\ B!PackingNext
        BY <1>1, <2>1, <2>3
           DEF TypeInv, TasksInv, PackingIsTyped, Next, OrderStep, StatementStep, PackingStep, IsPacking
    <3>2. QED
        BY <3>1, PortalInvStep
  <2>4. QED
      BY <2>1, <2>2, <2>3 DEF TasksInv, IsOrder, IsPacking
<1>2. CASE UNCHANGED <<subTaskVars, kind>>
  <2> USE <1>2 DEF subTaskVars
  <2>1. WorkInv => WorkInv'
      BY DEF WorkInv, StartsWithWork, O!CreatingHasWork, O!Active, O!OfType, Idle
  <2>2. FlightInv => FlightInv'
      BY DEF FlightInv, NoneToSubmit, O!AtMostOne, OfType
  <2>3. PortalInv => PortalInv'
      BY DEF PortalInv, NoneToSubmit, Working, PackingAgrees, WorkedOnAt, PackingAllowed, Flushed
  <2>4. QED
      BY <2>1, <2>2, <2>3 DEF TasksInv, IsOrder, IsPacking
<1>3. QED
    BY <1>1, <1>2

LEMMA TasksInvHolds == Spec => []TasksInv
<1>1. Spec => []TypeInv
    BY TypeInvHolds
<1>2. QED
    BY <1>1, TasksInvInit, TasksInvStep, PTL DEF Spec

\* An order being entered has a sub-task that will decide it, if one was ever
\* created and none was taken out of the workers' hands untold, by a human or by
\* a poll: whatever a scan, a cancellation, a retry and the late results of the
\* attempts before it write over each other (process_instance_service.py).
THEOREM OrdersHaveWork == Spec => []CreatingHasWork
<1>1. TasksInv => CreatingHasWork
    BY DEF TasksInv, WorkInv, CreatingHasWork
<1>2. QED
    BY <1>1, TasksInvHolds, PTL

\* As long as no request overlaps with a change and no failed task is run again,
\* an order has one signature, one question for the reply and one contract under
\* way, and the portal of a packing list is worked on by the one task of its stage.
THEOREM PortalWorkedOnByOne == Spec => []OneTaskAtATime
<1>1. TypeInv /\ TasksInv => OneTaskAtATime
  <2>1. ASSUME IsOrder, FlightInv PROVE O!OneInFlight
    <3>1. /\ DOMAIN OrderBlocks = {O!Sign, O!CheckReply, O!Archive}
          /\ OrderBlocks[O!Sign] = O!SignInFlight
          /\ OrderBlocks[O!CheckReply] = O!ReplyInFlight
          /\ OrderBlocks[O!Archive] = O!ReplyInFlight \cup {"SUCCESS"}
        BY DEF OrderBlocks, O!Sign, O!CheckReply, O!Archive
    <3>2. irregular = {} => \A y \in DOMAIN OrderBlocks : O!AtMostOne(y, OrderBlocks[y])
        BY <2>1 DEF FlightInv
    <3>3. QED
        BY <3>1, <3>2 DEF O!OneInFlight
  <2>2. ASSUME PackingIsTyped, PortalInv PROVE B!TaskOfItsStage
    <3>1. irregular = {} =>
             /\ \A t \in Working : /\ proc["stage"] \in WorkStages
                                   /\ taskType[t] = B!TaskOfStage(proc["stage"])
                                   /\ \A k \in Working : k = t
             /\ proc["status"] = "COMPLETED" <=> proc["stage"] = "SUBMITTED"
        BY <2>2 DEF PortalInv, WorkedOnAt, PackingAgrees
    <3>2. QED
        BY <3>1 DEF B!TaskOfItsStage, Working, WorkStages
  <2>3. QED
      BY <2>1, <2>2 DEF TypeInv, TasksInv, OneTaskAtATime, PackingIsTyped
<1>2. QED
    BY <1>1, TypeInvHolds, TasksInvHolds, PTL

\* Under the same condition, and as long as every save reports the number of its
\* draft, a packing list that was cancelled has no draft at the portal: none was
\* saved, or a task reported that it is deleted (boe_packing_service.py).
THEOREM NoDraftLeftBehind == Spec => []CancelledHasNoDraft
<1>1. TasksInv => CancelledHasNoDraft
    BY DEF TasksInv, PortalInv, PackingAgrees, DraftOf, CancelledHasNoDraft, B!CancelledHasNoDraft
<1>2. QED
    BY <1>1, TasksInvHolds, PTL
=============================================================================
