---------------------------- MODULE OrderProcess ----------------------------
(***************************************************************************)
(* A customer order of the Tiandy portal (srm_customer_order), from the    *)
(* scan that finds it to the signed contract filed in SDMS.                *)
(* process_instance_service.py: its requests, the polls for the reply, and *)
(* the handlers of its sub-tasks' results.                                 *)
(***************************************************************************)
EXTENDS SubTasks

CONSTANT Lines      \* the lines of the order

Columns == {"status", "stage"} \cup Lines

OrderInit ==
    Start([c \in Columns |-> "NONE"])

\* The types of sub-tasks, in the order of the process.
CreateSdms == "srm_prepare_erp_order"
Sign       == "srm_sign_order"
CheckReply == "srm_check_reply_status"
Archive    == "srm_upload_order_attachment"
OrderTypes == {CreateSdms, Sign, CheckReply, Archive}

SignInFlight  == {"QUEUED", "RUNNING"}
ReplyInFlight == {"QUEUED", "RUNNING", "WAITING_HUMAN"}

FaultyArchiveSkip == SignInFlight \cup {"SUCCESS", "SUCCESS_MANUAL"}

ArchiveSkip   == ReplyInFlight \cup {"SUCCESS", "SUCCESS_MANUAL"}

Active(stages) == proc.status = "ACTIVE" /\ proc.stage \in stages

HasLines == \E l \in Lines : proc[l] # "NONE"

-----------------------------------------------------------------------------
(* Requests                                                                *)

\* A scan lists the order: a new process, whose first sub-task is missing when
\* the scan was a drill and no binding exists.
CreateFromScan ==
    /\ proc.status = "NONE"
    /\ \E first \in {CreateSdms, NoType} :
          Insert([status |-> "ACTIVE", stage |-> "CREATING_SDMS"], first)

\* A scan lists it again.
EnsurePrepareSubTask(u) ==
    /\ Active({"CREATING_SDMS"})
    /\ ~ \E t \in Tasks : taskType[t] = CreateSdms
    /\ Begin(u, NoWrites, CreateSdms)

\* What a request for the date of line l writes.
Dated(l, complete) ==
    [c \in {l, "stage"} |->
        IF c = l THEN "WRITTEN" ELSE IF complete THEN "DATES_COMPLETE" ELSE "DATES_PARTIAL"]

FaultyWriteLineDate(u, l) ==
    Begin(u, Dated(l, \A k \in Lines : proc[k] \in {"NONE", "WRITTEN"}), NoType)

\* The lines still without a date are counted as this request sees them: its own
\* line is written, the others are as they were read.
WriteLineDate(u, l) ==
    Begin(u, Dated(l, \A k \in Lines \ {l} : proc[k] \in {"NONE", "WRITTEN"}), NoType)

\* The date of a line, or another date for it.
SubmitLineDate(u, l) ==
    /\ Active({"SDMS_CREATED", "DATES_PARTIAL"})
    /\ proc[l] # "NONE"
    /\ WriteLineDate(u, l)

RequestSign(u) ==
    /\ Active({"DATES_COMPLETE"})
    /\ ~OfType(Sign, SignInFlight)
    /\ Begin(u, NoWrites, Sign)

FaultyCreateCheckReplyTask(u) ==
    /\ Active({"DATES_COMPLETE", "SIGN_REQUESTED"})
    /\ ~OfType(Archive, ArchiveSkip)
    /\ Begin(u, NoWrites, CheckReply)

\* A poll for the reply, by the timer or by the button.
CreateCheckReplyTask(u) ==
    /\ Active({"DATES_COMPLETE", "SIGN_REQUESTED"})
    /\ ~OfType(CheckReply, ReplyInFlight)
    /\ ~OfType(Archive, ArchiveSkip)
    /\ Begin(u, NoWrites, CheckReply)

FaultyArchiveSignedOrder(u) ==
    /\ Active({"SIGN_REQUESTED", "SIGNED"})
    /\ ~OfType(Archive, ArchiveSkip)
    /\ Begin(u, [stage |-> "SIGNED"], Archive)

\* By hand, once the reply is known.
ArchiveSignedOrder(u) ==
    /\ Active({"SIGNED"})
    /\ ~OfType(Archive, ArchiveSkip)
    /\ Begin(u, NoWrites, Archive)

CancelInstance(u) ==
    /\ proc.status \notin {"NONE", "COMPLETED", "CANCELLED"}
    /\ Begin(u, [status |-> "CANCELLED", stage |-> "FAILED"], NoType)

FaultyRetryInstance(u) ==
    /\ proc.status = "FAILED"
    /\ Begin(u, [status |-> "ACTIVE", stage |-> "CREATING_SDMS"], NoType)

RetryInstance(u) ==
    /\ proc.status = "FAILED"
    /\ IF HasLines
       THEN Begin(u, [status |-> "ACTIVE", stage |-> "SDMS_CREATED"], NoType)
       ELSE Begin(u, [status |-> "ACTIVE", stage |-> "CREATING_SDMS"], CreateSdms)

OrderRequest(u) ==
    \/ EnsurePrepareSubTask(u) \/ RequestSign(u) \/ CreateCheckReplyTask(u)
    \/ ArchiveSignedOrder(u) \/ CancelInstance(u) \/ RetryInstance(u)
    \/ \E l \in Lines : SubmitLineDate(u, l)

-----------------------------------------------------------------------------
(* on_sub_task_finished                                                    *)

FailInstance == [status |-> "FAILED", stage |-> "FAILED"]

\* The result is applied whatever became of the process meanwhile. A second
\* list of lines breaks a unique index, and the whole FINISH is rolled back.
HandleCreateSdmsFinished(t, o) ==
    \/ Finish(t, o, FailInstance, NoType, facts)   \* failed, or no list of lines
    \/ /\ o = "SUCCESS" /\ ~HasLines
       /\ Finish(t, o, [c \in Lines \cup {"stage"} |->
                            IF c \in Lines THEN "PENDING" ELSE "SIGN_REQUESTED"],
                 NoType, facts \cup {"ordered"})
    \/ /\ o = "SUCCESS"                            \* a list of unusable lines
       /\ Finish(t, o, [stage |-> "SIGN_REQUESTED"], NoType, facts \cup {"ordered"})

HandleSignFinished(t, o) ==
    \/ /\ o # "SUCCESS"
       /\ Finish(t, o, NoWrites, NoType, facts)
    \/ /\ o = "SUCCESS"
       /\ \E stage \in {"DATES_COMPLETE", "SIGN_REQUESTED"} :  \* dry run, signature asked for
             Finish(t, o, [stage |-> stage], NoType, facts)

\* The stage moves first; the archive task may then fail to be created.
TriggerArchiveIfNeeded(t) ==
    IF Active({"DATES_COMPLETE", "SIGN_REQUESTED", "SIGNED"})
    THEN \E next \in IF OfType(Archive, ArchiveSkip) THEN {NoType} ELSE {Archive, NoType} :
             Finish(t, "SUCCESS", [stage |-> "SIGNED"], next, facts \cup {"replied"})
    ELSE Finish(t, "SUCCESS", NoWrites, NoType, facts \cup {"replied"})

HandleCheckReplyFinished(t, o) ==
    \/ Finish(t, o, NoWrites, NoType, facts)       \* failed, or not signed yet
    \/ o = "SUCCESS" /\ TriggerArchiveIfNeeded(t)

HandleArchiveFinished(t, o) ==
    \/ /\ o # "SUCCESS"
       /\ Finish(t, o, NoWrites, NoType, facts)
    \/ /\ o = "SUCCESS"
       /\ Finish(t, o, [stage |-> "ARCHIVED", status |-> "COMPLETED"], NoType, facts)

OrderFinished(t, o) ==
    \/ taskType[t] = CreateSdms /\ HandleCreateSdmsFinished(t, o)
    \/ taskType[t] = Sign /\ HandleSignFinished(t, o)
    \/ taskType[t] = CheckReply /\ HandleCheckReplyFinished(t, o)
    \/ taskType[t] = Archive /\ HandleArchiveFinished(t, o)

OrderNext ==
    \/ CreateFromScan
    \/ \E u \in Callers : OrderRequest(u) \/ Commit(u)
    \/ \E t \in Tasks, o \in Reports : OrderFinished(t, o)
    \/ SubTaskStep({CreateSdms})

OrderSpec == OrderInit /\ [][OrderNext]_subTaskVars
-----------------------------------------------------------------------------
(* Correctness                                                             *)

OrderStages == {"NONE", "CREATING_SDMS", "SDMS_CREATED", "DATES_PARTIAL",
    "DATES_COMPLETE", "SIGN_REQUESTED", "SIGNED", "ARCHIVED", "FAILED"}

OrderTypeOK ==
    /\ DOMAIN proc = Columns
    /\ proc.status \in {"NONE", "ACTIVE", "FAILED", "CANCELLED", "COMPLETED"}
    /\ proc.stage \in OrderStages
    /\ \A l \in Lines : proc[l] \in {"NONE", "PENDING", "WRITTEN"}
    /\ taskType \in [Tasks -> OrderTypes \cup {NoType}]

\* Whatever cancelled, failed and retried processes' late results do, no step
\* of an order comes before the one it needs: nothing is signed or asked about
\* before the SDMS order exists, nothing is filed before the customer was seen
\* to have signed.
OrderSteps ==
    /\ OfType(Sign, LifeStatuses) \/ OfType(CheckReply, LifeStatuses) => "ordered" \in facts
    /\ OfType(Archive, LifeStatuses) \/ proc.stage \in {"SIGNED", "ARCHIVED"} => "replied" \in facts
    /\ proc.status = "COMPLETED" => OfType(Archive, {"SUCCESS"})

\* Through failures, retries, overlapping requests and late results, an order
\* being entered always has a sub-task that will decide it, unless none was ever
\* created (the next scan adds it). Two things take the sub-task away without the
\* order being told, and leave it in CREATING_SDMS until somebody cancels it: a
\* human at the task centre ("taken"), and a worker's poll that finds binding or
\* portal invalid ("dropped").
CreatingHasWork ==
    facts \cap {"taken", "dropped"} = {} /\ Active({"CREATING_SDMS"}) =>
        ~OfType(CreateSdms, LifeStatuses) \/ OfType(CreateSdms, {"QUEUED", "RUNNING"})

AtMostOne(type, statuses) ==
    \A t, u \in Tasks :
        /\ taskType[t] = type /\ taskStatus[t] \in statuses
        /\ taskType[u] = type /\ taskStatus[u] \in statuses
        => t = u

\* As long as no request writes over what changed behind its back, and the task
\* centre does not run a failed one again, the portal is never asked twice at
\* once for a signature, for the reply or for the contract, and no flow files
\* the contract again.
OneInFlight ==
    irregular = {} =>
        /\ AtMostOne(Sign, SignInFlight)
        /\ AtMostOne(CheckReply, ReplyInFlight)
        /\ AtMostOne(Archive, ReplyInFlight \cup {"SUCCESS"})

\* The requirement goes further: an archive task that is under way or has
\* succeeded is not repeated, and one that a human has opened is under way.
ArchiveNotRepeated ==
    irregular = {} => AtMostOne(Archive, ArchiveSkip \cup {"HUMAN_OPERATING"})

\* ... and an order whose last date was entered is not left waiting for dates.
DatesCounted ==
    Overlap \notin irregular /\ proc.stage = "DATES_PARTIAL" =>
        \E l \in Lines : proc[l] # "WRITTEN"
=============================================================================
