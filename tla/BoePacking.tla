----------------------------- MODULE BoePacking -----------------------------
(***************************************************************************)
(* Invoice packing lists of the BOE portal (srm_boe_invoice_packing), from *)
(* the delivery plan to the submitted document.  boe_packing_service.py:   *)
(* its requests, the timer that matches plans, and the handlers of its     *)
(* sub-tasks' results.                                                     *)
(***************************************************************************)
EXTENDS SubTasks

\* The summary is one JSON column, always written whole; all that control
\* depends on in it is srmDraftNo.
PackingColumns == {"status", "stage", "summary"}

PackingInit == Start([c \in PackingColumns |-> "NONE"])

Enrich      == "srm_boe_pack_enrich"
SaveDraft   == "srm_boe_pack_save_draft"
SubmitDoc   == "srm_boe_pack_submit"
DeleteDraft == "srm_boe_pack_delete_draft"

PackingTypes == {Enrich, SaveDraft, SubmitDoc, DeleteDraft}

PackingInFlight == {"QUEUED", "RUNNING", "WAITING_HUMAN"}

Busy(types) == \E t \in types : OfType(t, PackingInFlight)

\* The task of each stage, which a retry creates again.
TaskOfStage(stage) ==
    CASE stage = "ENRICH"         -> Enrich
      [] stage = "SAVE_DRAFT"     -> SaveDraft
      [] stage = "SUBMITTING"     -> SubmitDoc
      [] stage = "DELETING_DRAFT" -> DeleteDraft

HasDraft == proc.summary = "DRAFT"

\* _maybe_enqueue_rpa: not while one of the type is in flight.
Enqueued(type) == IF Busy({type}) THEN {NoType} ELSE {type}

\* ... with required=False: not without a binding either.
EnqueuedIfBound(type) == Enqueued(type) \cup {NoType}

-----------------------------------------------------------------------------
(* Requests                                                                *)

\* match_delivery_plans finds a new plan, and reads WMS at once.
MatchDeliveryPlans ==
    /\ proc.status = "NONE"
    /\ \/ Insert([status |-> "ACTIVE", stage |-> "FETCH_WMS"], NoType)
       \/ \E first \in EnqueuedIfBound(Enrich) :
             Insert([status |-> "ACTIVE", stage |-> "ENRICH"], first)

\* ... or the plan of an open process, and completes its summary.
MatchOpenPlan(u) ==
    /\ proc.status \notin {"NONE", "CANCELLED"}
    /\ Decide(u, [summary |-> proc.summary], NoType)

FetchWms(u) ==
    /\ proc.stage = "FETCH_WMS"
    /\ \/ Decide(u, [summary |-> proc.summary], NoType)   \* error, unmapped region
       \/ \E next \in EnqueuedIfBound(Enrich) :
             Decide(u, [summary |-> proc.summary, stage |-> "ENRICH"], next)

FaultyRetryPacking(u) ==
    \/ FetchWms(u)
    \/ /\ proc.stage \in {"ENRICH", "SAVE_DRAFT", "SUBMITTING", "DELETING_DRAFT"}
       /\ Begin(u, NoWrites, TaskOfStage(proc.stage))

\* The stage alone decides what can be retried.
RetryPacking(u) ==
    \/ FetchWms(u)
    \/ /\ proc.stage \in {"ENRICH", "SAVE_DRAFT", "SUBMITTING", "DELETING_DRAFT"}
       /\ ~Busy({TaskOfStage(proc.stage)})
       /\ Begin(u, NoWrites, TaskOfStage(proc.stage))

FaultyCancelPacking(u) ==
    /\ proc.status = "ACTIVE" /\ proc.stage # "DELETING_DRAFT"
    /\ IF HasDraft
       THEN \E next \in Enqueued(DeleteDraft) : Begin(u, [stage |-> "DELETING_DRAFT"], next)
       ELSE Begin(u, [status |-> "CANCELLED", stage |-> "CANCELLED"], NoType)

CancelPacking(u) ==
    /\ proc.status = "ACTIVE" /\ proc.stage # "DELETING_DRAFT"
    /\ ~Busy({Enrich, SaveDraft, SubmitDoc})
    /\ IF HasDraft
       THEN \E next \in Enqueued(DeleteDraft) : Begin(u, [stage |-> "DELETING_DRAFT"], next)
       ELSE Begin(u, [status |-> "CANCELLED", stage |-> "CANCELLED"], NoType)

\* Cancelling again while the draft is being deleted retries the deletion.
CancelAgain(u) ==
    /\ proc.status = "ACTIVE" /\ proc.stage = "DELETING_DRAFT"
    /\ ~Busy({DeleteDraft})
    /\ Begin(u, NoWrites, DeleteDraft)

\* Edits of header, lines and attachments rewrite the summary that was read.
PatchInstance(u) ==
    /\ proc.stage \in {"REVIEW", "SAVE_DRAFT"}
    /\ Decide(u, [summary |-> proc.summary], NoType)

FaultySubmitInstance(u) ==
    /\ proc.stage \in {"REVIEW", "SAVE_DRAFT"}
    /\ \E next \in Enqueued(SubmitDoc) : Begin(u, [stage |-> "SUBMITTING"], next)

\* Quantities, required fields and attachments checked.
SubmitInstance(u) ==
    /\ proc.stage = "REVIEW"
    /\ \E next \in Enqueued(SubmitDoc) : Begin(u, [stage |-> "SUBMITTING"], next)

PackingRequest(u) ==
    \/ MatchOpenPlan(u) \/ RetryPacking(u) \/ CancelPacking(u) \/ CancelAgain(u)
    \/ PatchInstance(u) \/ SubmitInstance(u)

-----------------------------------------------------------------------------
(* dispatch_finished                                                       *)

\* Results of a cancelled process, and of other tasks while its draft is being
\* deleted, change nothing.
Ignored(t) ==
    \/ proc.status = "CANCELLED"
    \/ proc.stage = "DELETING_DRAFT" /\ taskType[t] # DeleteDraft

Applied(t, writes) == IF Ignored(t) THEN NoWrites ELSE writes

OnEnrichFinished(t, o) ==
    \/ /\ o # "SUCCESS"
       /\ Finish(t, o, NoWrites, NoType, facts)
    \/ /\ o = "SUCCESS"
       /\ \E next \in IF Ignored(t) THEN {NoType} ELSE EnqueuedIfBound(SaveDraft) :
             Finish(t, o, Applied(t, [stage |-> "SAVE_DRAFT"]), next, facts)

\* Every success leaves a draft at the portal; its number may be missing from the
\* result, and then the summary does not tell of it.
OnSaveDraftFinished(t, o) ==
    \/ /\ o # "SUCCESS"
       /\ Finish(t, o, NoWrites, NoType, facts)
    \/ /\ o = "SUCCESS"
       /\ Finish(t, o, Applied(t, [stage |-> "REVIEW"]), NoType,
                 facts \cup {"saved", "draft", "unnumbered"})
    \/ /\ o = "SUCCESS"
       /\ Finish(t, o, Applied(t, [stage |-> "REVIEW", summary |-> "DRAFT"]), NoType,
                 facts \cup {"saved", "draft"})

OnSubmitFinished(t, o) ==
    \/ Finish(t, o, Applied(t, [stage |-> "REVIEW"]), NoType, facts)   \* failed, dry run
    \/ /\ o = "SUCCESS"
       /\ Finish(t, o, Applied(t, [stage |-> "SUBMITTED", status |-> "COMPLETED"]), NoType, facts)

\* SUCCESS: the draft of the number in the summary is deleted, or was not found.
OnDeleteDraftFinished(t, o) ==
    \/ /\ o # "SUCCESS"
       /\ Finish(t, o, NoWrites, NoType, facts)
    \/ /\ o = "SUCCESS"
       /\ Finish(t, o, Applied(t, [stage |-> "CANCELLED", status |-> "CANCELLED"]), NoType,
                 IF "unnumbered" \in facts THEN facts ELSE facts \ {"draft"})

PackingFinished(t, o) ==
    \/ taskType[t] = Enrich /\ OnEnrichFinished(t, o)
    \/ taskType[t] = SaveDraft /\ OnSaveDraftFinished(t, o)
    \/ taskType[t] = SubmitDoc /\ OnSubmitFinished(t, o)
    \/ taskType[t] = DeleteDraft /\ OnDeleteDraftFinished(t, o)

PackingNext ==
    \/ MatchDeliveryPlans
    \/ \E u \in Callers : PackingRequest(u) \/ Commit(u)
    \/ \E t \in Tasks, o \in Reports : PackingFinished(t, o)
    \/ SubTaskStep({})

PackingSpec == PackingInit /\ [][PackingNext]_subTaskVars

-----------------------------------------------------------------------------
(* Correctness                                                             *)

PackingTypeOK ==
    /\ DOMAIN proc = PackingColumns
    /\ proc.status \in {"NONE", "ACTIVE", "CANCELLED", "COMPLETED"}
    /\ proc.stage \in {"NONE", "FETCH_WMS", "ENRICH", "SAVE_DRAFT", "REVIEW",
                       "SUBMITTING", "SUBMITTED", "DELETING_DRAFT", "CANCELLED"}
    /\ proc.summary \in {"NONE", "DRAFT"}
    /\ taskType \in [Tasks -> PackingTypes \cup {NoType}]

\* Nothing is reviewed, submitted or deleted at the portal before a draft was
\* reported saved there, whatever stages late results move the process to.
PackingSteps ==
    OfType(SubmitDoc, LifeStatuses) \/ OfType(DeleteDraft, LifeStatuses)
        \/ proc.stage \in {"REVIEW", "SUBMITTING", "SUBMITTED", "DELETING_DRAFT"}
    => "saved" \in facts

\* A cancelled packing list leaves no draft at the portal of those reported saved.
\* Three things do leave one: a save that succeeds without a number
\* ("unnumbered"), which a cancellation takes for no draft; a request that
\* overlaps with a change (an edit made while the draft is saved rewrites the
\* summary without its number); and a failed task that is run again.
CancelledHasNoDraft ==
    irregular = {} /\ "unnumbered" \notin facts /\ proc.status = "CANCELLED" =>
        "draft" \notin facts

\* ... and then the portal is worked on by one task at a time, the one of the
\* stage the process is in, and a submitted document is not worked on at all.
TaskOfItsStage ==
    irregular = {} =>
        /\ \A t \in Tasks :
              taskType[t] # NoType /\ taskStatus[t] \in {"QUEUED", "RUNNING"} =>
                  /\ proc.stage \in {"ENRICH", "SAVE_DRAFT", "SUBMITTING", "DELETING_DRAFT"}
                  /\ taskType[t] = TaskOfStage(proc.stage)
                  /\ \A k \in Tasks : taskStatus[k] \in {"QUEUED", "RUNNING"} => k = t
        /\ proc.status = "COMPLETED" <=> proc.stage = "SUBMITTED"
=============================================================================
