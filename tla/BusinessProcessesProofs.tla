----------------------- MODULE BusinessProcessesProofs -----------------------
(***************************************************************************)
(* Proofs about BusinessProcesses, for any number of sub-tasks, requests   *)
(* under way and order lines.  For each kind of process: no step is taken  *)
(* at the portal before the one it needs, in whatever order results come   *)
(* in, and whatever requests that read an older state still write.         *)
(***************************************************************************)
EXTENDS BusinessProcesses, TLAPS

-----------------------------------------------------------------------------
(* Packing lists                                                           *)

LateStages == {"REVIEW", "SUBMITTING", "SUBMITTED", "DELETING_DRAFT"}
LateTypes  == {B!SubmitDoc, B!DeleteDraft}

\* The value x of column c says that a draft was saved.
TellsOfDraft(c, x) == (c = "stage" /\ x \in LateStages) \/ (c = "summary" /\ x = "DRAFT")

\* What a request is about to do was justified when it read the process.
PackingJustified(writes, type) ==
    \/ "saved" \in facts
    \/ type \notin LateTypes /\ \A c \in DOMAIN writes : ~TellsOfDraft(c, writes[c])

PackingInv ==
    /\ DOMAIN proc = B!PackingColumns
    /\ taskType = [t \in Tasks |-> taskType[t]]
    /\ request = [u \in Callers |-> request[u]]
    /\ \A u \in Callers : PackingJustified(request[u].writes, request[u].type)
    /\ (\E t \in Tasks : taskType[t] \in LateTypes) => "saved" \in facts
    /\ (\E c \in B!PackingColumns : TellsOfDraft(c, proc[c])) => "saved" \in facts

LEMMA PackingInvInit == B!PackingInit => PackingInv
BY NamesAssumption
   DEF B!PackingInit, B!Start, B!Idle, B!NoWrites, PackingInv, PackingJustified, TellsOfDraft, LateTypes,
       LateStages, B!PackingTypes, B!PackingColumns

\* A write with a sub-task, when both are justified by what is a fact afterwards.
LEMMA PackingWrite ==
    ASSUME PackingInv, NEW writes, NEW type, NEW statuses, NEW done,
           proc' = B!Flushed(writes), B!NewTask(type, statuses), request' = B!Requests(done),
           "saved" \in facts => "saved" \in facts',
           PackingJustified(writes, type)'
    PROVE  PackingInv'
<1>1. /\ DOMAIN proc' = B!PackingColumns
      /\ \A c \in B!PackingColumns : proc'[c] = IF c \in DOMAIN writes THEN writes[c] ELSE proc[c]
    BY DEF PackingInv, B!Flushed
<1>2. (\E c \in B!PackingColumns : TellsOfDraft(c, proc'[c])) => "saved" \in facts'
    BY <1>1 DEF PackingInv, PackingJustified
<1>3. /\ taskType' = [t \in Tasks |-> taskType'[t]]
      /\ \A t \in Tasks : taskType'[t] = taskType[t] \/ (taskType'[t] = type /\ type # NoType)
    BY DEF PackingInv, B!NewTask, B!CreateSubTask
<1>4. /\ request' = [u \in Callers |-> request'[u]]
      /\ \A u \in Callers : \/ request'[u].writes = request[u].writes /\ request'[u].type = request[u].type
                            \/ request'[u].writes = << >> /\ request'[u].type = NoType
    BY DEF B!Requests, B!Idle, B!NoWrites
<1>5. \A u \in Callers : PackingJustified(request[u].writes, request[u].type)'
    BY <1>4, NamesAssumption DEF PackingInv, PackingJustified, LateTypes, B!PackingTypes
<1>6. QED
    BY <1>1, <1>2, <1>3, <1>4, <1>5 DEF PackingInv, PackingJustified

LEMMA PackingDecide ==
    ASSUME PackingInv, NEW u \in Callers, NEW writes, NEW type, B!Decide(u, writes, type),
           PackingJustified(writes, type)
    PROVE  PackingInv'
<1>1. /\ request' = [request EXCEPT ![u] = [writes |-> writes, type |-> type, fresh |-> TRUE]]
      /\ UNCHANGED <<proc, taskType, facts>>
    BY DEF B!Decide
<1>2. request' = [k \in Callers |-> request'[k]]
    BY <1>1 DEF PackingInv
<1>3. \A k \in Callers : PackingJustified(request[k].writes, request[k].type)'
    BY <1>1 DEF PackingInv, PackingJustified
<1>4. QED
    BY <1>1, <1>2, <1>3 DEF PackingInv

\* Leaving out columns that keep their value makes no request less justified.
LEMMA PackingBegin ==
    ASSUME PackingInv, NEW u \in Callers, NEW writes, NEW type, B!Begin(u, writes, type),
           PackingJustified(writes, type)
    PROVE  PackingInv'
<1>1. PackingJustified(B!Dirty(writes), type)
    BY DEF PackingJustified, B!Dirty
<1>2. QED
    BY <1>1, PackingDecide DEF B!Begin

LEMMA PackingRequestStep ==
    ASSUME PackingInv, NEW u \in Callers, B!PackingRequest(u)
    PROVE  PackingInv'
<1>1. "saved" \notin facts => proc.stage \notin LateStages /\ proc.summary # "DRAFT"
    BY DEF PackingInv, TellsOfDraft, B!PackingColumns
<1> USE DEF PackingJustified, TellsOfDraft, LateTypes, LateStages, B!PackingTypes, B!Enrich, B!SaveDraft,
            B!SubmitDoc, B!DeleteDraft, B!NoWrites
<1>2. CASE B!MatchOpenPlan(u) \/ B!PatchInstance(u)
  <2>1. B!Decide(u, [summary |-> proc.summary], NoType)
      BY <1>2 DEF B!MatchOpenPlan, B!PatchInstance
  <2>2. PackingJustified([summary |-> proc.summary], NoType)
      BY <1>1, NamesAssumption
  <2>3. QED
      BY <2>1, <2>2, PackingDecide
<1>3. CASE B!FetchWms(u)
  <2>1. PICK writes \in {[summary |-> proc.summary], [summary |-> proc.summary, stage |-> "ENRICH"]},
             next \in {B!Enrich, NoType} : B!Decide(u, writes, next)
      BY <1>3 DEF B!FetchWms, B!EnqueuedIfBound, B!Enqueued
  <2>2. PackingJustified(writes, next)
      BY <1>1, NamesAssumption
  <2>3. QED
      BY <2>1, <2>2, PackingDecide
<1>4. CASE /\ proc.stage \in {"ENRICH", "SAVE_DRAFT", "SUBMITTING", "DELETING_DRAFT"}
           /\ B!Begin(u, B!NoWrites, B!TaskOfStage(proc.stage))
  <2>1. PackingJustified(B!NoWrites, B!TaskOfStage(proc.stage))
      BY <1>1, <1>4 DEF B!TaskOfStage
  <2>2. QED
      BY <1>4, <2>1, PackingBegin
<1>5. CASE B!CancelPacking(u)
  <2>1. CASE B!HasDraft
    <3>1. PICK next : B!Begin(u, [stage |-> "DELETING_DRAFT"], next)
        BY <1>5, <2>1 DEF B!CancelPacking
    <3>2. PackingJustified([stage |-> "DELETING_DRAFT"], next)
        BY <1>1, <2>1 DEF B!HasDraft
    <3>3. QED
        BY <3>1, <3>2, PackingBegin
  <2>2. CASE ~B!HasDraft
    <3>1. B!Begin(u, [status |-> "CANCELLED", stage |-> "CANCELLED"], NoType)
        BY <1>5, <2>2 DEF B!CancelPacking
    <3>2. PackingJustified([status |-> "CANCELLED", stage |-> "CANCELLED"], NoType)
        BY NamesAssumption
    <3>3. QED
        BY <3>1, <3>2, PackingBegin
  <2>3. QED
      BY <2>1, <2>2
<1>6. CASE B!CancelAgain(u)
  <2>1. B!Begin(u, B!NoWrites, B!DeleteDraft) /\ "saved" \in facts
      BY <1>1, <1>6 DEF B!CancelAgain
  <2>2. QED
      BY <2>1, PackingBegin
<1>7. CASE B!SubmitInstance(u)
  <2>1. PICK next : B!Begin(u, [stage |-> "SUBMITTING"], next)
      BY <1>7 DEF B!SubmitInstance
  <2>2. "saved" \in facts
      BY <1>1, <1>7 DEF B!SubmitInstance
  <2>3. QED
      BY <2>1, <2>2, PackingBegin
<1>8. QED
    BY <1>2, <1>3, <1>4, <1>5, <1>6, <1>7 DEF B!PackingRequest, B!RetryPacking

LEMMA PackingFinish ==
    ASSUME PackingInv, NEW t, NEW o, NEW writes, NEW next, NEW done,
           B!Finish(t, o, writes, next, done), "saved" \in facts => "saved" \in done,
           \/ "saved" \in done
           \/ next \notin LateTypes /\ \A c \in DOMAIN writes : ~TellsOfDraft(c, writes[c])
    PROVE  PackingInv'
<1>1. /\ proc' = B!Flushed(writes) /\ B!NewTask(next, B!Reported(t, o))
      /\ request' = B!Requests({}) /\ facts' = done
    BY DEF B!Finish
<1>2. PackingJustified(writes, next)'
    BY <1>1 DEF PackingJustified
<1>3. QED
    BY <1>1, <1>2, PackingWrite

\* A draft is a fact by the time anything after it can be reported.
LEMMA PackingFinishedStep ==
    ASSUME PackingInv, NEW t \in Tasks, NEW o, B!PackingFinished(t, o)
    PROVE  PackingInv'
<1> USE NamesAssumption
        DEF LateTypes, TellsOfDraft, LateStages, B!PackingTypes, B!Enrich, B!SaveDraft, B!SubmitDoc,
            B!DeleteDraft
<1>1. taskType[t] \in LateTypes => "saved" \in facts
    BY DEF PackingInv
<1>2. \A writes : B!Applied(t, writes) \in {writes, << >>} /\ DOMAIN B!NoWrites = {}
    BY DEF B!Applied, B!NoWrites
<1>3. CASE taskType[t] = B!Enrich /\ B!OnEnrichFinished(t, o)
  <2>1. PICK writes \in {B!NoWrites, B!Applied(t, [stage |-> "SAVE_DRAFT"])},
             next \in {NoType, B!SaveDraft} : B!Finish(t, o, writes, next, facts)
      BY <1>3 DEF B!OnEnrichFinished, B!EnqueuedIfBound, B!Enqueued
  <2>2. \A c \in DOMAIN writes : ~TellsOfDraft(c, writes[c])
      BY <1>2 DEF B!NoWrites
  <2>3. QED
      BY <2>1, <2>2, PackingFinish
<1>4. CASE taskType[t] = B!SaveDraft /\ B!OnSaveDraftFinished(t, o)
  <2>1. CASE B!Finish(t, o, B!NoWrites, NoType, facts)
      BY <1>2, <2>1, PackingFinish
  <2>2. ASSUME NEW writes, NEW done, B!Finish(t, o, writes, NoType, facts \cup done), "saved" \in done
        PROVE  PackingInv'
      BY <2>2, PackingFinish
  <2>3. QED
      BY <1>4, <2>1, <2>2 DEF B!OnSaveDraftFinished
<1>5. CASE taskType[t] = B!SubmitDoc /\ B!OnSubmitFinished(t, o)
  <2>1. PICK writes : B!Finish(t, o, writes, NoType, facts)
      BY <1>5 DEF B!OnSubmitFinished
  <2>2. "saved" \in facts
      BY <1>1, <1>5
  <2>3. QED
      BY <2>1, <2>2, PackingFinish
<1>6. CASE taskType[t] = B!DeleteDraft /\ B!OnDeleteDraftFinished(t, o)
  <2>1. /\ "saved" \in facts
        /\ "saved" \in IF "unnumbered" \in facts THEN facts ELSE facts \ {"draft"}
      BY <1>1, <1>6
  <2>2. ASSUME NEW writes, NEW done, B!Finish(t, o, writes, NoType, done), "saved" \in done PROVE PackingInv'
      BY <2>2, PackingFinish
  <2>3. QED
      BY <1>6, <2>1, <2>2 DEF B!OnDeleteDraftFinished
<1>7. QED
    BY <1>3, <1>4, <1>5, <1>6 DEF B!PackingFinished

LEMMA PackingInvStep == PackingInv /\ B!PackingNext => PackingInv'
<1> SUFFICES ASSUME PackingInv, B!PackingNext PROVE PackingInv'
    OBVIOUS
<1> USE NamesAssumption
<1>1. CASE B!MatchDeliveryPlans
  <2>1. PICK writes \in {[status |-> "ACTIVE", stage |-> "FETCH_WMS"], [status |-> "ACTIVE", stage |-> "ENRICH"]},
             next \in {NoType, B!Enrich} : B!Insert(writes, next)
      BY <1>1 DEF B!MatchDeliveryPlans, B!EnqueuedIfBound, B!Enqueued
  <2>2. PackingJustified(writes, next)
      BY DEF PackingJustified, TellsOfDraft, LateStages, LateTypes, B!Enrich, B!SubmitDoc, B!DeleteDraft,
             B!PackingTypes
  <2>3. /\ proc' = B!Flushed(writes) /\ B!NewTask(next, taskStatus)
        /\ request' = B!Requests({}) /\ facts' = facts
      BY <2>1 DEF B!Insert
  <2>4. PackingJustified(writes, next)'
      BY <2>2, <2>3 DEF PackingJustified
  <2>5. QED
      BY <2>3, <2>4, PackingWrite
<1>2. ASSUME NEW u \in Callers, B!Commit(u) PROVE PackingInv'
  <2>1. PICK writes, type : writes = request[u].writes /\ type = request[u].type
      OBVIOUS
  <2>2. /\ proc' = B!Flushed(writes) /\ B!NewTask(type, taskStatus)
        /\ request' = B!Requests({u}) /\ facts' = facts
      BY <1>2, <2>1 DEF B!Commit
  <2>3. PackingJustified(writes, type)'
      BY <2>1, <2>2 DEF PackingInv, PackingJustified
  <2>4. QED
      BY <2>2, <2>3, PackingWrite
<1>3. CASE B!SubTaskStep({})
  <2>1. UNCHANGED <<proc, taskType, request>> /\ facts \subseteq facts'
      BY <1>3 DEF B!SubTaskStep, B!Polled, B!AtTaskCentre
  <2>2. QED
      BY <2>1 DEF PackingInv, PackingJustified
<1>4. QED
    BY <1>1, <1>2, <1>3, PackingRequestStep, PackingFinishedStep DEF B!PackingNext

-----------------------------------------------------------------------------
(* Statements                                                              *)

CheckStatuses == {"DRAFT", "UNCHECKED", "CHECKED", "VOID"}

\* The facts that the value x of column c tells of.
TellsOfBill(c, x) ==
    /\ c = "check" => x \in CheckStatuses
    /\ c = "check" /\ x \in {"UNCHECKED", "CHECKED"} => "generated" \in facts
    /\ c = "check" /\ x = "CHECKED" => "scanned" \in facts
    /\ c = "number" /\ x = "SCANNED" => "scanned" \in facts

StatementJustified(writes, type) ==
    /\ type = S!Upload => "generated" \in facts
    /\ type = S!Submit => "scanned" \in facts
    /\ \A c \in DOMAIN writes : TellsOfBill(c, writes[c])

\* Nothing happens before there is a bill.
BeforeBill ==
    proc["check"] = "NONE" =>
        /\ proc["status"] = "NONE"
        /\ \A t \in Tasks : taskType[t] = NoType
        /\ \A u \in Callers : request[u] = S!Idle

StatementInv ==
    /\ DOMAIN proc = S!BillColumns
    /\ taskType = [t \in Tasks |-> taskType[t]]
    /\ request = [u \in Callers |-> request[u]]
    /\ "scanned" \in facts => "generated" \in facts
    /\ \A u \in Callers : StatementJustified(request[u].writes, request[u].type)
    /\ \A t \in Tasks : taskType[t] = S!Upload => "generated" \in facts
    /\ \A t \in Tasks : taskType[t] = S!Submit => "scanned" \in facts
    /\ \A c \in S!BillColumns : TellsOfBill(c, proc[c]) \/ (c = "check" /\ proc[c] = "NONE")
    /\ BeforeBill

LEMMA StatementInvInit == S!StatementInit => StatementInv
BY NamesAssumption
   DEF S!StatementInit, S!Start, S!Idle, S!NoWrites, StatementInv, StatementJustified, TellsOfBill,
       BeforeBill, S!StatementTypes, S!BillColumns

LEMMA StatementWrite ==
    ASSUME StatementInv, NEW writes, NEW type, NEW statuses, NEW done,
           proc' = S!Flushed(writes), S!NewTask(type, statuses), request' = S!Requests(done),
           facts \subseteq facts', "scanned" \in facts' => "generated" \in facts',
           StatementJustified(writes, type)',
           proc["check"] # "NONE" \/ "check" \in DOMAIN writes
    PROVE  StatementInv'
<1>1. /\ DOMAIN proc' = S!BillColumns
      /\ \A c \in S!BillColumns : proc'[c] = IF c \in DOMAIN writes THEN writes[c] ELSE proc[c]
    BY DEF StatementInv, S!Flushed
<1>2. \A c, x : TellsOfBill(c, x) => TellsOfBill(c, x)'
    BY DEF TellsOfBill
<1>3. proc'["check"] # "NONE" /\ \A c \in S!BillColumns : TellsOfBill(c, proc[c])'
  <2>1. "check" \in S!BillColumns
      BY DEF S!BillColumns
  <2>2. ASSUME "check" \in DOMAIN writes PROVE writes["check"] # "NONE"
      BY <2>2 DEF StatementJustified, TellsOfBill, CheckStatuses
  <2>3. QED
      BY <1>1, <1>2, <2>1, <2>2 DEF StatementInv, StatementJustified
<1>4. /\ taskType' = [t \in Tasks |-> taskType'[t]]
      /\ \A t \in Tasks : taskType'[t] = taskType[t] \/ (taskType'[t] = type /\ type # NoType)
    BY DEF StatementInv, S!NewTask, S!CreateSubTask
<1>5. /\ request' = [u \in Callers |-> request'[u]]
      /\ \A u \in Callers : \/ request'[u].writes = request[u].writes /\ request'[u].type = request[u].type
                            \/ request'[u].writes = << >> /\ request'[u].type = NoType
    BY DEF S!Requests, S!Idle, S!NoWrites
<1>6. \A u \in Callers : StatementJustified(request[u].writes, request[u].type)'
    BY <1>2, <1>5, NamesAssumption DEF StatementInv, StatementJustified, S!StatementTypes
<1>7. QED
    BY <1>1, <1>3, <1>4, <1>5, <1>6 DEF StatementInv, StatementJustified, BeforeBill

LEMMA StatementBegin ==
    ASSUME StatementInv, NEW u \in Callers, NEW writes, NEW type, S!Begin(u, writes, type),
           StatementJustified(writes, type), proc["check"] # "NONE"
    PROVE  StatementInv'
<1> DEFINE dirty == S!Dirty(writes)
<1>1. StatementJustified(dirty, type)
    BY DEF StatementJustified, S!Dirty
<1>2. /\ request' = [request EXCEPT ![u] = [writes |-> dirty, type |-> type, fresh |-> TRUE]]
      /\ UNCHANGED <<proc, taskType, facts>>
    BY DEF S!Begin, S!Decide
<1> HIDE DEF dirty
<1>3. request' = [k \in Callers |-> request'[k]]
    BY <1>2 DEF StatementInv
<1>4. ASSUME NEW k \in Callers PROVE StatementJustified(request[k].writes, request[k].type)'
  <2>1. PICK w, y : w = request'[k].writes /\ y = request'[k].type
      OBVIOUS
  <2>2. StatementJustified(w, y)
      BY <1>1, <1>2, <2>1 DEF StatementInv
  <2>3. QED
      BY <1>2, <2>1, <2>2 DEF StatementJustified, TellsOfBill
<1>5. QED
    BY <1>2, <1>3, <1>4 DEF StatementInv, BeforeBill, TellsOfBill

\* A request for a bill was refused, or was about a bill the facts explain.
LEMMA StatementRequestStep ==
    ASSUME StatementInv, NEW u \in Callers, S!StatementRequest(u)
    PROVE  StatementInv'
<1>1. /\ proc.check = "NONE" => proc.status = "NONE"
      /\ proc.check \in {"UNCHECKED", "CHECKED"} => "generated" \in facts
      /\ proc.number = "SCANNED" => "scanned" \in facts
      /\ proc.check \in CheckStatuses \cup {"NONE"}
    BY DEF StatementInv, BeforeBill, TellsOfBill, S!BillColumns
<1> USE NamesAssumption
        DEF StatementJustified, TellsOfBill, CheckStatuses, S!StatementTypes, S!Generate, S!Upload, S!Submit,
            S!NoWrites
<1>2. CASE S!Regenerate(u)
  <2>1. S!Begin(u, [status |-> "ACTIVE", stage |-> "STMT_GENERATING"], S!Generate) /\ proc.check = "DRAFT"
      BY <1>2 DEF S!Regenerate
  <2>2. StatementJustified([status |-> "ACTIVE", stage |-> "STMT_GENERATING"], S!Generate)
      OBVIOUS
  <2>3. QED
      BY <2>1, <2>2, StatementBegin
<1>3. CASE S!UploadInvoice(u)
  <2>1. S!Begin(u, S!NoWrites, S!Upload) /\ proc.check \in {"UNCHECKED", "CHECKED"}
      BY <1>1, <1>3 DEF S!UploadInvoice, S!Exists
  <2>2. StatementJustified(S!NoWrites, S!Upload)
      BY <1>1, <2>1
  <2>3. QED
      BY <2>1, <2>2, StatementBegin
<1>4. CASE S!SubmitReview(u)
  <2>1. S!Begin(u, S!NoWrites, S!Submit) /\ proc.check # "NONE" /\ proc.number = "SCANNED"
      BY <1>1, <1>4 DEF S!SubmitReview, S!Exists
  <2>2. StatementJustified(S!NoWrites, S!Submit)
      BY <1>1, <2>1
  <2>3. QED
      BY <2>1, <2>2, StatementBegin
<1>5. CASE S!DeleteInvoiceFile(u)
  <2>1. S!Begin(u, [number |-> "NONE", invoice |-> "NOT_UPLOADED"], NoType) /\ proc.check # "NONE"
      BY <1>1, <1>5 DEF S!DeleteInvoiceFile, S!Exists
  <2>2. StatementJustified([number |-> "NONE", invoice |-> "NOT_UPLOADED"], NoType)
      OBVIOUS
  <2>3. QED
      BY <2>1, <2>2, StatementBegin
<1>6. CASE S!CancelStatement(u)
  <2> DEFINE writes == [check |-> "VOID", status |-> "CANCELLED", stage |-> "STMT_CANCELLED"]
  <2>1. S!Begin(u, writes, NoType) /\ proc.check # "NONE"
      BY <1>1, <1>6 DEF S!CancelStatement, S!Exists
  <2>2. StatementJustified(writes, NoType)
      OBVIOUS
  <2>3. QED
      BY <2>1, <2>2, StatementBegin
<1>7. QED
    BY <1>2, <1>3, <1>4, <1>5, <1>6 DEF S!StatementRequest

LEMMA StatementFinish ==
    ASSUME StatementInv, NEW t \in Tasks, taskType[t] # NoType, NEW o, NEW writes, NEW told,
           S!Finish(t, o, writes, NoType, told),
           facts \subseteq told, "scanned" \in told => "generated" \in told,
           \A c \in DOMAIN writes :
              /\ c = "check" => writes[c] \in CheckStatuses
              /\ c = "check" /\ writes[c] \in {"UNCHECKED", "CHECKED"} => "generated" \in told
              /\ c = "check" /\ writes[c] = "CHECKED" => "scanned" \in told
              /\ c = "number" /\ writes[c] = "SCANNED" => "scanned" \in told
    PROVE  StatementInv'
<1>1. /\ proc' = S!Flushed(writes) /\ S!NewTask(NoType, S!Reported(t, o))
      /\ request' = S!Requests({}) /\ facts' = told
    BY DEF S!Finish
<1>2. StatementJustified(writes, NoType)'
    BY <1>1, NamesAssumption DEF StatementJustified, TellsOfBill, S!StatementTypes
<1>3. proc["check"] # "NONE"
    BY DEF StatementInv, BeforeBill
<1>4. QED
    BY <1>1, <1>2, <1>3, StatementWrite

\* A result tells of what its own task did, and the task was created on facts.
LEMMA StatementFinishedStep ==
    ASSUME StatementInv, NEW t \in Tasks, NEW o, S!StatementFinished(t, o)
    PROVE  StatementInv'
<1>1. /\ taskType[t] \in S!StatementTypes /\ taskType[t] # NoType
      /\ taskType[t] = S!Upload => "generated" \in facts
      /\ taskType[t] = S!Submit => "scanned" \in facts /\ "generated" \in facts
      /\ "scanned" \in facts => "generated" \in facts
    BY NamesAssumption DEF StatementInv, S!StatementFinished, S!StatementTypes
<1> USE DEF CheckStatuses, S!NoWrites
<1>2. ASSUME S!Finish(t, o, S!NoWrites, NoType, facts) PROVE StatementInv'
    BY <1>1, <1>2, StatementFinish
<1>3. ASSUME S!OnGenerateFinished(t, o) PROVE StatementInv'
  <2>1. CASE S!Finish(t, o, [status |-> "ACTIVE"], NoType, S!Reactivated)
      BY <1>1, <2>1, StatementFinish DEF S!Reactivated
  <2>2. CASE S!Finish(t, o, [status |-> "ACTIVE", check |-> "DRAFT"], NoType, facts)
      BY <1>1, <2>2, StatementFinish
  <2>3. CASE S!Finish(t, o, [check |-> "UNCHECKED", status |-> "ACTIVE", stage |-> "STMT_PENDING_INVOICE"],
                      NoType, facts \cup {"generated"})
      BY <1>1, <2>3, StatementFinish
  <2>4. QED
      BY <1>2, <1>3, <2>1, <2>2, <2>3 DEF S!OnGenerateFinished
<1>4. ASSUME taskType[t] = S!Upload, S!OnUploadFinished(t, o) PROVE StatementInv'
  <2>1. CASE S!Finish(t, o, [number |-> "SCANNED", invoice |-> "UPLOADED",
                             check |-> "UNCHECKED", status |-> "ACTIVE"],
                      NoType, facts \cup {"scanned"})
      BY <1>1, <1>4, <2>1, StatementFinish
  <2>2. QED
      BY <1>2, <1>4, <2>1 DEF S!OnUploadFinished
<1>5. ASSUME taskType[t] = S!Submit, S!OnSubmitFinished(t, o) PROVE StatementInv'
  <2>1. CASE S!Finish(t, o, [check |-> "UNCHECKED", invoice |-> "NOT_UPLOADED", status |-> "ACTIVE"],
                      NoType, facts)
      BY <1>1, <1>5, <2>1, StatementFinish
  <2>2. ASSUME NEW number \in {"SCANNED", "NONE"}, S!Finish(t, o, S!Submitted(number), NoType, facts)
        PROVE  StatementInv'
      BY <1>1, <1>5, <2>2, StatementFinish DEF S!Submitted
  <2>3. QED
      BY <1>2, <1>5, <2>1, <2>2 DEF S!OnSubmitFinished
<1>6. QED
    BY <1>3, <1>4, <1>5 DEF S!StatementFinished

LEMMA StatementInvStep == StatementInv /\ S!StatementNext => StatementInv'
<1> SUFFICES ASSUME StatementInv, S!StatementNext PROVE StatementInv'
    OBVIOUS
<1> USE NamesAssumption
<1>1. CASE S!NewBill
  <2> DEFINE writes == [status |-> "ACTIVE", stage |-> "STMT_GENERATING", check |-> "DRAFT",
                        invoice |-> "NOT_UPLOADED"]
  <2>1. /\ proc' = S!Flushed(writes) /\ S!NewTask(S!Generate, taskStatus)
        /\ request' = S!Requests({}) /\ facts' = facts
      BY <1>1 DEF S!NewBill, S!Insert
  <2>2. StatementJustified(writes, S!Generate)'
      BY DEF StatementJustified, TellsOfBill, CheckStatuses, S!Generate, S!Upload, S!Submit
  <2>3. "check" \in DOMAIN writes
      OBVIOUS
  <2>4. "scanned" \in facts' => "generated" \in facts'
      BY <2>1 DEF StatementInv
  <2> HIDE DEF writes
  <2>5. QED
      BY <2>1, <2>2, <2>3, <2>4, StatementWrite
<1>2. ASSUME NEW u \in Callers, S!Commit(u) PROVE StatementInv'
  <2>1. PICK writes, type : writes = request[u].writes /\ type = request[u].type
      OBVIOUS
  <2>2. /\ proc' = S!Flushed(writes) /\ S!NewTask(type, taskStatus)
        /\ request' = S!Requests({u}) /\ facts' = facts
      BY <1>2, <2>1 DEF S!Commit
  <2>3. StatementJustified(writes, type)'
      BY <2>1, <2>2 DEF StatementInv, StatementJustified, TellsOfBill
  <2>4. proc["check"] # "NONE"
      BY <1>2 DEF S!Commit, StatementInv, BeforeBill
  <2>5. "scanned" \in facts' => "generated" \in facts'
      BY <2>2 DEF StatementInv
  <2>6. QED
      BY <2>2, <2>3, <2>4, <2>5, StatementWrite
<1>3. CASE S!SubTaskStep({})
  <2>1. UNCHANGED <<proc, taskType, request, facts>>
      BY <1>3 DEF S!SubTaskStep, S!Polled, S!AtTaskCentre
  <2>2. QED
      BY <2>1 DEF StatementInv, StatementJustified, TellsOfBill, BeforeBill
<1>4. QED
    BY <1>1, <1>2, <1>3, StatementRequestStep, StatementFinishedStep DEF S!StatementNext

-----------------------------------------------------------------------------
(* Statements: how a bill and its process end.  A request whose process has *)
(* not changed since it was read writes what agrees with it; any other sets *)
(* Overlap as it commits.                                                  *)

\* The columns p tell one story, as far as the facts in known do not excuse them.
BillAgrees(p, known) ==
    /\ p["check"] = "CHECKED" =>
          p["stage"] = "STMT_SUBMITTED" /\ (p["status"] = "COMPLETED" \/ "reactivated" \in known)
    /\ p["check"] = "VOID" =>
          p["stage"] = "STMT_CANCELLED" /\ (p["status"] = "CANCELLED" \/ "reactivated" \in known)
    /\ p["status"] = "COMPLETED" => p["check"] = "CHECKED"
    /\ p["status"] = "CANCELLED" => p["check"] = "VOID"

BillInv ==
    /\ DOMAIN proc = S!BillColumns
    /\ request = [u \in Callers |-> request[u]]
    /\ Overlap \notin irregular =>
          /\ BillAgrees(proc, facts)
          /\ \A u \in Callers : request[u].fresh => BillAgrees(S!Flushed(request[u].writes), facts)

LEMMA BillInvInit == S!StatementInit => BillInv
<1> SUFFICES ASSUME S!StatementInit PROVE BillInv
    OBVIOUS
<1>1. /\ DOMAIN proc = S!BillColumns /\ \A c \in S!BillColumns : proc[c] = "NONE"
      /\ request = [u \in Callers |-> [writes |-> << >>, type |-> NoType, fresh |-> TRUE]]
    BY DEF S!StatementInit, S!Start, S!Idle, S!NoWrites
<1>2. proc["check"] = "NONE" /\ proc["status"] = "NONE" /\ {"check", "status"} \subseteq S!BillColumns
    BY <1>1 DEF S!BillColumns
<1>3. S!Flushed(<< >>)["check"] = "NONE" /\ S!Flushed(<< >>)["status"] = "NONE"
    BY <1>1, <1>2 DEF S!Flushed
<1>4. QED
    BY <1>1, <1>2, <1>3 DEF BillInv, BillAgrees

\* What a transaction that is not a request's own leaves to the others.
LEMMA BillWrite ==
    ASSUME BillInv, NEW writes, NEW done, proc' = S!Flushed(writes), request' = S!Requests(done),
           irregular \subseteq irregular', facts \subseteq facts',
           Overlap \notin irregular' => BillAgrees(S!Flushed(writes), facts')
    PROVE  BillInv'
<1>1. DOMAIN proc' = S!BillColumns
    BY DEF BillInv, S!Flushed
<1>2. request' = [u \in Callers |-> request'[u]]
    BY DEF S!Requests
<1>3. ASSUME Overlap \notin irregular', NEW u \in Callers, request'[u].fresh
      PROVE  BillAgrees(S!Flushed(request[u].writes), facts)'
  <2>1. CASE request'[u] = S!Idle
    <3>1. request'[u].writes = << >>
        BY <2>1 DEF S!Idle, S!NoWrites
    <3>2. {"check", "stage", "status"} \subseteq DOMAIN proc'
        BY <1>1 DEF S!BillColumns
    <3>3. /\ S!Flushed(request[u].writes)'["check"] = proc'["check"]
          /\ S!Flushed(request[u].writes)'["stage"] = proc'["stage"]
          /\ S!Flushed(request[u].writes)'["status"] = proc'["status"]
        BY <3>1, <3>2 DEF S!Flushed
    <3>4. QED
        BY <1>3, <3>3 DEF BillAgrees
  <2>2. CASE request'[u] = request[u] /\ proc' = proc
      BY <1>3, <2>2 DEF BillInv, BillAgrees, S!Flushed
  <2>3. QED
      BY <1>3, <2>1, <2>2 DEF S!Requests
<1>4. QED
    BY <1>1, <1>2, <1>3 DEF BillInv, BillAgrees

\* A request changes nothing yet, and what it will write was agreed on.
LEMMA BillBegin ==
    ASSUME BillInv, NEW u \in Callers, NEW writes, NEW type, S!Begin(u, writes, type),
           Overlap \notin irregular => BillAgrees(S!Flushed(writes), facts)
    PROVE  BillInv'
<1> DEFINE dirty == S!Dirty(writes)
<1>1. S!Flushed(dirty) = S!Flushed(writes)
    BY DEF S!Flushed, S!Dirty
<1>2. /\ request' = [request EXCEPT ![u] = [writes |-> dirty, type |-> type, fresh |-> TRUE]]
      /\ UNCHANGED <<proc, facts, irregular>>
    BY DEF S!Begin, S!Decide
<1> HIDE DEF dirty
<1>3. ASSUME Overlap \notin irregular, NEW k \in Callers, request'[k].fresh
      PROVE  BillAgrees(S!Flushed(request[k].writes), facts)'
  <2>1. PICK w : w = request'[k].writes
      OBVIOUS
  <2>2. BillAgrees(S!Flushed(w), facts)
      BY <1>1, <1>2, <1>3, <2>1 DEF BillInv
  <2>3. QED
      BY <1>2, <2>1, <2>2 DEF BillAgrees, S!Flushed
<1>4. QED
    BY <1>2, <1>3 DEF BillInv, BillAgrees

\* The three that write check, stage or both.
LEMMA BillRequestStep ==
    ASSUME BillInv, NEW u \in Callers, S!StatementRequest(u)
    PROVE  BillInv'
<1>1. DOMAIN proc = S!BillColumns /\ (Overlap \notin irregular => BillAgrees(proc, facts))
    BY DEF BillInv
<1> USE DEF BillAgrees, S!Flushed, S!BillColumns, S!NoWrites
<1>2. CASE S!Regenerate(u)
    BY <1>1, <1>2, BillBegin DEF S!Regenerate
<1>3. CASE S!UploadInvoice(u)
    BY <1>1, <1>3, BillBegin DEF S!UploadInvoice
<1>4. CASE S!SubmitReview(u)
    BY <1>1, <1>4, BillBegin DEF S!SubmitReview
<1>5. CASE S!DeleteInvoiceFile(u)
    BY <1>1, <1>5, BillBegin DEF S!DeleteInvoiceFile
<1>6. CASE S!CancelStatement(u)
    BY <1>1, <1>6, BillBegin DEF S!CancelStatement
<1>7. QED
    BY <1>2, <1>3, <1>4, <1>5, <1>6 DEF S!StatementRequest

\* A result that changes check to UNCHECKED or DRAFT needs no stage; the one that
\* checks a bill sets both.
LEMMA BillFinishedStep ==
    ASSUME BillInv, NEW t \in Tasks, NEW o, S!StatementFinished(t, o)
    PROVE  BillInv'
<1>1. DOMAIN proc = S!BillColumns /\ (Overlap \notin irregular => BillAgrees(proc, facts))
    BY DEF BillInv
<1>2. ASSUME NEW writes, NEW told, S!Finish(t, o, writes, NoType, told),
             facts \subseteq told, Overlap \notin irregular => BillAgrees(S!Flushed(writes), told)
      PROVE  BillInv'
    BY <1>2, BillWrite DEF S!Finish
<1> USE DEF BillAgrees, S!Flushed, S!BillColumns, S!NoWrites
<1>3. CASE S!OnGenerateFinished(t, o)
    BY <1>1, <1>2, <1>3 DEF S!OnGenerateFinished, S!Reactivated
<1>4. CASE S!OnUploadFinished(t, o)
    BY <1>1, <1>2, <1>4 DEF S!OnUploadFinished
<1>5. CASE S!OnSubmitFinished(t, o)
    BY <1>1, <1>2, <1>5 DEF S!OnSubmitFinished, S!Submitted
<1>6. QED
    BY <1>3, <1>4, <1>5 DEF S!StatementFinished

LEMMA BillInvStep == BillInv /\ S!StatementNext => BillInv'
<1> SUFFICES ASSUME BillInv, S!StatementNext PROVE BillInv'
    OBVIOUS
<1>1. CASE S!NewBill
  <2> DEFINE writes == [status |-> "ACTIVE", stage |-> "STMT_GENERATING", check |-> "DRAFT",
                        invoice |-> "NOT_UPLOADED"]
  <2>1. /\ proc' = S!Flushed(writes) /\ request' = S!Requests({})
        /\ irregular' = irregular /\ facts' = facts
      BY <1>1 DEF S!NewBill, S!Insert
  <2>2. BillAgrees(S!Flushed(writes), facts')
      BY DEF BillAgrees, S!Flushed, BillInv, S!BillColumns
  <2> HIDE DEF writes
  <2>3. QED
      BY <2>1, <2>2, BillWrite
<1>2. ASSUME NEW u \in Callers, S!Commit(u) PROVE BillInv'
  <2>1. PICK writes : writes = request[u].writes
      OBVIOUS
  <2>2. /\ proc' = S!Flushed(writes) /\ request' = S!Requests({u})
        /\ irregular' = IF request[u].fresh THEN irregular ELSE irregular \cup {Overlap}
        /\ facts' = facts
      BY <1>2, <2>1 DEF S!Commit
  <2>3. Overlap \notin irregular' => BillAgrees(S!Flushed(writes), facts')
      BY <2>1, <2>2 DEF BillInv
  <2>4. QED
      BY <2>2, <2>3, BillWrite
<1>3. CASE S!SubTaskStep({})
  <2>1. UNCHANGED <<proc, request, facts>> /\ irregular \subseteq irregular'
      BY <1>3 DEF S!SubTaskStep, S!Polled, S!AtTaskCentre
  <2>2. QED
      BY <2>1 DEF BillInv, BillAgrees, S!Flushed
<1>4. QED
    BY <1>1, <1>2, <1>3, BillRequestStep, BillFinishedStep DEF S!StatementNext

-----------------------------------------------------------------------------
(* Orders                                                                  *)

\* The facts that the value x of column c tells of.
TellsOfOrder(c, x) ==
    /\ c = "stage" /\ x \in {"SDMS_CREATED", "DATES_PARTIAL", "DATES_COMPLETE", "SIGN_REQUESTED"}
       => "ordered" \in facts
    /\ c = "stage" /\ x \in {"SIGNED", "ARCHIVED"} => "replied" \in facts
    /\ c \in Lines /\ x # "NONE" => "ordered" \in facts

OrderJustified(writes, type) ==
    /\ type \in {O!Sign, O!CheckReply} => "ordered" \in facts
    /\ type = O!Archive => "replied" \in facts
    /\ \A c \in DOMAIN writes : TellsOfOrder(c, writes[c])

\* Only the result of an archive task completes an order.
NotCompleting(writes) == "status" \in DOMAIN writes => writes["status"] # "COMPLETED"

FiledBy(t) == taskType[t] = O!Archive /\ taskStatus[t] = "SUCCESS"

OrderInv ==
    /\ DOMAIN proc = O!Columns
    /\ taskType = [t \in Tasks |-> taskType[t]]
    /\ taskStatus = [t \in Tasks |-> taskStatus[t]]
    /\ request = [u \in Callers |-> request[u]]
    /\ \A u \in Callers : /\ OrderJustified(request[u].writes, request[u].type)
                          /\ NotCompleting(request[u].writes)
    /\ \A t \in Tasks : taskType[t] \in {O!Sign, O!CheckReply} => "ordered" \in facts
    /\ \A t \in Tasks : taskType[t] = O!Archive => "replied" \in facts
    /\ \A c \in O!Columns : TellsOfOrder(c, proc[c])
    /\ proc["status"] = "COMPLETED" => \E t \in Tasks : FiledBy(t)

LEMMA OrderInvInit == O!OrderInit => OrderInv
<1>1. "status" \in O!Columns /\ "stage" \in O!Columns
    BY DEF O!Columns
<1>2. QED
    BY <1>1, NamesAssumption
       DEF O!OrderInit, O!Start, O!LifeInit, O!Idle, O!NoWrites, OrderInv, OrderJustified, NotCompleting,
           TellsOfOrder, O!OrderTypes

LEMMA OrderWrite ==
    ASSUME OrderInv, NEW writes, NEW type, NEW statuses, statuses = [t \in Tasks |-> statuses[t]], NEW done,
           proc' = O!Flushed(writes), O!NewTask(type, statuses), request' = O!Requests(done),
           facts \subseteq facts', OrderJustified(writes, type)',
           \A t \in Tasks : FiledBy(t) => statuses[t] = "SUCCESS",
           \/ NotCompleting(writes)
           \/ \E t \in Tasks : taskType[t] = O!Archive /\ statuses[t] = "SUCCESS"
    PROVE  OrderInv'
<1>1. /\ DOMAIN proc' = O!Columns
      /\ \A c \in O!Columns : proc'[c] = IF c \in DOMAIN writes THEN writes[c] ELSE proc[c]
    BY DEF OrderInv, O!Flushed
<1>2. \A c, x : TellsOfOrder(c, x) => TellsOfOrder(c, x)'
    BY DEF TellsOfOrder
<1>3. \A c \in O!Columns : TellsOfOrder(c, proc[c])'
    BY <1>1, <1>2 DEF OrderInv, OrderJustified
<1>4. /\ taskType' = [t \in Tasks |-> taskType'[t]]
      /\ taskStatus' = [t \in Tasks |-> taskStatus'[t]]
      /\ \A t \in Tasks : \/ taskType'[t] = taskType[t] /\ taskStatus'[t] = statuses[t]
                          \/ taskType[t] = NoType /\ taskType'[t] = type /\ type # NoType
    BY DEF OrderInv, O!NewTask, O!CreateSubTask
<1>5. /\ request' = [u \in Callers |-> request'[u]]
      /\ \A u \in Callers : \/ request'[u].writes = request[u].writes /\ request'[u].type = request[u].type
                            \/ request'[u].writes = << >> /\ request'[u].type = NoType
    BY DEF O!Requests, O!Idle, O!NoWrites
<1>6. \A u \in Callers : /\ OrderJustified(request[u].writes, request[u].type)'
                         /\ NotCompleting(request[u].writes)'
    BY <1>2, <1>5, NamesAssumption DEF OrderInv, OrderJustified, NotCompleting, O!OrderTypes
<1>7. proc'["status"] = "COMPLETED" => \E t \in Tasks : FiledBy(t)'
  <2>1. NoType # O!Archive
      BY NamesAssumption DEF O!OrderTypes
  <2>2. "status" \in O!Columns
      BY DEF O!Columns
  <2>3. \A t \in Tasks : taskType[t] = O!Archive /\ statuses[t] = "SUCCESS" => FiledBy(t)'
      BY <1>4, <2>1 DEF FiledBy
  <2>4. CASE \E t \in Tasks : taskType[t] = O!Archive /\ statuses[t] = "SUCCESS"
      BY <2>3, <2>4
  <2>5. CASE NotCompleting(writes)
    <3>1. proc'["status"] = "COMPLETED" => proc["status"] = "COMPLETED"
        BY <1>1, <2>2, <2>5 DEF NotCompleting
    <3>2. \A t \in Tasks : FiledBy(t) => FiledBy(t)'
        BY <2>3 DEF FiledBy
    <3>3. QED
        BY <3>1, <3>2 DEF OrderInv
  <2>6. QED
      BY <2>4, <2>5
<1>8. QED
    BY <1>1, <1>3, <1>4, <1>5, <1>6, <1>7 DEF OrderInv, OrderJustified

LEMMA OrderBegin ==
    ASSUME OrderInv, NEW u \in Callers, NEW writes, NEW type, O!Begin(u, writes, type),
           OrderJustified(writes, type), NotCompleting(writes)
    PROVE  OrderInv'
<1> DEFINE dirty == O!Dirty(writes)
<1>1. OrderJustified(dirty, type) /\ NotCompleting(dirty)
    BY DEF OrderJustified, NotCompleting, O!Dirty
<1>2. /\ request' = [request EXCEPT ![u] = [writes |-> dirty, type |-> type, fresh |-> TRUE]]
      /\ UNCHANGED <<proc, taskType, taskStatus, facts>>
    BY DEF O!Begin, O!Decide
<1> HIDE DEF dirty
<1>3. request' = [k \in Callers |-> request'[k]]
    BY <1>2 DEF OrderInv
<1>4. ASSUME NEW k \in Callers
      PROVE  OrderJustified(request[k].writes, request[k].type)' /\ NotCompleting(request[k].writes)'
  <2>1. PICK w, y : w = request'[k].writes /\ y = request'[k].type
      OBVIOUS
  <2>2. OrderJustified(w, y) /\ NotCompleting(w)
      BY <1>1, <1>2, <2>1 DEF OrderInv
  <2>3. QED
      BY <1>2, <2>1, <2>2 DEF OrderJustified, NotCompleting, TellsOfOrder
<1>5. QED
    BY <1>2, <1>3, <1>4 DEF OrderInv, TellsOfOrder, FiledBy

LEMMA OrderRequestStep ==
    ASSUME OrderInv, NEW u \in Callers, O!OrderRequest(u)
    PROVE  OrderInv'
<1>1. /\ proc.stage \in {"SDMS_CREATED", "DATES_PARTIAL", "DATES_COMPLETE", "SIGN_REQUESTED"} => "ordered" \in facts
      /\ proc.stage = "SIGNED" => "replied" \in facts
      /\ \A l \in Lines : proc[l] # "NONE" => "ordered" \in facts
    BY DEF OrderInv, TellsOfOrder, O!Columns
<1> USE NamesAssumption
        DEF OrderJustified, NotCompleting, TellsOfOrder, O!OrderTypes, O!CreateSdms, O!Sign, O!CheckReply,
            O!Archive, O!NoWrites, O!Active
<1>2. CASE O!EnsurePrepareSubTask(u)
  <2>1. O!Begin(u, O!NoWrites, O!CreateSdms)
      BY <1>2 DEF O!EnsurePrepareSubTask
  <2>2. QED
      BY <2>1, OrderBegin
<1>3. CASE O!RequestSign(u)
  <2>1. O!Begin(u, O!NoWrites, O!Sign) /\ "ordered" \in facts
      BY <1>1, <1>3 DEF O!RequestSign
  <2>2. QED
      BY <2>1, OrderBegin
<1>4. CASE O!CreateCheckReplyTask(u)
  <2>1. O!Begin(u, O!NoWrites, O!CheckReply) /\ "ordered" \in facts
      BY <1>1, <1>4 DEF O!CreateCheckReplyTask
  <2>2. QED
      BY <2>1, OrderBegin
<1>5. CASE O!ArchiveSignedOrder(u)
  <2>1. O!Begin(u, O!NoWrites, O!Archive) /\ "replied" \in facts
      BY <1>1, <1>5 DEF O!ArchiveSignedOrder
  <2>2. QED
      BY <2>1, OrderBegin
<1>6. CASE O!CancelInstance(u)
  <2>1. O!Begin(u, [status |-> "CANCELLED", stage |-> "FAILED"], NoType)
      BY <1>6 DEF O!CancelInstance
  <2>2. OrderJustified([status |-> "CANCELLED", stage |-> "FAILED"], NoType)
      OBVIOUS
  <2>3. QED
      BY <2>1, <2>2, OrderBegin
<1>7. CASE O!RetryInstance(u)
  <2>1. CASE O!HasLines
    <3>1. O!Begin(u, [status |-> "ACTIVE", stage |-> "SDMS_CREATED"], NoType) /\ "ordered" \in facts
        BY <1>1, <1>7, <2>1 DEF O!RetryInstance, O!HasLines
    <3>2. OrderJustified([status |-> "ACTIVE", stage |-> "SDMS_CREATED"], NoType)
        BY <3>1
    <3>3. QED
        BY <3>1, <3>2, OrderBegin
  <2>2. CASE ~O!HasLines
    <3>1. O!Begin(u, [status |-> "ACTIVE", stage |-> "CREATING_SDMS"], O!CreateSdms)
        BY <1>7, <2>2 DEF O!RetryInstance
    <3>2. OrderJustified([status |-> "ACTIVE", stage |-> "CREATING_SDMS"], O!CreateSdms)
        OBVIOUS
    <3>3. QED
        BY <3>1, <3>2, OrderBegin
  <2>3. QED
      BY <2>1, <2>2
<1>8. ASSUME NEW l \in Lines, O!SubmitLineDate(u, l) PROVE OrderInv'
  <2>1. "ordered" \in facts
      BY <1>1, <1>8 DEF O!SubmitLineDate
  <2>2. PICK complete : O!Begin(u, O!Dated(l, complete), NoType)
      BY <1>8 DEF O!SubmitLineDate, O!WriteLineDate
  <2>3. l \notin {"status", "stage"}
      OBVIOUS
  <2>4. OrderJustified(O!Dated(l, complete), NoType) /\ NotCompleting(O!Dated(l, complete))
      BY <2>1, <2>3 DEF O!Dated
  <2>5. QED
      BY <2>2, <2>4, OrderBegin
<1>9. QED
    BY <1>2, <1>3, <1>4, <1>5, <1>6, <1>7, <1>8 DEF O!OrderRequest

\* A task that filed the contract has nothing left to report, so that the result
\* of another one leaves it as it is.
LEMMA OrderFinish ==
    ASSUME OrderInv, NEW t \in Tasks, NEW o, NEW writes, NEW next, NEW told,
           O!Finish(t, o, writes, next, told), facts \subseteq told,
           next \in {O!Sign, O!CheckReply} => "ordered" \in told,
           next = O!Archive => "replied" \in told,
           \A c \in DOMAIN writes :
              /\ c = "stage" /\ writes[c] \in {"SDMS_CREATED", "DATES_PARTIAL", "DATES_COMPLETE", "SIGN_REQUESTED"}
                 => "ordered" \in told
              /\ c = "stage" /\ writes[c] \in {"SIGNED", "ARCHIVED"} => "replied" \in told
              /\ c \in Lines /\ writes[c] # "NONE" => "ordered" \in told,
           NotCompleting(writes) \/ (taskType[t] = O!Archive /\ o = "SUCCESS")
    PROVE  OrderInv'
<1> DEFINE statuses == O!Reported(t, o)
<1>1. /\ proc' = O!Flushed(writes) /\ O!NewTask(next, statuses)
      /\ request' = O!Requests({}) /\ facts' = told
    BY DEF O!Finish
<1>2. OrderJustified(writes, next)'
    BY <1>1 DEF OrderJustified, TellsOfOrder
<1>3. statuses = [k \in Tasks |-> statuses[k]] /\ statuses[t] = o
    BY DEF OrderInv, O!Reported
<1>4. \A k \in Tasks : FiledBy(k) => statuses[k] = "SUCCESS"
    BY DEF FiledBy, OrderInv, O!Reported, O!Finish, O!MayReport
<1> HIDE DEF statuses
<1>5. QED
    BY <1>1, <1>2, <1>3, <1>4, OrderWrite

\* The SDMS order and the reply become facts with the results that tell of them.
LEMMA OrderFinishedStep ==
    ASSUME OrderInv, NEW t \in Tasks, NEW o, O!OrderFinished(t, o)
    PROVE  OrderInv'
<1>1. /\ taskType[t] \in {O!Sign, O!CheckReply} => "ordered" \in facts
      /\ taskType[t] = O!Archive => "replied" \in facts
    BY DEF OrderInv
<1>2. NoType \notin {O!Sign, O!CheckReply, O!Archive}
    BY NamesAssumption DEF O!OrderTypes
<1> USE NamesAssumption DEF NotCompleting, O!NoWrites
<1>3. ASSUME O!Finish(t, o, O!NoWrites, NoType, facts) PROVE OrderInv'
    BY <1>2, <1>3, OrderFinish
<1>4. ASSUME O!HandleCreateSdmsFinished(t, o) PROVE OrderInv'
  <2>1. CASE O!Finish(t, o, O!FailInstance, NoType, facts)
      BY <1>2, <2>1, OrderFinish DEF O!FailInstance
  <2>2. CASE O!Finish(t, o, [stage |-> "SIGN_REQUESTED"], NoType, facts \cup {"ordered"})
      BY <1>2, <2>2, OrderFinish
  <2> DEFINE writes == [c \in Lines \cup {"stage"} |-> IF c \in Lines THEN "PENDING" ELSE "SIGN_REQUESTED"]
  <2>3. CASE O!Finish(t, o, writes, NoType, facts \cup {"ordered"})
    <3>1. writes["stage"] = "SIGN_REQUESTED" /\ "status" \notin DOMAIN writes
        OBVIOUS
    <3> HIDE DEF writes
    <3>2. QED
        BY <1>2, <2>3, <3>1, OrderFinish
  <2>4. QED
      BY <1>4, <2>1, <2>2, <2>3 DEF O!HandleCreateSdmsFinished
<1>5. ASSUME taskType[t] = O!Sign, O!HandleSignFinished(t, o) PROVE OrderInv'
  <2>1. ASSUME NEW stage \in {"DATES_COMPLETE", "SIGN_REQUESTED"}, O!Finish(t, o, [stage |-> stage], NoType, facts)
        PROVE  OrderInv'
      BY <1>1, <1>2, <1>5, <2>1, OrderFinish
  <2>2. QED
      BY <1>3, <1>5, <2>1 DEF O!HandleSignFinished
<1>6. ASSUME O!HandleCheckReplyFinished(t, o) PROVE OrderInv'
  <2>1. ASSUME NEW next \in {O!Archive, NoType},
               O!Finish(t, o, [stage |-> "SIGNED"], next, facts \cup {"replied"})
        PROVE  OrderInv'
      BY <1>2, <2>1, OrderFinish DEF O!Sign, O!CheckReply, O!Archive
  <2>2. ASSUME O!Finish(t, o, O!NoWrites, NoType, facts \cup {"replied"}) PROVE OrderInv'
      BY <1>2, <2>2, OrderFinish
  <2>3. QED
      BY <1>3, <1>6, <2>1, <2>2 DEF O!HandleCheckReplyFinished, O!TriggerArchiveIfNeeded
<1>7. ASSUME taskType[t] = O!Archive, O!HandleArchiveFinished(t, o) PROVE OrderInv'
  <2>1. CASE o = "SUCCESS" /\ O!Finish(t, o, [stage |-> "ARCHIVED", status |-> "COMPLETED"], NoType, facts)
      BY <1>1, <1>2, <1>7, <2>1, OrderFinish
  <2>2. QED
      BY <1>3, <1>7, <2>1 DEF O!HandleArchiveFinished
<1>8. QED
    BY <1>4, <1>5, <1>6, <1>7 DEF O!OrderFinished

\* No poll and no client touches a task that has succeeded.
LEMMA SuccessIsFinal ==
    ASSUME NEW t, taskStatus[t] = "SUCCESS", t \in Tasks, taskStatus = [k \in Tasks |-> taskStatus[k]],
           NEW awaited, O!SubTaskStep(awaited)
    PROVE  taskStatus'[t] = "SUCCESS"
<1>1. CASE O!Polled(awaited)
    BY <1>1 DEF O!Polled, O!Poll, O!Requeued
<1>2. ASSUME NEW k \in Tasks, O!ByClient(k) PROVE taskStatus'[t] = "SUCCESS"
  <2>1. CASE k = t
    <3>1. O!ClientMoves("SUCCESS") = {}
        BY DEF O!ClientMoves
    <3>2. QED
        BY <1>2, <2>1, <3>1 DEF O!ByClient
  <2>2. CASE k # t
      BY <1>2, <2>2 DEF O!ByClient
  <2>3. QED
      BY <2>1, <2>2
<1>3. QED
    BY <1>1, <1>2 DEF O!SubTaskStep, O!AtTaskCentre

LEMMA OrderInvStep == OrderInv /\ O!OrderNext => OrderInv'
<1> SUFFICES ASSUME OrderInv, O!OrderNext PROVE OrderInv'
    OBVIOUS
<1>0. taskStatus = [t \in Tasks |-> taskStatus[t]]
    BY DEF OrderInv
<1>1. CASE O!CreateFromScan
  <2> DEFINE writes == [status |-> "ACTIVE", stage |-> "CREATING_SDMS"]
  <2>1. PICK first \in {O!CreateSdms, NoType} : O!Insert(writes, first)
      BY <1>1 DEF O!CreateFromScan
  <2>2. /\ proc' = O!Flushed(writes) /\ O!NewTask(first, taskStatus)
        /\ request' = O!Requests({}) /\ facts' = facts
      BY <2>1 DEF O!Insert
  <2>3. OrderJustified(writes, first)' /\ NotCompleting(writes)
      BY NamesAssumption
         DEF OrderJustified, NotCompleting, TellsOfOrder, O!OrderTypes, O!CreateSdms, O!Sign, O!CheckReply, O!Archive
  <2> HIDE DEF writes
  <2>4. QED
      BY <1>0, <2>2, <2>3, OrderWrite DEF FiledBy
<1>2. ASSUME NEW u \in Callers, O!Commit(u) PROVE OrderInv'
  <2>1. PICK writes, type : writes = request[u].writes /\ type = request[u].type
      OBVIOUS
  <2>2. /\ proc' = O!Flushed(writes) /\ O!NewTask(type, taskStatus)
        /\ request' = O!Requests({u}) /\ facts' = facts
      BY <1>2, <2>1 DEF O!Commit
  <2>3. OrderJustified(writes, type)' /\ NotCompleting(writes)
      BY <2>1, <2>2 DEF OrderInv, OrderJustified, TellsOfOrder
  <2>4. QED
      BY <1>0, <2>2, <2>3, OrderWrite DEF FiledBy
<1>3. CASE O!SubTaskStep({O!CreateSdms})
  <2>1. UNCHANGED <<proc, taskType, request>> /\ facts \subseteq facts'
      BY <1>3 DEF O!SubTaskStep, O!Polled, O!AtTaskCentre
  <2>2. taskStatus' = [t \in Tasks |-> taskStatus'[t]]
      BY <1>0, <1>3 DEF O!SubTaskStep, O!Polled, O!AtTaskCentre, O!ByClient, O!Poll
  <2>3. \A t \in Tasks : FiledBy(t) => FiledBy(t)'
      BY <1>0, <1>3, <2>1, SuccessIsFinal DEF FiledBy
  <2>4. QED
      BY <2>1, <2>2, <2>3 DEF OrderInv, OrderJustified, NotCompleting, TellsOfOrder
<1>4. QED
    BY <1>1, <1>2, <1>3, OrderRequestStep, OrderFinishedStep DEF O!OrderNext

-----------------------------------------------------------------------------
(* Orders: dates are counted.  The same argument as for bills.             *)

DatesAgree(p) == p["stage"] = "DATES_PARTIAL" => \E l \in Lines : p[l] # "WRITTEN"

DatesInv ==
    /\ DOMAIN proc = O!Columns
    /\ request = [u \in Callers |-> request[u]]
    /\ Overlap \notin irregular =>
          /\ DatesAgree(proc)
          /\ \A u \in Callers : request[u].fresh => DatesAgree(O!Flushed(request[u].writes))

LEMMA DatesInvInit == O!OrderInit => DatesInv
<1> SUFFICES ASSUME O!OrderInit PROVE DatesInv
    OBVIOUS
<1>1. /\ DOMAIN proc = O!Columns /\ \A c \in O!Columns : proc[c] = "NONE"
      /\ request = [u \in Callers |-> [writes |-> << >>, type |-> NoType, fresh |-> TRUE]]
    BY DEF O!OrderInit, O!Start, O!Idle, O!NoWrites
<1>2. proc["stage"] = "NONE" /\ "stage" \in O!Columns
    BY <1>1 DEF O!Columns
<1>3. O!Flushed(<< >>)["stage"] = "NONE"
    BY <1>1, <1>2 DEF O!Flushed
<1>4. QED
    BY <1>1, <1>2, <1>3 DEF DatesInv, DatesAgree

\* What is written agrees when it names another stage, or neither stage nor line.
LEMMA DatesFlushed ==
    ASSUME DatesInv, Overlap \notin irregular, NEW writes,
           \/ "stage" \in DOMAIN writes /\ writes["stage"] # "DATES_PARTIAL"
           \/ DOMAIN writes \cap (Lines \cup {"stage"}) = {}
    PROVE  DatesAgree(O!Flushed(writes))
BY DEF DatesInv, DatesAgree, O!Flushed, O!Columns

LEMMA DatesWrite ==
    ASSUME DatesInv, NEW writes, NEW done, proc' = O!Flushed(writes), request' = O!Requests(done),
           irregular \subseteq irregular',
           Overlap \notin irregular' => DatesAgree(O!Flushed(writes))
    PROVE  DatesInv'
<1>1. DOMAIN proc' = O!Columns
    BY DEF DatesInv, O!Flushed
<1>2. request' = [u \in Callers |-> request'[u]]
    BY DEF O!Requests
<1>3. ASSUME Overlap \notin irregular', NEW u \in Callers, request'[u].fresh
      PROVE  DatesAgree(O!Flushed(request[u].writes))'
  <2>1. CASE request'[u] = O!Idle
    <3>1. request'[u].writes = << >>
        BY <2>1 DEF O!Idle, O!NoWrites
    <3>2. \A c \in O!Columns : O!Flushed(request[u].writes)'[c] = proc'[c]
        BY <1>1, <3>1 DEF O!Flushed
    <3>3. QED
        BY <1>3, <3>2 DEF DatesAgree, O!Columns
  <2>2. CASE request'[u] = request[u] /\ proc' = proc
    <3>1. O!Flushed(request[u].writes)' = O!Flushed(request[u].writes)
        BY <2>2 DEF O!Flushed
    <3>2. request[u].fresh /\ Overlap \notin irregular
        BY <1>3, <2>2
    <3>3. DatesAgree(O!Flushed(request[u].writes))
        BY <3>2 DEF DatesInv
    <3>4. QED
        BY <3>1, <3>3 DEF DatesAgree
  <2>3. QED
      BY <1>3, <2>1, <2>2 DEF O!Requests
<1>4. QED
    BY <1>1, <1>2, <1>3 DEF DatesInv, DatesAgree

LEMMA DatesBegin ==
    ASSUME DatesInv, NEW u \in Callers, NEW writes, NEW type, O!Begin(u, writes, type),
           Overlap \notin irregular => DatesAgree(O!Flushed(writes))
    PROVE  DatesInv'
<1> DEFINE dirty == O!Dirty(writes)
<1>1. O!Flushed(dirty) = O!Flushed(writes)
    BY DEF O!Flushed, O!Dirty
<1>2. /\ request' = [request EXCEPT ![u] = [writes |-> dirty, type |-> type, fresh |-> TRUE]]
      /\ UNCHANGED <<proc, irregular>>
    BY DEF O!Begin, O!Decide
<1> HIDE DEF dirty
<1>3. ASSUME Overlap \notin irregular, NEW k \in Callers, request'[k].fresh
      PROVE  DatesAgree(O!Flushed(request[k].writes))'
  <2>1. PICK w : w = request'[k].writes
      OBVIOUS
  <2>2. DatesAgree(O!Flushed(w))
      BY <1>1, <1>2, <1>3, <2>1 DEF DatesInv
  <2>3. O!Flushed(request[k].writes)' = O!Flushed(w)
      BY <1>2, <2>1 DEF O!Flushed
  <2>4. QED
      BY <2>2, <2>3 DEF DatesAgree
<1>4. QED
    BY <1>2, <1>3 DEF DatesInv, DatesAgree

\* submit_line_date leaves DATES_PARTIAL only over a line it found without a date.
LEMMA DatesRequestStep ==
    ASSUME DatesInv, NEW u \in Callers, O!OrderRequest(u)
    PROVE  DatesInv'
<1>1. ASSUME NEW type, O!Begin(u, O!NoWrites, type) PROVE DatesInv'
    BY <1>1, DatesBegin, DatesFlushed DEF O!NoWrites
<1>2. ASSUME NEW type, NEW status, NEW stage \in {"SDMS_CREATED", "CREATING_SDMS", "FAILED"},
             O!Begin(u, [status |-> status, stage |-> stage], type)
      PROVE  DatesInv'
    BY <1>2, DatesBegin, DatesFlushed
<1>3. CASE O!CancelInstance(u) \/ O!RetryInstance(u)
    BY <1>2, <1>3 DEF O!CancelInstance, O!RetryInstance
<1>4. ASSUME NEW l \in Lines, O!SubmitLineDate(u, l) PROVE DatesInv'
  <2> DEFINE complete == \A k \in Lines \ {l} : proc[k] \in {"NONE", "WRITTEN"}
             writes == O!Dated(l, complete)
  <2>1. O!Begin(u, writes, NoType)
      BY <1>4 DEF O!SubmitLineDate, O!WriteLineDate
  <2>2. l # "stage"
      BY NamesAssumption
  <2>3. CASE complete
    <3>1. "stage" \in DOMAIN writes /\ writes["stage"] = "DATES_COMPLETE"
        BY <2>2, <2>3 DEF O!Dated
    <3>2. QED
        BY <2>1, <3>1, DatesBegin, DatesFlushed
  <2>4. CASE ~complete
    <3>1. PICK k \in Lines \ {l} : proc[k] # "WRITTEN"
        BY <2>4
    <3>2. DOMAIN writes = {l, "stage"}
        BY DEF O!Dated
    <3>3. k \notin DOMAIN writes /\ k \in O!Columns
        BY <3>1, <3>2, NamesAssumption DEF O!Columns
    <3> HIDE DEF writes
    <3>4. DatesAgree(O!Flushed(writes))
        BY <3>1, <3>3 DEF DatesAgree, DatesInv, O!Flushed
    <3>5. QED
        BY <2>1, <3>4, DatesBegin
  <2>5. QED
      BY <2>3, <2>4
<1>5. QED
    BY <1>1, <1>3, <1>4
       DEF O!OrderRequest, O!EnsurePrepareSubTask, O!RequestSign, O!CreateCheckReplyTask, O!ArchiveSignedOrder

\* A result that enters lines moves the stage as well.
LEMMA DatesFinishedStep ==
    ASSUME DatesInv, NEW t \in Tasks, NEW o, O!OrderFinished(t, o)
    PROVE  DatesInv'
<1>1. ASSUME NEW writes, NEW next, NEW told, O!Finish(t, o, writes, next, told),
             \/ "stage" \in DOMAIN writes /\ writes["stage"] # "DATES_PARTIAL"
             \/ DOMAIN writes \cap (Lines \cup {"stage"}) = {}
      PROVE  DatesInv'
    BY <1>1, DatesWrite, DatesFlushed DEF O!Finish
<1>2. ASSUME NEW next, NEW told, O!Finish(t, o, O!NoWrites, next, told) PROVE DatesInv'
    BY <1>1, <1>2 DEF O!NoWrites
<1>3. CASE O!HandleCreateSdmsFinished(t, o)
  <2> DEFINE writes == [c \in Lines \cup {"stage"} |-> IF c \in Lines THEN "PENDING" ELSE "SIGN_REQUESTED"]
  <2>1. "stage" \in DOMAIN writes /\ writes["stage"] = "SIGN_REQUESTED"
      BY NamesAssumption
  <2> HIDE DEF writes
  <2>2. CASE O!Finish(t, o, writes, NoType, facts \cup {"ordered"})
      BY <1>1, <2>1, <2>2
  <2>3. CASE O!Finish(t, o, O!FailInstance, NoType, facts)
      BY <1>1, <2>3 DEF O!FailInstance
  <2>4. CASE O!Finish(t, o, [stage |-> "SIGN_REQUESTED"], NoType, facts \cup {"ordered"})
      BY <1>1, <2>4
  <2>5. QED
      BY <1>3, <2>2, <2>3, <2>4 DEF O!HandleCreateSdmsFinished, writes
<1>4. ASSUME NEW stage \in {"DATES_COMPLETE", "SIGN_REQUESTED", "SIGNED"}, NEW next, NEW told,
             O!Finish(t, o, [stage |-> stage], next, told)
      PROVE  DatesInv'
    BY <1>1, <1>4
<1>5. CASE O!HandleSignFinished(t, o)
    BY <1>2, <1>4, <1>5 DEF O!HandleSignFinished
<1>6. CASE O!HandleCheckReplyFinished(t, o)
  <2>1. CASE o = "SUCCESS" /\ O!TriggerArchiveIfNeeded(t)
      BY <1>2, <1>4, <2>1 DEF O!TriggerArchiveIfNeeded
  <2>2. QED
      BY <1>2, <1>6, <2>1 DEF O!HandleCheckReplyFinished
<1>7. CASE O!HandleArchiveFinished(t, o)
  <2>1. CASE O!Finish(t, o, [stage |-> "ARCHIVED", status |-> "COMPLETED"], NoType, facts)
      BY <1>1, <2>1
  <2>2. QED
      BY <1>2, <1>7, <2>1 DEF O!HandleArchiveFinished
<1>8. QED
    BY <1>3, <1>5, <1>6, <1>7 DEF O!OrderFinished

LEMMA DatesInvStep == DatesInv /\ O!OrderNext => DatesInv'
<1> SUFFICES ASSUME DatesInv, O!OrderNext PROVE DatesInv'
    OBVIOUS
<1>1. CASE O!CreateFromScan
  <2> DEFINE writes == [status |-> "ACTIVE", stage |-> "CREATING_SDMS"]
  <2>1. proc' = O!Flushed(writes) /\ request' = O!Requests({}) /\ irregular' = irregular
      BY <1>1 DEF O!CreateFromScan, O!Insert
  <2>2. "stage" \in DOMAIN writes /\ writes["stage"] # "DATES_PARTIAL"
      OBVIOUS
  <2> HIDE DEF writes
  <2>3. QED
      BY <2>1, <2>2, DatesWrite, DatesFlushed
<1>2. ASSUME NEW u \in Callers, O!Commit(u) PROVE DatesInv'
  <2>1. PICK writes : writes = request[u].writes
      OBVIOUS
  <2>2. /\ proc' = O!Flushed(writes) /\ request' = O!Requests({u})
        /\ irregular' = IF request[u].fresh THEN irregular ELSE irregular \cup {Overlap}
      BY <1>2, <2>1 DEF O!Commit
  <2>3. Overlap \notin irregular' => DatesAgree(O!Flushed(writes))
      BY <2>1, <2>2 DEF DatesInv
  <2>4. QED
      BY <2>2, <2>3, DatesWrite
<1>3. CASE O!SubTaskStep({O!CreateSdms})
  <2>1. UNCHANGED <<proc, request>> /\ irregular \subseteq irregular'
      BY <1>3 DEF O!SubTaskStep, O!Polled, O!AtTaskCentre
  <2>2. QED
      BY <2>1 DEF DatesInv, DatesAgree, O!Flushed
<1>4. QED
    BY <1>1, <1>2, <1>3, DatesRequestStep, DatesFinishedStep DEF O!OrderNext

-----------------------------------------------------------------------------
(* The three kinds together                                                *)

KindInv ==
    /\ IsPacking => PackingInv
    /\ IsStatement => StatementInv /\ BillInv
    /\ IsOrder => OrderInv /\ DatesInv

LEMMA KindInvHolds == Spec => []KindInv
<1>1. Init => KindInv
    BY PackingInvInit, StatementInvInit, BillInvInit, OrderInvInit, DatesInvInit
       DEF Init, KindInv, IsPacking, IsStatement, IsOrder
<1>2. KindInv /\ [Next]_<<subTaskVars, kind>> => KindInv'
  <2> SUFFICES ASSUME KindInv, [Next]_<<subTaskVars, kind>> PROVE KindInv'
      OBVIOUS
  <2>1. CASE Next
      BY <2>1, PackingInvStep, StatementInvStep, BillInvStep, OrderInvStep, DatesInvStep
         DEF Next, PackingStep, StatementStep, OrderStep, KindInv, IsPacking, IsStatement, IsOrder
  <2>2. CASE UNCHANGED <<subTaskVars, kind>>
    <3>1. UNCHANGED <<proc, taskType, taskStatus, request, facts, irregular, kind>>
        BY <2>2 DEF subTaskVars
    <3>2. PackingInv => PackingInv'
        BY <3>1 DEF PackingInv, PackingJustified
    <3>3. StatementInv => StatementInv'
        BY <3>1 DEF StatementInv, StatementJustified, TellsOfBill, BeforeBill
    <3>4. OrderInv => OrderInv'
        BY <3>1 DEF OrderInv, OrderJustified, NotCompleting, TellsOfOrder, FiledBy
    <3>5. BillInv => BillInv'
        BY <3>1 DEF BillInv, BillAgrees, S!Flushed
    <3>6. DatesInv => DatesInv'
        BY <3>1 DEF DatesInv, DatesAgree, O!Flushed
    <3>7. QED
        BY <3>1, <3>2, <3>3, <3>4, <3>5, <3>6 DEF KindInv, IsPacking, IsStatement, IsOrder
  <2>3. QED
      BY <2>1, <2>2
<1>3. QED
    BY <1>1, <1>2, PTL DEF Spec

\* No step is taken at a portal before the one it needs: nothing is signed or asked
\* about before SDMS has the order, or filed before the customer was seen to have
\* signed; no bill is scanned before it was generated, or submitted unscanned;
\* nothing is submitted to or deleted from the BOE portal before it was saved there.
THEOREM StepsAreInOrder == Spec => []StepsInOrder
<1>1. KindInv => StepsInOrder
  <2> SUFFICES ASSUME KindInv PROVE StepsInOrder
      OBVIOUS
  <2>1. ASSUME PackingInv PROVE B!PackingSteps
    <3>1. "stage" \in B!PackingColumns
        BY DEF B!PackingColumns
    <3>2. QED
        BY <2>1, <3>1 DEF PackingInv, B!PackingSteps, B!OfType, TellsOfDraft, LateStages, LateTypes
  <2>2. ASSUME StatementInv PROVE S!StatementSteps
    <3>1. "check" \in S!BillColumns
        BY DEF S!BillColumns
    <3>2. QED
        BY <2>2, <3>1 DEF StatementInv, S!StatementSteps, S!OfType, TellsOfBill
  <2>3. ASSUME OrderInv PROVE O!OrderSteps
    <3>1. "stage" \in O!Columns
        BY DEF O!Columns
    <3>2. proc.stage \in {"SIGNED", "ARCHIVED"} => "replied" \in facts
        BY <2>3, <3>1 DEF OrderInv, TellsOfOrder
    <3>3. proc.status = "COMPLETED" => O!OfType(O!Archive, {"SUCCESS"})
        BY <2>3 DEF OrderInv, FiledBy, O!OfType
    <3>4. QED
        BY <2>3, <3>2, <3>3 DEF OrderInv, O!OrderSteps, O!OfType
  <2>4. QED
      BY <2>1, <2>2, <2>3 DEF KindInv, StepsInOrder
<1>2. QED
    BY <1>1, KindInvHolds, PTL

\* A checked bill was submitted and its process completed, a void one cancelled and
\* its process too, and the other way round, whatever late results of generation,
\* upload and submission do to it, as long as no request wrote over a change it
\* had not seen and no generation failed once the bill was decided.
THEOREM BillsFollowProcesses == Spec => []BillFollowsProcess
<1>1. KindInv => BillFollowsProcess
    BY DEF KindInv, BillInv, BillAgrees, BillFollowsProcess, S!BillFollowsProcess
<1>2. QED
    BY <1>1, KindInvHolds, PTL

\* ... and then no order with all its dates waits for dates, for any number of lines.
THEOREM DatesAreCounted == Spec => []DatesCounted
<1>1. KindInv => DatesCounted
    BY DEF KindInv, DatesInv, DatesAgree, DatesCounted, O!DatesCounted
<1>2. QED
    BY <1>1, KindInvHolds, PTL
=============================================================================
