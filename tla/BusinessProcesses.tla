-------------------------- MODULE BusinessProcesses --------------------------
(***************************************************************************)
(* One process instance, of any of the three kinds the service runs: an    *)
(* order, a statement of account or a packing list.  The kind is the       *)
(* process_code of its row, written once; a result goes to the handlers of *)
(* its kind only, because the types of their sub-tasks are disjoint        *)
(* (on_sub_task_finished).                                                 *)
(***************************************************************************)
EXTENDS SubTasks

CONSTANT Lines

VARIABLE kind       \* process_instances.process_code

O == INSTANCE OrderProcess
S == INSTANCE StatementBill
B == INSTANCE BoePacking

ASSUME NamesAssumption ==
    /\ NoType \notin O!OrderTypes \cup S!StatementTypes \cup B!PackingTypes
    /\ Lines \cap {"status", "stage"} = {}

Init ==
    \/ kind = "srm_customer_order" /\ O!OrderInit
    \/ kind = "srm_tiandi_statement" /\ S!StatementInit
    \/ kind = "srm_boe_invoice_packing" /\ B!PackingInit

OrderStep     == kind = "srm_customer_order" /\ O!OrderNext
StatementStep == kind = "srm_tiandi_statement" /\ S!StatementNext
PackingStep   == kind = "srm_boe_invoice_packing" /\ B!PackingNext

Next == (OrderStep \/ StatementStep \/ PackingStep) /\ UNCHANGED kind

Spec == Init /\ [][Next]_<<subTaskVars, kind>>

-----------------------------------------------------------------------------
(* Correctness: the properties of the three kinds, which say what they mean *)

IsOrder     == kind = "srm_customer_order"
IsStatement == kind = "srm_tiandi_statement"
IsPacking   == kind = "srm_boe_invoice_packing"

\* Types, and sub-tasks that are created in order and have a status.
TypeOK ==
    /\ IsOrder => O!OrderTypeOK
    /\ IsStatement => S!StatementTypeOK
    /\ IsPacking => B!PackingTypeOK
    /\ taskStatus \in [Tasks -> LifeStatuses]
    /\ \A t \in Tasks : taskType[t] = NoType <=> taskStatus[t] = "NONE"

\* Whatever late results of cancelled, failed and repeated processes do, and
\* whatever requests write that read an older state, no step is taken at a portal
\* before the one it needs (OrderSteps, StatementSteps, PackingSteps).
StepsInOrder ==
    /\ IsOrder => O!OrderSteps
    /\ IsStatement => S!StatementSteps
    /\ IsPacking => B!PackingSteps

\* As long as no request overlaps with a change, a portal is worked on by one task
\* at a time: one signature, reply or contract asked for, and for a packing list
\* the task of the stage it is in (OneInFlight, TaskOfItsStage).
OneTaskAtATime ==
    /\ IsOrder => O!OneInFlight
    /\ IsPacking => B!TaskOfItsStage

\* An archive task under way, or successful, is not repeated (OrderProcess).
ArchiveNotRepeated == IsOrder => O!ArchiveNotRepeated

\* An order being entered has a sub-task that will decide it, unless that was
\* taken away without telling the order (OrderProcess).
CreatingHasWork == IsOrder => O!CreatingHasWork

\* An order with all its dates does not wait for dates (OrderProcess).
DatesCounted == IsOrder => O!DatesCounted

\* Bill and process agree on how it ended, unless a request overlapped or a
\* generation failed afterwards (StatementBill).
BillFollowsProcess == IsStatement => S!BillFollowsProcess

\* A cancelled packing list leaves no draft at the portal, unless one was saved
\* without a number, a request overlapped or a failed task was rerun (BoePacking).
CancelledHasNoDraft == IsPacking => B!CancelledHasNoDraft
=============================================================================
