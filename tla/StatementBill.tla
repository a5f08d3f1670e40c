---------------------------- MODULE StatementBill ----------------------------
(***************************************************************************)
(* Statements of account (srm_tiandi_statement): generating them at the    *)
(* portal, scanning their invoice, submitting them for review, cancelling  *)
(* them.  statement_service.py: a bill (statement_bills) and the process   *)
(* that goes with it, written together but by requests that lock neither.  *)
(***************************************************************************)
EXTENDS SubTasks

BillColumns == {"status", "stage", "check", "invoice", "number"}

StatementInit == Start([c \in BillColumns |-> "NONE"])

Generate == "srm_stmt_generate"
Upload   == "srm_stmt_upload_invoice"
Submit   == "srm_stmt_submit_review"
StatementTypes == {Generate, Upload, Submit}

Exists == proc.status # "NONE"

-----------------------------------------------------------------------------
(* Requests                                                                *)

\* generate_statement for a new date and amount: bill, process and task at once.
NewBill ==
    /\ ~Exists
    /\ Insert([status |-> "ACTIVE", stage |-> "STMT_GENERATING", check |-> "DRAFT",
               invoice |-> "NOT_UPLOADED"], Generate)

\* generate_statement for the date and amount of a draft, or retry_generate.
Regenerate(u) ==
    /\ proc.check = "DRAFT"
    /\ Begin(u, [status |-> "ACTIVE", stage |-> "STMT_GENERATING"], Generate)

UploadInvoice(u) ==
    /\ Exists /\ proc.check \notin {"VOID", "DRAFT"}
    /\ Begin(u, NoWrites, Upload)

FaultySubmitReview(u) ==
    /\ Exists /\ proc.check \notin {"VOID", "DRAFT"}
    /\ Begin(u, NoWrites, Submit)

SubmitReview(u) ==
    /\ Exists /\ proc.check \notin {"VOID", "DRAFT"}
    /\ proc.number = "SCANNED"
    /\ Begin(u, NoWrites, Submit)

\* Allowed for a checked bill too; the file itself is gone at once.
DeleteInvoiceFile(u) ==
    /\ Exists /\ proc.check # "VOID"
    /\ Begin(u, [number |-> "NONE", invoice |-> "NOT_UPLOADED"], NoType)

CancelStatement(u) ==
    /\ Exists /\ proc.check \notin {"VOID", "CHECKED"}
    /\ Begin(u, [check |-> "VOID", status |-> "CANCELLED", stage |-> "STMT_CANCELLED"], NoType)

StatementRequest(u) ==
    \/ Regenerate(u) \/ UploadInvoice(u) \/ SubmitReview(u)
    \/ DeleteInvoiceFile(u) \/ CancelStatement(u)

-----------------------------------------------------------------------------
(* dispatch_statement_finished: no handler looks at what became of the     *)
(* bill. A date and amount that another bill has break a unique index, and *)
(* the whole FINISH is rolled back.                                        *)

\* A failure makes the process active again, even if its bill is decided.
Reactivated ==
    IF proc.check \in {"CHECKED", "VOID"} THEN facts \cup {"reactivated"} ELSE facts

OnGenerateFinished(t, o) ==
    \/ /\ o # "SUCCESS"
       /\ Finish(t, o, [status |-> "ACTIVE"], NoType, Reactivated)
    \/ /\ o = "SUCCESS"                            \* found the button, did not click
       /\ Finish(t, o, [status |-> "ACTIVE", check |-> "DRAFT"], NoType, facts)
    \/ /\ o = "SUCCESS"                            \* no amount in the output
       /\ Finish(t, o, NoWrites, NoType, facts)
    \/ /\ o = "SUCCESS"
       /\ Finish(t, o, [check |-> "UNCHECKED", status |-> "ACTIVE",
                        stage |-> "STMT_PENDING_INVOICE"],
                 NoType, facts \cup {"generated"})

OnUploadFinished(t, o) ==
    \/ Finish(t, o, NoWrites, NoType, facts)       \* failed, or nothing readable
    \/ /\ o = "SUCCESS"
       /\ Finish(t, o, [number |-> "SCANNED", invoice |-> "UPLOADED",
                        check |-> "UNCHECKED", status |-> "ACTIVE"],
                 NoType, facts \cup {"scanned"})

FaultySubmitted(number) ==
    [number |-> number, invoice |-> "REVIEWING", check |-> "CHECKED"]

Submitted(number) ==
    [number |-> number, invoice |-> "REVIEWING", check |-> "CHECKED",
     status |-> "COMPLETED", stage |-> "STMT_SUBMITTED"]

\* What comes after, sending the invoice to SDMS, only leaves an error text.
OnSubmitFinished(t, o) ==
    \/ /\ o # "SUCCESS"
       /\ Finish(t, o, NoWrites, NoType, facts)
    \/ /\ o = "SUCCESS"                            \* found the button, did not click
       /\ Finish(t, o, [check |-> "UNCHECKED", invoice |-> "NOT_UPLOADED",
                        status |-> "ACTIVE"], NoType, facts)
    \/ /\ o = "SUCCESS"
       /\ \E number \in {"SCANNED", "NONE"} : Finish(t, o, Submitted(number), NoType, facts)

StatementFinished(t, o) ==
    \/ taskType[t] = Generate /\ OnGenerateFinished(t, o)
    \/ taskType[t] = Upload /\ OnUploadFinished(t, o)
    \/ taskType[t] = Submit /\ OnSubmitFinished(t, o)

StatementNext ==
    \/ NewBill
    \/ \E u \in Callers : StatementRequest(u) \/ Commit(u)
    \/ \E t \in Tasks, o \in Reports : StatementFinished(t, o)
    \/ SubTaskStep({})

StatementSpec == StatementInit /\ [][StatementNext]_subTaskVars

-----------------------------------------------------------------------------
(* Correctness                                                             *)

StatementTypeOK ==
    /\ DOMAIN proc = BillColumns
    /\ proc.status \in {"NONE", "ACTIVE", "CANCELLED", "COMPLETED"}
    /\ proc.stage \in {"NONE", "STMT_GENERATING", "STMT_PENDING_INVOICE",
                       "STMT_SUBMITTED", "STMT_CANCELLED"}
    /\ proc.check \in {"NONE", "DRAFT", "UNCHECKED", "CHECKED", "VOID"}
    /\ proc.invoice \in {"NONE", "NOT_UPLOADED", "UPLOADED", "REVIEWING"}
    /\ proc.number \in {"NONE", "SCANNED"}
    /\ taskType \in [Tasks -> StatementTypes \cup {NoType}]

\* A bill is scanned only after the portal generated it, and submitted only
\* after an invoice was scanned, whatever late results of cancelled, repeated
\* and dry runs do to the bill in between.
StatementSteps ==
    /\ OfType(Upload, LifeStatuses) => "generated" \in facts
    /\ OfType(Submit, LifeStatuses) \/ proc.check = "CHECKED" => "scanned" \in facts

\* Bill and process tell the same story of the end: a checked bill was submitted
\* and its process completed, a void one cancelled and its process too, and a
\* process that is over has such a bill, even when late results bring a void or
\* checked bill back. Two things tear them apart: a request that overlaps with
\* such a change, and a generation that fails after the bill was decided, which
\* leaves an active process beside it ("reactivated").
BillFollowsProcess ==
    Overlap \notin irregular =>
        /\ proc.check = "CHECKED" =>
              /\ proc.stage = "STMT_SUBMITTED"
              /\ proc.status = "COMPLETED" \/ "reactivated" \in facts
        /\ proc.check = "VOID" =>
              /\ proc.stage = "STMT_CANCELLED"
              /\ proc.status = "CANCELLED" \/ "reactivated" \in facts
        /\ proc.status = "COMPLETED" => proc.check = "CHECKED"
        /\ proc.status = "CANCELLED" => proc.check = "VOID"
=============================================================================
