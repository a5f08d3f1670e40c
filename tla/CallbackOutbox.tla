--------------------------- MODULE CallbackOutbox ---------------------------
(***************************************************************************)
(* The engine's callback outbox (workers/outbox.py): EVENT and FINISH      *)
(* callbacks are rows written with the attempt they report on; dispatchers *)
(* (one per engine process, all on one database) claim them and send them  *)
(* to the Task service over HTTP.                                          *)
(*                                                                         *)
(* A request is received, rejected or lost; the dispatcher may stop        *)
(* waiting for it first, and a request nobody waits for may still arrive   *)
(* (the HTTP client gives up after task_api_timeout_seconds). Time is      *)
(* abstracted: whether a row is due is the claim's choice of rows, and a   *)
(* lock may be found stale once it has been taken.                         *)
(*                                                                         *)
(* Definitions named Faulty... are variants with a bug, used by no action. *)
(***************************************************************************)
EXTENDS Naturals, FiniteSets

CONSTANTS
    Attempts,       \* rpa_execution_attempts that have callbacks
    MaxMessages,    \* bound: callbacks of one attempt
    Dispatchers,    \* engine processes
    NoDispatcher,
    NoDelivery,
    MaxAttempts,    \* max_attempts
    BatchSize       \* batch_size

\* A message is an attempt and its sequence_no; a delivery is a message and
\* the number of the claim (attempts after the claim) it is sent for.
Messages   == Attempts \X (1..MaxMessages)
Deliveries == Messages \X (1..MaxAttempts)
MessageOf(x) == x[1]
Earlier(m) == {e \in Messages : e[1] = m[1] /\ e[2] < m[2]}
Later(m)   == {e \in Messages : e[1] = m[1] /\ e[2] > m[2]}

\* RUN_STARTED and FINISH have a key of their own per lease and per attempt;
\* every other event gets a fresh one.
Kinds == {"RUN_STARTED", "EVENT", "FINISH"}
Keyed == {"RUN_STARTED", "FINISH"}

Statuses == {"NONE", "PENDING", "IN_FLIGHT", "RETRY", "SENT", "DEAD"}
Settled  == {"SENT", "DEAD"}

ASSUME BoundsAssumption ==
    MaxMessages \in Nat /\ MaxAttempts \in Nat \ {0} /\ BatchSize \in Nat
ASSUME NullsAssumption == NoDispatcher \notin Dispatchers /\ NoDelivery \notin Deliveries

VARIABLES
    status,     \* rpa_callback_outbox.status; "NONE" before the row exists
    kind,       \* callback_type, with the key it is enqueued under
    tries,      \* attempts
    lockedBy,   \* locked_by
    stale,      \* rows whose locked_at is older than stale_lock_seconds
    batch,      \* the claimed deliveries a dispatcher has still to make
    sending,    \* the delivery it is making
    answer,     \* what it knows of that delivery: "none", "ok" or "failed"
    network,    \* requests on their way to the Task service
    applied     \* how often the Task service has applied a callback

rowVars        == <<status, kind, tries, lockedBy, stale>>
dispatcherVars == <<batch, sending, answer>>
vars == <<rowVars, dispatcherVars, network, applied>>

Init ==
    /\ status = [m \in Messages |-> "NONE"]
    /\ kind = [m \in Messages |-> "EVENT"]
    /\ tries = [m \in Messages |-> 0]
    /\ lockedBy = [m \in Messages |-> NoDispatcher]
    /\ stale = {}
    /\ batch = [d \in Dispatchers |-> {}]
    /\ sending = [d \in Dispatchers |-> NoDelivery]
    /\ answer = [d \in Dispatchers |-> "none"]
    /\ network = {}
    /\ applied = [m \in Messages |-> 0]

-----------------------------------------------------------------------------
(* Writing callbacks                                                       *)

FaultyKeyExists(a, k) == FALSE

KeyExists(a, k) ==
    k \in Keyed /\ \E m \in Messages : m[1] = a /\ status[m] # "NONE" /\ kind[m] = k

\* The number is taken without a lock: a higher one may be committed first.
FaultyEnqueue(m, k) ==
    /\ status[m] = "NONE"
    /\ ~KeyExists(m[1], k)
    /\ status' = [status EXCEPT ![m] = "PENDING"]
    /\ kind' = [kind EXCEPT ![m] = k]
    /\ UNCHANGED <<tries, lockedBy, stale, dispatcherVars, network, applied>>

\* The attempt's row is locked, so its sequence numbers have no gap; a key
\* that exists already changes nothing.
Enqueue(m, k) ==
    /\ status[m] = "NONE" /\ \A e \in Earlier(m) : status[e] # "NONE"
    /\ ~KeyExists(m[1], k)
    /\ status' = [status EXCEPT ![m] = "PENDING"]
    /\ kind' = [kind EXCEPT ![m] = k]
    /\ UNCHANGED <<tries, lockedBy, stale, dispatcherVars, network, applied>>

-----------------------------------------------------------------------------
(* Claiming                                                                *)

\* What becomes of a message whose delivery failed or was abandoned.
FaultyNextStatus(m) == "RETRY"
NextStatus(m) == IF tries[m] >= MaxAttempts THEN "DEAD" ELSE "RETRY"

\* What the transaction sees once recover_stale has run.
StatusAfterRecovery == [m \in Messages |-> IF m \in stale THEN NextStatus(m) ELSE status[m]]

FaultyReadyUnordered ==
    {m \in Messages : StatusAfterRecovery[m] \in {"PENDING", "RETRY"} /\ tries[m] < MaxAttempts}

FaultyReadyUnsent ==
    {m \in Messages :
        /\ StatusAfterRecovery[m] \notin {"NONE", "IN_FLIGHT", "SENT"}
        /\ \A e \in Earlier(m) : StatusAfterRecovery[e] \in Settled}

Ready ==
    {m \in Messages :
        /\ StatusAfterRecovery[m] \in {"PENDING", "RETRY"}
        /\ tries[m] < MaxAttempts
        /\ \A e \in Earlier(m) : StatusAfterRecovery[e] \in Settled}

Idle(d) == sending[d] = NoDelivery /\ batch[d] = {}

\* The first transaction of dispatch_once. claimed is whatever is ready, due,
\* not locked by a concurrent claim, and within the batch size.
Poll(d, claimed) ==
    /\ Idle(d)
    /\ claimed \subseteq Ready /\ Cardinality(claimed) <= BatchSize
    /\ status' = [m \in Messages |->
          IF m \in claimed THEN "IN_FLIGHT" ELSE StatusAfterRecovery[m]]
    /\ tries' = [m \in Messages |-> IF m \in claimed THEN tries[m] + 1 ELSE tries[m]]
    /\ lockedBy' = [m \in Messages |->
          IF m \in claimed THEN d ELSE IF m \in stale THEN NoDispatcher ELSE lockedBy[m]]
    /\ stale' = {}
    /\ batch' = [batch EXCEPT ![d] = {<<m, tries[m] + 1>> : m \in claimed}]
    /\ UNCHANGED <<kind, sending, answer, network, applied>>

\* stale_lock_seconds pass while the row is locked: its dispatcher has died, or
\* is still busy with the messages before it.
LockGoesStale(m) ==
    /\ status[m] = "IN_FLIGHT" /\ m \notin stale
    /\ stale' = stale \cup {m}
    /\ UNCHANGED <<status, kind, tries, lockedBy, dispatcherVars, network, applied>>

-----------------------------------------------------------------------------
(* Delivering                                                              *)

Deliver(d, x) ==
    /\ sending[d] = NoDelivery /\ x \in batch[d]
    /\ batch' = [batch EXCEPT ![d] = @ \ {x}]
    /\ sending' = [sending EXCEPT ![d] = x]
    /\ network' = network \cup {x}
    /\ UNCHANGED <<rowVars, answer, applied>>

\* The answer to x, if its dispatcher is still waiting for it.
AnswerTo(x, reply) ==
    [d \in Dispatchers |-> IF sending[d] = x /\ answer[d] = "none" THEN reply ELSE answer[d]]

\* append_run_event adds a row for every request; finish_run returns the run
\* as it is when it already has that status.
TaskApplies(x) ==
    LET m == MessageOf(x) IN
    /\ x \in network
    /\ network' = network \ {x}
    /\ applied' = [applied EXCEPT ![m] = IF kind[m] = "FINISH" THEN 1 ELSE @ + 1]
    /\ answer' \in {AnswerTo(x, "ok"), answer}   \* or the response is lost
    /\ UNCHANGED <<rowVars, batch, sending>>

\* Any status but 2xx, or an envelope with an error code: nothing is applied.
TaskRejects(x) ==
    /\ x \in network
    /\ network' = network \ {x}
    /\ answer' = AnswerTo(x, "failed")
    /\ UNCHANGED <<rowVars, batch, sending, applied>>

\* The request never arrives.
Lose(x) ==
    /\ x \in network
    /\ network' = network \ {x}
    /\ UNCHANGED <<rowVars, dispatcherVars, applied>>

\* Timeout or connection error.
GiveUp(d) ==
    /\ sending[d] # NoDelivery /\ answer[d] = "none"
    /\ answer' = [answer EXCEPT ![d] = "failed"]
    /\ UNCHANGED <<rowVars, batch, sending, network, applied>>

FaultyClaimHeld(d, m) == status[m] # "NONE"

\* _get_claimed finds the row: nobody has recovered the claim.
ClaimHeld(d, m) == status[m] = "IN_FLIGHT" /\ lockedBy[m] = d

FaultyStatusToMark(d) == "SENT"

StatusToMark(d) ==
    IF answer[d] = "ok" THEN "SENT" ELSE NextStatus(MessageOf(sending[d]))

\* mark_sent, mark_failed
Mark(d) ==
    LET m == MessageOf(sending[d]) IN
    /\ sending[d] # NoDelivery /\ answer[d] # "none" /\ ClaimHeld(d, m)
    /\ status' = [status EXCEPT ![m] = StatusToMark(d)]
    /\ lockedBy' = [lockedBy EXCEPT ![m] = NoDispatcher]
    /\ stale' = stale \ {m}
    /\ sending' = [sending EXCEPT ![d] = NoDelivery]
    /\ answer' = [answer EXCEPT ![d] = "none"]
    /\ UNCHANGED <<kind, tries, batch, network, applied>>

\* The dispatcher forgets what it is doing; its rows stay locked.
Abandon(d) ==
    /\ batch' = [batch EXCEPT ![d] = {}]
    /\ sending' = [sending EXCEPT ![d] = NoDelivery]
    /\ answer' = [answer EXCEPT ![d] = "none"]
    /\ UNCHANGED <<rowVars, network, applied>>

\* The claim was recovered meanwhile: the LookupError leaves dispatch_once, and
\* the rest of the batch is not delivered.
ClaimLost(d) ==
    /\ sending[d] # NoDelivery /\ answer[d] # "none"
    /\ ~ClaimHeld(d, MessageOf(sending[d]))
    /\ Abandon(d)

\* The process dies, or the database fails while it marks a row. A restarted
\* process has a new locked_by; the old one is never used again, so d may stand
\* for both.
Crash(d) == ~Idle(d) /\ Abandon(d)

-----------------------------------------------------------------------------
DispatcherStep(d) ==
    \/ \E claimed \in SUBSET Ready : Poll(d, claimed)
    \/ \E x \in batch[d] : Deliver(d, x)
    \/ GiveUp(d) \/ Mark(d) \/ ClaimLost(d) \/ Crash(d)

Network == \E x \in network : TaskApplies(x) \/ TaskRejects(x) \/ Lose(x)

Next ==
    \/ \E m \in Messages, k \in Kinds : Enqueue(m, k)
    \/ \E d \in Dispatchers : DispatcherStep(d)
    \/ \E m \in Messages : LockGoesStale(m)
    \/ Network

Spec == Init /\ [][Next]_vars

\* What a dispatcher whose poll loop runs goes on to do.
Working(d) ==
    \/ \E claimed \in SUBSET Ready : (claimed # {} \/ stale # {}) /\ Poll(d, claimed)
    \/ \E x \in batch[d] : Deliver(d, x)
    \/ GiveUp(d) \/ Mark(d) \/ ClaimLost(d)

\* Some dispatcher d keeps running, its deliveries end, and a lock that is not
\* released grows old. Nothing is assumed of the others.
Fairness(d) ==
    /\ WF_vars(Working(d))
    /\ \A m \in Messages : WF_vars(LockGoesStale(m))

-----------------------------------------------------------------------------
(* Correctness                                                             *)

TypeOK ==
    /\ status \in [Messages -> Statuses]
    /\ kind \in [Messages -> Kinds]
    /\ tries \in [Messages -> 0..MaxAttempts]
    /\ lockedBy \in [Messages -> Dispatchers \cup {NoDispatcher}]
    /\ stale \in SUBSET Messages
    /\ batch \in [Dispatchers -> SUBSET Deliveries]
    /\ sending \in [Dispatchers -> Deliveries \cup {NoDelivery}]
    /\ answer \in [Dispatchers -> {"none", "ok", "failed"}]
    /\ network \in SUBSET Deliveries
    /\ applied \in [Messages -> Nat]

\* However many dispatchers claim, recover and crash, a callback is claimed
\* only once every earlier one of its attempt is settled for good.
ClaimedInOrder ==
    \A m \in Messages : status[m] \notin {"NONE", "PENDING"} =>
        \A e \in Earlier(m) : status[e] \in Settled

\* The Task service hears of a callback only after every earlier callback of
\* the attempt that was not given up: late requests and lost claims included.
FirstArrivalInOrder ==
    \A m \in Messages : applied[m] > 0 =>
        \A e \in Earlier(m) : applied[e] > 0 \/ status[e] = "DEAD"

\* At least once: a callback is marked SENT only if the Task service has it.
SentIsApplied ==
    \A m \in Messages : status[m] = "SENT" => applied[m] > 0

\* A callback that waits for its turn or for a retry has a try left, else it
\* and all the later ones would never be claimed; and none is given up before
\* its last try.
TriesLeft ==
    \A m \in Messages :
        /\ status[m] \in {"PENDING", "RETRY"} => tries[m] < MaxAttempts
        /\ status[m] = "DEAD" => tries[m] = MaxAttempts

\* A settled callback stays settled: an answer that comes after the claim was
\* recovered does not reopen it.
SettledForGood ==
    [][\A m \in Messages : status[m] \in Settled => status'[m] = status[m]]_vars

\* What the Task service and the engine see of all this is one channel for each
\* attempt.
Channel == INSTANCE OrderedDelivery WITH
    written  <- {m \in Messages : status[m] # "NONE"},
    finish   <- {m \in Messages : status[m] # "NONE" /\ kind[m] = "FINISH"},
    received <- {m \in Messages : applied[m] > 0},
    sent     <- {m \in Messages : status[m] = "SENT"},
    dead     <- {m \in Messages : status[m] = "DEAD"}

\* Competing dispatchers, late requests and answers, recovered claims and
\* crashes add nothing to what an OrderedDelivery may do.
DeliversInOrder == Channel!ChannelSpec

\* Every callback is eventually sent or given up, whatever crashes.
EventuallySettled ==
    \A m \in Messages : status[m] # "NONE" ~> status[m] \in Settled
=============================================================================
