------------------------ MODULE CallbackOutboxProofs ------------------------
(***************************************************************************)
(* Proofs about CallbackOutbox, for any number of attempts, callbacks,     *)
(* dispatchers and tries.                                                  *)
(***************************************************************************)
EXTENDS CallbackOutbox, TLAPS

\* Only a row somebody has locked grows stale.
StaleIsLocked == \A m \in stale : status[m] = "IN_FLIGHT"

\* A row is created with no try spent.
FreshRows == \A m \in Messages : status[m] = "NONE" => tries[m] = 0

\* Nothing is under way for a callback before it exists and all the earlier ones
\* are settled.
UnderWay(x) ==
    \/ x \in network
    \/ \E d \in Dispatchers : x \in batch[d] \/ sending[d] = x

UnderWayInOrder ==
    \A x \in Deliveries : UnderWay(x) =>
        /\ status[MessageOf(x)] # "NONE"
        /\ \A e \in Earlier(MessageOf(x)) : status[e] \in Settled

\* A dispatcher that was told "ok" was told so by the Task service.
OkIsApplied ==
    \A d \in Dispatchers : answer[d] = "ok" =>
        sending[d] # NoDelivery /\ applied[MessageOf(sending[d])] > 0

\* An attempt has one FINISH row: what lets the rows of an attempt be the
\* callbacks of one channel.
OneFinish ==
    \A m, n \in Messages :
        /\ m[1] = n[1] /\ status[m] # "NONE" /\ status[n] # "NONE"
        /\ kind[m] = "FINISH" /\ kind[n] = "FINISH"
        => m = n

OutboxInv ==
    /\ TypeOK /\ StaleIsLocked /\ FreshRows
    /\ ClaimedInOrder /\ UnderWayInOrder
    /\ OkIsApplied /\ SentIsApplied /\ FirstArrivalInOrder
    /\ TriesLeft /\ OneFinish

LEMMA InitOutboxInv == Init => OutboxInv
<1> SUFFICES ASSUME Init PROVE OutboxInv
    OBVIOUS
<1> USE DEF Init
<1>1. TypeOK
    BY BoundsAssumption DEF TypeOK, Statuses, Kinds
<1>2. UnderWayInOrder
    BY NullsAssumption DEF UnderWayInOrder, UnderWay
<1>3. QED
    BY <1>1, <1>2 DEF OutboxInv, StaleIsLocked, FreshRows, ClaimedInOrder, OkIsApplied,
       SentIsApplied, FirstArrivalInOrder, TriesLeft, OneFinish

\* The message of a delivery.
LEMMA DeliveryFacts ==
    /\ \A x \in Deliveries : MessageOf(x) \in Messages
    /\ \A m \in Messages, n \in 1..MaxAttempts :
          <<m, n>> \in Deliveries /\ MessageOf(<<m, n>>) = m
BY DEF Deliveries, MessageOf

\* What a failed or abandoned claim becomes.
LEMMA NextStatusFacts ==
    ASSUME TypeOK, NEW m \in Messages
    PROVE  /\ NextStatus(m) \in {"RETRY", "DEAD"}
           /\ NextStatus(m) = "RETRY" => tries[m] < MaxAttempts
           /\ NextStatus(m) = "DEAD" => tries[m] = MaxAttempts
BY BoundsAssumption DEF TypeOK, NextStatus

-----------------------------------------------------------------------------
(* Type correctness                                                        *)

LEMMA NextTypeOK == TypeOK /\ [Next]_vars => TypeOK'
<1> SUFFICES ASSUME TypeOK, [Next]_vars PROVE TypeOK'
    OBVIOUS
<1> USE DEF TypeOK
<1>1. ASSUME NEW m \in Messages, NEW k \in Kinds, Enqueue(m, k) PROVE TypeOK'
    BY <1>1 DEF Enqueue, dispatcherVars, Statuses
<1>2. ASSUME NEW d \in Dispatchers, NEW claimed \in SUBSET Ready, Poll(d, claimed) PROVE TypeOK'
  <2>1. \A m \in claimed : m \in Messages /\ tries[m] + 1 \in 1..MaxAttempts
      BY BoundsAssumption DEF Ready
  <2>2. {<<m, tries[m] + 1>> : m \in claimed} \subseteq Deliveries
      BY <2>1 DEF Deliveries
  <2>3. StatusAfterRecovery \in [Messages -> Statuses]
      BY DEF StatusAfterRecovery, NextStatus, Statuses
  <2>4. status' \in [Messages -> Statuses]
      BY <1>2, <2>3 DEF Poll, Statuses
  <2>5. tries' \in [Messages -> 0..MaxAttempts]
      BY <1>2, <2>1, BoundsAssumption DEF Poll
  <2>6. /\ lockedBy' \in [Messages -> Dispatchers \cup {NoDispatcher}] /\ stale' \in SUBSET Messages
        /\ UNCHANGED <<kind, sending, answer, network, applied>>
      BY <1>2 DEF Poll
  <2>7. batch' \in [Dispatchers -> SUBSET Deliveries]
      BY <1>2, <2>2 DEF Poll
  <2>8. QED
      BY <2>4, <2>5, <2>6, <2>7
<1>3. ASSUME NEW d \in Dispatchers, NEW x \in batch[d], Deliver(d, x) PROVE TypeOK'
    BY <1>3 DEF Deliver, rowVars
<1>4. ASSUME NEW d \in Dispatchers, GiveUp(d) PROVE TypeOK'
    BY <1>4 DEF GiveUp, rowVars
<1>5. ASSUME NEW d \in Dispatchers, Mark(d) PROVE TypeOK'
    BY <1>5, DeliveryFacts DEF Mark, StatusToMark, NextStatus, Statuses
<1>6. ASSUME NEW d \in Dispatchers, ClaimLost(d) \/ Crash(d) PROVE TypeOK'
    BY <1>6 DEF ClaimLost, Crash, Abandon, rowVars
<1>7. ASSUME NEW m \in Messages, LockGoesStale(m) PROVE TypeOK'
    BY <1>7 DEF LockGoesStale, dispatcherVars
<1>8. ASSUME NEW x \in network, TaskApplies(x) PROVE TypeOK'
    BY <1>8, DeliveryFacts DEF TaskApplies, AnswerTo, rowVars
<1>9. ASSUME NEW x \in network, TaskRejects(x) \/ Lose(x) PROVE TypeOK'
    BY <1>9 DEF TaskRejects, Lose, AnswerTo, rowVars, dispatcherVars
<1>10. CASE UNCHANGED vars
    BY <1>10 DEF vars, rowVars, dispatcherVars
<1>11. QED
    BY <1>1, <1>2, <1>3, <1>4, <1>5, <1>6, <1>7, <1>8, <1>9, <1>10
       DEF Next, DispatcherStep, Network

-----------------------------------------------------------------------------
(* The rows                                                                *)

\* What a step may do to a row: create it, recover it, claim it, or settle a
\* claim. Nothing touches the status of a settled row.
LEMMA RowStep ==
    ASSUME TypeOK, StaleIsLocked, [Next]_vars, NEW m \in Messages
    PROVE  \/ /\ status'[m] = status[m] /\ tries'[m] = tries[m]
           \/ /\ status[m] = "NONE" /\ status'[m] = "PENDING" /\ tries'[m] = tries[m]
           \/ /\ status[m] = "IN_FLIGHT" /\ tries'[m] = tries[m]
              /\ status'[m] = "SENT" \/ status'[m] = NextStatus(m)
           \/ /\ status'[m] = "IN_FLIGHT" /\ m \in Ready
              /\ \A e \in Messages \ Ready : status'[e] = StatusAfterRecovery[e]
<1> DEFINE Claim == \/ /\ status'[m] = status[m] /\ tries'[m] = tries[m]
                    \/ /\ status[m] = "NONE" /\ status'[m] = "PENDING" /\ tries'[m] = tries[m]
                    \/ /\ status[m] = "IN_FLIGHT" /\ tries'[m] = tries[m]
                       /\ status'[m] = "SENT" \/ status'[m] = NextStatus(m)
                    \/ /\ status'[m] = "IN_FLIGHT" /\ m \in Ready
                       /\ \A e \in Messages \ Ready : status'[e] = StatusAfterRecovery[e]
<1> USE DEF TypeOK
<1>1. ASSUME NEW n \in Messages, NEW k \in Kinds, Enqueue(n, k) PROVE Claim
    BY <1>1 DEF Enqueue
<1>2. ASSUME NEW d \in Dispatchers, NEW claimed \in SUBSET Ready, Poll(d, claimed) PROVE Claim
    BY <1>2 DEF Poll, StatusAfterRecovery, StaleIsLocked
<1>3. ASSUME NEW d \in Dispatchers, Mark(d) PROVE Claim
    BY <1>3, DeliveryFacts DEF Mark, StatusToMark, ClaimHeld
<1>4. ASSUME UNCHANGED <<status, tries>> PROVE Claim
    BY <1>4
<1>5. QED
    BY <1>1, <1>2, <1>3, <1>4 DEF Next, DispatcherStep, Network, Deliver, GiveUp, ClaimLost, Crash,
       Abandon, LockGoesStale, TaskApplies, TaskRejects, Lose, vars, rowVars

LEMMA SettledStays ==
    ASSUME TypeOK, StaleIsLocked, [Next]_vars, NEW m \in Messages, status[m] \in Settled
    PROVE  status'[m] = status[m]
<1>1. m \notin Ready
    BY DEF Ready, StatusAfterRecovery, StaleIsLocked, Settled
<1>2. QED
    BY <1>1, RowStep DEF Settled

LEMMA NextRowInv ==
    ASSUME OutboxInv, [Next]_vars
    PROVE  StaleIsLocked' /\ FreshRows' /\ TriesLeft' /\ ClaimedInOrder'
<1> USE DEF OutboxInv, TypeOK
<1>1. StaleIsLocked'
  <2>1. ASSUME NEW d \in Dispatchers, Mark(d) PROVE StaleIsLocked'
      BY <2>1, DeliveryFacts DEF Mark, StaleIsLocked
  <2>2. ASSUME NEW m \in Messages, NEW k \in Kinds, Enqueue(m, k) PROVE StaleIsLocked'
      BY <2>2 DEF Enqueue, StaleIsLocked
  <2>3. ASSUME NEW m \in Messages, LockGoesStale(m) PROVE StaleIsLocked'
      BY <2>3 DEF LockGoesStale, StaleIsLocked
  <2>4. ASSUME NEW d \in Dispatchers, NEW claimed \in SUBSET Ready, Poll(d, claimed)
        PROVE  StaleIsLocked'
      BY <2>4 DEF Poll, StaleIsLocked
  <2>5. ASSUME UNCHANGED <<status, stale>> PROVE StaleIsLocked'
      BY <2>5 DEF StaleIsLocked
  <2>6. QED
      BY <2>1, <2>2, <2>3, <2>4, <2>5 DEF Next, DispatcherStep, Network, Deliver, GiveUp, ClaimLost,
         Crash, Abandon, TaskApplies, TaskRejects, Lose, vars, rowVars
<1>2. FreshRows'
  <2> SUFFICES ASSUME NEW m \in Messages, status'[m] = "NONE" PROVE tries'[m] = 0
      BY DEF FreshRows
  <2>1. QED
      BY RowStep, NextStatusFacts DEF FreshRows
<1>3. TriesLeft'
  <2> SUFFICES ASSUME NEW m \in Messages
               PROVE  /\ status'[m] \in {"PENDING", "RETRY"} => tries'[m] < MaxAttempts
                      /\ status'[m] = "DEAD" => tries'[m] = MaxAttempts
      BY DEF TriesLeft
  <2>1. QED
      BY RowStep, NextStatusFacts, BoundsAssumption DEF TriesLeft, FreshRows
<1>4. ClaimedInOrder'
  <2> SUFFICES ASSUME NEW m \in Messages, status'[m] \notin {"NONE", "PENDING"},
                      NEW e \in Earlier(m)
               PROVE  status'[e] \in Settled
      BY DEF ClaimedInOrder
  <2>1. e \in Messages
      BY DEF Earlier
  <2>2. CASE status[m] \notin {"NONE", "PENDING"}
      BY <2>1, <2>2, SettledStays DEF ClaimedInOrder
  <2>3. ASSUME m \in Ready, \A n \in Messages \ Ready : status'[n] = StatusAfterRecovery[n]
        PROVE  status'[e] \in Settled
    <3>1. StatusAfterRecovery[e] \in Settled
        BY <2>3 DEF Ready
    <3>2. e \notin Ready
        BY <3>1 DEF Ready, Settled
    <3>3. QED
        BY <2>1, <2>3, <3>1, <3>2
  <2>4. QED
      BY <2>2, <2>3, RowStep
<1>5. QED
    BY <1>1, <1>2, <1>3, <1>4

-----------------------------------------------------------------------------
(* Deliveries                                                              *)

\* A step brings nothing under way but what it claims.
LEMMA UnderWayStep ==
    ASSUME TypeOK, [Next]_vars, NEW x \in Deliveries, UnderWay(x)'
    PROVE  \/ UnderWay(x)
           \/ MessageOf(x) \in Ready /\ status'[MessageOf(x)] = "IN_FLIGHT"
<1> DEFINE Known == \/ UnderWay(x)
                    \/ MessageOf(x) \in Ready /\ status'[MessageOf(x)] = "IN_FLIGHT"
<1> USE DEF TypeOK, UnderWay
<1>1. ASSUME NEW d \in Dispatchers, NEW claimed \in SUBSET Ready, Poll(d, claimed) PROVE Known
  <2>1. claimed \subseteq Messages /\ \A m \in claimed : status'[m] = "IN_FLIGHT"
      BY <1>1 DEF Poll, Ready
  <2>2. /\ network' = network /\ sending' = sending
        /\ batch' = [batch EXCEPT ![d] = {<<m, tries[m] + 1>> : m \in claimed}]
      BY <1>1 DEF Poll
  <2>3. CASE x \in {<<m, tries[m] + 1>> : m \in claimed}
      BY <2>1, <2>3 DEF MessageOf
  <2>4. CASE x \notin {<<m, tries[m] + 1>> : m \in claimed}
      BY <2>2, <2>4
  <2>5. QED
      BY <2>3, <2>4
<1>2. ASSUME NEW d \in Dispatchers, NEW y \in batch[d], Deliver(d, y) PROVE Known
  <2>1. /\ network' = network \cup {y} /\ y \in batch[d]
        /\ \A c \in Dispatchers : batch'[c] \subseteq batch[c]
        /\ \A c \in Dispatchers : sending'[c] = y \/ sending'[c] = sending[c]
      BY <1>2 DEF Deliver
  <2>2. UnderWay(x)
      BY <2>1
  <2>3. QED
      BY <2>2
<1>3. ASSUME NEW d \in Dispatchers, Mark(d) \/ ClaimLost(d) \/ Crash(d) PROVE Known
    BY <1>3, NullsAssumption DEF Mark, ClaimLost, Crash, Abandon
<1>4. ASSUME NEW y \in network, TaskApplies(y) \/ TaskRejects(y) \/ Lose(y) PROVE Known
    BY <1>4 DEF TaskApplies, TaskRejects, Lose, dispatcherVars
<1>5. ASSUME UNCHANGED <<network, batch, sending>> PROVE Known
    BY <1>5
<1>6. QED
    BY <1>1, <1>2, <1>3, <1>4, <1>5 DEF Next, DispatcherStep, Network, Enqueue, LockGoesStale, GiveUp,
       vars, dispatcherVars

LEMMA NextUnderWayInv ==
    ASSUME OutboxInv, [Next]_vars
    PROVE  UnderWayInOrder'
<1> USE DEF OutboxInv
<1> SUFFICES ASSUME NEW x \in Deliveries, UnderWay(x)'
             PROVE  /\ status'[MessageOf(x)] # "NONE"
                    /\ \A e \in Earlier(MessageOf(x)) : status'[e] \in Settled
    BY DEF UnderWayInOrder
<1>1. MessageOf(x) \in Messages /\ \A e \in Earlier(MessageOf(x)) : e \in Messages
    BY DeliveryFacts DEF Earlier
<1>2. CASE UnderWay(x)
  <2>1. status[MessageOf(x)] # "NONE" /\ \A e \in Earlier(MessageOf(x)) : status[e] \in Settled
      BY <1>2 DEF UnderWayInOrder
  <2>2. status'[MessageOf(x)] # "NONE"
      BY <1>1, <2>1, RowStep, NextStatusFacts
  <2>3. QED
      BY <1>1, <2>1, <2>2, SettledStays
<1>3. ASSUME MessageOf(x) \in Ready, status'[MessageOf(x)] = "IN_FLIGHT"
      PROVE  \A e \in Earlier(MessageOf(x)) : status'[e] \in Settled
  <2>1. ClaimedInOrder'
      BY NextRowInv
  <2>2. QED
      BY <1>1, <1>3, <2>1 DEF ClaimedInOrder
<1>4. QED
    BY <1>2, <1>3, UnderWayStep

\* The Task service never forgets a callback it has applied.
LEMMA AppliedStays ==
    ASSUME TypeOK, [Next]_vars, NEW m \in Messages
    PROVE  /\ applied[m] > 0 => applied'[m] > 0
           /\ applied[m] = 0 /\ applied'[m] > 0 => \E x \in network : MessageOf(x) = m
<1> USE DEF TypeOK
<1>1. ASSUME NEW x \in network, TaskApplies(x)
      PROVE  /\ applied[m] > 0 => applied'[m] > 0
             /\ applied[m] = 0 /\ applied'[m] > 0 => MessageOf(x) = m
  <2>1. MessageOf(x) \in Messages
      BY DeliveryFacts
  <2>2. applied' = [applied EXCEPT ![MessageOf(x)] =
                       IF kind[MessageOf(x)] = "FINISH" THEN 1 ELSE applied[MessageOf(x)] + 1]
      BY <1>1 DEF TaskApplies
  <2>3. QED
      BY <2>1, <2>2
<1>2. ASSUME UNCHANGED applied
      PROVE  /\ applied[m] > 0 => applied'[m] > 0
             /\ applied[m] = 0 /\ applied'[m] > 0 => FALSE
    BY <1>2
<1>3. QED
    BY <1>1, <1>2 DEF Next, DispatcherStep, Network, Enqueue, Poll, Deliver, GiveUp, Mark, ClaimLost,
       Crash, Abandon, LockGoesStale, TaskRejects, Lose, vars

LEMMA NextArrivalInv ==
    ASSUME OutboxInv, [Next]_vars
    PROVE  OkIsApplied' /\ SentIsApplied' /\ FirstArrivalInOrder'
<1> USE DEF OutboxInv
<1>1. OkIsApplied'
  <2> SUFFICES ASSUME NEW d \in Dispatchers, answer'[d] = "ok"
               PROVE  sending'[d] # NoDelivery /\ applied'[MessageOf(sending'[d])] > 0
      BY DEF OkIsApplied
  <2> USE DEF TypeOK
  <2>1. ASSUME answer[d] = "ok", sending'[d] = sending[d]
        PROVE  sending'[d] # NoDelivery /\ applied'[MessageOf(sending'[d])] > 0
      BY <2>1, DeliveryFacts, AppliedStays DEF OkIsApplied
  <2>2. ASSUME NEW x \in network, TaskApplies(x), answer[d] # "ok"
        PROVE  sending'[d] # NoDelivery /\ applied'[MessageOf(sending'[d])] > 0
    <3>1. /\ sending' = sending /\ sending[d] = x /\ x \in Deliveries
          /\ applied' = [applied EXCEPT ![MessageOf(x)] =
                            IF kind[MessageOf(x)] = "FINISH" THEN 1 ELSE applied[MessageOf(x)] + 1]
        BY <2>2 DEF TaskApplies, AnswerTo
    <3>2. QED
        BY <3>1, DeliveryFacts, NullsAssumption
  <2>3. ASSUME NEW c \in Dispatchers, NEW x \in batch[c], Deliver(c, x)
        PROVE  answer[d] = "ok" /\ sending'[d] = sending[d]
      BY <2>3 DEF Deliver, OkIsApplied
  <2>4. ASSUME NEW c \in Dispatchers, GiveUp(c) PROVE answer[d] = "ok" /\ sending'[d] = sending[d]
      BY <2>4 DEF GiveUp
  <2>5. ASSUME NEW c \in Dispatchers, Mark(c) \/ ClaimLost(c) \/ Crash(c)
        PROVE  answer[d] = "ok" /\ sending'[d] = sending[d]
      BY <2>5 DEF Mark, ClaimLost, Crash, Abandon
  <2>6. ASSUME NEW x \in network, TaskRejects(x) PROVE answer[d] = "ok" /\ sending'[d] = sending[d]
      BY <2>6 DEF TaskRejects, AnswerTo
  <2>7. ASSUME NEW x \in network, TaskApplies(x), answer[d] = "ok" PROVE sending'[d] = sending[d]
      BY <2>7 DEF TaskApplies
  <2>8. ASSUME UNCHANGED <<sending, answer>> PROVE answer[d] = "ok" /\ sending'[d] = sending[d]
      BY <2>8
  <2>9. QED
      BY <2>1, <2>2, <2>3, <2>4, <2>5, <2>6, <2>7, <2>8
         DEF Next, DispatcherStep, Network, Enqueue, Poll, LockGoesStale, Lose, vars, dispatcherVars
<1>2. SentIsApplied'
  <2> SUFFICES ASSUME NEW m \in Messages, status'[m] = "SENT" PROVE applied'[m] > 0
      BY DEF SentIsApplied
  <2> USE DEF TypeOK
  <2>1. CASE status[m] = "SENT"
      BY <2>1, AppliedStays DEF SentIsApplied
  <2>2. ASSUME NEW d \in Dispatchers, Mark(d), status[m] # "SENT" PROVE applied'[m] > 0
    <3>1. MessageOf(sending[d]) \in Messages
        BY <2>2, DeliveryFacts DEF Mark
    <3>2. m = MessageOf(sending[d]) /\ StatusToMark(d) = "SENT" /\ applied' = applied
        BY <2>2, <3>1 DEF Mark
    <3>3. answer[d] = "ok"
        BY <3>1, <3>2, NextStatusFacts DEF StatusToMark
    <3>4. QED
        BY <3>2, <3>3 DEF OkIsApplied
  <2>3. ASSUME NEW d \in Dispatchers, NEW claimed \in SUBSET Ready, Poll(d, claimed)
        PROVE  status[m] = "SENT"
      BY <2>3, NextStatusFacts DEF Poll, StatusAfterRecovery
  <2>4. ASSUME NEW n \in Messages, NEW k \in Kinds, Enqueue(n, k) PROVE status[m] = "SENT"
      BY <2>4 DEF Enqueue
  <2>5. ASSUME UNCHANGED status PROVE status[m] = "SENT"
      BY <2>5
  <2>6. QED
      BY <2>1, <2>2, <2>3, <2>4, <2>5 DEF Next, DispatcherStep, Network, Deliver, GiveUp, ClaimLost,
         Crash, Abandon, LockGoesStale, TaskApplies, TaskRejects, Lose, vars, rowVars
<1>3. FirstArrivalInOrder'
  <2> SUFFICES ASSUME NEW m \in Messages, applied'[m] > 0, NEW e \in Earlier(m)
               PROVE  applied'[e] > 0 \/ status'[e] = "DEAD"
      BY DEF FirstArrivalInOrder
  <2>1. e \in Messages
      BY DEF Earlier
  <2>2. applied[e] > 0 \/ status[e] = "DEAD"
    <3>1. CASE applied[m] > 0
        BY <3>1 DEF FirstArrivalInOrder
    <3>2. CASE ~(applied[m] > 0)
      <4>1. applied[m] = 0
          BY <3>2 DEF TypeOK
      <4>2. PICK x \in network : MessageOf(x) = m
          BY <4>1, AppliedStays
      <4>3. status[e] \in Settled
          BY <4>2 DEF UnderWayInOrder, UnderWay, TypeOK
      <4>4. QED
          BY <2>1, <4>3 DEF SentIsApplied, Settled
    <3>3. QED
        BY <3>1, <3>2
  <2>3. QED
      BY <2>1, <2>2, AppliedStays, SettledStays DEF Settled
<1>4. QED
    BY <1>1, <1>2, <1>3

\* Only writing a callback can give an attempt a FINISH row.
LEMMA NextOneFinish ==
    ASSUME OutboxInv, [Next]_vars
    PROVE  OneFinish'
<1> USE DEF OutboxInv, TypeOK
<1>1. ASSUME NEW n \in Messages, NEW k \in Kinds, Enqueue(n, k) PROVE OneFinish'
  <2> SUFFICES ASSUME NEW l \in Messages, NEW m \in Messages, l[1] = m[1],
                      status'[l] # "NONE", status'[m] # "NONE",
                      kind'[l] = "FINISH", kind'[m] = "FINISH"
               PROVE  l = m
      BY DEF OneFinish
  <2>1. /\ status[n] = "NONE" /\ ~KeyExists(n[1], k)
        /\ status' = [status EXCEPT ![n] = "PENDING"] /\ kind' = [kind EXCEPT ![n] = k]
      BY <1>1 DEF Enqueue
  <2>2. CASE l # n /\ m # n
      BY <2>1, <2>2 DEF OneFinish
  <2>3. ASSUME NEW o \in Messages, o # n, o[1] = n[1], status'[o] # "NONE", kind'[o] = "FINISH",
               k = "FINISH"
        PROVE  FALSE
      BY <2>1, <2>3 DEF KeyExists, Keyed
  <2>4. CASE l = n \/ m = n
      BY <2>1, <2>3, <2>4
  <2>5. QED
      BY <2>2, <2>4
<1>2. ASSUME NEW m \in Messages, NEW n \in Messages,
             status'[m] = "NONE" <=> status[m] = "NONE",
             status'[n] = "NONE" <=> status[n] = "NONE", UNCHANGED kind,
             m[1] = n[1], status'[m] # "NONE", status'[n] # "NONE",
             kind'[m] = "FINISH", kind'[n] = "FINISH"
      PROVE  m = n
    BY <1>2 DEF OneFinish
<1>3. ASSUME UNCHANGED kind, \A m \in Messages : status'[m] = "NONE" <=> status[m] = "NONE"
      PROVE  OneFinish'
    BY <1>2, <1>3 DEF OneFinish
<1>4. ASSUME NEW d \in Dispatchers, NEW claimed \in SUBSET Ready, Poll(d, claimed) PROVE OneFinish'
  <2>1. \A m \in Messages : status'[m] = "NONE" <=> status[m] = "NONE"
      BY <1>4, NextStatusFacts DEF Poll, Ready, StatusAfterRecovery, StaleIsLocked
  <2>2. QED
      BY <1>3, <1>4, <2>1 DEF Poll
<1>5. ASSUME NEW d \in Dispatchers, Mark(d) PROVE OneFinish'
  <2>1. StatusToMark(d) # "NONE"
      BY <1>5, DeliveryFacts, NextStatusFacts DEF Mark, StatusToMark
  <2>2. \A m \in Messages : status'[m] = "NONE" <=> status[m] = "NONE"
      BY <1>5, <2>1 DEF Mark, ClaimHeld
  <2>3. QED
      BY <1>3, <1>5, <2>2 DEF Mark
<1>6. ASSUME UNCHANGED <<status, kind>> PROVE OneFinish'
    BY <1>6 DEF OneFinish
<1>7. QED
    BY <1>1, <1>4, <1>5, <1>6 DEF Next, DispatcherStep, Network, Deliver, GiveUp, ClaimLost, Crash,
       Abandon, LockGoesStale, TaskApplies, TaskRejects, Lose, vars, rowVars

LEMMA NextOutboxInv == OutboxInv /\ [Next]_vars => OutboxInv'
BY NextTypeOK, NextRowInv, NextUnderWayInv, NextArrivalInv, NextOneFinish DEF OutboxInv

LEMMA OutboxInvariant == Spec => []OutboxInv
BY InitOutboxInv, NextOutboxInv, PTL DEF Spec

-----------------------------------------------------------------------------
(* The channel                                                             *)

\* The channel's names for what the rows say.
LEMMA ChannelFacts ==
    /\ \A m \in Messages : Channel!Before(m) = Earlier(m)
    /\ Channel!Closed = {m \in Messages : status[m] \in Settled}
    /\ \A m \in Messages :
          Channel!Due(m) <=>
              /\ status[m] # "NONE" /\ status[m] \notin Settled
              /\ \A e \in Earlier(m) : status[e] \in Settled
<1>1. \A m \in Messages : Channel!Before(m) = Earlier(m)
    BY DEF Channel!Before, Earlier
<1>2. Channel!Closed = {m \in Messages : status[m] \in Settled}
    BY DEF Channel!Closed, Settled
<1>3. \A m \in Messages : Earlier(m) \subseteq Messages
    BY DEF Earlier
<1>4. QED
    BY <1>1, <1>2, <1>3 DEF Channel!Due

\* A claimed callback is the one whose turn it is.
LEMMA ClaimedIsDue ==
    ASSUME OutboxInv, NEW m \in Messages, status[m] = "IN_FLIGHT"
    PROVE  Channel!Due(m)
BY ChannelFacts DEF OutboxInv, ClaimedInOrder, Settled

\* Nothing happens to the channel.
ChannelStutters ==
    /\ \A m \in Messages : status'[m] = "NONE" <=> status[m] = "NONE"
    /\ \A m \in Messages : \A s \in Settled : status'[m] = s <=> status[m] = s
    /\ kind' = kind
    /\ \A m \in Messages : applied'[m] > 0 <=> applied[m] > 0

LEMMA StutterStep == ChannelStutters => UNCHANGED Channel!channelVars
BY DEF ChannelStutters, Channel!channelVars, Settled

LEMMA WriteStep ==
    ASSUME OutboxInv, NEW m \in Messages, NEW k \in Kinds, Enqueue(m, k)
    PROVE  Channel!Write(m, k = "FINISH")
<1> USE DEF OutboxInv, TypeOK
<1>1. /\ status[m] = "NONE" /\ (\A e \in Earlier(m) : status[e] # "NONE") /\ ~KeyExists(m[1], k)
      /\ status' = [status EXCEPT ![m] = "PENDING"] /\ kind' = [kind EXCEPT ![m] = k]
      /\ applied' = applied
    BY DEF Enqueue
<1>2. Earlier(m) \subseteq {e \in Messages : status[e] # "NONE"}
    BY <1>1 DEF Earlier
<1>3. k = "FINISH" => \A f \in Messages : status[f] # "NONE" /\ kind[f] = "FINISH" => f[1] # m[1]
    BY <1>1 DEF KeyExists, Keyed
<1>4. \A n \in Messages : n # m => status'[n] = status[n] /\ kind'[n] = kind[n]
    BY <1>1
<1>5. status'[m] = "PENDING" /\ kind'[m] = k
    BY <1>1
<1>6. /\ {n \in Messages : status'[n] # "NONE"} = {n \in Messages : status[n] # "NONE"} \cup {m}
      /\ {n \in Messages : status'[n] = "SENT"} = {n \in Messages : status[n] = "SENT"}
      /\ {n \in Messages : status'[n] = "DEAD"} = {n \in Messages : status[n] = "DEAD"}
    BY <1>1, <1>4, <1>5
<1>7. {n \in Messages : status'[n] # "NONE" /\ kind'[n] = "FINISH"} =
          IF k = "FINISH" THEN {n \in Messages : status[n] # "NONE" /\ kind[n] = "FINISH"} \cup {m}
          ELSE {n \in Messages : status[n] # "NONE" /\ kind[n] = "FINISH"}
    BY <1>1, <1>4, <1>5
<1>8. QED
    BY <1>1, <1>2, <1>3, <1>6, <1>7, ChannelFacts DEF Channel!Write

\* Recovery gives up the stale claims that had their last try; what is claimed
\* is of no interest to the channel.
LEMMA RecoverStep ==
    ASSUME OutboxInv, NEW d \in Dispatchers, NEW claimed \in SUBSET Ready, Poll(d, claimed)
    PROVE  \E lost \in SUBSET Messages : Channel!GiveUpAll(lost)
<1> USE DEF OutboxInv, TypeOK
<1>0. PICK lost \in SUBSET Messages :
         \A m \in Messages : m \in lost <=> m \in stale /\ NextStatus(m) = "DEAD"
  <2> WITNESS {m \in Messages : m \in stale /\ NextStatus(m) = "DEAD"} \in SUBSET Messages
  <2> QED
      OBVIOUS
<1>1. \A m \in lost : Channel!Due(m)
    BY <1>0, ClaimedIsDue DEF StaleIsLocked
<1>2. \A m \in Messages : status'[m] = IF m \in claimed THEN "IN_FLIGHT" ELSE StatusAfterRecovery[m]
    BY DEF Poll
<1>3. \A m \in claimed : status[m] \notin {"NONE", "SENT", "DEAD"} /\ m \notin lost
    BY <1>0, NextStatusFacts DEF Ready, StatusAfterRecovery, StaleIsLocked
<1>4. \A m \in Messages : StatusAfterRecovery[m] = IF m \in stale THEN NextStatus(m) ELSE status[m]
    BY DEF StatusAfterRecovery
<1>5. \A m \in Messages : m \in stale => status[m] = "IN_FLIGHT" /\ NextStatus(m) \in {"RETRY", "DEAD"}
    BY NextStatusFacts DEF StaleIsLocked
<1>6. \A m \in Messages :
          /\ status'[m] = "NONE" <=> status[m] = "NONE"
          /\ status'[m] = "SENT" <=> status[m] = "SENT"
          /\ status'[m] = "DEAD" <=> status[m] = "DEAD" \/ m \in lost
    BY <1>0, <1>2, <1>3, <1>4, <1>5
<1>7. kind' = kind /\ applied' = applied
    BY DEF Poll
<1>8. {m \in Messages : status'[m] = "DEAD"} = {m \in Messages : status[m] = "DEAD"} \cup lost
    BY <1>6
<1>9. Channel!GiveUpAll(lost)
    BY <1>1, <1>6, <1>7, <1>8 DEF Channel!GiveUpAll
<1>10. QED
    BY <1>9

LEMMA MarkStep ==
    ASSUME OutboxInv, NEW d \in Dispatchers, Mark(d)
    PROVE  \/ \E m \in Messages : Channel!Confirm(m) \/ Channel!GiveUpAll({m})
           \/ ChannelStutters
<1> USE DEF OutboxInv, TypeOK
<1>0. PICK m \in Messages : m = MessageOf(sending[d])
    BY DeliveryFacts DEF Mark
<1>1. /\ status[m] = "IN_FLIGHT" /\ status' = [status EXCEPT ![m] = StatusToMark(d)]
      /\ kind' = kind /\ applied' = applied
    BY <1>0 DEF Mark, ClaimHeld
<1>2. StatusToMark(d) = "SENT" => applied[m] > 0
    BY <1>0, <1>1, NextStatusFacts DEF StatusToMark, OkIsApplied
<1>3. StatusToMark(d) \in {"SENT", "DEAD", "RETRY"}
    BY <1>0, <1>1, NextStatusFacts DEF StatusToMark
<1>4. Channel!Due(m)
    BY <1>1, ClaimedIsDue
<1>5. CASE StatusToMark(d) = "SENT"
  <2>1. /\ {n \in Messages : status'[n] = "SENT"} = {n \in Messages : status[n] = "SENT"} \cup {m}
        /\ {n \in Messages : status'[n] = "DEAD"} = {n \in Messages : status[n] = "DEAD"}
        /\ \A n \in Messages : status'[n] # "NONE" <=> status[n] # "NONE"
      BY <1>1, <1>5
  <2>2. Channel!Confirm(m)
      BY <1>1, <1>2, <1>4, <1>5, <2>1 DEF Channel!Confirm
  <2>3. QED
      BY <1>1, <2>2
<1>6. CASE StatusToMark(d) = "DEAD"
  <2>1. /\ {n \in Messages : status'[n] = "DEAD"} = {n \in Messages : status[n] = "DEAD"} \cup {m}
        /\ {n \in Messages : status'[n] = "SENT"} = {n \in Messages : status[n] = "SENT"}
        /\ \A n \in Messages : status'[n] # "NONE" <=> status[n] # "NONE"
      BY <1>1, <1>6
  <2>2. Channel!GiveUpAll({m})
      BY <1>1, <1>4, <2>1 DEF Channel!GiveUpAll
  <2>3. QED
      BY <1>1, <2>2
<1>7. CASE StatusToMark(d) = "RETRY"
    BY <1>1, <1>7 DEF ChannelStutters, Settled
<1>8. QED
    BY <1>3, <1>5, <1>6, <1>7

\* Of the requests for one callback only the first to arrive is news.
LEMMA ReceiveStep ==
    ASSUME OutboxInv, NEW x \in network, TaskApplies(x)
    PROVE  (\E m \in Messages : Channel!Receive(m)) \/ ChannelStutters
<1> DEFINE m == MessageOf(x)
<1> USE DEF OutboxInv, TypeOK
<1>1. /\ m \in Messages /\ status' = status /\ kind' = kind
      /\ applied' = [applied EXCEPT ![m] = IF kind[m] = "FINISH" THEN 1 ELSE applied[m] + 1]
    BY DeliveryFacts DEF TaskApplies, rowVars
<1>2. status[m] # "NONE" /\ \A e \in Earlier(m) : status[e] \in Settled
    BY DEF UnderWayInOrder, UnderWay
<1> HIDE DEF m
<1>3. applied'[m] > 0 /\ \A n \in Messages : n # m => applied'[n] = applied[n]
    BY <1>1
<1>4. CASE applied[m] > 0
    BY <1>1, <1>3, <1>4 DEF ChannelStutters
<1>5. CASE ~(applied[m] > 0)
  <2>1. {n \in Messages : applied'[n] > 0} = {n \in Messages : applied[n] > 0} \cup {m}
      BY <1>1, <1>3
  <2>2. Earlier(m) \subseteq {n \in Messages : status[n] \in Settled}
      BY <1>2 DEF Earlier
  <2>3. Channel!Receive(m)
      BY <1>1, <1>2, <1>5, <2>1, <2>2, ChannelFacts DEF Channel!Receive
  <2>4. QED
      BY <1>1, <2>3
<1>6. QED
    BY <1>4, <1>5

LEMMA ChannelStep ==
    ASSUME OutboxInv, [Next]_vars
    PROVE  [Channel!ChannelNext]_(Channel!channelVars)
<1>1. ASSUME NEW m \in Messages, NEW k \in Kinds, Enqueue(m, k) PROVE Channel!ChannelNext
    BY <1>1, WriteStep DEF Channel!ChannelNext
<1>2. ASSUME NEW d \in Dispatchers, NEW claimed \in SUBSET Ready, Poll(d, claimed)
      PROVE  Channel!ChannelNext
    BY <1>2, RecoverStep DEF Channel!ChannelNext
<1>3. ASSUME NEW d \in Dispatchers, Mark(d) PROVE Channel!ChannelNext \/ ChannelStutters
    BY <1>3, MarkStep DEF Channel!ChannelNext
<1>4. ASSUME NEW x \in network, TaskApplies(x) PROVE Channel!ChannelNext \/ ChannelStutters
    BY <1>4, ReceiveStep DEF Channel!ChannelNext
<1>5. ASSUME UNCHANGED <<status, kind, applied>> PROVE ChannelStutters
    BY <1>5 DEF ChannelStutters
<1>6. QED
    BY <1>1, <1>2, <1>3, <1>4, <1>5, StutterStep
       DEF Next, DispatcherStep, Network, Deliver, GiveUp, ClaimLost, Crash, Abandon, LockGoesStale,
           TaskRejects, Lose, vars, rowVars

LEMMA ChannelStart == Init => Channel!ChannelInit
BY DEF Init, Channel!ChannelInit

-----------------------------------------------------------------------------
(* The results                                                             *)

\* Every variable keeps its type.
THEOREM OutboxTypeCorrect == Spec => []TypeOK
<1>1. OutboxInv => TypeOK
    BY DEF OutboxInv
<1>2. QED
    BY <1>1, OutboxInvariant, PTL

\* Callbacks are claimed and first received in the order of their attempt, none
\* is marked sent that the Task service does not have and none is left without a
\* try: outbox.py's claim_ready, mark_sent, mark_failed, recover_stale and
\* enqueue together.
THEOREM OutboxSafe ==
    Spec => [](ClaimedInOrder /\ FirstArrivalInOrder /\ SentIsApplied /\ TriesLeft)
<1>1. OutboxInv => ClaimedInOrder /\ FirstArrivalInOrder /\ SentIsApplied /\ TriesLeft
    BY DEF OutboxInv
<1>2. QED
    BY <1>1, OutboxInvariant, PTL

\* What mark_sent records was received by the Task service, however late the
\* answer came and whoever had taken the callback over meanwhile.
THEOREM SentWasReceived == Spec => []SentIsApplied
BY OutboxSafe, PTL

\* No late answer, recovery or crash changes a callback that is SENT or DEAD.
THEOREM SettledIsForGood == Spec => SettledForGood
<1>1. OutboxInv /\ [Next]_vars => [\A m \in Messages : status[m] \in Settled => status'[m] = status[m]]_vars
    BY SettledStays DEF OutboxInv
<1>2. QED
    BY <1>1, OutboxInvariant, PTL DEF Spec, SettledForGood

\* The outbox implements OrderedDelivery: the dispatchers of outbox.py, however
\* they compete, die and are answered late, are one channel for each attempt.
THEOREM OutboxIsOrderedDelivery == Spec => DeliversInOrder
<1>1. OutboxInv /\ [Next]_vars => [Channel!ChannelNext]_(Channel!channelVars)
    BY ChannelStep
<1>2. QED
    BY <1>1, ChannelStart, OutboxInvariant, PTL DEF Spec, DeliversInOrder, Channel!ChannelSpec
=============================================================================
