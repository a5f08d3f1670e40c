-------------------------- MODULE WorkerPoolProofs --------------------------
(***************************************************************************)
(* Proofs about WorkerPool, for any number of leases, runs, engines and    *)
(* slots, with crashes, shutdowns and failing writes at every step.        *)
(***************************************************************************)
EXTENDS WorkerPool, TLAPS

\* The types that the other properties rest on; those of TypeOK that do not
\* matter to them follow below.
PoolTypes ==
    /\ leaseState \in [Leases -> {"FREE", "LIVE", "OVER"}]
    /\ holder \in [Leases -> Engines \cup {NoEngine}]
    /\ mode \in [Engines -> {"UP", "STOPPING", "DOWN"}]
    /\ phase \in [Leases -> Phases]
    /\ child \in [Leases -> {"NONE", "BUSY", "IGNORES"} \cup Results]
    /\ verdict \in [Leases -> Terminal]
    /\ handled \in [Leases -> Nat]
    /\ attempt \in [Leases -> {"NONE"} \cup Active \cup Terminal]
    /\ finish \in [Leases -> {"NONE"} \cup Results]

\* A lease has a holder, and nobody executes it before.
LeasesHaveHolders ==
    \A l \in Leases :
        /\ leaseState[l] # "FREE" => holder[l] \in Engines
        /\ leaseState[l] = "FREE" => phase[l] = "IDLE"

\* An execution lives in its engine's process.
ExecutionsLive ==
    \A l \in Leases : phase[l] # "IDLE" => mode[holder[l]] # "DOWN"

\* What the coroutine knows of its attempt is true: nobody else writes it.
PhaseKnowsAttempt ==
    \A l \in Leases :
        /\ phase[l] = "RECORDED" => attempt[l] = "LEASED"
        /\ phase[l] \in {"STARTED", "HANDLING"} => attempt[l] = "RUNNING"
        /\ phase[l] \in Writing => attempt[l] # "NONE"

\* Only the monitor of a running handler waits for a renewal.
RenewalsAreMonitored == \A l \in renewing : l \in Leases /\ phase[l] = "HANDLING"

\* The handler has not run before the attempt is RUNNING and has its turn.
HandlerWaitsItsTurn ==
    \A l \in Leases :
        attempt[l] \in {"NONE", "LEASED"} \/ phase[l] = "STARTED" => handled[l] = 0

\* The inductive invariant.
PoolInv ==
    /\ PoolTypes /\ LeasesHaveHolders /\ ExecutionsLive /\ PhaseKnowsAttempt
    /\ RenewalsAreMonitored /\ FinishMatchesAttempt /\ HandlerWaitsItsTurn /\ HandledOnce

LEMMA InitPoolInv == Init => PoolInv
BY DEF Init, PoolInv, PoolTypes, LeasesHaveHolders, ExecutionsLive, PhaseKnowsAttempt, Writing,
   RenewalsAreMonitored, FinishMatchesAttempt, HandlerWaitsItsTurn, HandledOnce, Phases, Terminal, Results, Active

-----------------------------------------------------------------------------
(* Steps that leave the attempts alone                                     *)

\* An execution that moves on within one engine, without touching the tables.
LEMMA QuietStep ==
    ASSUME PoolInv, PoolTypes', NEW l \in Leases,
           UNCHANGED <<holder, mode, attempt, finish, handled>>,
           phase[l] # "IDLE",
           phase' = [phase EXCEPT ![l] = phase'[l]],
           phase'[l] \in {"IDLE"} \cup Writing,
           phase[l] = "ENTERED" => phase'[l] = "IDLE",
           renewing' \subseteq renewing \ {l},
           \A k \in Leases : (leaseState'[k] = "FREE") <=> (leaseState[k] = "FREE")
    PROVE  PoolInv'
<1>1. PhaseKnowsAttempt'
    BY DEF PoolInv, PoolTypes, PhaseKnowsAttempt, Phases, Writing
<1>2. QED
    BY <1>1 DEF PoolInv, PoolTypes, LeasesHaveHolders, ExecutionsLive, RenewalsAreMonitored,
       FinishMatchesAttempt, HandlerWaitsItsTurn, HandledOnce, Writing

\* A step of the Task service, the flow or the clock.
LEMMA OutsideStep ==
    ASSUME PoolInv, PoolTypes',
           UNCHANGED <<holder, mode, phase, attempt, finish, handled>>,
           RenewalsAreMonitored',
           \A k \in Leases : (leaseState'[k] = "FREE") <=> (leaseState[k] = "FREE")
    PROVE  PoolInv'
BY DEF PoolInv, PoolTypes, LeasesHaveHolders, ExecutionsLive, PhaseKnowsAttempt, Writing,
   RenewalsAreMonitored, FinishMatchesAttempt, HandlerWaitsItsTurn, HandledOnce

\* The outcome and its FINISH are written, and the execution ends, tries again,
\* because it does not know, or has been cancelled meanwhile.
LEMMA CommitStep ==
    ASSUME PoolInv, PoolTypes', NEW l \in Leases,
           UNCHANGED <<leaseState, holder, mode, handled>>, renewing' \subseteq renewing,
           phase[l] \in Writing, Commit(l),
           phase' = [phase EXCEPT ![l] = phase'[l]],
           phase'[l] \in {"IDLE"} \cup Writing
    PROVE  PoolInv'
<1> USE DEF PoolInv, PoolTypes
<1>1. attempt'[l] \in Terminal /\ \A k \in Leases \ {l} : attempt'[k] = attempt[k] /\ finish'[k] = finish[k]
    BY DEF Commit, NewStatus
<1>2. FinishMatchesAttempt'
    BY <1>1 DEF FinishMatchesAttempt, Commit, NewStatus, EnqueueFinish, Terminal, Reported, Results
<1>3. PhaseKnowsAttempt' /\ LeasesHaveHolders' /\ ExecutionsLive' /\ RenewalsAreMonitored'
    BY <1>1 DEF PhaseKnowsAttempt, LeasesHaveHolders, ExecutionsLive, RenewalsAreMonitored, Writing,
       Terminal, Results
<1>4. HandlerWaitsItsTurn' /\ HandledOnce'
    BY <1>1 DEF HandlerWaitsItsTurn, HandledOnce, Terminal, Results, Writing
<1>5. QED
    BY <1>2, <1>3, <1>4

-----------------------------------------------------------------------------
(* Types                                                                   *)

LEMMA NextPoolTypes == PoolInv /\ [Next]_vars => PoolTypes'
<1> SUFFICES ASSUME PoolInv, [Next]_vars PROVE PoolTypes'
    OBVIOUS
<1> USE DEF PoolInv, PoolTypes, Phases, Terminal, Results, Active,
            taskVars, executionVars, tableVars
<1>w. ASSUME NEW l \in Leases, PendingWrite(l)
      PROVE  /\ attempt' \in [Leases -> {"NONE"} \cup Active \cup Terminal]
             /\ finish' \in [Leases -> {"NONE"} \cup Results]
    BY <1>w DEF PendingWrite, CreateAttempt, MarkRunning, Commit, NewStatus, EnqueueFinish, Reported
<1>1. ASSUME NEW l \in Leases, DeadlinePasses(l) \/ LeaseExpires(l) \/ ReportArrives(l)
      PROVE  PoolTypes'
    BY <1>1 DEF DeadlinePasses, LeaseExpires, ReportArrives
<1>2. ASSUME NEW e \in Engines, NEW granted \in SUBSET Leases, NEW arrives \in BOOLEAN,
             Poll(e, granted, arrives)
      PROVE  PoolTypes'
    BY <1>2 DEF Poll
<1>3. ASSUME NEW l \in Leases, Redeliver(l) \/ RenewalStarts(l) PROVE PoolTypes'
    BY <1>3 DEF Redeliver, RenewalStarts
<1>4. ASSUME NEW l \in Leases,
             AlreadyRecorded(l) \/ RefuseUnrecorded(l) \/ Record(l) \/ RecordFails(l)
      PROVE  PoolTypes'
    BY <1>4, <1>w DEF AlreadyRecorded, RefuseUnrecorded, Record, RecordFails, PendingWrite, CreateAttempt,
       ReportDirectly, GoesTo
<1>5. ASSUME NEW l \in Leases, Refuse(l) \/ Start(l) \/ Handle(l) \/ StartFails(l) PROVE PoolTypes'
    BY <1>5, <1>w DEF Refuse, Start, MarkRunning, Handle, StartFails, WillWrite, GoesTo
<1>6. ASSUME NEW l \in Leases, NEW result \in Results, ChildEnds(l, result) PROVE PoolTypes'
    BY <1>6 DEF ChildEnds
<1>7. ASSUME NEW l \in Leases,
             HandlerReturns(l) \/ RenewalEnds(l) \/ RenewalRaises(l) \/ NoticeExpiry(l)
      PROVE  PoolTypes'
    BY <1>7 DEF HandlerReturns, RenewalEnds, RenewalRaises, NoticeExpiry, CancelChild, WillWrite, GoesTo
<1>8. ASSUME NEW l \in Leases, Complete(l) \/ CompleteFails(l) PROVE PoolTypes'
    BY <1>8, <1>w DEF Complete, CompleteFails, PendingWrite, Ends, WillWrite, GoesTo
<1>9. ASSUME NEW l \in Leases, Cancel(l) PROVE PoolTypes'
    BY <1>9, <1>w DEF Cancel, CancelChild, ReportDirectly, Ends, WillWrite, GoesTo
<1>10. ASSUME NEW e \in Engines, Stop(e) \/ Exit(e) \/ Restart(e) PROVE PoolTypes'
    BY <1>10 DEF Stop, Exit, Restart, EnqueueFinish, Reported, Interrupted
<1>11. ASSUME UNCHANGED vars PROVE PoolTypes'
    BY <1>11 DEF vars
<1>12. QED
    BY <1>1, <1>2, <1>3, <1>4, <1>5, <1>6, <1>7, <1>8, <1>9, <1>10, <1>11
    DEF Next, HealthyNext, DatabaseFails, Executing

-----------------------------------------------------------------------------
(* The invariant                                                           *)

\* Recording the attempt, which nobody has executed before.
LEMMA RecordStep ==
    ASSUME PoolInv, PoolTypes', NEW l \in Leases,
           UNCHANGED <<leaseState, holder, mode, handled>>, renewing' \subseteq renewing,
           phase[l] = "ENTERED", CreateAttempt(l),
           phase' = [phase EXCEPT ![l] = phase'[l]],
           phase'[l] \in {"RECORDED", "IDLE"}
    PROVE  PoolInv'
<1> USE DEF PoolInv, PoolTypes
<1>1. attempt[l] = "NONE" /\ attempt' = [attempt EXCEPT ![l] = "LEASED"] /\ finish' = finish
    BY DEF CreateAttempt, Recorded
<1>2. LeasesHaveHolders' /\ ExecutionsLive' /\ PhaseKnowsAttempt' /\ RenewalsAreMonitored'
    BY <1>1 DEF LeasesHaveHolders, ExecutionsLive, PhaseKnowsAttempt, Writing, RenewalsAreMonitored
<1>3. FinishMatchesAttempt'
    BY <1>1 DEF FinishMatchesAttempt, Terminal, Results
<1>4. HandlerWaitsItsTurn' /\ HandledOnce'
    BY <1>1 DEF HandlerWaitsItsTurn, HandledOnce
<1>5. QED
    BY <1>2, <1>3, <1>4

\* RUNNING is written over LEASED, whatever _transition would write it over.
LEMMA RunningStep ==
    ASSUME PoolInv, PoolTypes', NEW l \in Leases,
           UNCHANGED <<leaseState, holder, mode, handled>>, renewing' \subseteq renewing,
           phase[l] = "RECORDED", MarkRunning(l),
           phase' = [phase EXCEPT ![l] = phase'[l]],
           phase'[l] \in {"STARTED"} \cup Writing
    PROVE  PoolInv'
<1> USE DEF PoolInv, PoolTypes
<1>1. attempt[l] = "LEASED" /\ attempt' = [attempt EXCEPT ![l] = "RUNNING"] /\ finish' = finish
    BY DEF MarkRunning, PhaseKnowsAttempt
<1>2. LeasesHaveHolders' /\ ExecutionsLive' /\ PhaseKnowsAttempt' /\ RenewalsAreMonitored'
    BY <1>1 DEF LeasesHaveHolders, ExecutionsLive, PhaseKnowsAttempt, Writing, RenewalsAreMonitored
<1>3. FinishMatchesAttempt'
    BY <1>1 DEF FinishMatchesAttempt, Terminal, Results
<1>4. HandlerWaitsItsTurn' /\ HandledOnce'
    BY <1>1 DEF HandlerWaitsItsTurn, HandledOnce, Writing
<1>5. QED
    BY <1>2, <1>3, <1>4

\* The handler starts, once.
LEMMA HandleStep ==
    ASSUME PoolInv, PoolTypes', NEW l \in Leases, Handle(l)
    PROVE  PoolInv'
<1> USE DEF PoolInv, PoolTypes, taskVars, tableVars, GoesTo
<1>1. LeasesHaveHolders' /\ ExecutionsLive' /\ PhaseKnowsAttempt' /\ RenewalsAreMonitored'
    BY DEF Handle, LeasesHaveHolders, ExecutionsLive, PhaseKnowsAttempt, Writing, RenewalsAreMonitored
<1>2. FinishMatchesAttempt'
    BY DEF Handle, FinishMatchesAttempt
<1>3. HandlerWaitsItsTurn' /\ HandledOnce'
    BY DEF Handle, HandlerWaitsItsTurn, HandledOnce, PhaseKnowsAttempt
<1>4. QED
    BY <1>1, <1>2, <1>3

\* A write under way is applied, unseen, while the execution is cancelled or
\* gets an error; or it is not.
LEMMA PendingStep ==
    ASSUME PoolInv, PoolTypes', NEW l \in Leases,
           PendingWrite(l) \/ UNCHANGED tableVars,
           UNCHANGED <<leaseState, holder, mode, handled>>, renewing' \subseteq renewing \ {l},
           phase[l] # "IDLE",
           phase' = [phase EXCEPT ![l] = phase'[l]],
           IF phase[l] = "ENTERED" THEN phase'[l] = "IDLE" ELSE phase'[l] \in {"IDLE"} \cup Writing,
           phase[l] = "RECORDED" => phase'[l] # "IDLE"
    PROVE  PoolInv'
<1>1. CASE phase[l] = "ENTERED" /\ CreateAttempt(l)
    BY <1>1, RecordStep
<1>2. CASE phase[l] = "RECORDED" /\ MarkRunning(l)
    BY <1>2, RunningStep
<1>3. CASE phase[l] \in Writing /\ Commit(l)
    BY <1>3, CommitStep DEF Writing
<1>4. CASE UNCHANGED tableVars
  <2>1. UNCHANGED <<holder, mode, attempt, finish, handled>>
      BY <1>4 DEF tableVars
  <2>2. \A k \in Leases : (leaseState'[k] = "FREE") <=> (leaseState[k] = "FREE")
      OBVIOUS
  <2>3. phase'[l] \in {"IDLE"} \cup Writing /\ (phase[l] = "ENTERED" => phase'[l] = "IDLE")
      OBVIOUS
  <2>4. QED
      BY <2>1, <2>2, <2>3, QuietStep
<1>5. QED
    BY <1>1, <1>2, <1>3, <1>4 DEF PendingWrite

\* A lease reaches its engine: nothing is known of its attempt yet.
LEMMA EnterStep ==
    ASSUME PoolInv, PoolTypes',
           \/ \E e \in Engines, granted \in SUBSET Leases, arrives \in BOOLEAN : Poll(e, granted, arrives)
           \/ \E l \in Leases : Redeliver(l)
    PROVE  PoolInv'
<1> USE DEF PoolInv, PoolTypes, taskVars, tableVars
<1>1. ASSUME NEW e \in Engines, NEW granted \in SUBSET Leases, NEW arrives \in BOOLEAN,
             Poll(e, granted, arrives)
      PROVE  PoolInv'
  <2>1. \A l \in granted : leaseState[l] = "FREE"
      BY <1>1 DEF Poll, Grantable
  <2>2. LeasesHaveHolders'
      BY <1>1, <2>1 DEF Poll, LeasesHaveHolders
  <2>3. ExecutionsLive' /\ RenewalsAreMonitored'
      BY <1>1, <2>1 DEF Poll, LeasesHaveHolders, ExecutionsLive, RenewalsAreMonitored
  <2>4. PhaseKnowsAttempt' /\ FinishMatchesAttempt' /\ HandlerWaitsItsTurn' /\ HandledOnce'
      BY <1>1 DEF Poll, PhaseKnowsAttempt, Writing, FinishMatchesAttempt, HandlerWaitsItsTurn, HandledOnce
  <2>5. QED
      BY <2>2, <2>3, <2>4
<1>2. ASSUME NEW l \in Leases, Redeliver(l) PROVE PoolInv'
    BY <1>2 DEF Redeliver, LeasesHaveHolders, ExecutionsLive, PhaseKnowsAttempt, Writing,
       RenewalsAreMonitored, FinishMatchesAttempt, HandlerWaitsItsTurn, HandledOnce
<1>3. QED
    BY <1>1, <1>2

\* A process ends with its executions, and its successor, which finds none of
\* them, abandons what they have left active.
LEMMA ProcessStep ==
    ASSUME PoolInv, PoolTypes', NEW e \in Engines, Stop(e) \/ Exit(e) \/ Restart(e)
    PROVE  PoolInv'
<1> USE DEF PoolInv, PoolTypes, taskVars, executionVars, tableVars
<1>1. CASE Stop(e)
    BY <1>1 DEF Stop, LeasesHaveHolders, ExecutionsLive, PhaseKnowsAttempt, Writing,
       RenewalsAreMonitored, FinishMatchesAttempt, HandlerWaitsItsTurn, HandledOnce
<1>2. CASE Exit(e)
    BY <1>2 DEF Exit, HeldBy, LeasesHaveHolders, ExecutionsLive, PhaseKnowsAttempt, Writing,
       RenewalsAreMonitored, FinishMatchesAttempt, HandlerWaitsItsTurn, HandledOnce
<1>3. CASE Restart(e)
  <2>1. \A l \in Interrupted(e) : phase[l] = "IDLE" /\ attempt[l] \notin Terminal /\ attempt[l] # "NONE"
      BY <1>3 DEF Restart, Interrupted, HeldBy, ExecutionsLive, Active, Terminal, Results
  <2>2. LeasesHaveHolders' /\ ExecutionsLive' /\ PhaseKnowsAttempt' /\ RenewalsAreMonitored'
      BY <1>3, <2>1 DEF Restart, LeasesHaveHolders, ExecutionsLive, PhaseKnowsAttempt, Writing, RenewalsAreMonitored
  <2>3. FinishMatchesAttempt'
      BY <1>3, <2>1 DEF Restart, FinishMatchesAttempt, EnqueueFinish, Terminal
  <2>4. HandlerWaitsItsTurn' /\ HandledOnce'
      BY <1>3, <2>1 DEF Restart, HandlerWaitsItsTurn, HandledOnce
  <2>5. QED
      BY <2>2, <2>3, <2>4
<1>4. QED
    BY <1>1, <1>2, <1>3

LEMMA NextPoolInv == PoolInv /\ [Next]_vars => PoolInv'
<1> SUFFICES ASSUME PoolInv, [Next]_vars PROVE PoolInv'
    OBVIOUS
<1>t. PoolTypes'
    BY NextPoolTypes
<1> DEFINE Same == UNCHANGED <<holder, mode, phase, attempt, finish, handled>>
           FreeAsBefore == \A k \in Leases : (leaseState'[k] = "FREE") <=> (leaseState[k] = "FREE")
<1>1. ASSUME NEW l \in Leases, DeadlinePasses(l) \/ LeaseExpires(l) \/ ReportArrives(l)
      PROVE  PoolInv'
  <2>1. Same /\ renewing' = renewing
      BY <1>1 DEF DeadlinePasses, LeaseExpires, ReportArrives, executionVars, tableVars
  <2>2. FreeAsBefore
      BY <1>1 DEF DeadlinePasses, LeaseExpires, ReportArrives, PoolInv, PoolTypes
  <2>3. RenewalsAreMonitored'
      BY <2>1 DEF PoolInv, RenewalsAreMonitored
  <2>4. QED
      BY <1>t, <2>1, <2>2, <2>3, OutsideStep
<1>2. ASSUME NEW l \in Leases,
             RenewalStarts(l) \/ \E result \in Results : ChildEnds(l, result)
      PROVE  PoolInv'
  <2>1. Same /\ UNCHANGED leaseState
      BY <1>2 DEF ChildEnds, RenewalStarts, taskVars, tableVars
  <2>2. RenewalsAreMonitored'
      BY <1>2 DEF PoolInv, RenewalsAreMonitored, ChildEnds, RenewalStarts, Monitoring
  <2>3. QED
      BY <1>t, <2>1, <2>2, OutsideStep
<1>3. ASSUME NEW l \in Leases,
             \/ AlreadyRecorded(l) \/ RefuseUnrecorded(l) \/ Refuse(l)
             \/ HandlerReturns(l) \/ RenewalRaises(l) \/ NoticeExpiry(l)
      PROVE  PoolInv'
  <2> SUFFICES /\ UNCHANGED <<leaseState, holder, mode, attempt, finish, handled>>
               /\ phase[l] # "IDLE"
               /\ phase' = [phase EXCEPT ![l] = phase'[l]]
               /\ phase'[l] \in {"IDLE"} \cup Writing
               /\ phase[l] = "ENTERED" => phase'[l] = "IDLE"
               /\ renewing' \subseteq renewing \ {l}
      BY <1>t, QuietStep
  <2> QED
      BY <1>3 DEF PoolInv, PoolTypes, AlreadyRecorded, RefuseUnrecorded, ReportDirectly, Refuse, HandlerReturns,
         RenewalRaises, NoticeExpiry, RenewalsAreMonitored, Monitoring, Writing, WillWrite, GoesTo, taskVars, tableVars
<1>4. ASSUME NEW l \in Leases, Cancel(l) \/ RecordFails(l) \/ StartFails(l) \/ CompleteFails(l)
      PROVE  PoolInv'
  <2>1. /\ PendingWrite(l) \/ UNCHANGED tableVars
        /\ UNCHANGED <<leaseState, holder, mode, handled>>
        /\ phase[l] # "IDLE"
      BY <1>4 DEF Cancel, RecordFails, StartFails, CompleteFails, Writing, taskVars
  <2>2. renewing' \subseteq renewing \ {l}
      BY <1>4 DEF PoolInv, RenewalsAreMonitored, Cancel, RecordFails, StartFails, CompleteFails, Writing
  <2>3. /\ phase' = [phase EXCEPT ![l] = phase'[l]]
        /\ IF phase[l] = "ENTERED" THEN phase'[l] = "IDLE" ELSE phase'[l] \in {"IDLE"} \cup Writing
        /\ phase[l] = "RECORDED" => phase'[l] # "IDLE"
      BY <1>4 DEF PoolInv, PoolTypes, Cancel, RecordFails, StartFails, CompleteFails, ReportDirectly,
         Writing, Ends, WillWrite, GoesTo
  <2>4. QED
      BY <1>t, <2>1, <2>2, <2>3, PendingStep
<1>5. ASSUME NEW l \in Leases, RenewalEnds(l) PROVE PoolInv'
  <2>1. Same /\ UNCHANGED leaseState
      BY <1>5 DEF RenewalEnds, tableVars
  <2>2. RenewalsAreMonitored'
      BY <1>5 DEF PoolInv, RenewalsAreMonitored, RenewalEnds
  <2>3. QED
      BY <1>t, <2>1, <2>2, OutsideStep
<1>6. ASSUME NEW l \in Leases, Complete(l) PROVE PoolInv'
  <2>1. /\ UNCHANGED <<leaseState, holder, mode, handled, renewing>>
        /\ phase[l] \in Writing /\ Commit(l)
        /\ phase' = [phase EXCEPT ![l] = phase'[l]]
        /\ phase'[l] \in {"IDLE"} \cup Writing
      BY <1>6 DEF PoolInv, PoolTypes, Complete, Ends, WillWrite, GoesTo, taskVars
  <2>2. QED
      BY <1>t, <2>1, CommitStep
<1>7. ASSUME NEW l \in Leases, Record(l) \/ Start(l) PROVE PoolInv'
  <2>1. /\ UNCHANGED <<leaseState, holder, mode, handled, renewing>>
        /\ phase' = [phase EXCEPT ![l] = phase'[l]]
      BY <1>7 DEF PoolInv, PoolTypes, Record, Start, GoesTo, taskVars
  <2>2. CASE Record(l)
    <3>1. phase[l] = "ENTERED" /\ CreateAttempt(l) /\ phase'[l] = "RECORDED"
        BY <2>2 DEF PoolInv, PoolTypes, Record, GoesTo
    <3>2. QED
        BY <1>t, <2>1, <3>1, RecordStep
  <2>3. CASE Start(l)
    <3>1. phase[l] = "RECORDED" /\ MarkRunning(l) /\ phase'[l] = "STARTED"
        BY <2>3 DEF PoolInv, PoolTypes, Start, GoesTo
    <3>2. QED
        BY <1>t, <2>1, <3>1, RunningStep
  <2>4. QED
      BY <1>7, <2>2, <2>3
<1>8. ASSUME NEW l \in Leases, Handle(l) PROVE PoolInv'
    BY <1>t, <1>8, HandleStep
<1>9. ASSUME NEW e \in Engines, NEW granted \in SUBSET Leases, NEW arrives \in BOOLEAN,
             Poll(e, granted, arrives)
      PROVE  PoolInv'
    BY <1>t, <1>9, EnterStep
<1>10. ASSUME NEW l \in Leases, Redeliver(l) PROVE PoolInv'
    BY <1>t, <1>10, EnterStep
<1>11. ASSUME NEW e \in Engines, Stop(e) \/ Exit(e) \/ Restart(e) PROVE PoolInv'
    BY <1>t, <1>11, ProcessStep
<1>12. ASSUME UNCHANGED vars PROVE PoolInv'
  <2>1. Same /\ UNCHANGED <<leaseState, renewing>>
      BY <1>12 DEF vars, taskVars, executionVars, tableVars
  <2>2. RenewalsAreMonitored'
      BY <2>1 DEF PoolInv, RenewalsAreMonitored
  <2>3. QED
      BY <1>t, <2>1, <2>2, OutsideStep
<1>13. QED
    BY <1>1, <1>2, <1>3, <1>4, <1>5, <1>6, <1>7, <1>8, <1>9, <1>10, <1>11, <1>12
    DEF Next, HealthyNext, DatabaseFails, Executing

LEMMA PoolInvHolds == Spec => []PoolInv
BY InitPoolInv, NextPoolInv, PTL DEF Spec

-----------------------------------------------------------------------------
(* Attempt numbers                                                         *)

\* The attempts of run r have the numbers from 1 to n.
NumberedTo(r, n) ==
    /\ \A l \in Leases : RunOf[l] = r => attemptNo[l] \in 0..n
    /\ \A i \in 1..n : \E l \in Leases : RunOf[l] = r /\ attemptNo[l] = i

\* No run has a gap between its attempts or a number twice, so that the highest
\* number exists, and the next one is new.
AttemptsNumbered ==
    /\ attemptNo \in [Leases -> Nat]
    /\ \A l \in Leases : Recorded(l) <=> attemptNo[l] # 0
    /\ \A r \in Runs : \E n \in Nat : NumberedTo(r, n)
    /\ \A l, k \in Leases :
          RunOf[l] = RunOf[k] /\ l # k /\ Recorded(l) /\ Recorded(k) => attemptNo[l] # attemptNo[k]

LEMMA InitAttemptsNumbered == Init => AttemptsNumbered
<1> SUFFICES ASSUME Init PROVE AttemptsNumbered
    OBVIOUS
<1>1. \A r \in Runs : NumberedTo(r, 0)
    BY DEF Init, NumberedTo
<1>2. QED
    BY <1>1 DEF Init, AttemptsNumbered, Recorded

\* A maximum that is known to exist is the one that is chosen.
LEMMA HighestNumber ==
    ASSUME NEW l \in Leases, NEW n \in Nat, AttemptsNumbered, NumberedTo(RunOf[l], n)
    PROVE  NextAttemptNo(l) = n + 1
<1> DEFINE S == {attemptNo[k] : k \in SameRun(l)}
<1>1. l \in SameRun(l) /\ \A k \in SameRun(l) : k \in Leases /\ RunOf[k] = RunOf[l]
    BY DEF SameRun
<1>2. S \subseteq Nat /\ \A x \in S : n >= x
    BY <1>1 DEF AttemptsNumbered, NumberedTo
<1>3. n \in S
  <2>1. CASE n = 0
      BY <1>1, <2>1 DEF NumberedTo
  <2>2. CASE n # 0
    <3>1. PICK k \in Leases : RunOf[k] = RunOf[l] /\ attemptNo[k] = n
        BY <2>2 DEF NumberedTo
    <3>2. QED
        BY <3>1 DEF SameRun
  <2>3. QED
      BY <2>1, <2>2
<1> HIDE DEF S
<1>4. Max(S) \in S /\ \A y \in S : Max(S) >= y
    BY <1>2, <1>3 DEF Max
<1>5. Max(S) = n
  <2>1. PICK m : m = Max(S)
      OBVIOUS
  <2>2. m \in Nat /\ n \in Nat /\ m >= n /\ n >= m
      BY <1>2, <1>3, <1>4, <2>1
  <2>3. QED
      BY <2>1, <2>2
<1>6. QED
    BY <1>5 DEF NextAttemptNo, S

\* Recording an attempt adds the next number to those of its run.
LEMMA CreateKeepsNumbers ==
    ASSUME AttemptsNumbered, PoolTypes, NEW l \in Leases, CreateAttempt(l)
    PROVE  AttemptsNumbered'
<1>1. PICK n \in Nat : NumberedTo(RunOf[l], n)
    BY LeasesAssumption DEF AttemptsNumbered
<1>2. /\ attemptNo' = [attemptNo EXCEPT ![l] = n + 1]
      /\ attempt' = [attempt EXCEPT ![l] = "LEASED"]
      /\ ~Recorded(l) /\ attemptNo[l] = 0
    BY <1>1, HighestNumber DEF CreateAttempt, AttemptsNumbered
<1> USE DEF PoolTypes
<1>3. NumberedTo(RunOf[l], n + 1)'
  <2>1. \A k \in Leases : RunOf[k] = RunOf[l] => attemptNo'[k] \in 0..(n + 1)
      BY <1>1, <1>2 DEF NumberedTo, AttemptsNumbered
  <2>2. ASSUME NEW i \in 1..(n + 1) PROVE \E k \in Leases : RunOf[k] = RunOf[l] /\ attemptNo'[k] = i
    <3>1. CASE i = n + 1
        BY <1>2, <3>1 DEF AttemptsNumbered
    <3>2. CASE i # n + 1
      <4>1. PICK k \in Leases : RunOf[k] = RunOf[l] /\ attemptNo[k] = i
          BY <1>1, <3>2 DEF NumberedTo
      <4>2. k # l
          BY <1>2, <4>1
      <4>3. QED
          BY <1>2, <4>1, <4>2 DEF AttemptsNumbered
    <3>3. QED
        BY <3>1, <3>2
  <2>3. QED
      BY <2>1, <2>2 DEF NumberedTo
<1>4. ASSUME NEW r \in Runs, r # RunOf[l], NEW m \in Nat, NumberedTo(r, m) PROVE NumberedTo(r, m)'
    BY <1>2, <1>4 DEF NumberedTo, AttemptsNumbered
<1>5. \A r \in Runs : \E m \in Nat : NumberedTo(r, m)'
    BY <1>3, <1>4 DEF AttemptsNumbered
<1>6. \A k \in Leases : Recorded(k)' <=> attemptNo'[k] # 0
    BY <1>2 DEF Recorded, AttemptsNumbered
<1>7. ASSUME NEW k \in Leases, NEW j \in Leases, RunOf[k] = RunOf[j], k # j, Recorded(k)', Recorded(j)'
      PROVE  attemptNo'[k] # attemptNo'[j]
    BY <1>1, <1>2, <1>7 DEF Recorded, AttemptsNumbered, NumberedTo
<1>8. attemptNo' \in [Leases -> Nat]
    BY <1>2 DEF AttemptsNumbered
<1>9. QED
    BY <1>5, <1>6, <1>7, <1>8 DEF AttemptsNumbered

\* No other step creates a row, or deletes one.
LEMMA NextAttemptsNumbered == AttemptsNumbered /\ PoolInv /\ [Next]_vars => AttemptsNumbered'
<1> SUFFICES ASSUME AttemptsNumbered, PoolInv, [Next]_vars PROVE AttemptsNumbered'
    OBVIOUS
<1> USE DEF PoolInv, PoolTypes, Terminal, Results, Active, taskVars, executionVars, tableVars
<1>1. ASSUME attemptNo' = attemptNo, \A l \in Leases : Recorded(l)' <=> Recorded(l)
      PROVE  AttemptsNumbered'
  <2>1. \A r, n : NumberedTo(r, n)' <=> NumberedTo(r, n)
      BY <1>1 DEF NumberedTo
  <2>2. QED
      BY <1>1, <2>1 DEF AttemptsNumbered
<1>2. ASSUME NEW l \in Leases, CreateAttempt(l) PROVE AttemptsNumbered'
    BY <1>2, CreateKeepsNumbers
<1>3. ASSUME NEW l \in Leases, phase[l] = "RECORDED", MarkRunning(l) PROVE AttemptsNumbered'
  <2>1. attemptNo' = attemptNo /\ attempt[l] = "LEASED" /\ attempt' = [attempt EXCEPT ![l] = "RUNNING"]
      BY <1>3 DEF MarkRunning, PhaseKnowsAttempt
  <2>2. QED
      BY <1>1, <2>1 DEF Recorded
<1>4. ASSUME NEW l \in Leases, phase[l] \in Writing, Commit(l) PROVE AttemptsNumbered'
  <2>1. attempt[l] # "NONE" /\ attemptNo' = attemptNo
      BY <1>4 DEF Commit, PhaseKnowsAttempt
  <2>2. \A k \in Leases : Recorded(k)' <=> Recorded(k)
      BY <1>4, <2>1 DEF Commit, Recorded, NewStatus
  <2>3. QED
      BY <1>1, <2>1, <2>2
<1>5. ASSUME NEW e \in Engines, Restart(e) PROVE AttemptsNumbered'
  <2>1. attemptNo' = attemptNo /\ \A k \in Leases : Recorded(k)' <=> Recorded(k)
      BY <1>5 DEF Restart, Interrupted, HeldBy, Recorded
  <2>2. QED
      BY <1>1, <2>1
<1>6. ASSUME UNCHANGED <<attempt, attemptNo>> PROVE AttemptsNumbered'
    BY <1>1, <1>6 DEF Recorded
<1>w. ASSUME NEW l \in Leases,
             \/ Record(l) \/ Start(l) \/ Complete(l)
             \/ RecordFails(l) \/ StartFails(l) \/ CompleteFails(l) \/ Cancel(l)
      PROVE  AttemptsNumbered'
  <2>1. \/ CreateAttempt(l) \/ UNCHANGED <<attempt, attemptNo>>
        \/ phase[l] = "RECORDED" /\ MarkRunning(l)
        \/ phase[l] \in Writing /\ Commit(l)
      BY <1>w DEF Record, Start, Complete, RecordFails, StartFails, CompleteFails, Cancel, PendingWrite
  <2>2. QED
      BY <1>2, <1>3, <1>4, <1>6, <2>1
<1>7. ASSUME NEW l \in Leases,
             \/ DeadlinePasses(l) \/ LeaseExpires(l) \/ ReportArrives(l) \/ Redeliver(l)
             \/ AlreadyRecorded(l) \/ RefuseUnrecorded(l) \/ Refuse(l) \/ Handle(l)
             \/ HandlerReturns(l) \/ RenewalStarts(l) \/ RenewalEnds(l) \/ RenewalRaises(l)
             \/ NoticeExpiry(l)
             \/ \E result \in Results : ChildEnds(l, result)
      PROVE  UNCHANGED <<attempt, attemptNo>>
    BY <1>7 DEF DeadlinePasses, LeaseExpires, ReportArrives, Redeliver, AlreadyRecorded,
       RefuseUnrecorded, Refuse, Handle, HandlerReturns, RenewalStarts, RenewalEnds,
       RenewalRaises, NoticeExpiry, ChildEnds
<1>8. ASSUME NEW e \in Engines,
             \/ Stop(e) \/ Exit(e)
             \/ \E granted \in SUBSET Leases, arrives \in BOOLEAN : Poll(e, granted, arrives)
      PROVE  UNCHANGED <<attempt, attemptNo>>
    BY <1>8 DEF Stop, Exit, Poll
<1>9. ASSUME UNCHANGED vars PROVE UNCHANGED <<attempt, attemptNo>>
    BY <1>9 DEF vars
<1>10. QED
    BY <1>5, <1>6, <1>7, <1>8, <1>9, <1>w DEF Next, HealthyNext, DatabaseFails, Executing

\* What only the types of TypeOK ask for.
SetTypes ==
    /\ overdue \in SUBSET Leases
    /\ settled \in SUBSET Runs
    /\ told \in SUBSET Leases

LEMMA NextSetTypes == PoolInv /\ SetTypes /\ [Next]_vars => SetTypes'
<1> SUFFICES ASSUME PoolInv, SetTypes, [Next]_vars PROVE SetTypes'
    OBVIOUS
<1> USE DEF SetTypes, taskVars
<1>1. ASSUME NEW l \in Leases, DeadlinePasses(l) \/ LeaseExpires(l) PROVE SetTypes'
    BY <1>1 DEF DeadlinePasses, LeaseExpires
<1>2. ASSUME NEW l \in Leases, ReportArrives(l) PROVE SetTypes'
    BY <1>2, LeasesAssumption DEF ReportArrives
<1>3. ASSUME NEW l \in Leases, RenewalEnds(l) PROVE SetTypes'
    BY <1>3 DEF RenewalEnds
<1>4. ASSUME NEW l \in Leases, \/ RefuseUnrecorded(l) \/ RecordFails(l) \/ Cancel(l)
      PROVE  SetTypes'
    BY <1>4 DEF RefuseUnrecorded, RecordFails, Cancel, ReportDirectly
<1>5. ASSUME UNCHANGED <<overdue, settled, told>> PROVE SetTypes'
    BY <1>5
<1>6. ASSUME NEW l \in Leases,
             \/ Redeliver(l) \/ AlreadyRecorded(l) \/ Record(l) \/ Refuse(l) \/ Start(l) \/ Handle(l)
             \/ HandlerReturns(l) \/ RenewalStarts(l) \/ RenewalRaises(l) \/ NoticeExpiry(l)
             \/ Complete(l) \/ StartFails(l) \/ CompleteFails(l)
             \/ \E result \in Results : ChildEnds(l, result)
      PROVE  UNCHANGED <<overdue, settled, told>>
    BY <1>6 DEF Redeliver, AlreadyRecorded, Record, Refuse, Start, Handle,
       HandlerReturns, RenewalStarts, RenewalRaises, NoticeExpiry, Complete, StartFails,
       CompleteFails, ChildEnds
<1>7. ASSUME NEW e \in Engines,
             \/ Stop(e) \/ Exit(e) \/ Restart(e)
             \/ \E granted \in SUBSET Leases, arrives \in BOOLEAN : Poll(e, granted, arrives)
      PROVE  UNCHANGED <<overdue, settled, told>>
    BY <1>7 DEF Stop, Exit, Restart, Poll
<1>8. ASSUME UNCHANGED vars PROVE UNCHANGED <<overdue, settled, told>>
    BY <1>8 DEF vars
<1>9. QED
    BY <1>1, <1>2, <1>3, <1>4, <1>5, <1>6, <1>7, <1>8 DEF Next, HealthyNext, DatabaseFails, Executing

-----------------------------------------------------------------------------
(* Theorems                                                                *)

\* The pool's variables have their types, and no two attempts of a run have one
\* number (create_lease_attempt under the run's advisory lock, and the unique
\* index it would violate).
THEOREM PoolTypeCorrect == Spec => []TypeOK
<1>1. Init => AttemptsNumbered /\ SetTypes
    BY InitAttemptsNumbered DEF Init, SetTypes
<1>2. AttemptsNumbered /\ SetTypes /\ PoolInv /\ [Next]_vars => (AttemptsNumbered /\ SetTypes)'
    BY NextAttemptsNumbered, NextSetTypes
<1>3. PoolInv /\ AttemptsNumbered /\ SetTypes => TypeOK
    BY DEF PoolInv, PoolTypes, RenewalsAreMonitored, AttemptsNumbered, SetTypes, TypeOK, SameRun
<1>4. QED
    BY <1>1, <1>2, <1>3, PoolInvHolds, PTL DEF Spec

\* Whatever fails, stops or is repeated: an attempt that is over has a FINISH in
\* the outbox, with its own outcome, and no other attempt has one
\* (_complete_attempt, _recover_interrupted_attempts). Of the direct calls, which
\* go past both tables, it says nothing.
THEOREM PoolTablesAgree == Spec => []FinishMatchesAttempt
<1>1. PoolInv => FinishMatchesAttempt
    BY DEF PoolInv
<1>2. QED
    BY <1>1, PoolInvHolds, PTL

\* The flow of a lease is started at most once, and works only on an attempt
\* that is RUNNING (_execute, whatever is redelivered, restarted or recovered).
THEOREM PoolExecutesOnce == Spec => [](HandledOnce /\ HandlerHasAttempt)
<1>1. PoolInv => HandledOnce /\ HandlerHasAttempt
    BY DEF PoolInv, PhaseKnowsAttempt, HandlerHasAttempt
<1>2. QED
    BY <1>1, PoolInvHolds, PTL

\* The outcome of an attempt is final.
LEMMA NextKeepsOutcomes ==
    ASSUME PoolInv, [Next]_vars, NEW l \in Leases, attempt[l] \in Terminal
    PROVE  attempt'[l] = attempt[l]
<1> USE DEF PoolInv, PoolTypes, Terminal, Results, Active, taskVars, executionVars, tableVars
<1>1. ASSUME NEW k \in Leases, CreateAttempt(k) PROVE attempt'[l] = attempt[l]
    BY <1>1 DEF CreateAttempt, Recorded
<1>2. ASSUME NEW k \in Leases, phase[k] = "RECORDED", MarkRunning(k) PROVE attempt'[l] = attempt[l]
    BY <1>2 DEF MarkRunning, PhaseKnowsAttempt
<1>3. ASSUME NEW k \in Leases, Commit(k) PROVE attempt'[l] = attempt[l]
    BY <1>3 DEF Commit, NewStatus
<1>4. ASSUME NEW e \in Engines, Restart(e) PROVE attempt'[l] = attempt[l]
    BY <1>4 DEF Restart, Interrupted
<1>5. ASSUME attempt' = attempt PROVE attempt'[l] = attempt[l]
    BY <1>5
<1>w. ASSUME NEW k \in Leases,
             \/ Record(k) \/ Start(k) \/ Complete(k)
             \/ RecordFails(k) \/ StartFails(k) \/ CompleteFails(k) \/ Cancel(k)
      PROVE  attempt'[l] = attempt[l]
  <2>1. \/ CreateAttempt(k) \/ Commit(k) \/ attempt' = attempt
        \/ phase[k] = "RECORDED" /\ MarkRunning(k)
      BY <1>w DEF Record, Start, Complete, RecordFails, StartFails, CompleteFails, Cancel, PendingWrite
  <2>2. QED
      BY <1>1, <1>2, <1>3, <2>1
<1>6. ASSUME NEW k \in Leases,
             \/ DeadlinePasses(k) \/ LeaseExpires(k) \/ ReportArrives(k) \/ Redeliver(k)
             \/ AlreadyRecorded(k) \/ RefuseUnrecorded(k) \/ Refuse(k) \/ Handle(k)
             \/ HandlerReturns(k) \/ RenewalStarts(k) \/ RenewalEnds(k) \/ RenewalRaises(k)
             \/ NoticeExpiry(k)
             \/ \E result \in Results : ChildEnds(k, result)
      PROVE  attempt' = attempt
    BY <1>6 DEF DeadlinePasses, LeaseExpires, ReportArrives, Redeliver, AlreadyRecorded,
       RefuseUnrecorded, Refuse, Handle, HandlerReturns, RenewalStarts, RenewalEnds,
       RenewalRaises, NoticeExpiry, ChildEnds
<1>7. ASSUME NEW e \in Engines,
             \/ Stop(e) \/ Exit(e)
             \/ \E granted \in SUBSET Leases, arrives \in BOOLEAN : Poll(e, granted, arrives)
      PROVE  attempt' = attempt
    BY <1>7 DEF Stop, Exit, Poll
<1>8. ASSUME UNCHANGED vars PROVE attempt' = attempt
    BY <1>8 DEF vars
<1>9. QED
    BY <1>4, <1>5, <1>6, <1>7, <1>8, <1>w DEF Next, HealthyNext, DatabaseFails, Executing

\* No second completion, recovery or late cancellation changes an outcome: not
\* one that arrives when the outcome is committed and goes on to write ABANDONED
\* (_complete_after_cancellation), nor _transition, which looks at no status.
THEOREM PoolOutcomesStand == Spec => OutcomesStand
<1>1. PoolInv /\ [Next]_vars => [\A l \in Leases : attempt[l] \in Terminal => attempt'[l] = attempt[l]]_vars
    BY NextKeepsOutcomes
<1>2. QED
    BY <1>1, PoolInvHolds, PTL DEF Spec, OutcomesStand
=============================================================================
