------------------------- MODULE ExclusiveDispatch -------------------------
(***************************************************************************)
(* What TaskDispatch promises, without runs, workers or lease tables: a    *)
(* task is like a lock with a timeout.  At most one lease holds it, it is  *)
(* granted only while nobody holds it, it is RUNNING only while somebody   *)
(* does, and its status moves only as TaskLife says.                       *)
(***************************************************************************)
EXTENDS TaskLife

CONSTANT Leases

VARIABLE holders        \* the leases of each task that were not deleted

lifeVars == <<taskStatus, holders>>

ExInit == LifeInit /\ holders = [t \in Tasks |-> {}]

\* No client action takes the lease from its holder.
ClientStep(t) == (Create(t) \/ ByClient(t)) /\ UNCHANGED holders

\* The tasks of released have let their lease expire; a granted task is free.
LeaseStep(released, dropped, granted) ==
    /\ \A t \in released : holders[t] # {}
    /\ \A t \in granted : t \in released \/ holders[t] = {}
    /\ Poll(released, dropped, granted)
    /\ \E lease \in [granted -> Leases] :
          holders' = [t \in Tasks |->
              IF t \in granted THEN {lease[t]}
              ELSE IF t \in released THEN {}
              ELSE holders[t]]

\* A result ends the hold, whoever reports it.
ReportStep(t) ==
    /\ \E o \in Reports : MayReport(t, o) /\ taskStatus' = Reported(t, o)
    /\ holders' = [holders EXCEPT ![t] = {}]

ExNext ==
    \/ \E t \in Tasks : ClientStep(t) \/ ReportStep(t)
    \/ \E released, dropped, granted \in SUBSET Tasks : LeaseStep(released, dropped, granted)

ExSpec == ExInit /\ [][ExNext]_lifeVars
=============================================================================
