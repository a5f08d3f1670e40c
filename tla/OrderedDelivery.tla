-------------------------- MODULE OrderedDelivery --------------------------
(***************************************************************************)
(* What CallbackOutbox promises, without rows, claims, dispatchers or      *)
(* requests: the callbacks of an attempt go through a channel one by one.  *)
(* The Task service first hears of one when all before it are closed; one  *)
(* is closed, when its turn has come, as sent, if the Task service has it, *)
(* or as given up, after which it may still arrive; and it stays closed.   *)
(***************************************************************************)
EXTENDS Naturals

CONSTANT Messages       \* an attempt and a sequence number each

VARIABLES
    written,    \* the callbacks there are
    finish,     \* those that are the FINISH of their attempt
    received,   \* those the Task service has heard of
    sent, dead  \* those that are closed

channelVars == <<written, finish, received, sent, dead>>

Closed == sent \cup dead

Before(m) == {e \in Messages : e[1] = m[1] /\ e[2] < m[2]}

\* Its turn has come.
Due(m) == m \in written \ Closed /\ Before(m) \subseteq Closed

ChannelInit == written = {} /\ finish = {} /\ received = {} /\ sent = {} /\ dead = {}

\* An attempt finishes once.
Write(m, isFinish) ==
    /\ m \notin written /\ Before(m) \subseteq written
    /\ isFinish => \A f \in finish : f[1] # m[1]
    /\ written' = written \cup {m}
    /\ finish' = IF isFinish THEN finish \cup {m} ELSE finish
    /\ UNCHANGED <<received, sent, dead>>

Receive(m) ==
    /\ m \in written \ received /\ Before(m) \subseteq Closed
    /\ received' = received \cup {m}
    /\ UNCHANGED <<written, finish, sent, dead>>

Confirm(m) ==
    /\ Due(m) /\ m \in received
    /\ sent' = sent \cup {m}
    /\ UNCHANGED <<written, finish, received, dead>>

\* The recovery of stale claims may give up callbacks of several attempts.
GiveUpAll(lost) ==
    /\ \A m \in lost : Due(m)
    /\ dead' = dead \cup lost
    /\ UNCHANGED <<written, finish, received, sent>>

ChannelNext ==
    \/ \E m \in Messages, isFinish \in BOOLEAN : Write(m, isFinish)
    \/ \E m \in Messages : Receive(m) \/ Confirm(m)
    \/ \E lost \in SUBSET Messages : GiveUpAll(lost)

ChannelSpec == ChannelInit /\ [][ChannelNext]_channelVars
=============================================================================
