-------------------------- MODULE MCCallbackOutbox --------------------------
(***************************************************************************)
(* An instance of CallbackOutbox for TLC, of two parts: two callbacks of   *)
(* one attempt, which two dispatchers compete for, or one of each attempt, *)
(* which one dispatcher claims in a batch.                                 *)
(***************************************************************************)
EXTENDS CallbackOutbox, TLC

CONSTANTS a1, a2, d1, d2

OneAttempt == \A m \in Messages : status'[m] # "NONE" => m[1] = a1

OneDispatcher ==
    /\ \A m \in Messages : status'[m] # "NONE" => m[2] = 1 /\ lockedBy'[m] # d2
    /\ batch'[d2] = {} /\ sending'[d2] = NoDelivery

BoundedSpec == Init /\ [][Next /\ (OneAttempt \/ OneDispatcher)]_vars /\ Fairness(d1)
=============================================================================
