--------------------------- MODULE MCFlowDelivery ---------------------------
EXTENDS FlowDelivery, TLC

CONSTANTS u1, u2, l1, l2

\* Two versions of the same flow, and one of the tenant's own.
OfferedVersions == {<<"GLOBAL", 1>>, <<"GLOBAL", 2>>, <<"TENANT", 1>>}

\* Bound: a behaviour is followed up to the fault that excuses every cache and
\* every load.
NotExcused == "rot" \notin faults /\ ~({"orphan", "torn"} \subseteq faults)

Symmetry == Permutations(Uploads) \cup Permutations(Loads)
=============================================================================
