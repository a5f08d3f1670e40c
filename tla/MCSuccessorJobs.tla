--------------------------- MODULE MCSuccessorJobs ---------------------------
\* Instance of SuccessorJobs for TLC.
EXTENDS SuccessorJobs
CONSTANTS p1, p2
=============================================================================
