------------------------- MODULE MCWorkerReadiness -------------------------
EXTENDS WorkerReadiness

\* Between two crashes the writes may fail often enough to use up the attempts.
ASSUME MCFaults == MaxFaults > MaxAttempts
=============================================================================
