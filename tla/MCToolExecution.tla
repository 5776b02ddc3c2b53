-------------------------- MODULE MCToolExecution --------------------------
\* Small instances of ToolExecution.
EXTENDS ToolExecution, TLC

CONSTANTS r1, r2, r3, w1, w2

\* Workers are taken from the set in any order.
AnyWorker == Permutations(Workers)

\* Bound: the runtime is sent two of the requests.
TwoRequests == Cardinality({r \in Requests : pc[<<r, 1>>] # "idle"}) <= 2
=============================================================================
