-------------------------- MODULE MCExecutionSlots --------------------------
(* Enough requests to fill two slots and two places in the queue, and to   *)
(* be refused.                                                             *)
EXTENDS ExecutionSlots

CONSTANTS r1, r2, r3, r4, r5

MCRequests == {r1, r2, r3, r4, r5}
=============================================================================
