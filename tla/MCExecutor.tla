----------------------------- MODULE MCExecutor -----------------------------
(* One run of up to three test cases: its own earlier steps are the ones   *)
(* whose late kills and containers could disturb it.                       *)
EXTENDS Executor

CONSTANTS run1

MCRuns == {run1}
=============================================================================
