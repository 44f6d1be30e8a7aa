------------------------------ MODULE MCJudge -------------------------------
(* Few requests against one slot and one place in the queue: an execution, *)
(* a waiter and a refusal at once.                                         *)
EXTENDS Judge, TLC

CONSTANTS q1, q2, q3

MCSubmits == {q1, q2}
MCOneSubmit == {q1}
MCTrials == {q3}
MCNoTrials == {}
MCPoints == {0, 3}
MCOnePoints == {3}
=============================================================================
