---------------------------- MODULE RunContract -----------------------------
(***************************************************************************)
(* What executeSubmission promises its caller: a run of total test cases   *)
(* ends once, with an outcome whose parts agree, or throws.                *)
(***************************************************************************)
EXTENDS Naturals

CONSTANTS
  Runs,      \* executions, one per call of runSubmission
  MaxTests,  \* most test cases of a problem
  None,      \* no value yet
  Threw      \* the promise rejected: a file-system call failed

VARIABLES
  total,     \* testCases.length of each run that has begun
  outcome    \* what it resolved to, or Threw

contractVars == <<total, outcome>>

Outcome(v, p, n, f) ==
  [verdict |-> v, passedCount |-> p, totalCount |-> n, failed |-> f]

\* Verdicts of a run that fails at a test case.
TestFailures == {"Wrong Answer", "Runtime Error", "Time Limit Exceeded"}

\* failed is the index of failedTestCase, 0 when the result has none.
Outcomes(n) ==
  {Outcome("Accepted", n, n, 0), Outcome("Compilation Error", 0, n, 0)}
    \cup {Outcome(v, p, n, p + 1) : v \in TestFailures, p \in 0 .. n - 1}

Init ==
  /\ total = [r \in Runs |-> 0]
  /\ outcome = [r \in Runs |-> None]

Begin(r) ==
  /\ total[r] = 0
  /\ \E n \in 1 .. MaxTests : total' = [total EXCEPT ![r] = n]
  /\ UNCHANGED outcome

End(r) ==
  /\ total[r] # 0
  /\ outcome[r] = None
  /\ \E o \in Outcomes(total[r]) \cup {Threw} : outcome' = [outcome EXCEPT ![r] = o]
  /\ UNCHANGED total

Next == \E r \in Runs : Begin(r) \/ End(r)

SafeSpec == Init /\ [][Next]_contractVars
=============================================================================
