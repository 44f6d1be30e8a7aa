------------------------------ MODULE Executor ------------------------------
(***************************************************************************)
(* executeSubmission of services/executor.js: the run directory, the       *)
(* compile step, the test cases one after the other up to the first that   *)
(* fails, and the removal of the directory.  Each step of a run is a step  *)
(* of DockerStep: step 0 compiles, step i runs test case i.  The kill      *)
(* command of a step may still be in flight while later steps run.         *)
(***************************************************************************)
EXTENDS Naturals, FiniteSets

CONSTANTS Runs, MaxTests, None, Threw

ASSUME ExecutorAssumption == MaxTests \in Nat \ {0}

VARIABLES
  promise, cli, container, program, exit, killedBy, timer, kill, timedOut, result,
  at,           \* where each run stands in executeSubmission
  compiled,     \* whether its language has a compile step
  total,        \* testCases.length
  passedCount,  \* let passedCount
  dir,          \* whether tmpDir exists
  returning     \* the value of its return statement, or Threw

Steps == Runs \X (0 .. MaxTests)

Docker == INSTANCE DockerStep

ASSUME NoneAssumption == None \notin Steps \cup Docker!Exits \cup Docker!Results

Contract == INSTANCE RunContract WITH outcome <- returning

stepVars ==
  <<promise, cli, container, program, exit, killedBy, timer, kill, timedOut, result>>
runVars == <<at, compiled, total, passedCount, dir, returning>>
vars == <<stepVars, runVars>>

Places == {"start", "called", "made", "compile", "compiling", "test", "testing", "cleanup",
           "over"}

Init ==
  /\ Docker!Init
  /\ Contract!Init
  /\ at = [r \in Runs |-> "start"]
  /\ compiled = [r \in Runs |-> FALSE]
  /\ passedCount = [r \in Runs |-> 0]
  /\ dir = [r \in Runs |-> FALSE]

Goto(r, p) == at' = [at EXCEPT ![r] = p]

-----------------------------------------------------------------------------

\* A return inside the try: its value waits for the finally.
Return(r, v) ==
  /\ returning' = [returning EXCEPT ![r] = v]
  /\ Goto(r, "cleanup")

\* The call of executeSubmission, up to its first await.  Its callers pass
\* at least one test case.
Call(r) ==
  /\ at[r] = "start"
  /\ \E n \in 1 .. MaxTests : total' = [total EXCEPT ![r] = n]
  /\ \E c \in BOOLEAN : compiled' = [compiled EXCEPT ![r] = c]
  /\ Goto(r, "called")
  /\ UNCHANGED <<stepVars, passedCount, dir, returning>>

\* mkdir.  A failure throws outside the try block: nothing to remove.
MakeDir(r) ==
  /\ at[r] = "called"
  /\ \/ /\ dir' = [dir EXCEPT ![r] = TRUE]
        /\ Goto(r, "made")
        /\ UNCHANGED returning
     \/ /\ returning' = [returning EXCEPT ![r] = Threw]
        /\ Goto(r, "over")
        /\ UNCHANGED dir
  /\ UNCHANGED <<stepVars, compiled, total, passedCount>>

WriteSource(r) ==
  /\ at[r] = "made"
  /\ \/ /\ Goto(r, IF compiled[r] THEN "compile" ELSE "test")
        /\ UNCHANGED returning
     \/ Return(r, Threw)
  /\ UNCHANGED <<stepVars, compiled, total, passedCount, dir>>

StartCompile(r) ==
  /\ at[r] = "compile"
  /\ Docker!Spawn(<<r, 0>>)
  /\ Goto(r, "compiling")
  /\ UNCHANGED <<compiled, total, passedCount, dir, returning>>

\* The outcome of the compile step not looked at.
CompileDoneUnchecked(r) ==
  /\ at[r] = "compiling"
  /\ promise[<<r, 0>>] = "settled"
  /\ Goto(r, "test")
  /\ UNCHANGED <<stepVars, compiled, total, passedCount, dir, returning>>

\* compile_err.txt only words the message.  A compile step that timed out
\* counts by its exit status.
CompileDone(r) ==
  /\ at[r] = "compiling"
  /\ promise[<<r, 0>>] = "settled"
  /\ \/ /\ result[<<r, 0>>].exit # "zero"
        /\ Return(r, Contract!Outcome("Compilation Error", 0, total[r], 0))
     \/ /\ result[<<r, 0>>].exit = "zero"
        /\ Goto(r, "test")
        /\ UNCHANGED returning
  /\ UNCHANGED <<stepVars, compiled, total, passedCount, dir>>

StartTest(r) ==
  /\ at[r] = "test"
  /\ passedCount[r] < total[r]
  /\ Docker!Spawn(<<r, passedCount[r] + 1>>)
  /\ Goto(r, "testing")
  /\ UNCHANGED <<compiled, total, passedCount, dir, returning>>

FailTest(r, v) ==
  Return(r, Contract!Outcome(v, passedCount[r], total[r], passedCount[r] + 1))

\* The exit status looked at before timedOut.
TestDoneExitFirst(r) ==
  LET res == result[<<r, passedCount[r] + 1>>] IN
  /\ at[r] = "testing"
  /\ promise[<<r, passedCount[r] + 1>>] = "settled"
  /\ \/ /\ res.exit # "zero"
        /\ FailTest(r, "Runtime Error")
        /\ UNCHANGED passedCount
     \/ /\ res.exit = "zero" /\ res.timedOut
        /\ FailTest(r, "Time Limit Exceeded")
        /\ UNCHANGED passedCount
     \/ /\ res.exit = "zero" /\ ~res.timedOut
        /\ passedCount' = [passedCount EXCEPT ![r] = @ + 1]
        /\ Goto(r, "test")
        /\ UNCHANGED returning
  /\ UNCHANGED <<stepVars, compiled, total, dir>>

\* passedCount incremented before the output is compared.
TestDoneCountsFirst(r) ==
  /\ at[r] = "testing"
  /\ promise[<<r, passedCount[r] + 1>>] = "settled"
  /\ passedCount' = [passedCount EXCEPT ![r] = @ + 1]
  /\ \/ Return(r, Contract!Outcome("Wrong Answer", passedCount'[r], total[r], passedCount'[r] + 1))
     \/ Goto(r, "test") /\ UNCHANGED returning
  /\ UNCHANGED <<stepVars, compiled, total, dir>>

\* The output may match the expected one or not, whatever the program.
TestDone(r) ==
  LET res == result[<<r, passedCount[r] + 1>>] IN
  /\ at[r] = "testing"
  /\ promise[<<r, passedCount[r] + 1>>] = "settled"
  /\ \/ /\ res.timedOut
        /\ FailTest(r, "Time Limit Exceeded")
        /\ UNCHANGED passedCount
     \/ /\ ~res.timedOut /\ res.exit # "zero"
        /\ FailTest(r, "Runtime Error")
        /\ UNCHANGED passedCount
     \/ /\ ~res.timedOut /\ res.exit = "zero"
        /\ FailTest(r, "Wrong Answer")
        /\ UNCHANGED passedCount
     \/ /\ ~res.timedOut /\ res.exit = "zero"
        /\ passedCount' = [passedCount EXCEPT ![r] = @ + 1]
        /\ Goto(r, "test")
        /\ UNCHANGED returning
  /\ UNCHANGED <<stepVars, compiled, total, dir>>

AllPassed(r) ==
  /\ at[r] = "test"
  /\ passedCount[r] = total[r]
  /\ Return(r, Contract!Outcome("Accepted", passedCount[r], total[r], 0))
  /\ UNCHANGED <<stepVars, compiled, total, passedCount, dir>>

\* The finally: rm with its error swallowed, so the directory may stay.
Cleanup(r) ==
  /\ at[r] = "cleanup"
  /\ \E left \in BOOLEAN : dir' = [dir EXCEPT ![r] = left]
  /\ Goto(r, "over")
  /\ UNCHANGED <<stepVars, compiled, total, passedCount, returning>>

\* A handler of one of the run's docker steps, or the daemon.
DockerProgress(r) ==
  /\ \E k \in 0 .. MaxTests : Docker!Progress(<<r, k>>)
  /\ UNCHANGED runVars

Advance(r) ==
  \/ MakeDir(r) \/ WriteSource(r) \/ StartCompile(r) \/ CompileDone(r)
  \/ StartTest(r) \/ TestDone(r) \/ AllPassed(r) \/ Cleanup(r)

Next == \E r \in Runs : Call(r) \/ Advance(r) \/ DockerProgress(r)

SafeSpec == Init /\ [][Next]_vars

Fairness ==
  /\ \A r \in Runs : WF_vars(Advance(r))
  /\ \A s \in Steps : Docker!StepFairness(s)

Spec == SafeSpec /\ Fairness

-----------------------------------------------------------------------------
(* Properties                                                              *)

TypeOK ==
  /\ Docker!TypeOK
  /\ at \in [Runs -> Places]
  /\ compiled \in [Runs -> BOOLEAN]
  /\ total \in [Runs -> 0 .. MaxTests]
  /\ passedCount \in [Runs -> 0 .. MaxTests]
  /\ dir \in [Runs -> BOOLEAN]
  /\ \A r \in Runs :
       returning[r] \in {None, Threw} \cup Contract!Outcomes(total[r])

EndedByItself(r, i) ==
  promise[<<r, i>>] = "settled" /\ killedBy[<<r, i>>] = None

(***************************************************************************)
(* A verdict says what the containers did: an accepted run passed every    *)
(* test case by itself; a run-time error or a wrong answer is never a      *)
(* container that a timer killed, that of an earlier step included; a time *)
(* limit verdict has a timer that fired for that very step.                *)
(***************************************************************************)
VerdictFaithful ==
  \A r \in Runs : returning[r] \notin {None, Threw} =>
    LET v == returning[r].verdict
        p == returning[r].passedCount
    IN
    /\ \A i \in 1 .. p : EndedByItself(r, i) /\ exit[<<r, i>>] = "zero"
    /\ v = "Accepted" => p = total[r]
    /\ v = "Wrong Answer" => EndedByItself(r, p + 1) /\ exit[<<r, p + 1>>] = "zero"
    /\ v = "Runtime Error" => EndedByItself(r, p + 1) /\ exit[<<r, p + 1>>] # "zero"
    /\ v = "Time Limit Exceeded" => timer[<<r, p + 1>>] = "fired"
    /\ v = "Compilation Error" => promise[<<r, 0>>] = "settled" /\ exit[<<r, 0>>] # "zero"

(***************************************************************************)
(* Judging stops at the first failing test: no test case after it is ever  *)
(* started, and none before the compile step has succeeded.                *)
(***************************************************************************)
StopsAtFirstFailure ==
  \A r \in Runs : \A i \in 1 .. MaxTests :
    promise[<<r, i>>] # "none" =>
      /\ i <= passedCount[r] + 1
      /\ compiled[r] => result[<<r, 0>>] # None /\ result[<<r, 0>>].exit = "zero"

(***************************************************************************)
(* The directory is there as long as a container that mounts it lives, and *)
(* a run has at most one such container: with the slots, this is what      *)
(* bounds the containers of the host.                                      *)
(***************************************************************************)
MountOutlivesContainer ==
  \A r \in Runs :
    LET live == {k \in 0 .. MaxTests : Docker!Live(<<r, k>>)} IN
    /\ live # {} => dir[r] /\ at[r] \in {"compiling", "testing"}
    /\ Cardinality(live) <= 1

(***************************************************************************)
(* A run implements the safety of its contract: when the promise of        *)
(* executeSubmission settles, and no sooner, it is with a coherent outcome *)
(* or a throw, which stands.                                               *)
(***************************************************************************)
Visible ==
  INSTANCE RunContract WITH
    outcome <- [r \in Runs |-> IF at[r] = "over" THEN returning[r] ELSE None]

ImplementsContract == Visible!SafeSpec

(***************************************************************************)
(* A run that has been called comes to its end, and its slot back, unless  *)
(* a container of it escapes its kill.                                     *)
(***************************************************************************)
EndsOrEscapes ==
  \A r \in Runs :
    at[r] = "called" ~> at[r] = "over" \/ \E k \in 0 .. MaxTests : Docker!Escaped(<<r, k>>)
=============================================================================
