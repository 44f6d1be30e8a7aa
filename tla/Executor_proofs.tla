-------------------------- MODULE Executor_proofs ---------------------------
(***************************************************************************)
(* Proofs about executeSubmission for any number of runs at a time, of any *)
(* number of test cases.  What holds of each docker step is taken from     *)
(* DockerStep_proofs, with the steps of all runs for its Steps.            *)
(***************************************************************************)
EXTENDS Executor, FiniteSetTheorems, TLAPS

DP == INSTANCE DockerStep_proofs

-----------------------------------------------------------------------------
(* The docker steps.                                                       *)

(***************************************************************************)
(* A result repeats the status of the container it is of, or says that     *)
(* there was none; and only the timer sets timedOut.                       *)
(***************************************************************************)
Exact(s) ==
  /\ promise[s] = "settled" =>
       /\ cli[s] = "closed" => result[s].exit = exit[s]
       /\ cli[s] = "failed" => result[s].exit = "nonzero" /\ ~result[s].timedOut
  /\ container[s] \in {"none", "starting", "running"} => exit[s] = None
  /\ timedOut[s] => timer[s] = "fired"

DockerInv == DP!IInv /\ \A s \in Steps : Exact(s)

\* The two instances of DockerStep are the same.
LEMMA SameSteps ==
  ASSUME NEW s \in Steps
  PROVE  /\ Docker!Spawn(s) => DP!Spawn(s)
         /\ Docker!Progress(s) => DP!Progress(s)
         /\ DP!TypeOK <=> Docker!TypeOK
         /\ Docker!Live(s) <=> DP!Live(s)
<1>1. Docker!Spawn(s) => DP!Spawn(s)
  BY DEF Docker!Spawn, DP!Spawn, Docker!Programs, DP!Programs
<1>2. Docker!Progress(s) => DP!Progress(s)
  BY DEF Docker!Progress, DP!Progress, Docker!OnClose, DP!OnClose, Docker!OnError, DP!OnError,
         Docker!TimerFires, DP!TimerFires, Docker!ContainerStarts, DP!ContainerStarts,
         Docker!DaemonRejects, DP!DaemonRejects, Docker!ProgramEnds, DP!ProgramEnds,
         Docker!KillLands, DP!KillLands, Docker!KillMisses, DP!KillMisses,
         Docker!KillFails, DP!KillFails, Docker!Settle, DP!Settle,
         Docker!clearTimeout, DP!clearTimeout, Docker!ContainerGone, DP!ContainerGone,
         Docker!Targets, DP!Targets, Docker!containerName, DP!containerName
<1>3. DP!TypeOK <=> Docker!TypeOK
  BY DEF Docker!TypeOK, DP!TypeOK, Docker!Programs, DP!Programs, Docker!Exits, DP!Exits,
         Docker!Results, DP!Results
<1>4. Docker!Live(s) <=> DP!Live(s)
  BY DEF Docker!Live, DP!Live
<1> QED BY <1>1, <1>2, <1>3, <1>4

(***************************************************************************)
(* What is known of a step stays known: a settled promise keeps its        *)
(* result and its container's end, and a timer that fired has fired.       *)
(***************************************************************************)
Kept(t) ==
  /\ promise[t] = "settled" =>
       /\ promise'[t] = "settled"
       /\ result'[t] = result[t]
       /\ exit'[t] = exit[t]
       /\ killedBy'[t] = killedBy[t]
  /\ timer[t] = "fired" => timer'[t] = "fired"

LEMMA SpawnKeeps ==
  ASSUME DockerInv, NEW s \in Steps, Docker!Spawn(s)
  PROVE  /\ DockerInv'
         /\ promise[s] = "none" /\ promise'[s] = "pending"
         /\ \A t \in Steps : Kept(t) /\ (t # s => promise'[t] = promise[t])
<1>1. DP!Spawn(s)
  BY SameSteps
<1>2. None \notin Steps
  BY NoneAssumption
<1>3. DP!IInv'
  BY <1>1, <1>2, DP!SpawnIInv DEF DockerInv
<1>4. /\ promise[s] = "none" /\ promise'[s] = "pending"
      /\ \A t \in Steps : t # s => promise'[t] = promise[t]
  BY <1>1 DEF DP!Spawn, DockerInv, DP!IInv, DP!TypeOK
<1>5. \A t \in Steps : Kept(t)
  BY <1>1 DEF DP!Spawn, DockerInv, DP!IInv, DP!TypeOK, DP!StepInv, DP!CliFollowsPromise, Kept
<1>6. \A t \in Steps : Exact(t)'
  BY <1>1 DEF DP!Spawn, DockerInv, DP!IInv, DP!TypeOK, DP!StepInv, DP!CliFollowsPromise,
              DP!ContainerFollowsCli, Exact
<1> QED BY <1>3, <1>4, <1>5, <1>6 DEF DockerInv

LEMMA ProgressIInv ==
  ASSUME DP!IInv, NEW s \in Steps, DP!Progress(s)
  PROVE  DP!IInv'
<1>1. None \notin Steps
  BY NoneAssumption
<1> QED
  BY <1>1, DP!OnCloseIInv, DP!OnErrorIInv, DP!TimerFiresIInv, DP!ContainerStartsIInv,
     DP!DaemonRejectsIInv, DP!ProgramEndsIInv, DP!KillLandsIInv, DP!KillMissesIInv,
     DP!KillFailsIInv DEF DP!Progress

LEMMA ProgressKeeps ==
  ASSUME DockerInv, NEW s \in Steps, Docker!Progress(s)
  PROVE  /\ DockerInv'
         /\ \A t \in Steps :
              /\ Kept(t)
              /\ promise'[t] # promise[t] => promise[t] = "pending" /\ promise'[t] = "settled"
<1> USE DEF DP!TypeOK, DP!StepInv, DP!CliFollowsPromise, DP!ContainerFollowsCli,
            DP!TimerAndKill, DP!Settle, DP!clearTimeout, DP!ContainerGone, DP!Targets, DP!containerName
<1>1. DP!Progress(s) /\ DP!IInv
  BY SameSteps DEF DockerInv
<1>2. DP!IInv'
  BY <1>1, ProgressIInv
<1>3. ASSUME NEW t \in Steps
      PROVE  /\ Kept(t)
             /\ promise'[t] # promise[t] => promise[t] = "pending" /\ promise'[t] = "settled"
  <2>1. CASE DP!OnClose(s)
    BY <1>1, <2>1 DEF DP!IInv, DP!OnClose, Kept
  <2>2. CASE DP!OnError(s)
    BY <1>1, <2>2 DEF DP!IInv, DP!OnError, Kept
  <2>3. CASE DP!TimerFires(s)
    BY <1>1, <2>3 DEF DP!IInv, DP!TimerFires, Kept
  <2>4. CASE DP!ContainerStarts(s) \/ DP!KillMisses(s) \/ DP!KillFails(s)
    BY <2>4 DEF DP!ContainerStarts, DP!KillMisses, DP!KillFails, Kept
  <2>5. CASE DP!DaemonRejects(s) \/ DP!ProgramEnds(s)
    BY <1>1, <2>5 DEF DP!IInv, DP!DaemonRejects, DP!ProgramEnds, Kept
  <2>6. CASE DP!KillLands(s)
    BY <1>1, <2>6 DEF DP!IInv, DP!KillLands, Kept
  <2> QED BY <1>1, <2>1, <2>2, <2>3, <2>4, <2>5, <2>6 DEF DP!Progress
<1>4. ASSUME NEW t \in Steps
      PROVE  Exact(t)'
  <2>0. Exact(t)
    BY DEF DockerInv
  <2>1. CASE DP!OnClose(s)
    BY <1>1, <2>0, <2>1 DEF DP!IInv, DP!OnClose, Exact
  <2>2. CASE DP!OnError(s)
    BY <1>1, <2>0, <2>2 DEF DP!IInv, DP!OnError, Exact
  <2>3. CASE DP!TimerFires(s)
    BY <1>1, <2>0, <2>3 DEF DP!IInv, DP!TimerFires, Exact
  <2>4. CASE DP!ContainerStarts(s) \/ DP!KillMisses(s) \/ DP!KillFails(s)
    BY <1>1, <2>0, <2>4 DEF DP!IInv, DP!ContainerStarts, DP!KillMisses, DP!KillFails, Exact
  <2>5. CASE DP!DaemonRejects(s) \/ DP!ProgramEnds(s)
    BY <1>1, <2>0, <2>5 DEF DP!IInv, DP!DaemonRejects, DP!ProgramEnds, Exact
  <2>6. CASE DP!KillLands(s)
    BY <1>1, <2>0, <2>6 DEF DP!IInv, DP!KillLands, Exact
  <2> QED BY <1>1, <2>1, <2>2, <2>3, <2>4, <2>5, <2>6 DEF DP!Progress
<1> QED BY <1>2, <1>3, <1>4 DEF DockerInv

\* A result of status zero that is not timedOut is of a container that ended
\* so by itself; a status other than zero is the container's, if there was one.
LEMMA ResultMeans ==
  ASSUME DockerInv, NEW s \in Steps, promise[s] = "settled"
  PROVE  /\ result[s].timedOut \in BOOLEAN
         /\ result[s].exit = "zero" => exit[s] = "zero"
         /\ result[s].exit # "zero" => exit[s] # "zero"
         /\ ~result[s].timedOut => killedBy[s] = None
         /\ result[s].timedOut => timer[s] = "fired"
         /\ ~Docker!Live(s)
         /\ result[s] # None
<1>1. /\ DP!StepInv(s) /\ Exact(s)
      /\ killedBy \in [Steps -> Steps \cup {None}] /\ container \in [Steps -> {"none", "starting", "running", "gone"}]
  BY DEF DockerInv, DP!IInv, DP!TypeOK
<1>2. result[s] \in DP!Results /\ cli[s] \in {"closed", "failed"}
  BY <1>1 DEF DP!StepInv, DP!CliFollowsPromise, DP!ResultSaysTimedOut
<1>3. result[s].timedOut \in BOOLEAN /\ result[s] # None
  BY <1>2, NoneAssumption DEF Docker!Results, DP!Results, Docker!Exits, DP!Exits
<1>4. CASE cli[s] = "closed"
  <2>1. result[s].exit = exit[s] /\ result[s].timedOut = timedOut[s] /\ container[s] = "gone"
    BY <1>1, <1>4 DEF Exact, DP!StepInv, DP!ResultSaysTimedOut, DP!ContainerFollowsCli
  <2>2. ~result[s].timedOut => killedBy[s] = None
    BY <1>1, <2>1 DEF DP!StepInv, DP!KilledByItsTimer, DP!TimerAndKill
  <2>3. result[s].timedOut => timer[s] = "fired"
    BY <1>1, <2>1 DEF Exact
  <2> QED BY <1>3, <2>1, <2>2, <2>3 DEF Docker!Live
<1>5. CASE cli[s] = "failed"
  <2>1. result[s].exit = "nonzero" /\ ~result[s].timedOut /\ container[s] = "none"
    BY <1>1, <1>5 DEF Exact, DP!StepInv, DP!ContainerFollowsCli
  <2>2. exit[s] = None /\ killedBy[s] = None
    BY <1>1, <2>1 DEF Exact, DP!StepInv, DP!KilledByItsTimer
  <2> QED BY <1>3, <2>1, <2>2, NoneAssumption DEF Docker!Live, Docker!Exits
<1> QED BY <1>2, <1>4, <1>5

\* A step of executeSubmission that spawns nothing.
LEMMA DockerStays ==
  ASSUME DockerInv, UNCHANGED stepVars
  PROVE  /\ DockerInv'
         /\ \A t \in Steps : Kept(t) /\ promise'[t] = promise[t]
<1>1. None \notin Steps
  BY NoneAssumption
<1>2. DP!IInv'
  <2>1. UNCHANGED DP!dockerVars
    BY DEF stepVars, DP!dockerVars
  <2> QED BY <1>1, <2>1, DP!NextIInv DEF DockerInv
<1>3. \A t \in Steps : Exact(t)'
  BY DEF DockerInv, Exact, stepVars
<1> QED BY <1>2, <1>3 DEF DockerInv, Kept, stepVars

-----------------------------------------------------------------------------
(* The runs.                                                               *)

LEMMA OutcomeFacts ==
  ASSUME NEW n \in 1 .. MaxTests
  PROVE  /\ \A o \in Contract!Outcomes(n) :
              /\ o.passedCount \in 0 .. n
              /\ o.verdict \in Contract!TestFailures => o.passedCount \in 0 .. n - 1
         /\ Contract!Outcome("Accepted", n, n, 0) \in Contract!Outcomes(n)
         /\ Contract!Outcome("Compilation Error", 0, n, 0) \in Contract!Outcomes(n)
         /\ \A v \in Contract!TestFailures, p \in 0 .. n - 1 :
              Contract!Outcome(v, p, n, p + 1) \in Contract!Outcomes(n)
<1>a. n \in Nat /\ 0 \in 0 .. n /\ n \in 0 .. n /\ (\A p \in 0 .. n - 1 : p \in 0 .. n)
  BY ExecutorAssumption
<1> DEFINE AtTests == {Contract!Outcome(v, p, n, p + 1) : v \in Contract!TestFailures, p \in 0 .. n - 1}
           Others == {Contract!Outcome("Accepted", n, n, 0), Contract!Outcome("Compilation Error", 0, n, 0)}
<1>0. Contract!Outcomes(n) = Others \cup AtTests
  BY DEF Contract!Outcomes
<1>1. ASSUME NEW o \in AtTests
      PROVE  o.passedCount \in 0 .. n - 1
  <2>1. PICK v \in Contract!TestFailures, p \in 0 .. n - 1 : o = Contract!Outcome(v, p, n, p + 1)
    OBVIOUS
  <2>2. o.passedCount = p
    BY <2>1 DEF Contract!Outcome
  <2> QED BY <2>2
<1>2. ASSUME NEW o \in Others
      PROVE  o.passedCount \in 0 .. n /\ o.verdict \notin Contract!TestFailures
  <2>1. CASE o = Contract!Outcome("Accepted", n, n, 0)
    <3>1. o.passedCount = n /\ o.verdict = "Accepted"
      BY <2>1 DEF Contract!Outcome
    <3> QED BY <1>a, <3>1 DEF Contract!TestFailures
  <2>2. CASE o = Contract!Outcome("Compilation Error", 0, n, 0)
    <3>1. o.passedCount = 0 /\ o.verdict = "Compilation Error"
      BY <2>2 DEF Contract!Outcome
    <3> QED BY <1>a, <3>1 DEF Contract!TestFailures
  <2> QED BY <2>1, <2>2
<1>3. \A v \in Contract!TestFailures, p \in 0 .. n - 1 : Contract!Outcome(v, p, n, p + 1) \in AtTests
  OBVIOUS
<1> HIDE DEF AtTests
<1>4. ASSUME NEW o \in AtTests
      PROVE  o.passedCount \in 0 .. n
  BY <1>a, <1>1, <1>4
<1> QED BY <1>0, <1>1, <1>2, <1>3, <1>4

Before == {"start", "called", "made", "compile", "compiling"}
Ended == {"cleanup", "over"}

Returns == {None, Threw} \cup UNION {Contract!Outcomes(n) : n \in 1 .. MaxTests}

RunTypes ==
  /\ at \in [Runs -> Places]
  /\ compiled \in [Runs -> BOOLEAN]
  /\ total \in [Runs -> 0 .. MaxTests]
  /\ passedCount \in [Runs -> 0 .. MaxTests]
  /\ dir \in [Runs -> BOOLEAN]
  /\ returning \in [Runs -> Returns]

\* The counts, the directory and the value to return, at each place.
Counts(r) ==
  /\ at[r] = "start" <=> total[r] = 0
  /\ at[r] \in Before => passedCount[r] = 0
  /\ at[r] = "test" => passedCount[r] <= total[r]
  /\ at[r] = "testing" => passedCount[r] < total[r]
  /\ at[r] \in {"made", "compile", "compiling", "test", "testing"} => dir[r]
  /\ at[r] \notin Ended => returning[r] = None
  /\ at[r] \in Ended => returning[r] \in {Threw} \cup Contract!Outcomes(total[r])

\* A compile step, where there is one, has succeeded.
CompileOK(r) ==
  compiled[r] => promise[<<r, 0>>] = "settled" /\ result[<<r, 0>>].exit = "zero"

\* Which steps have been spawned, and which one may be under way.
Spawned(r) ==
  /\ at[r] \in {"test", "testing"} => CompileOK(r)
  /\ \A k \in 0 .. MaxTests : promise[<<r, k>>] = "pending" =>
       \/ at[r] = "compiling" /\ k = 0
       \/ at[r] = "testing" /\ k = passedCount[r] + 1
  /\ \A i \in 1 .. MaxTests : promise[<<r, i>>] # "none" =>
       at[r] \notin Before /\ i <= passedCount[r] + 1 /\ CompileOK(r)

Ran(r, i) ==
  promise[<<r, i>>] = "settled" /\ ~result[<<r, i>>].timedOut /\ result[<<r, i>>].exit = "zero"

Passes(r) == \A i \in 1 .. passedCount[r] : Ran(r, i)

\* What a verdict says of the steps, by their results.
Reasons(r) ==
  at[r] \in Ended /\ returning[r] # Threw =>
    LET v == returning[r].verdict
        p == returning[r].passedCount
    IN
    /\ \A i \in 1 .. p : Ran(r, i)
    /\ v = "Accepted" => p = total[r]
    /\ v = "Wrong Answer" => Ran(r, p + 1)
    /\ v = "Runtime Error" =>
         /\ promise[<<r, p + 1>>] = "settled"
         /\ ~result[<<r, p + 1>>].timedOut /\ result[<<r, p + 1>>].exit # "zero"
    /\ v = "Time Limit Exceeded" =>
         promise[<<r, p + 1>>] = "settled" /\ result[<<r, p + 1>>].timedOut
    /\ v = "Compilation Error" =>
         promise[<<r, 0>>] = "settled" /\ result[<<r, 0>>].exit # "zero"

RunInv(r) == Counts(r) /\ Spawned(r) /\ Passes(r) /\ Reasons(r)

IInv == DockerInv /\ RunTypes /\ \A r \in Runs : RunInv(r)

-----------------------------------------------------------------------------
(* A step of one run leaves the others alone.                              *)

\* A step of q moves on as one of another run lets it.
Onward(t) ==
  /\ Kept(t)
  /\ promise'[t] # promise[t] => promise[t] = "pending" /\ promise'[t] = "settled"

Still(q) ==
  /\ at'[q] = at[q] /\ compiled'[q] = compiled[q] /\ total'[q] = total[q]
  /\ passedCount'[q] = passedCount[q] /\ dir'[q] = dir[q] /\ returning'[q] = returning[q]

\* The test cases a returned outcome speaks of are steps of the run.
LEMMA ReturnedBounds ==
  ASSUME RunTypes, NEW q \in Runs, Counts(q), at[q] \in Ended, returning[q] # Threw
  PROVE  /\ returning[q].passedCount \in Nat
         /\ \A i \in 1 .. returning[q].passedCount : i \in 0 .. MaxTests
         /\ returning[q].verdict \in Contract!TestFailures =>
              returning[q].passedCount + 1 \in 0 .. MaxTests
<1>1. total[q] \in 1 .. MaxTests
  BY ExecutorAssumption DEF RunTypes, Counts, Ended
<1>2. returning[q] \in Contract!Outcomes(total[q])
  BY DEF Counts
<1>3. /\ returning[q].passedCount \in 0 .. total[q]
      /\ returning[q].verdict \in Contract!TestFailures => returning[q].passedCount \in 0 .. total[q] - 1
  BY <1>1, <1>2, OutcomeFacts
<1> QED BY <1>1, <1>3, ExecutorAssumption

LEMMA RanStays ==
  ASSUME NEW q \in Runs, NEW k \in 0 .. MaxTests, Onward(<<q, k>>), Ran(q, k)
  PROVE  Ran(q, k)'
BY DEF Ran, Onward, Kept

\* A run that does not move keeps its invariant while its steps move on.
LEMMA StillKeeps ==
  ASSUME RunTypes, NEW q \in Runs, RunInv(q), Still(q),
         \A k \in 0 .. MaxTests : Onward(<<q, k>>)
  PROVE  RunInv(q)'
<1> USE DEF Still
<1>1. Counts(q)'
  BY DEF RunInv, Counts
<1>2. ASSUME CompileOK(q)
      PROVE  CompileOK(q)'
  BY <1>2, ExecutorAssumption DEF CompileOK, Onward, Kept
<1>3. Spawned(q)'
  <2>1. Spawned(q)
    BY DEF RunInv
  <2>2. at'[q] \in {"test", "testing"} => CompileOK(q)'
    BY <1>2, <2>1 DEF Spawned
  <2>3. ASSUME NEW k \in 0 .. MaxTests, promise'[<<q, k>>] = "pending"
        PROVE  (at[q] = "compiling" /\ k = 0) \/ (at[q] = "testing" /\ k = passedCount[q] + 1)
    BY <2>1, <2>3 DEF Onward, Spawned
  <2>4. ASSUME NEW i \in 1 .. MaxTests, promise'[<<q, i>>] # "none"
        PROVE  at[q] \notin Before /\ i <= passedCount[q] + 1 /\ CompileOK(q)'
    <3>1. i \in 0 .. MaxTests
      BY ExecutorAssumption
    <3>2. promise[<<q, i>>] # "none"
      BY <2>4, <3>1 DEF Onward
    <3> QED BY <1>2, <2>1, <3>2 DEF Spawned
  <2> QED BY <2>2, <2>3, <2>4 DEF Spawned
<1>4. Passes(q)'
  <2>1. \A i \in 1 .. passedCount[q] : i \in 0 .. MaxTests
    BY ExecutorAssumption DEF RunTypes
  <2> QED BY <2>1, RanStays DEF RunInv, Passes
<1>5. Reasons(q)'
  <2>1. CASE at[q] \in Ended /\ returning[q] # Threw
    <3>1. Reasons(q) /\ Counts(q)
      BY DEF RunInv
    <3>2. /\ \A i \in 1 .. returning[q].passedCount : i \in 0 .. MaxTests
          /\ returning[q].verdict \in Contract!TestFailures =>
               returning[q].passedCount + 1 \in 0 .. MaxTests
      BY <2>1, <3>1, ReturnedBounds
    <3>3. \A i \in 1 .. returning[q].passedCount : Ran(q, i)'
      BY <2>1, <3>1, <3>2, RanStays DEF Reasons
    <3>4. returning[q].verdict = "Wrong Answer" => Ran(q, returning[q].passedCount + 1)'
      BY <2>1, <3>1, <3>2, RanStays DEF Reasons, Contract!TestFailures
    <3>5. 0 \in 0 .. MaxTests
      BY ExecutorAssumption
    <3> QED BY <2>1, <3>1, <3>2, <3>3, <3>4, <3>5 DEF Reasons, Contract!TestFailures, Onward, Kept
  <2>2. CASE ~(at[q] \in Ended /\ returning[q] # Threw)
    BY <2>2 DEF Reasons
  <2> QED BY <2>1, <2>2
<1> QED BY <1>1, <1>3, <1>4, <1>5 DEF RunInv

LEMMA OneRun ==
  ASSUME IInv, NEW r \in Runs, DockerInv', RunTypes', RunInv(r)',
         \A q \in Runs \ {r} : Still(q) /\ \A k \in 0 .. MaxTests : Onward(<<q, k>>)
  PROVE  IInv'
BY StillKeeps DEF IInv

\* A step of executeSubmission that spawns nothing.
LEMMA StayingStep ==
  ASSUME IInv, NEW r \in Runs, UNCHANGED stepVars, RunTypes', RunInv(r)',
         \A q \in Runs \ {r} : Still(q)
  PROVE  IInv'
<1>1. DockerInv' /\ \A t \in Steps : Onward(t)
  BY DockerStays DEF IInv, Onward
<1>2. \A q \in Runs, k \in 0 .. MaxTests : <<q, k>> \in Steps
  BY DEF Steps
<1> QED BY <1>1, <1>2, OneRun

\* A spawn by r is of a step of r.
LEMMA SpawningStep ==
  ASSUME IInv, NEW r \in Runs, NEW k \in 0 .. MaxTests, Docker!Spawn(<<r, k>>), RunTypes',
         RunInv(r)', \A q \in Runs \ {r} : Still(q)
  PROVE  IInv'
<1>1. \A q \in Runs, j \in 0 .. MaxTests : <<q, j>> \in Steps
  BY DEF Steps
<1>2. DockerInv' /\ \A t \in Steps : Kept(t) /\ (t # <<r, k>> => promise'[t] = promise[t])
  BY <1>1, SpawnKeeps DEF IInv
<1>3. \A q \in Runs \ {r}, j \in 0 .. MaxTests : Onward(<<q, j>>)
  BY <1>1, <1>2 DEF Onward
<1> QED BY <1>2, <1>3, OneRun

-----------------------------------------------------------------------------
(* One lemma per step of executeSubmission.                                *)

LEMMA InitIInv == Init => IInv
<1> SUFFICES ASSUME Init
             PROVE  IInv
  OBVIOUS
<1>1. \A s \in Steps : Exact(s)
  BY DEF Init, Docker!Init, Exact
<1>2. DP!IInv
  <2>1. DP!Init
    BY DEF Init, Docker!Init, DP!Init
  <2>2. None \notin Steps
    BY NoneAssumption
  <2> QED BY <2>1, <2>2, DP!InitIInv
<1>3. RunTypes
  BY ExecutorAssumption DEF Init, Contract!Init, RunTypes, Places, Returns
<1>4. ASSUME NEW r \in Runs
      PROVE  RunInv(r)
  <2>1. \A k \in 0 .. MaxTests : promise[<<r, k>>] = "none"
    BY DEF Init, Docker!Init, Steps
  <2>2. \A i \in 1 .. MaxTests : i \in 0 .. MaxTests
    BY ExecutorAssumption
  <2>3. at[r] = "start" /\ total[r] = 0 /\ passedCount[r] = 0 /\ returning[r] = None
    BY DEF Init, Contract!Init
  <2> QED BY <2>1, <2>2, <2>3 DEF RunInv, Counts, Spawned, Passes, Reasons, Before, Ended
<1> QED BY <1>1, <1>2, <1>3, <1>4 DEF IInv, DockerInv

LEMMA CallIInv ==
  ASSUME IInv, NEW r \in Runs, Call(r)
  PROVE  IInv'
<1> USE DEF Call, Goto, runVars
<1>1. RunTypes'
  BY ExecutorAssumption DEF IInv, RunTypes, Places
<1>2. \A q \in Runs \ {r} : Still(q)
  BY DEF IInv, RunTypes, Still
<1>3. RunInv(r)'
  <2>1. /\ at'[r] = "called" /\ total'[r] \in 1 .. MaxTests /\ passedCount'[r] = 0
        /\ returning'[r] = None /\ promise' = promise
    BY DEF IInv, RunTypes, RunInv, Counts, stepVars, Before, Ended
  <2>2. Spawned(r) /\ at[r] = "start" /\ Passes(r)
    BY DEF IInv, RunInv
  <2>3. /\ \A k \in 0 .. MaxTests : promise[<<r, k>>] # "pending"
        /\ \A i \in 1 .. MaxTests : promise[<<r, i>>] = "none"
    BY <2>2 DEF Spawned, Before
  <2>4. total'[r] # 0
    BY <2>1
  <2>5. Counts(r)' /\ Reasons(r)'
    BY <2>1, <2>4 DEF Counts, Reasons, Before, Ended
  <2>6. Spawned(r)'
    BY <2>1, <2>3 DEF Spawned, Before
  <2>7. Passes(r)'
    BY <2>1 DEF Passes
  <2> QED BY <2>5, <2>6, <2>7 DEF RunInv
<1> QED BY <1>1, <1>2, <1>3, StayingStep

LEMMA MakeDirIInv ==
  ASSUME IInv, NEW r \in Runs, MakeDir(r)
  PROVE  IInv'
<1> USE DEF MakeDir, Goto, runVars
<1>1. RunTypes'
  BY DEF IInv, RunTypes, Places, Returns
<1>2. \A q \in Runs \ {r} : Still(q)
  BY DEF IInv, RunTypes, Still
<1>3. RunInv(r)'
  <2>1. Counts(r) /\ Spawned(r) /\ Passes(r) /\ RunTypes /\ UNCHANGED stepVars
    BY DEF IInv, RunInv
  <2>2. /\ at[r] = "called" /\ at'[r] \in {"made", "over"}
        /\ UNCHANGED <<compiled, total, passedCount>>
        /\ at'[r] = "made" => returning' = returning /\ dir'[r]
        /\ at'[r] = "over" => returning'[r] = Threw
    BY DEF IInv, RunTypes
  <2>3. Counts(r)'
    BY <2>1, <2>2 DEF Counts, Before, Ended
  <2>4. Spawned(r)' /\ Passes(r)'
    BY <2>1, <2>2 DEF Spawned, Passes, Ran, stepVars, Before, CompileOK
  <2>5. Reasons(r)'
    BY <2>2 DEF Reasons, Ended
  <2> QED BY <2>3, <2>4, <2>5 DEF RunInv
<1> QED BY <1>1, <1>2, <1>3, StayingStep

LEMMA WriteSourceIInv ==
  ASSUME IInv, NEW r \in Runs, WriteSource(r)
  PROVE  IInv'
<1> USE DEF WriteSource, Goto, Return, runVars
<1>1. RunTypes'
  BY DEF IInv, RunTypes, Places, Returns
<1>2. \A q \in Runs \ {r} : Still(q)
  BY DEF IInv, RunTypes, Still
<1>3. RunInv(r)'
  <2>1. Counts(r) /\ Spawned(r) /\ Passes(r) /\ RunTypes /\ UNCHANGED stepVars
    BY DEF IInv, RunInv
  <2>2. /\ at[r] = "made"
        /\ UNCHANGED <<compiled, total, passedCount, dir>>
        /\ \/ at'[r] \in {"compile", "test"} /\ (at'[r] = "test" => ~compiled[r])
              /\ returning' = returning
           \/ at'[r] = "cleanup" /\ returning'[r] = Threw
    BY DEF IInv, RunTypes
  <2>3. passedCount[r] = 0 /\ total[r] \in Nat /\ returning[r] = None
    BY <2>1, <2>2, ExecutorAssumption DEF Counts, Before, Ended, RunTypes
  <2>4. Counts(r)'
    BY <2>1, <2>2, <2>3 DEF Counts, Before, Ended
  <2>5. Spawned(r)' /\ Passes(r)'
    BY <2>1, <2>2 DEF Spawned, Passes, Ran, stepVars, Before, CompileOK
  <2>6. Reasons(r)'
    BY <2>2 DEF Reasons, Ended
  <2> QED BY <2>4, <2>5, <2>6 DEF RunInv
<1> QED BY <1>1, <1>2, <1>3, StayingStep

LEMMA StartCompileIInv ==
  ASSUME IInv, NEW r \in Runs, StartCompile(r)
  PROVE  IInv'
<1> USE DEF StartCompile, Goto
<1>1. RunTypes'
  BY DEF IInv, RunTypes, Places
<1>2. \A q \in Runs \ {r} : Still(q)
  BY DEF IInv, RunTypes, Still
<1>3. 0 \in 0 .. MaxTests /\ \A i \in 1 .. MaxTests : i \in 0 .. MaxTests /\ i # 0
  BY ExecutorAssumption
<1>4. \A k \in 0 .. MaxTests : <<r, k>> \in Steps
  BY DEF Steps
<1>5. \A k \in 0 .. MaxTests : k # 0 => promise'[<<r, k>>] = promise[<<r, k>>]
  BY <1>3, <1>4, SpawnKeeps DEF IInv
<1>6. RunInv(r)'
  <2>1. Counts(r) /\ Spawned(r) /\ Passes(r) /\ RunTypes
    BY DEF IInv, RunInv
  <2>2. at[r] = "compile" /\ at'[r] = "compiling" /\ UNCHANGED <<compiled, total, passedCount, dir, returning>>
    BY <2>1 DEF RunTypes
  <2>3. Counts(r)' /\ Reasons(r)'
    BY <2>1, <2>2 DEF Counts, Reasons, Before, Ended
  <2>4. Spawned(r)'
    BY <1>3, <1>5, <2>1, <2>2 DEF Spawned, Before
  <2>5. passedCount'[r] = 0
    BY <2>1, <2>2 DEF Counts, Before
  <2>6. Passes(r)'
    BY <2>5 DEF Passes
  <2> QED BY <2>3, <2>4, <2>6 DEF RunInv
<1> QED BY <1>1, <1>2, <1>3, <1>6, SpawningStep

LEMMA CompileDoneIInv ==
  ASSUME IInv, NEW r \in Runs, CompileDone(r)
  PROVE  IInv'
<1> DEFINE error == Contract!Outcome("Compilation Error", 0, total[r], 0)
<1>0. /\ at[r] = "compiling" /\ promise[<<r, 0>>] = "settled"
      /\ \/ /\ result[<<r, 0>>].exit # "zero"
            /\ at' = [at EXCEPT ![r] = "cleanup"] /\ returning' = [returning EXCEPT ![r] = error]
         \/ /\ result[<<r, 0>>].exit = "zero"
            /\ at' = [at EXCEPT ![r] = "test"] /\ returning' = returning
      /\ UNCHANGED <<compiled, total, passedCount, dir>>
  BY DEF CompileDone, Goto, Return
<1> HIDE DEF error
<1>1. Counts(r) /\ Spawned(r) /\ Passes(r) /\ RunTypes /\ UNCHANGED stepVars
  BY DEF IInv, RunInv, CompileDone
<1>2. total[r] \in 1 .. MaxTests /\ passedCount[r] = 0 /\ returning[r] = None /\ dir[r]
  <2>1. total[r] \in 0 .. MaxTests /\ total[r] # 0
    BY <1>0, <1>1 DEF RunTypes, Counts
  <2> QED BY <1>0, <1>1, <2>1, ExecutorAssumption DEF Counts, Before, Ended
<1>3. /\ error \in Contract!Outcomes(total[r])
      /\ error.verdict = "Compilation Error" /\ error.passedCount = 0
  <2>1. error \in Contract!Outcomes(total[r])
    BY <1>2, OutcomeFacts DEF error
  <2>2. error.verdict = "Compilation Error" /\ error.passedCount = 0
    BY DEF Contract!Outcome, error
  <2> QED BY <2>1, <2>2
<1>4. RunTypes'
  <2>1. error \in Returns
    BY <1>2, <1>3 DEF Returns
  <2> QED BY <1>0, <1>1, <2>1 DEF RunTypes, Places
<1>5. \A q \in Runs \ {r} : Still(q)
  BY <1>0, <1>1 DEF RunTypes, Still
<1>6. \A k \in 0 .. MaxTests : promise[<<r, k>>] # "pending"
  BY <1>0, <1>1 DEF Spawned
<1>7. \A i \in 1 .. MaxTests : promise[<<r, i>>] = "none"
  BY <1>0, <1>1 DEF Spawned, Before
<1>8. Passes(r)'
  <2>1. passedCount'[r] = 0
    BY <1>0, <1>2
  <2> QED BY <2>1 DEF Passes
<1>9. CASE /\ result[<<r, 0>>].exit # "zero"
           /\ at'[r] = "cleanup"
           /\ returning'[r] = error
  <2>1. Counts(r)'
    BY <1>0, <1>1, <1>2, <1>3, <1>9 DEF Counts, Before, Ended
  <2>2. Spawned(r)'
    BY <1>0, <1>1, <1>6, <1>7, <1>9 DEF Spawned, stepVars
  <2>3. Reasons(r)'
    <3>1. \A i \in 1 .. 0 : FALSE
      OBVIOUS
    <3> QED BY <1>0, <1>1, <1>3, <1>9, <3>1 DEF Reasons, stepVars
  <2>4. RunInv(r)'
    BY <1>8, <2>1, <2>2, <2>3 DEF RunInv
  <2> QED BY <1>1, <1>4, <1>5, <2>4, StayingStep
<1>10. CASE result[<<r, 0>>].exit = "zero" /\ at'[r] = "test" /\ returning' = returning
  <2>1. Counts(r)' /\ Reasons(r)'
    BY <1>0, <1>1, <1>2, <1>10 DEF Counts, Reasons, Before, Ended
  <2>2. Spawned(r)'
    BY <1>0, <1>1, <1>6, <1>7, <1>10 DEF Spawned, CompileOK, stepVars
  <2>3. RunInv(r)'
    BY <1>8, <2>1, <2>2 DEF RunInv
  <2> QED BY <1>1, <1>4, <1>5, <2>3, StayingStep
<1> QED BY <1>0, <1>1, <1>9, <1>10 DEF RunTypes

LEMMA StartTestIInv ==
  ASSUME IInv, NEW r \in Runs, StartTest(r)
  PROVE  IInv'
<1> USE DEF StartTest, Goto
<1> DEFINE n == passedCount[r] + 1
<1>1. Counts(r) /\ Spawned(r) /\ Passes(r) /\ RunTypes
  BY DEF IInv, RunInv
<1>2. RunTypes'
  BY <1>1 DEF RunTypes, Places
<1>3. \A q \in Runs \ {r} : Still(q)
  BY <1>1 DEF RunTypes, Still
<1>4. n \in 1 .. MaxTests /\ 0 # n /\ \A i \in 0 .. MaxTests : i # n => i # passedCount[r] + 1
  BY <1>1, ExecutorAssumption DEF RunTypes
<1>5. n \in 0 .. MaxTests /\ 0 \in 0 .. MaxTests /\ \A i \in 1 .. MaxTests : i \in 0 .. MaxTests
  BY <1>4, ExecutorAssumption
<1>6. \A k \in 0 .. MaxTests : <<r, k>> \in Steps
  BY DEF Steps
<1>7. /\ \A k \in 0 .. MaxTests : k # n => promise'[<<r, k>>] = promise[<<r, k>>]
      /\ \A k \in 0 .. MaxTests : Onward(<<r, k>>) \/ k = n
      /\ promise[<<r, n>>] = "none"
  BY <1>5, <1>6, SpawnKeeps DEF IInv, Onward
<1>8. RunInv(r)'
  <2>1. at[r] = "test" /\ at'[r] = "testing" /\ UNCHANGED <<compiled, total, passedCount, dir, returning>>
    BY <1>1 DEF RunTypes
  <2>2. Counts(r)' /\ Reasons(r)'
    BY <1>1, <2>1 DEF Counts, Reasons, Before, Ended
  <2>3. CompileOK(r)'
    BY <1>1, <1>4, <1>5, <1>7, <2>1 DEF Spawned, CompileOK, Onward, Kept
  <2>4. Spawned(r)'
    <3>1. \A k \in 0 .. MaxTests : promise[<<r, k>>] # "pending"
      BY <1>1, <2>1 DEF Spawned
    <3>2. \A i \in 1 .. MaxTests : promise[<<r, i>>] # "none" => i <= passedCount[r] + 1
      BY <1>1 DEF Spawned
    <3>3. n <= passedCount[r] + 1
      BY <1>4
    <3> QED BY <1>5, <1>7, <2>1, <2>3, <3>1, <3>2, <3>3 DEF Spawned, Before
  <2>5. Passes(r)'
    <3>1. \A i \in 1 .. passedCount[r] : i \in 0 .. MaxTests /\ i # n
      BY <1>1, ExecutorAssumption DEF RunTypes
    <3>2. \A i \in 1 .. passedCount[r] : Ran(r, i) /\ Onward(<<r, i>>)
      BY <1>1, <1>7, <3>1 DEF Passes
    <3> QED BY <2>1, <3>1, <3>2, RanStays DEF Passes
  <2> QED BY <2>2, <2>4, <2>5 DEF RunInv
<1> QED BY <1>2, <1>3, <1>5, <1>8, SpawningStep

LEMMA Below ==
  ASSUME NEW m \in 0 .. MaxTests, NEW n \in 0 .. MaxTests, m < n
  PROVE  n \in 1 .. MaxTests /\ m \in 0 .. n - 1
BY ExecutorAssumption

\* A return from among the test cases, of an outcome the results bear out.
LEMMA ReturnIInv ==
  ASSUME IInv, NEW r \in Runs, NEW o \in Contract!Outcomes(total[r]),
         at[r] \in {"test", "testing"},
         \A k \in 0 .. MaxTests : promise[<<r, k>>] # "pending",
         Return(r, o), UNCHANGED <<stepVars, compiled, total, passedCount, dir>>, Reasons(r)'
  PROVE  IInv'
<1>1. Counts(r) /\ Spawned(r) /\ Passes(r) /\ RunTypes
  BY DEF IInv, RunInv
<1>2. at' = [at EXCEPT ![r] = "cleanup"] /\ returning' = [returning EXCEPT ![r] = o]
  BY DEF Return, Goto
<1>3. total[r] \in 1 .. MaxTests
  <2>1. total[r] \in 0 .. MaxTests /\ total[r] # 0
    BY <1>1 DEF RunTypes, Counts
  <2> QED BY <2>1, ExecutorAssumption
<1>4. RunTypes'
  <2>1. o \in Returns
    BY <1>3 DEF Returns
  <2> QED BY <1>1, <1>2, <2>1 DEF RunTypes, Places
<1>5. \A q \in Runs \ {r} : Still(q)
  BY <1>1, <1>2 DEF RunTypes, Still
<1>6. at'[r] = "cleanup" /\ returning'[r] = o
  BY <1>1, <1>2 DEF RunTypes
<1>7. Counts(r)'
  BY <1>1, <1>3, <1>6 DEF Counts, Before, Ended
<1>8. Spawned(r)'
  BY <1>1, <1>6 DEF Spawned, CompileOK, Before, stepVars
<1>9. Passes(r)'
  BY <1>1 DEF Passes, Ran, stepVars
<1>10. RunInv(r)'
  BY <1>7, <1>8, <1>9 DEF RunInv
<1> QED BY <1>4, <1>5, <1>10, StayingStep

LEMMA AllPassedIInv ==
  ASSUME IInv, NEW r \in Runs, AllPassed(r)
  PROVE  IInv'
<1> DEFINE o == Contract!Outcome("Accepted", total[r], total[r], 0)
<1>1. Counts(r) /\ Spawned(r) /\ Passes(r) /\ RunTypes
  BY DEF IInv, RunInv
<1>2. /\ at[r] = "test" /\ passedCount[r] = total[r] /\ Return(r, o)
      /\ UNCHANGED <<stepVars, compiled, total, passedCount, dir>>
  BY DEF AllPassed
<1> HIDE DEF o
<1>3. total[r] \in 1 .. MaxTests
  <2>1. total[r] \in 0 .. MaxTests /\ total[r] # 0
    BY <1>1, <1>2 DEF RunTypes, Counts
  <2> QED BY <2>1, ExecutorAssumption
<1>4. o \in Contract!Outcomes(total[r])
  BY <1>3, OutcomeFacts DEF o
<1>5. o.verdict = "Accepted" /\ o.passedCount = total[r]
  BY DEF o, Contract!Outcome
<1>6. \A k \in 0 .. MaxTests : promise[<<r, k>>] # "pending"
  BY <1>1, <1>2 DEF Spawned
<1>7. at'[r] = "cleanup" /\ returning'[r] = o
  BY <1>1, <1>2 DEF Return, Goto, RunTypes
<1>8. Reasons(r)'
  BY <1>1, <1>2, <1>5, <1>7 DEF Reasons, Passes, Ran, stepVars
<1> QED BY <1>2, <1>4, <1>6, <1>8, ReturnIInv

\* A failing test case returns with the verdict its result calls for.
LEMMA FailTestIInv ==
  ASSUME IInv, NEW r \in Runs, NEW v \in Contract!TestFailures, at[r] = "testing",
         promise[<<r, passedCount[r] + 1>>] = "settled",
         v = "Wrong Answer" => Ran(r, passedCount[r] + 1),
         v = "Runtime Error" =>
           /\ ~result[<<r, passedCount[r] + 1>>].timedOut
           /\ result[<<r, passedCount[r] + 1>>].exit # "zero",
         v = "Time Limit Exceeded" => result[<<r, passedCount[r] + 1>>].timedOut,
         FailTest(r, v), UNCHANGED <<stepVars, compiled, total, passedCount, dir>>
  PROVE  IInv'
<1> DEFINE p == passedCount[r]
           o == Contract!Outcome(v, p, total[r], p + 1)
<1>1. Counts(r) /\ Spawned(r) /\ Passes(r) /\ RunTypes
  BY DEF IInv, RunInv
<1>2. Return(r, o)
  BY DEF FailTest
<1>3. total[r] \in 1 .. MaxTests /\ p \in 0 .. total[r] - 1
  <2>1. total[r] \in 0 .. MaxTests /\ p \in 0 .. MaxTests /\ p < total[r]
    BY <1>1 DEF RunTypes, Counts
  <2> QED BY <2>1, Below
<1>4. o.verdict = v /\ o.passedCount = p
  BY DEF Contract!Outcome
<1>5. o \in Contract!Outcomes(total[r])
  BY <1>3, OutcomeFacts
<1> HIDE DEF o
<1>6. \A k \in 0 .. MaxTests : promise[<<r, k>>] # "pending"
  BY <1>1 DEF Spawned
<1>7. at'[r] = "cleanup" /\ returning'[r] = o
  BY <1>1, <1>2 DEF Return, Goto, RunTypes
<1>8. Reasons(r)'
  <2>1. v \notin {"Accepted", "Compilation Error"}
    BY DEF Contract!TestFailures
  <2>2. \A i \in 1 .. p : Ran(r, i)
    BY <1>1 DEF Passes
  <2> QED BY <1>4, <1>7, <2>1, <2>2 DEF Reasons, Ran, stepVars
<1> QED BY <1>2, <1>5, <1>6, <1>8, ReturnIInv

LEMMA TestDoneIInv ==
  ASSUME IInv, NEW r \in Runs, TestDone(r)
  PROVE  IInv'
<1> DEFINE n == passedCount[r] + 1
           res == result[<<r, n>>]
<1>1. Counts(r) /\ Spawned(r) /\ Passes(r) /\ RunTypes
  BY DEF IInv, RunInv
<1>2. /\ at[r] = "testing" /\ promise[<<r, n>>] = "settled"
      /\ UNCHANGED <<stepVars, compiled, total, dir>>
  BY DEF TestDone
<1>3. CASE \/ res.timedOut /\ FailTest(r, "Time Limit Exceeded") /\ UNCHANGED passedCount
           \/ ~res.timedOut /\ res.exit # "zero" /\ FailTest(r, "Runtime Error") /\ UNCHANGED passedCount
           \/ ~res.timedOut /\ res.exit = "zero" /\ FailTest(r, "Wrong Answer") /\ UNCHANGED passedCount
  BY <1>2, <1>3, FailTestIInv DEF Contract!TestFailures, Ran
<1>4. CASE /\ ~res.timedOut /\ res.exit = "zero" /\ UNCHANGED returning
           /\ passedCount' = [passedCount EXCEPT ![r] = n] /\ at' = [at EXCEPT ![r] = "test"]
  <2>1. n \in 1 .. MaxTests /\ n <= total[r] /\ \A i \in 1 .. n : i \in 1 .. passedCount[r] \/ i = n
    <3>1. passedCount[r] \in 0 .. MaxTests /\ total[r] \in 0 .. MaxTests /\ passedCount[r] < total[r]
      BY <1>1, <1>2 DEF RunTypes, Counts
    <3> QED BY <3>1, ExecutorAssumption
  <2>2. \A i : i \in Nat /\ i <= n => i <= n + 1
    BY <2>1, ExecutorAssumption
  <2> HIDE DEF n
  <2>3. at'[r] = "test" /\ passedCount'[r] = n
    BY <1>1, <1>4 DEF RunTypes
  <2>4. RunTypes'
    BY <1>1, <1>2, <1>4, <2>1, ExecutorAssumption DEF RunTypes, Places
  <2>5. \A q \in Runs \ {r} : Still(q)
    BY <1>1, <1>2, <1>4 DEF RunTypes, Still
  <2>6. Counts(r)'
    BY <1>1, <1>2, <1>4, <2>1, <2>3 DEF Counts, Before, Ended
  <2>7. Spawned(r)'
    <3>1. \A k \in 0 .. MaxTests : promise[<<r, k>>] # "pending"
      BY <1>1, <1>2 DEF Spawned, n
    <3>2. CompileOK(r)
      BY <1>1, <1>2 DEF Spawned
    <3>3. \A i \in 1 .. MaxTests : promise[<<r, i>>] # "none" => i <= n + 1
      BY <1>1, <2>2 DEF Spawned, n
    <3> QED BY <1>2, <2>3, <3>1, <3>2, <3>3 DEF Spawned, CompileOK, Before, stepVars
  <2>8. Passes(r)'
    BY <1>1, <1>2, <1>4, <2>1, <2>3 DEF Passes, Ran, stepVars
  <2>9. Reasons(r)'
    BY <2>3 DEF Reasons, Ended
  <2>10. RunInv(r)'
    BY <2>6, <2>7, <2>8, <2>9 DEF RunInv
  <2> QED BY <1>2, <2>4, <2>5, <2>10, StayingStep
<1> QED BY <1>3, <1>4 DEF TestDone, Goto

LEMMA CleanupIInv ==
  ASSUME IInv, NEW r \in Runs, Cleanup(r)
  PROVE  IInv'
<1>1. Counts(r) /\ Spawned(r) /\ Passes(r) /\ Reasons(r) /\ RunTypes
  BY DEF IInv, RunInv
<1>2. /\ at[r] = "cleanup" /\ at' = [at EXCEPT ![r] = "over"]
      /\ UNCHANGED <<stepVars, compiled, total, passedCount, returning>>
  BY DEF Cleanup, Goto
<1>3. RunTypes' /\ \A q \in Runs \ {r} : Still(q)
  <2>1. PICK left \in BOOLEAN : dir' = [dir EXCEPT ![r] = left]
    BY DEF Cleanup
  <2> QED BY <1>1, <1>2, <2>1 DEF RunTypes, Places, Still
<1>4. at'[r] = "over"
  BY <1>1, <1>2 DEF RunTypes
<1>5. Counts(r)'
  BY <1>1, <1>2, <1>4 DEF Counts, Before, Ended
<1>6. Spawned(r)' /\ Passes(r)'
  BY <1>1, <1>2, <1>4 DEF Spawned, CompileOK, Passes, Ran, Before, stepVars
<1>7. Reasons(r)'
  BY <1>1, <1>2, <1>4 DEF Reasons, Ran, Ended, stepVars
<1>8. RunInv(r)'
  BY <1>5, <1>6, <1>7 DEF RunInv
<1> QED BY <1>2, <1>3, <1>8, StayingStep

LEMMA DockerProgressIInv ==
  ASSUME IInv, NEW r \in Runs, DockerProgress(r)
  PROVE  IInv'
<1>1. PICK k \in 0 .. MaxTests : Docker!Progress(<<r, k>>)
  BY DEF DockerProgress
<1>2. UNCHANGED runVars
  BY DEF DockerProgress
<1>3. \A q \in Runs, j \in 0 .. MaxTests : <<q, j>> \in Steps
  BY DEF Steps
<1>4. DockerInv' /\ \A t \in Steps : Onward(t)
  BY <1>1, <1>3, ProgressKeeps DEF IInv, Onward
<1>5. RunTypes'
  BY <1>2 DEF IInv, RunTypes, runVars
<1>6. \A q \in Runs : RunInv(q)'
  BY <1>2, <1>3, <1>4, StillKeeps DEF IInv, Still, runVars
<1> QED BY <1>4, <1>5, <1>6 DEF IInv

LEMMA NextIInv == IInv /\ [Next]_vars => IInv'
<1> SUFFICES ASSUME IInv, [Next]_vars
             PROVE  IInv'
  OBVIOUS
<1>1. ASSUME NEW r \in Runs, Call(r)
      PROVE  IInv'
  BY <1>1, CallIInv
<1>2. ASSUME NEW r \in Runs, Advance(r)
      PROVE  IInv'
  BY <1>2, MakeDirIInv, WriteSourceIInv, StartCompileIInv, CompileDoneIInv, StartTestIInv,
     TestDoneIInv, AllPassedIInv, CleanupIInv DEF Advance
<1>3. ASSUME NEW r \in Runs, DockerProgress(r)
      PROVE  IInv'
  BY <1>3, DockerProgressIInv
<1>4. CASE UNCHANGED vars
  <2>1. UNCHANGED stepVars /\ UNCHANGED runVars
    BY <1>4 DEF vars
  <2>2. \A q \in Runs, j \in 0 .. MaxTests : <<q, j>> \in Steps
    BY DEF Steps
  <2>3. DockerInv' /\ \A t \in Steps : Onward(t)
    BY <2>1, DockerStays DEF IInv, Onward
  <2>4. RunTypes'
    BY <2>1 DEF IInv, RunTypes, runVars
  <2>5. \A q \in Runs : RunInv(q)'
    BY <2>1, <2>2, <2>3, StillKeeps DEF IInv, Still, runVars
  <2> QED BY <2>3, <2>4, <2>5 DEF IInv
<1> QED BY <1>1, <1>2, <1>3, <1>4 DEF Next

(***************************************************************************)
(* The invariant the theorems below are read from: what the docker steps   *)
(* promise, and at each place of executeSubmission which steps have run    *)
(* and with what results.                                                  *)
(***************************************************************************)
THEOREM Invariance == SafeSpec => []IInv
<1> QED BY InitIInv, NextIInv, PTL DEF SafeSpec

-----------------------------------------------------------------------------
(* What follows from the invariant.                                        *)

LEMMA TypesOK == IInv => TypeOK
<1> SUFFICES ASSUME IInv
             PROVE  TypeOK
  OBVIOUS
<1>1. Docker!TypeOK
  BY DEF IInv, DockerInv, DP!IInv, DP!TypeOK, Docker!TypeOK, DP!Programs, Docker!Programs,
         DP!Exits, Docker!Exits, DP!Results, Docker!Results
<1>2. RunTypes /\ \A r \in Runs : Counts(r)
  BY DEF IInv, RunInv
<1>3. ASSUME NEW r \in Runs
      PROVE  returning[r] \in {None, Threw} \cup Contract!Outcomes(total[r])
  BY <1>2 DEF Counts
<1> QED BY <1>1, <1>2, <1>3 DEF TypeOK, RunTypes

(***************************************************************************)
(* Every variable of a run keeps its type, and what it returns is an       *)
(* outcome of its own number of test cases.                                *)
(***************************************************************************)
THEOREM TypeCorrect == SafeSpec => []TypeOK
<1> QED BY Invariance, TypesOK, PTL

LEMMA RanMeans ==
  ASSUME DockerInv, NEW r \in Runs, NEW k \in 0 .. MaxTests, Ran(r, k)
  PROVE  EndedByItself(r, k) /\ exit[<<r, k>>] = "zero"
<1>1. <<r, k>> \in Steps
  BY DEF Steps
<1> QED BY <1>1, ResultMeans DEF Ran, EndedByItself

LEMMA Faithful == IInv => VerdictFaithful
<1> SUFFICES ASSUME IInv, NEW r \in Runs, returning[r] \notin {None, Threw}
             PROVE  /\ \A i \in 1 .. returning[r].passedCount :
                         EndedByItself(r, i) /\ exit[<<r, i>>] = "zero"
                    /\ LET v == returning[r].verdict
                           p == returning[r].passedCount
                       IN
                       /\ v = "Accepted" => p = total[r]
                       /\ v = "Wrong Answer" => EndedByItself(r, p + 1) /\ exit[<<r, p + 1>>] = "zero"
                       /\ v = "Runtime Error" => EndedByItself(r, p + 1) /\ exit[<<r, p + 1>>] # "zero"
                       /\ v = "Time Limit Exceeded" => timer[<<r, p + 1>>] = "fired"
                       /\ v = "Compilation Error" =>
                            promise[<<r, 0>>] = "settled" /\ exit[<<r, 0>>] # "zero"
  BY DEF VerdictFaithful
<1> DEFINE v == returning[r].verdict
           p == returning[r].passedCount
<1>1. DockerInv /\ RunTypes /\ Counts(r) /\ Reasons(r)
  BY DEF IInv, RunInv
<1>2. at[r] \in Ended
  BY <1>1 DEF Counts
<1>3. /\ \A i \in 1 .. p : i \in 0 .. MaxTests
      /\ v \in Contract!TestFailures => p + 1 \in 0 .. MaxTests
      /\ 0 \in 0 .. MaxTests
  BY <1>1, <1>2, ReturnedBounds, ExecutorAssumption
<1>4. \A k \in 0 .. MaxTests : <<r, k>> \in Steps
  BY DEF Steps
<1>5. /\ \A i \in 1 .. p : Ran(r, i)
      /\ v = "Accepted" => p = total[r]
      /\ v = "Wrong Answer" => Ran(r, p + 1)
      /\ v = "Runtime Error" =>
           /\ promise[<<r, p + 1>>] = "settled"
           /\ ~result[<<r, p + 1>>].timedOut /\ result[<<r, p + 1>>].exit # "zero"
      /\ v = "Time Limit Exceeded" =>
           promise[<<r, p + 1>>] = "settled" /\ result[<<r, p + 1>>].timedOut
      /\ v = "Compilation Error" =>
           promise[<<r, 0>>] = "settled" /\ result[<<r, 0>>].exit # "zero"
  BY <1>1, <1>2 DEF Reasons
<1> HIDE DEF v, p
<1>6. \A i \in 1 .. p : EndedByItself(r, i) /\ exit[<<r, i>>] = "zero"
  BY <1>1, <1>3, <1>5, RanMeans
<1>7. v = "Wrong Answer" => EndedByItself(r, p + 1) /\ exit[<<r, p + 1>>] = "zero"
  BY <1>1, <1>3, <1>5, RanMeans DEF Contract!TestFailures
<1>8. v = "Runtime Error" => EndedByItself(r, p + 1) /\ exit[<<r, p + 1>>] # "zero"
  BY <1>1, <1>3, <1>4, <1>5, ResultMeans DEF Contract!TestFailures, EndedByItself
<1>9. v = "Time Limit Exceeded" => timer[<<r, p + 1>>] = "fired"
  BY <1>1, <1>3, <1>4, <1>5, ResultMeans DEF Contract!TestFailures
<1>10. v = "Compilation Error" => promise[<<r, 0>>] = "settled" /\ exit[<<r, 0>>] # "zero"
  BY <1>1, <1>3, <1>4, <1>5, ResultMeans
<1> QED BY <1>5, <1>6, <1>7, <1>8, <1>9, <1>10 DEF v, p

(***************************************************************************)
(* A verdict says what the containers did: every test case it counts ended *)
(* by itself with status zero, a run-time error or a wrong answer is never *)
(* the end of a container some timer killed, and a time limit verdict has  *)
(* a timer that fired for that step.                                       *)
(***************************************************************************)
THEOREM VerdictsFaithful == SafeSpec => []VerdictFaithful
<1> QED BY Invariance, Faithful, PTL

LEMMA Stops == IInv => StopsAtFirstFailure
<1> SUFFICES ASSUME IInv, NEW r \in Runs, NEW i \in 1 .. MaxTests, promise[<<r, i>>] # "none"
             PROVE  /\ i <= passedCount[r] + 1
                    /\ compiled[r] => result[<<r, 0>>] # None /\ result[<<r, 0>>].exit = "zero"
  BY DEF StopsAtFirstFailure
<1>1. DockerInv /\ Spawned(r)
  BY DEF IInv, RunInv
<1>2. i <= passedCount[r] + 1 /\ CompileOK(r)
  BY <1>1 DEF Spawned
<1>3. <<r, 0>> \in Steps
  BY ExecutorAssumption DEF Steps
<1> QED BY <1>1, <1>2, <1>3, ResultMeans DEF CompileOK

(***************************************************************************)
(* No test case is started after the first that fails, and none before the *)
(* compile step has succeeded.                                             *)
(***************************************************************************)
THEOREM StopsEarly == SafeSpec => []StopsAtFirstFailure
<1> QED BY Invariance, Stops, PTL

\* The step of a live container is the one its run waits for.
LEMMA LiveMeans ==
  ASSUME IInv, NEW r \in Runs, NEW k \in 0 .. MaxTests, Docker!Live(<<r, k>>)
  PROVE  /\ at[r] \in {"compiling", "testing"}
         /\ k = IF at[r] = "compiling" THEN 0 ELSE passedCount[r] + 1
<1> DEFINE s == <<r, k>>
<1>1. s \in Steps
  BY DEF Steps
<1>2. DP!StepInv(s) /\ promise[s] \in {"none", "pending", "settled"}
  BY <1>1 DEF IInv, DockerInv, DP!IInv, DP!TypeOK
<1>3. promise[s] # "none"
  BY <1>2 DEF DP!StepInv, DP!CliFollowsPromise, DP!ContainerFollowsCli, Docker!Live
<1>4. promise[s] # "settled"
  BY <1>1, ResultMeans DEF IInv
<1> QED BY <1>2, <1>3, <1>4 DEF IInv, RunInv, Spawned

LEMMA Mounted == IInv => MountOutlivesContainer
<1> SUFFICES ASSUME IInv, NEW r \in Runs
             PROVE  LET live == {k \in 0 .. MaxTests : Docker!Live(<<r, k>>)} IN
                    /\ live # {} => dir[r] /\ at[r] \in {"compiling", "testing"}
                    /\ Cardinality(live) <= 1
  BY DEF MountOutlivesContainer
<1> DEFINE live == {k \in 0 .. MaxTests : Docker!Live(<<r, k>>)}
           only == IF at[r] = "compiling" THEN 0 ELSE passedCount[r] + 1
<1>1. \A k \in live : at[r] \in {"compiling", "testing"} /\ k = only
  BY LiveMeans
<1> HIDE DEF live, only
<1>2. live # {} => dir[r] /\ at[r] \in {"compiling", "testing"}
  BY <1>1 DEF IInv, RunInv, Counts
<1>3. Cardinality(live) <= 1
  <2>1. live = {} \/ live = {only}
    BY <1>1
  <2>2. Cardinality({}) = 0 /\ Cardinality({only}) = 1
    BY FS_EmptySet, FS_Singleton
  <2> QED BY <2>1, <2>2
<1> QED BY <1>2, <1>3 DEF live

(***************************************************************************)
(* The directory of a run is there while a container that mounts it lives, *)
(* and no run has two such containers, late kills and late daemon answers  *)
(* included.                                                               *)
(***************************************************************************)
THEOREM MountStays == SafeSpec => []MountOutlivesContainer
<1> QED BY Invariance, Mounted, PTL

-----------------------------------------------------------------------------
(* A run implements its contract.                                          *)

LEMMA SameOutcomes ==
  ASSUME NEW n
  PROVE  Visible!Outcomes(n) = Contract!Outcomes(n)
<1>1. \A v, p, f : Visible!Outcome(v, p, n, f) = Contract!Outcome(v, p, n, f)
  BY DEF Visible!Outcome, Contract!Outcome
<1>2. Visible!TestFailures = Contract!TestFailures
  BY DEF Visible!TestFailures, Contract!TestFailures
<1> DEFINE Seen == {Visible!Outcome(v, p, n, p + 1) : v \in Contract!TestFailures, p \in 0 .. n - 1}
           Made == {Contract!Outcome(v, p, n, p + 1) : v \in Contract!TestFailures, p \in 0 .. n - 1}
<1>3. ASSUME NEW o
      PROVE  o \in Seen <=> o \in Made
  <2>1. o \in Seen <=> \E v \in Contract!TestFailures, p \in 0 .. n - 1 : o = Visible!Outcome(v, p, n, p + 1)
    OBVIOUS
  <2>2. o \in Made <=> \E v \in Contract!TestFailures, p \in 0 .. n - 1 : o = Contract!Outcome(v, p, n, p + 1)
    OBVIOUS
  <2> HIDE DEF Seen, Made
  <2> QED BY <1>1, <2>1, <2>2
<1>4. Seen = Made
  <2> HIDE DEF Seen, Made
  <2> QED BY <1>3
<1>5. /\ Visible!Outcomes(n) = {Visible!Outcome("Accepted", n, n, 0),
                               Visible!Outcome("Compilation Error", 0, n, 0)} \cup Seen
      /\ Contract!Outcomes(n) = {Contract!Outcome("Accepted", n, n, 0),
                                Contract!Outcome("Compilation Error", 0, n, 0)} \cup Made
  BY <1>2 DEF Visible!Outcomes, Contract!Outcomes
<1> HIDE DEF Seen, Made
<1> QED BY <1>1, <1>4, <1>5

\* What the caller has seen of a run.
shown == [r \in Runs |-> IF at[r] = "over" THEN returning[r] ELSE None]

LEMMA InitRefines == Init => Visible!Init
BY DEF Init, Contract!Init, Visible!Init

\* A step that settles no promise and counts no test cases is invisible.
LEMMA UnseenStep ==
  ASSUME \A r \in Runs : (at'[r] = "over") = (at[r] = "over"),
         \A r \in Runs : at[r] = "over" => returning'[r] = returning[r],
         UNCHANGED total
  PROVE  UNCHANGED Visible!contractVars
BY DEF Visible!contractVars

LEMMA CallRefines ==
  ASSUME IInv, NEW r \in Runs, Call(r)
  PROVE  Visible!Begin(r)
<1>1. RunTypes /\ Counts(r)
  BY DEF IInv, RunInv
<1>2. total[r] = 0 /\ \E n \in 1 .. MaxTests : total' = [total EXCEPT ![r] = n]
  BY <1>1 DEF Call, Counts
<1>3. shown' = shown
  BY <1>1 DEF Call, Goto, RunTypes, shown
<1> QED BY <1>2, <1>3 DEF Visible!Begin, shown

\* A run that comes to its end shows what it returns.
LEMMA EndRefines ==
  ASSUME IInv, NEW r \in Runs, NEW o \in {Threw} \cup Contract!Outcomes(total[r]),
         at[r] \notin {"start", "over"}, at' = [at EXCEPT ![r] = "over"],
         \A q \in Runs \ {r} : returning'[q] = returning[q], returning'[r] = o,
         UNCHANGED total
  PROVE  Visible!End(r)
<1>1. RunTypes /\ Counts(r)
  BY DEF IInv, RunInv
<1>2. total[r] # 0 /\ shown[r] = None
  BY <1>1 DEF Counts, shown
<1>3. shown' = [shown EXCEPT ![r] = o]
  BY <1>1 DEF shown, RunTypes
<1>4. o \in Visible!Outcomes(total[r]) \cup {Threw}
  BY SameOutcomes
<1> QED BY <1>2, <1>3, <1>4 DEF Visible!End, shown

LEMMA NextRefines == IInv /\ [Next]_vars => [Visible!Next]_Visible!contractVars
<1> SUFFICES ASSUME IInv, [Next]_vars
             PROVE  [Visible!Next]_Visible!contractVars
  OBVIOUS
<1>0. RunTypes /\ \A r \in Runs : Counts(r)
  BY DEF IInv, RunInv
<1>1. CASE UNCHANGED vars
  BY <1>1, UnseenStep DEF vars, runVars
<1>2. ASSUME NEW r \in Runs, Call(r)
      PROVE  Visible!Next
  BY <1>2, CallRefines DEF Visible!Next
<1>3. ASSUME NEW r \in Runs, MakeDir(r)
      PROVE  [Visible!Next]_Visible!contractVars
  <2>1. CASE at' = [at EXCEPT ![r] = "made"] /\ UNCHANGED returning
    BY <1>0, <1>3, <2>1, UnseenStep DEF MakeDir, RunTypes
  <2>2. CASE at' = [at EXCEPT ![r] = "over"] /\ returning' = [returning EXCEPT ![r] = Threw]
    BY <1>0, <1>3, <2>2, EndRefines DEF MakeDir, RunTypes, Visible!Next
  <2> QED BY <1>3, <2>1, <2>2 DEF MakeDir, Goto
<1>4. ASSUME NEW r \in Runs, Cleanup(r)
      PROVE  Visible!Next
  <2>1. at[r] \in Ended /\ at[r] \notin {"start", "over"} /\ at' = [at EXCEPT ![r] = "over"]
    BY <1>4 DEF Cleanup, Goto, Ended
  <2>2. UNCHANGED returning /\ UNCHANGED total
    BY <1>4 DEF Cleanup
  <2>3. returning[r] \in {Threw} \cup Contract!Outcomes(total[r])
    BY <1>0, <2>1 DEF Counts
  <2>4. Visible!End(r)
    BY <2>1, <2>2, <2>3, EndRefines
  <2> QED BY <2>4 DEF Visible!Next
<1>5. ASSUME NEW r \in Runs,
             WriteSource(r) \/ StartCompile(r) \/ CompileDone(r) \/ StartTest(r) \/ TestDone(r)
               \/ AllPassed(r)
      PROVE  UNCHANGED Visible!contractVars
  <2>1. /\ UNCHANGED total
        /\ at[r] # "over" /\ \E p \in Places \ {"over"} : at' = [at EXCEPT ![r] = p]
        /\ \/ UNCHANGED returning
           \/ \E o : returning' = [returning EXCEPT ![r] = o]
    BY <1>5 DEF WriteSource, StartCompile, CompileDone, StartTest, TestDone, FailTest, AllPassed,
                Return, Goto, Places
  <2> QED BY <1>0, <2>1, UnseenStep DEF RunTypes
<1>6. ASSUME NEW r \in Runs, DockerProgress(r)
      PROVE  UNCHANGED Visible!contractVars
  BY <1>6, UnseenStep DEF DockerProgress, runVars
<1> QED BY <1>1, <1>2, <1>3, <1>4, <1>5, <1>6 DEF Next, Advance

(***************************************************************************)
(* A run implements its contract: its promise settles once, at its end and *)
(* no sooner, with an outcome whose parts agree or with a throw, and that  *)
(* stands.                                                                 *)
(***************************************************************************)
THEOREM ContractImplemented == SafeSpec => ImplementsContract
<1> QED BY InitRefines, NextRefines, Invariance, PTL DEF SafeSpec, ImplementsContract, Visible!SafeSpec

-----------------------------------------------------------------------------
(* How a run can hang.                                                     *)

\* What a step of a run does to the docker steps: it leaves them alone, or
\* spawns the next one of the run, or moves one on.
LEMMA StepOfDocker ==
  ASSUME IInv, [Next]_vars
  PROVE  \/ UNCHANGED stepVars
         \/ \E r \in Runs : StartCompile(r) /\ Docker!Spawn(<<r, 0>>)
         \/ \E r \in Runs : /\ StartTest(r)
                            /\ passedCount[r] + 1 \in 1 .. MaxTests
                            /\ Docker!Spawn(<<r, passedCount[r] + 1>>)
         \/ \E r \in Runs, k \in 0 .. MaxTests : Docker!Progress(<<r, k>>) /\ UNCHANGED runVars
<1>1. \A r \in Runs : StartTest(r) => passedCount[r] + 1 \in 1 .. MaxTests
  BY ExecutorAssumption DEF IInv, RunTypes, StartTest
<1> QED
  BY <1>1 DEF Next, vars, Advance, Call, MakeDir, WriteSource, StartCompile, CompileDone, StartTest,
     TestDone, AllPassed, Cleanup, DockerProgress

\* Each is a step of DockerStep, with the name its theorems have here.
LEMMA NextUsesDocker == IInv /\ [Next]_vars => [DP!Next]_DP!dockerVars
<1> SUFFICES ASSUME IInv, [Next]_vars
             PROVE  [DP!Next]_DP!dockerVars
  OBVIOUS
<1>1. \A q \in Runs, k \in 0 .. MaxTests : <<q, k>> \in Steps
  BY DEF Steps
<1>2. UNCHANGED stepVars => UNCHANGED DP!dockerVars
  BY DEF stepVars, DP!dockerVars
<1>3. ASSUME NEW r \in Runs, NEW k \in 0 .. MaxTests, Docker!Progress(<<r, k>>) \/ Docker!Spawn(<<r, k>>)
      PROVE  DP!Next
  BY <1>1, <1>3, SameSteps DEF DP!Next
<1>4. 0 \in 0 .. MaxTests /\ \A k \in 1 .. MaxTests : k \in 0 .. MaxTests
  BY ExecutorAssumption
<1> QED BY <1>2, <1>3, <1>4, StepOfDocker

(***************************************************************************)
(* executeSubmission is a client of runDockerStep as DockerStep describes  *)
(* it: it spawns a step at most once and then leaves it to its handlers,   *)
(* so that what is proved of runDockerStep holds inside executeSubmission. *)
(***************************************************************************)
THEOREM DockerUsed == SafeSpec => Docker!SafeSpec
<1>1. Init => Docker!Init
  BY DEF Init
<1>2. IInv /\ [Next]_vars => [Docker!Next]_Docker!dockerVars
  <2> SUFFICES ASSUME IInv, [Next]_vars
               PROVE  [Docker!Next]_Docker!dockerVars
    OBVIOUS
  <2>1. \A q \in Runs, k \in 0 .. MaxTests : <<q, k>> \in Steps
    BY DEF Steps
  <2>2. UNCHANGED stepVars => UNCHANGED Docker!dockerVars
    BY DEF stepVars, Docker!dockerVars
  <2>3. 0 \in 0 .. MaxTests /\ \A k \in 1 .. MaxTests : k \in 0 .. MaxTests
    BY ExecutorAssumption
  <2> QED BY <2>1, <2>2, <2>3, StepOfDocker DEF Docker!Next
<1> QED BY <1>1, <1>2, Invariance, PTL DEF SafeSpec, Docker!SafeSpec

(***************************************************************************)
(* Which step a run is about to spawn, and which one it waits for: the one *)
(* is not spawned yet, the other has been.                                 *)
(***************************************************************************)
Turn(r) ==
  /\ at[r] \in {"start", "called", "made", "compile"} => promise[<<r, 0>>] = "none"
  /\ at[r] = "compiling" => promise[<<r, 0>>] # "none"
  /\ \A i \in 1 .. MaxTests :
       /\ at[r] = "test" /\ i > passedCount[r] => promise[<<r, i>>] = "none"
       /\ at[r] = "testing" /\ i = passedCount[r] + 1 => promise[<<r, i>>] # "none"

\* The docker steps that are spawned stay so, and no other step is spawned.
NoneSpawnedBut(S) ==
  \A t \in Steps : t \notin S => (promise'[t] = "none" <=> promise[t] = "none")

LEMMA SpawnedOnly ==
  ASSUME IInv, [Next]_vars
  PROVE  \/ NoneSpawnedBut({})
         \/ \E r \in Runs : StartCompile(r) /\ NoneSpawnedBut({<<r, 0>>}) /\ promise'[<<r, 0>>] # "none"
         \/ \E r \in Runs : /\ StartTest(r) /\ NoneSpawnedBut({<<r, passedCount[r] + 1>>})
                            /\ promise'[<<r, passedCount[r] + 1>>] # "none"
<1>1. \A q \in Runs, k \in 0 .. MaxTests : <<q, k>> \in Steps
  BY DEF Steps
<1>2. 0 \in 0 .. MaxTests /\ \A k \in 1 .. MaxTests : k \in 0 .. MaxTests
  BY ExecutorAssumption
<1>3. DockerInv /\ promise \in [Steps -> {"none", "pending", "settled"}]
  BY DEF IInv, DockerInv, DP!IInv, DP!TypeOK
<1>4. ASSUME NEW s \in Steps, Docker!Spawn(s)
      PROVE  NoneSpawnedBut({s}) /\ promise'[s] # "none"
  BY <1>3, <1>4 DEF Docker!Spawn, NoneSpawnedBut
<1>5. ASSUME NEW s \in Steps, Docker!Progress(s)
      PROVE  NoneSpawnedBut({})
  BY <1>3, <1>5, ProgressKeeps DEF NoneSpawnedBut
<1>6. UNCHANGED stepVars => NoneSpawnedBut({})
  BY DEF stepVars, NoneSpawnedBut
<1> QED BY <1>1, <1>2, <1>4, <1>5, <1>6, StepOfDocker

LEMMA InitTurn == Init => \A r \in Runs : Turn(r)
<1> SUFFICES ASSUME Init, NEW r \in Runs
             PROVE  Turn(r)
  OBVIOUS
<1>1. at[r] = "start" /\ promise = [s \in Steps |-> "none"]
  BY DEF Init, Docker!Init
<1>2. <<r, 0>> \in Steps
  BY ExecutorAssumption DEF Steps
<1> QED BY <1>1, <1>2 DEF Turn

\* The same steps of q are spawned as before.
SameSpawned(q) ==
  \A k \in 0 .. MaxTests : promise'[<<q, k>>] = "none" <=> promise[<<q, k>>] = "none"

LEMMA SpawnedNow ==
  ASSUME IInv, [Next]_vars, NEW q \in Runs
  PROVE  \/ SameSpawned(q)
         \/ StartCompile(q) /\ promise'[<<q, 0>>] # "none"
         \/ StartTest(q) /\ promise'[<<q, passedCount[q] + 1>>] # "none"
<1>1. \A k \in 0 .. MaxTests : <<q, k>> \in Steps
  BY DEF Steps
<1>2. ASSUME NEW r \in Runs, r # q, NEW n, NoneSpawnedBut({<<r, n>>})
      PROVE  SameSpawned(q)
  BY <1>1, <1>2 DEF NoneSpawnedBut, SameSpawned
<1>3. NoneSpawnedBut({}) => SameSpawned(q)
  BY <1>1 DEF NoneSpawnedBut, SameSpawned
<1> QED BY <1>2, <1>3, SpawnedOnly

\* No test case is started while its run compiles or before, nor ahead of
\* the one it is at.
LEMMA AheadNotSpawned ==
  ASSUME IInv, NEW q \in Runs, NEW i \in 1 .. MaxTests
  PROVE  /\ at[q] \in Before => promise[<<q, i>>] = "none"
         /\ i > passedCount[q] + 1 => promise[<<q, i>>] = "none"
<1>1. passedCount[q] \in Nat /\ i \in Nat
  BY ExecutorAssumption DEF IInv, RunTypes
<1> QED BY <1>1 DEF IInv, RunInv, Spawned

\* What the steps of a run do to its place and its count.
LEMMA PlaceAndCount ==
  ASSUME IInv, [Next]_vars, NEW q \in Runs
  PROVE  \/ at'[q] = at[q] /\ passedCount'[q] = passedCount[q]
         \/ at[q] = "start" /\ at'[q] = "called"
         \/ at[q] = "called" /\ at'[q] = "made"
         \/ at'[q] \in Ended
         \/ at[q] = "made" /\ at'[q] \in {"compile", "test"}
         \/ StartCompile(q) /\ at'[q] = "compiling"
         \/ at[q] = "compiling" /\ at'[q] = "test"
         \/ StartTest(q) /\ at'[q] = "testing" /\ passedCount'[q] = passedCount[q]
         \/ at[q] = "testing" /\ at'[q] = "test" /\ passedCount'[q] = passedCount[q] + 1
<1>1. at \in [Runs -> Places] /\ passedCount \in [Runs -> 0 .. MaxTests]
  BY DEF IInv, RunTypes
<1>2. CASE UNCHANGED runVars
  BY <1>2 DEF runVars
<1>3. ASSUME NEW r \in Runs, r # q, Call(r) \/ Advance(r)
      PROVE  at'[q] = at[q] /\ passedCount'[q] = passedCount[q]
  BY <1>1, <1>3 DEF Call, Advance, MakeDir, WriteSource, StartCompile, CompileDone, StartTest,
     TestDone, AllPassed, Cleanup, FailTest, Return, Goto
<1>4. Call(q) => at[q] = "start" /\ at'[q] = "called"
  BY <1>1 DEF Call, Goto
<1>5. MakeDir(q) => at[q] = "called" /\ at'[q] \in {"made", "over"}
  BY <1>1 DEF MakeDir, Goto
<1>6. WriteSource(q) => at[q] = "made" /\ at'[q] \in {"compile", "test", "cleanup"}
  BY <1>1 DEF WriteSource, Goto, Return
<1>7. StartCompile(q) => at'[q] = "compiling"
  BY <1>1 DEF StartCompile, Goto
<1>8. CompileDone(q) => at[q] = "compiling" /\ at'[q] \in {"test", "cleanup"}
  BY <1>1 DEF CompileDone, Goto, Return
<1>9. StartTest(q) => at'[q] = "testing" /\ passedCount'[q] = passedCount[q]
  BY <1>1 DEF StartTest, Goto
<1>10. TestDone(q) => at[q] = "testing" /\ \/ at'[q] = "cleanup"
                                           \/ at'[q] = "test" /\ passedCount'[q] = passedCount[q] + 1
  BY <1>1 DEF TestDone, FailTest, Goto, Return
<1>11. AllPassed(q) \/ Cleanup(q) => at'[q] \in Ended
  BY <1>1 DEF AllPassed, Cleanup, Goto, Return, Ended
<1> QED
  BY <1>2, <1>3, <1>4, <1>5, <1>6, <1>7, <1>8, <1>9, <1>10, <1>11
     DEF Next, Advance, DockerProgress, vars, Ended

\* A start of a step spawns it.
LEMMA SpawnsNow ==
  ASSUME IInv, NEW q \in Runs
  PROVE  /\ StartCompile(q) => promise[<<q, 0>>] = "none" /\ promise'[<<q, 0>>] # "none"
         /\ StartTest(q) => /\ promise[<<q, passedCount[q] + 1>>] = "none"
                            /\ promise'[<<q, passedCount[q] + 1>>] # "none"
<1>1. promise \in [Steps -> {"none", "pending", "settled"}]
  BY DEF IInv, DockerInv, DP!IInv, DP!TypeOK
<1>2. <<q, 0>> \in Steps /\ (StartTest(q) => <<q, passedCount[q] + 1>> \in Steps)
  BY ExecutorAssumption DEF Steps, IInv, RunTypes, StartTest
<1> QED BY <1>1, <1>2 DEF StartCompile, StartTest, Docker!Spawn

LEMMA TurnStep ==
  ASSUME IInv, [Next]_vars, NEW q \in Runs, Turn(q)
  PROVE  Turn(q)'
<1>1. 0 \in 0 .. MaxTests /\ \A i \in 1 .. MaxTests : i \in 0 .. MaxTests /\ i \in Nat
  BY ExecutorAssumption
<1>2. passedCount[q] \in Nat
  BY DEF IInv, RunTypes
<1>3. CASE StartCompile(q) /\ promise'[<<q, 0>>] # "none"
  <2>1. at'[q] = "compiling"
    BY <1>3 DEF StartCompile, Goto, IInv, RunTypes
  <2> QED BY <1>3, <2>1 DEF Turn
<1>4. CASE StartTest(q) /\ promise'[<<q, passedCount[q] + 1>>] # "none"
  <2>1. at'[q] = "testing" /\ passedCount'[q] = passedCount[q]
    BY <1>4 DEF StartTest, Goto, IInv, RunTypes
  <2> QED BY <1>4, <2>1 DEF Turn
<1>5. CASE SameSpawned(q) /\ ~StartCompile(q) /\ ~StartTest(q)
  <2>1. /\ promise'[<<q, 0>>] = "none" <=> promise[<<q, 0>>] = "none"
        /\ \A i \in 1 .. MaxTests : promise'[<<q, i>>] = "none" <=> promise[<<q, i>>] = "none"
    BY <1>1, <1>5 DEF SameSpawned
  <2>2. CASE at'[q] = at[q] /\ passedCount'[q] = passedCount[q]
    BY <2>1, <2>2 DEF Turn
  <2>3. CASE at'[q] \in Ended \cup {"called", "made"}
             /\ (at'[q] \in {"called", "made"} => at[q] \in {"start", "called"})
    BY <2>1, <2>3 DEF Turn, Ended
  <2>4. CASE at[q] \in {"made", "compiling"} /\ at'[q] \in {"compile", "test"}
             /\ (at'[q] = "compile" => at[q] = "made")
    <3>1. \A i \in 1 .. MaxTests : promise[<<q, i>>] = "none"
      BY <2>4, AheadNotSpawned DEF Before
    <3> QED BY <2>1, <2>4, <3>1 DEF Turn
  <2>5. CASE at[q] = "testing" /\ at'[q] = "test" /\ passedCount'[q] = passedCount[q] + 1
    BY <2>1, <2>5, AheadNotSpawned DEF Turn
  <2> QED BY <1>5, <2>2, <2>3, <2>4, <2>5, PlaceAndCount DEF Ended
<1>6. CASE SameSpawned(q) /\ (StartCompile(q) \/ StartTest(q))
  <2>1. StartCompile(q) => promise[<<q, 0>>] = "none" /\ promise'[<<q, 0>>] # "none"
    BY <1>6, SpawnsNow
  <2>2. StartTest(q) => /\ promise[<<q, passedCount[q] + 1>>] = "none"
                        /\ promise'[<<q, passedCount[q] + 1>>] # "none"
    BY <1>6, SpawnsNow
  <2>3. StartTest(q) => passedCount[q] + 1 \in 0 .. MaxTests
    BY ExecutorAssumption DEF IInv, RunTypes, StartTest
  <2> QED BY <1>1, <1>6, <2>1, <2>2, <2>3 DEF SameSpawned
<1> QED BY <1>3, <1>4, <1>5, <1>6, SpawnedNow

\* The code of a run may go on: the awaits of its file operations settle,
\* the step it is about to spawn is new, the step it waits for has settled.
MayGoOn(r) ==
  \/ at[r] \in {"called", "made", "cleanup"}
  \/ at[r] = "compile" /\ promise[<<r, 0>>] = "none"
  \/ at[r] = "test" /\ passedCount[r] = total[r]
  \/ at[r] = "test" /\ passedCount[r] < total[r] /\ promise[<<r, passedCount[r] + 1>>] = "none"
  \/ at[r] = "compiling" /\ promise[<<r, 0>>] = "settled"
  \/ at[r] = "testing" /\ promise[<<r, passedCount[r] + 1>>] = "settled"

(***************************************************************************)
(* A run that has been called and is not over goes on by itself, or one of *)
(* its docker steps has an event to come, or a container of it has escaped *)
(* its kill.  This is what EndsOrEscapes rests on, before any fairness:    *)
(* MayGoOn collects the guards of Advance.                                 *)
(***************************************************************************)
RunsHangOnlyByEscaping ==
  \A r \in Runs : at[r] \notin {"start", "over"} =>
    \/ MayGoOn(r)
    \/ \E k \in 0 .. MaxTests : DP!EventDue(<<r, k>>) \/ Docker!Escaped(<<r, k>>)

LEMMA NothingElseHangs ==
  ASSUME IInv, \A r \in Runs : Turn(r), DP!HangsOnlyByEscaping
  PROVE  RunsHangOnlyByEscaping
<1> SUFFICES ASSUME NEW r \in Runs, at[r] \notin {"start", "over"}, ~MayGoOn(r)
             PROVE  \E k \in 0 .. MaxTests : DP!EventDue(<<r, k>>) \/ Docker!Escaped(<<r, k>>)
  BY DEF RunsHangOnlyByEscaping
<1>1. at[r] \in Places /\ total[r] \in 0 .. MaxTests /\ passedCount[r] \in 0 .. MaxTests
  BY DEF IInv, RunTypes
<1>2. Counts(r) /\ Turn(r)
  BY DEF IInv, RunInv
<1>3. at[r] \in {"compiling", "testing"}
  <2>1. at[r] = "test" =>
          \/ passedCount[r] = total[r]
          \/ /\ passedCount[r] < total[r]
             /\ passedCount[r] + 1 \in 1 .. MaxTests /\ passedCount[r] + 1 > passedCount[r]
    <3>1. at[r] = "test" => passedCount[r] <= total[r]
      BY <1>2 DEF Counts
    <3>2. total[r] \in Nat /\ passedCount[r] \in Nat /\ MaxTests \in Nat /\ total[r] <= MaxTests
      BY <1>1, ExecutorAssumption
    <3> QED BY <3>1, <3>2
  <2>2. at[r] # "test"
    BY <1>1, <1>2, <2>1 DEF Turn, MayGoOn
  <2> QED BY <1>1, <1>2, <2>2 DEF MayGoOn, Places, Turn
<1>4. PICK k \in 0 .. MaxTests : promise[<<r, k>>] = "pending"
  <2>1. CASE at[r] = "compiling"
    <3>1. 0 \in 0 .. MaxTests /\ <<r, 0>> \in Steps
      BY ExecutorAssumption DEF Steps
    <3>2. promise[<<r, 0>>] \in {"none", "pending", "settled"}
      BY <3>1 DEF IInv, DockerInv, DP!IInv, DP!TypeOK
    <3> QED BY <1>2, <2>1, <3>1, <3>2 DEF Turn, MayGoOn
  <2>2. CASE at[r] = "testing"
    <3>1. /\ passedCount[r] + 1 \in 1 .. MaxTests /\ passedCount[r] + 1 \in 0 .. MaxTests
          /\ <<r, passedCount[r] + 1>> \in Steps
      BY <1>1, <1>2, <2>2, ExecutorAssumption DEF Counts, Steps
    <3>2. promise[<<r, passedCount[r] + 1>>] \in {"none", "pending", "settled"}
      BY <3>1 DEF IInv, DockerInv, DP!IInv, DP!TypeOK
    <3> QED BY <1>2, <2>2, <3>1, <3>2 DEF Turn, MayGoOn
  <2> QED BY <1>3, <2>1, <2>2
<1>5. <<r, k>> \in Steps
  BY DEF Steps
<1>6. DP!EventDue(<<r, k>>) \/ DP!Escaped(<<r, k>>)
  BY <1>4, <1>5 DEF DP!HangsOnlyByEscaping
<1> QED BY <1>6 DEF DP!Escaped, Docker!Escaped, DP!Live, Docker!Live

\* What DockerStep_proofs says of how steps hang, of the steps of all runs.
LEMMA DockerHangs ==
  SafeSpec => [](IInv /\ DP!HangsOnlyByEscaping) /\ [][DP!Next]_DP!dockerVars
<1>1. None \notin Steps
  BY NoneAssumption
<1>2. Init => DP!Init
  BY DEF Init, Docker!Init, DP!Init
<1>3. DP!SafeSpec => []DP!HangsOnlyByEscaping
  BY <1>1, DP!OnlyEscapesHang
<1> QED BY <1>2, <1>3, NextUsesDocker, Invariance, PTL DEF SafeSpec, DP!SafeSpec

\* A run that neither ends nor goes on has a container that outlived its
\* kill: nothing else makes executeSubmission hang and keep its slot.
THEOREM OnlyEscapesHang == SafeSpec => []RunsHangOnlyByEscaping
<1>1. Init => \A r \in Runs : Turn(r)
  BY InitTurn
<1>2. IInv /\ [Next]_vars /\ (\A r \in Runs : Turn(r)) => (\A r \in Runs : Turn(r))'
  BY TurnStep
<1>3. IInv /\ (\A r \in Runs : Turn(r)) /\ DP!HangsOnlyByEscaping => RunsHangOnlyByEscaping
  BY NothingElseHangs
<1> QED BY <1>1, <1>2, <1>3, DockerHangs, PTL DEF SafeSpec

(***************************************************************************)
(* A run whose current container sleeps and has outlived its kill stays    *)
(* where it is: its finally never runs, so that its directory stays and    *)
(* its caller gets no result and gives no slot back.                       *)
(***************************************************************************)
RunHung(r) ==
  \/ at[r] = "compiling" /\ DP!Hung(<<r, 0>>)
  \/ at[r] = "testing" /\ DP!Hung(<<r, passedCount[r] + 1>>)

RunStaysHung == [][\A r \in Runs : RunHung(r) => RunHung(r)' /\ dir'[r]]_vars

\* A run that waits for a pending step does not move.
LEMMA WaitsForStep ==
  ASSUME IInv, [Next]_vars, NEW r \in Runs,
         \/ at[r] = "compiling" /\ promise[<<r, 0>>] = "pending"
         \/ at[r] = "testing" /\ promise[<<r, passedCount[r] + 1>>] = "pending"
  PROVE  at'[r] = at[r] /\ passedCount'[r] = passedCount[r]
<1>1. at \in [Runs -> Places] /\ passedCount \in [Runs -> 0 .. MaxTests]
  BY DEF IInv, RunTypes
<1>2. CASE UNCHANGED runVars
  BY <1>2 DEF runVars
<1>3. ASSUME NEW q \in Runs, q # r, Call(q) \/ Advance(q)
      PROVE  at'[r] = at[r] /\ passedCount'[r] = passedCount[r]
  BY <1>1, <1>3 DEF Call, Advance, MakeDir, WriteSource, StartCompile, CompileDone, StartTest,
     TestDone, AllPassed, Cleanup, FailTest, Return, Goto
<1>4. ~Call(r) /\ ~Advance(r)
  BY DEF Call, Advance, MakeDir, WriteSource, StartCompile, CompileDone, StartTest, TestDone,
     AllPassed, Cleanup
<1> QED BY <1>2, <1>3, <1>4 DEF Next, DockerProgress, vars

LEMMA RunHungStep ==
  ASSUME IInv, [Next]_vars, [DP!Next]_DP!dockerVars, NEW r \in Runs, RunHung(r)
  PROVE  RunHung(r)'
<1>1. DP!IInv /\ None \notin Steps
  BY NoneAssumption DEF IInv, DockerInv
<1>2. PICK k \in 0 .. MaxTests : /\ DP!Hung(<<r, k>>)
                                 /\ \/ at[r] = "compiling" /\ k = 0
                                    \/ at[r] = "testing" /\ k = passedCount[r] + 1
  <2>1. 0 \in 0 .. MaxTests
    BY ExecutorAssumption
  <2>2. at[r] = "testing" => passedCount[r] + 1 \in 0 .. MaxTests
    BY ExecutorAssumption DEF IInv, RunTypes, RunInv, Counts
  <2> QED BY <2>1, <2>2 DEF RunHung
<1>3. <<r, k>> \in Steps
  BY DEF Steps
<1>4. DP!Hung(<<r, k>>)'
  BY <1>1, <1>2, <1>3, DP!HungStep
<1>5. at'[r] = at[r] /\ passedCount'[r] = passedCount[r]
  BY <1>2, WaitsForStep DEF DP!Hung
<1> QED BY <1>2, <1>4, <1>5 DEF RunHung

\* A run that hangs with a sleeping program hangs for ever.
THEOREM RunsHangForGood == SafeSpec => RunStaysHung
<1>1. ASSUME IInv, IInv', [Next]_vars, [DP!Next]_DP!dockerVars, NEW r \in Runs, RunHung(r)
      PROVE  RunHung(r)' /\ dir'[r]
  <2>1. RunHung(r)'
    BY <1>1, RunHungStep
  <2>2. at'[r] \in {"compiling", "testing"}
    BY <2>1 DEF RunHung
  <2> QED BY <1>1, <2>1, <2>2 DEF IInv, RunInv, Counts
<1>2. IInv /\ IInv' /\ [Next]_vars /\ [DP!Next]_DP!dockerVars =>
        [\A r \in Runs : RunHung(r) => RunHung(r)' /\ dir'[r]]_vars
  BY <1>1
<1> QED BY <1>2, DockerHangs, PTL DEF SafeSpec, RunStaysHung
=============================================================================
