------------------------- MODULE DockerStep_proofs --------------------------
(***************************************************************************)
(* Proofs about runDockerStep, for any number of concurrent steps, slow    *)
(* starts and failing kills included.                                      *)
(***************************************************************************)
EXTENDS DockerStep, TLAPS

(***************************************************************************)
(* What the handlers of one step leave behind them.  HonestResult and the  *)
(* others are not inductive: they rest on how far each of the four parties *)
(* (the promise, the CLI, the container, the timer with its kill) can be   *)
(* from the others.                                                        *)
(***************************************************************************)
CliFollowsPromise(s) ==
  /\ promise[s] = "none" => cli[s] = "none" /\ timer[s] = "off"
  /\ promise[s] = "pending" => cli[s] \in {"alive", "failed"}
  /\ promise[s] = "settled" => cli[s] \in {"closed", "failed"}

ContainerFollowsCli(s) ==
  /\ container[s] = "gone" => exit[s] \in Exits
  /\ cli[s] \in {"none", "failed"} => container[s] = "none"
  /\ cli[s] = "closed" => container[s] = "gone"

TimerAndKill(s) ==
  /\ promise[s] = "settled" => timer[s] # "armed"
  /\ kill[s] # "none" => timer[s] = "fired"
  /\ timer[s] = "fired" => timedOut[s]

KilledByItsTimer(s) ==
  killedBy[s] # None => killedBy[s] = s /\ container[s] = "gone" /\ kill[s] # "none"

ResultSaysTimedOut(s) ==
  promise[s] = "settled" =>
    result[s] \in Results /\ (cli[s] = "closed" => result[s].timedOut = timedOut[s])

StepInv(s) ==
  /\ CliFollowsPromise(s)
  /\ ContainerFollowsCli(s)
  /\ TimerAndKill(s)
  /\ KilledByItsTimer(s)
  /\ ResultSaysTimedOut(s)

IInv == TypeOK /\ \A s \in Steps : StepInv(s)

-----------------------------------------------------------------------------

\* The initial state satisfies the inductive invariant.
LEMMA InitIInv == Init => IInv
BY DockerAssumption DEF Init, IInv, TypeOK, StepInv, CliFollowsPromise, ContainerFollowsCli, TimerAndKill,
       KilledByItsTimer, ResultSaysTimedOut

(***************************************************************************)
(* A step of runDockerStep changes the state of one docker step only, so   *)
(* the invariant of the others stands.                                     *)
(***************************************************************************)
Elsewhere(s) ==
  \A t \in Steps \ {s} :
    /\ promise'[t] = promise[t] /\ cli'[t] = cli[t] /\ container'[t] = container[t]
    /\ exit'[t] = exit[t] /\ killedBy'[t] = killedBy[t] /\ timer'[t] = timer[t]
    /\ kill'[t] = kill[t] /\ timedOut'[t] = timedOut[t] /\ result'[t] = result[t]

LEMMA OneStepChanges ==
  ASSUME IInv, NEW s \in Steps, Elsewhere(s), TypeOK', StepInv(s)'
  PROVE  IInv'
<1>1. ASSUME NEW t \in Steps, t # s
      PROVE  StepInv(t)'
  <2>1. /\ promise'[t] = promise[t] /\ cli'[t] = cli[t] /\ container'[t] = container[t]
        /\ exit'[t] = exit[t] /\ killedBy'[t] = killedBy[t] /\ timer'[t] = timer[t]
        /\ kill'[t] = kill[t] /\ timedOut'[t] = timedOut[t] /\ result'[t] = result[t]
    BY <1>1 DEF Elsewhere
  <2>2. StepInv(t)
    BY DEF IInv
  <2> QED
    BY <2>1, <2>2 DEF StepInv, CliFollowsPromise, ContainerFollowsCli, TimerAndKill,
                      KilledByItsTimer, ResultSaysTimedOut
<1> QED
  BY <1>1 DEF IInv

-----------------------------------------------------------------------------
(* One lemma per action.                                                   *)

LEMMA SpawnIInv ==
  ASSUME IInv, NEW s \in Steps, Spawn(s)
  PROVE  IInv'
<1> USE DEF IInv, Spawn
<1>1. TypeOK'
  BY DEF TypeOK
<1>2. Elsewhere(s)
  BY DEF Elsewhere, TypeOK
<1>3. StepInv(s)'
  BY DockerAssumption DEF TypeOK, StepInv, CliFollowsPromise, ContainerFollowsCli, TimerAndKill,
         KilledByItsTimer, ResultSaysTimedOut
<1> QED
  BY <1>1, <1>2, <1>3, OneStepChanges

LEMMA OnCloseIInv ==
  ASSUME IInv, NEW s \in Steps, OnClose(s)
  PROVE  IInv'
<1> USE DockerAssumption DEF IInv, OnClose, clearTimeout, Settle
<1>1. TypeOK'
  BY DEF TypeOK, Programs, Exits, Results, StepInv, ContainerFollowsCli
<1>2. Elsewhere(s)
  BY DEF Elsewhere, TypeOK
<1>3. StepInv(s)'
  <2>2. CliFollowsPromise(s)'
    BY DEF TypeOK, StepInv, CliFollowsPromise
  <2>3. ContainerFollowsCli(s)'
    BY DEF TypeOK, StepInv, CliFollowsPromise, ContainerFollowsCli, Exits
  <2>4. TimerAndKill(s)'
    BY DEF TypeOK, StepInv, TimerAndKill
  <2>5. KilledByItsTimer(s)'
    BY DEF TypeOK, StepInv, ContainerFollowsCli, KilledByItsTimer
  <2>6. ResultSaysTimedOut(s)'
    BY DEF TypeOK, StepInv, CliFollowsPromise, ContainerFollowsCli, ResultSaysTimedOut,
           Results, Exits
  <2> QED
    BY <2>2, <2>3, <2>4, <2>5, <2>6 DEF StepInv
<1> QED
  BY <1>1, <1>2, <1>3, OneStepChanges

LEMMA OnErrorIInv ==
  ASSUME IInv, NEW s \in Steps, OnError(s)
  PROVE  IInv'
<1> USE DockerAssumption DEF IInv, OnError, clearTimeout, Settle
<1>1. TypeOK'
  BY DEF TypeOK, Programs, Exits, Results, StepInv, ContainerFollowsCli
<1>2. Elsewhere(s)
  BY DEF Elsewhere, TypeOK
<1>3. StepInv(s)'
  <2>2. CliFollowsPromise(s)'
    BY DEF TypeOK, StepInv, CliFollowsPromise
  <2>3. ContainerFollowsCli(s)'
    BY DEF TypeOK, StepInv, CliFollowsPromise, ContainerFollowsCli, Exits
  <2>4. TimerAndKill(s)'
    BY DEF TypeOK, StepInv, TimerAndKill
  <2>5. KilledByItsTimer(s)'
    BY DEF TypeOK, StepInv, ContainerFollowsCli, KilledByItsTimer
  <2>6. ResultSaysTimedOut(s)'
    BY DEF TypeOK, StepInv, CliFollowsPromise, ContainerFollowsCli, ResultSaysTimedOut,
           Results, Exits
  <2> QED
    BY <2>2, <2>3, <2>4, <2>5, <2>6 DEF StepInv
<1> QED
  BY <1>1, <1>2, <1>3, OneStepChanges

LEMMA TimerFiresIInv ==
  ASSUME IInv, NEW s \in Steps, TimerFires(s)
  PROVE  IInv'
<1> USE DockerAssumption DEF IInv, TimerFires
<1>1. TypeOK'
  BY DEF TypeOK, Programs, Exits, Results, StepInv, ContainerFollowsCli
<1>2. Elsewhere(s)
  BY DEF Elsewhere, TypeOK
<1>3. StepInv(s)'
  BY DEF TypeOK, StepInv, CliFollowsPromise, ContainerFollowsCli, TimerAndKill,
         KilledByItsTimer, ResultSaysTimedOut
<1> QED
  BY <1>1, <1>2, <1>3, OneStepChanges

LEMMA ContainerStartsIInv ==
  ASSUME IInv, NEW s \in Steps, ContainerStarts(s)
  PROVE  IInv'
<1> USE DockerAssumption DEF IInv, ContainerStarts
<1>1. TypeOK'
  BY DEF TypeOK, Programs, Exits, Results, StepInv, ContainerFollowsCli
<1>2. Elsewhere(s)
  BY DEF Elsewhere, TypeOK
<1>3. StepInv(s)'
  BY DEF TypeOK, StepInv, CliFollowsPromise, ContainerFollowsCli, TimerAndKill,
         KilledByItsTimer, ResultSaysTimedOut
<1> QED
  BY <1>1, <1>2, <1>3, OneStepChanges

LEMMA DaemonRejectsIInv ==
  ASSUME IInv, NEW s \in Steps, DaemonRejects(s)
  PROVE  IInv'
<1> USE DockerAssumption DEF IInv, DaemonRejects, ContainerGone
<1>1. TypeOK'
  BY DEF TypeOK, Programs, Exits, Results, StepInv, ContainerFollowsCli
<1>2. Elsewhere(s)
  BY DEF Elsewhere, TypeOK
<1>3. StepInv(s)'
  <2>2. CliFollowsPromise(s)'
    BY DEF TypeOK, StepInv, CliFollowsPromise
  <2>3. ContainerFollowsCli(s)'
    BY DEF TypeOK, StepInv, CliFollowsPromise, ContainerFollowsCli, Exits
  <2>4. TimerAndKill(s)'
    BY DEF TypeOK, StepInv, TimerAndKill
  <2>5. KilledByItsTimer(s)'
    BY DEF TypeOK, StepInv, ContainerFollowsCli, KilledByItsTimer
  <2>6. ResultSaysTimedOut(s)'
    BY DEF TypeOK, StepInv, CliFollowsPromise, ContainerFollowsCli, ResultSaysTimedOut,
           Results, Exits
  <2> QED
    BY <2>2, <2>3, <2>4, <2>5, <2>6 DEF StepInv
<1> QED
  BY <1>1, <1>2, <1>3, OneStepChanges

LEMMA ProgramEndsIInv ==
  ASSUME IInv, NEW s \in Steps, ProgramEnds(s)
  PROVE  IInv'
<1> USE DockerAssumption DEF IInv, ProgramEnds, ContainerGone
<1>1. TypeOK'
  BY DEF TypeOK, Programs, Exits, Results, StepInv, ContainerFollowsCli
<1>2. Elsewhere(s)
  BY DEF Elsewhere, TypeOK
<1>3. StepInv(s)'
  <2>2. CliFollowsPromise(s)'
    BY DEF TypeOK, StepInv, CliFollowsPromise
  <2>3. ContainerFollowsCli(s)'
    BY DEF TypeOK, StepInv, CliFollowsPromise, ContainerFollowsCli, Exits
  <2>4. TimerAndKill(s)'
    BY DEF TypeOK, StepInv, TimerAndKill
  <2>5. KilledByItsTimer(s)'
    BY DEF TypeOK, StepInv, ContainerFollowsCli, KilledByItsTimer
  <2>6. ResultSaysTimedOut(s)'
    BY DEF TypeOK, StepInv, CliFollowsPromise, ContainerFollowsCli, ResultSaysTimedOut,
           Results, Exits
  <2> QED
    BY <2>2, <2>3, <2>4, <2>5, <2>6 DEF StepInv
<1> QED
  BY <1>1, <1>2, <1>3, OneStepChanges

LEMMA KillLandsIInv ==
  ASSUME IInv, NEW s \in Steps, KillLands(s)
  PROVE  IInv'
<1> USE DockerAssumption DEF IInv, KillLands, ContainerGone, Targets, containerName
<1>1. TypeOK'
  BY DEF TypeOK, Programs, Exits, Results, StepInv, ContainerFollowsCli
<1>2. Elsewhere(s)
  BY DEF Elsewhere, TypeOK
<1>3. StepInv(s)'
  <2>2. CliFollowsPromise(s)'
    BY DEF TypeOK, StepInv, CliFollowsPromise
  <2>3. ContainerFollowsCli(s)'
    BY DEF TypeOK, StepInv, CliFollowsPromise, ContainerFollowsCli, Exits
  <2>4. TimerAndKill(s)'
    BY DEF TypeOK, StepInv, TimerAndKill
  <2>5. KilledByItsTimer(s)'
    BY DEF TypeOK, StepInv, ContainerFollowsCli, KilledByItsTimer
  <2>6. ResultSaysTimedOut(s)'
    BY DEF TypeOK, StepInv, CliFollowsPromise, ContainerFollowsCli, ResultSaysTimedOut,
           Results, Exits
  <2> QED
    BY <2>2, <2>3, <2>4, <2>5, <2>6 DEF StepInv
<1> QED
  BY <1>1, <1>2, <1>3, OneStepChanges

LEMMA KillMissesIInv ==
  ASSUME IInv, NEW s \in Steps, KillMisses(s)
  PROVE  IInv'
<1> USE DockerAssumption DEF IInv, KillMisses
<1>1. TypeOK'
  BY DEF TypeOK, Programs, Exits, Results, StepInv, ContainerFollowsCli
<1>2. Elsewhere(s)
  BY DEF Elsewhere, TypeOK
<1>3. StepInv(s)'
  BY DEF TypeOK, StepInv, CliFollowsPromise, ContainerFollowsCli, TimerAndKill,
         KilledByItsTimer, ResultSaysTimedOut
<1> QED
  BY <1>1, <1>2, <1>3, OneStepChanges

LEMMA KillFailsIInv ==
  ASSUME IInv, NEW s \in Steps, KillFails(s)
  PROVE  IInv'
<1> USE DockerAssumption DEF IInv, KillFails
<1>1. TypeOK'
  BY DEF TypeOK, Programs, Exits, Results, StepInv, ContainerFollowsCli
<1>2. Elsewhere(s)
  BY DEF Elsewhere, TypeOK
<1>3. StepInv(s)'
  BY DEF TypeOK, StepInv, CliFollowsPromise, ContainerFollowsCli, TimerAndKill,
         KilledByItsTimer, ResultSaysTimedOut
<1> QED
  BY <1>1, <1>2, <1>3, OneStepChanges

-----------------------------------------------------------------------------

\* Every step keeps the inductive invariant.
LEMMA NextIInv == IInv /\ [Next]_dockerVars => IInv'
<1> SUFFICES ASSUME IInv, [Next]_dockerVars PROVE IInv'
  OBVIOUS
<1>1. CASE UNCHANGED dockerVars
  BY <1>1 DEF dockerVars, IInv, TypeOK, StepInv, CliFollowsPromise, ContainerFollowsCli,
              TimerAndKill, KilledByItsTimer, ResultSaysTimedOut
<1>2. ASSUME NEW s \in Steps, Spawn(s) PROVE IInv'
  BY <1>2, SpawnIInv
<1>3. ASSUME NEW s \in Steps, Progress(s) PROVE IInv'
  BY <1>3, OnCloseIInv, OnErrorIInv, TimerFiresIInv, ContainerStartsIInv, DaemonRejectsIInv,
     ProgramEndsIInv, KillLandsIInv, KillMissesIInv,
     KillFailsIInv DEF Progress
<1> QED
  BY <1>1, <1>2, <1>3 DEF Next

\* The inductive invariant holds of every reachable state.
THEOREM Invariance == SafeSpec => []IInv
BY InitIInv, NextIInv, PTL DEF SafeSpec

\* Type correctness.
THEOREM TypeCorrect == SafeSpec => []TypeOK
<1>1. IInv => TypeOK
  BY DEF IInv
<1> QED
  BY Invariance, <1>1, PTL

\* A result that does not say timedOut belongs to a container nobody killed:
\* timedOut is set before the kill is sent, and read when 'close' arrives.
THEOREM ResultsHonest == SafeSpec => []HonestResult
<1>1. ASSUME IInv, NEW s \in Steps, promise[s] = "settled", ~result[s].timedOut
      PROVE  killedBy[s] = None
  <2>1. CASE cli[s] = "failed"
    BY <1>1, <2>1 DEF IInv, StepInv, ContainerFollowsCli, KilledByItsTimer
  <2>2. CASE cli[s] = "closed"
    BY <1>1, <2>2 DEF IInv, StepInv, KilledByItsTimer, TimerAndKill, ResultSaysTimedOut
  <2> QED
    BY <1>1, <2>1, <2>2 DEF IInv, StepInv, CliFollowsPromise
<1>2. IInv => HonestResult
  BY <1>1 DEF HonestResult
<1> QED
  BY Invariance, <1>2, PTL

\* No kill, however late, ends the container of another step: the names of
\* the containers differ.
THEOREM KillsAimed == SafeSpec => []NoStrayKill
<1>1. IInv => NoStrayKill
  BY DEF IInv, StepInv, KilledByItsTimer, NoStrayKill
<1> QED
  BY Invariance, <1>1, PTL

\* A settled promise has no container left, so its slot and its directory
\* may be given back.
THEOREM ContainersGone == SafeSpec => []SettledMeansGone
<1>1. IInv => SettledMeansGone
  BY DEF IInv, StepInv, CliFollowsPromise, ContainerFollowsCli, SettledMeansGone, Live
<1> QED
  BY Invariance, <1>1, PTL

\* Once its promise has settled, the timer of a step sends no kill.
THEOREM NoLateKill == SafeSpec => NoKillAfterSettle
<1>1. ASSUME IInv, [Next]_dockerVars, NEW s \in Steps,
             promise[s] = "settled", kill[s] = "none"
      PROVE  kill'[s] = "none"
  <2>1. timer[s] # "armed"
    BY <1>1 DEF IInv, StepInv, TimerAndKill
  <2>2. CASE UNCHANGED dockerVars
    BY <1>1, <2>2 DEF dockerVars
  <2>3. ASSUME NEW t \in Steps, TimerFires(t)
        PROVE  kill'[s] = "none"
    BY <1>1, <2>1, <2>3 DEF TimerFires, IInv, TypeOK
  <2>4. ASSUME NEW t \in Steps, KillLands(t) \/ KillMisses(t) \/ KillFails(t)
        PROVE  kill'[s] = "none"
    BY <1>1, <2>4 DEF KillLands, KillMisses, KillFails, IInv, TypeOK
  <2>5. ASSUME NEW t \in Steps,
               \/ Spawn(t) \/ OnClose(t) \/ OnError(t)
               \/ ContainerStarts(t) \/ DaemonRejects(t) \/ ProgramEnds(t)
        PROVE  kill'[s] = "none"
    BY <1>1, <2>5 DEF Spawn, OnClose, OnError, ContainerStarts, DaemonRejects, ProgramEnds
  <2> QED
    BY <1>1, <2>2, <2>3, <2>4, <2>5 DEF Next, Progress
<1>2. IInv /\ [Next]_dockerVars =>
        [\A s \in Steps :
           promise[s] = "settled" /\ kill[s] = "none" => kill'[s] = "none"]_dockerVars
  BY <1>1
<1> QED
  BY <1>2, Invariance, PTL DEF SafeSpec, NoKillAfterSettle

-----------------------------------------------------------------------------
(* How a step can hang.                                                    *)

(***************************************************************************)
(* What keeps watch over a pending step: the CLI that is up has a          *)
(* container, and the timer has not been put away, so that it either will  *)
(* fire or has sent its kill.                                              *)
(***************************************************************************)
Watched(s) ==
  promise[s] = "pending" =>
    /\ cli[s] = "alive" => container[s] # "none"
    /\ timer[s] \in {"armed", "fired"}
    /\ timer[s] = "fired" => kill[s] # "none"

\* What a pending step may still wait for: the 'error' of a failed spawn, the
\* 'close' of a CLI whose container is gone, the expiry of its timer, the end
\* of the kill that was sent.
EventDue(s) ==
  /\ promise[s] = "pending"
  /\ \/ cli[s] = "failed"
     \/ cli[s] = "alive" /\ container[s] = "gone"
     \/ timer[s] = "armed"
     \/ kill[s] = "sent"

(***************************************************************************)
(* A pending step has an event to come, or its container has outlived the  *)
(* one kill it gets.  This is what SettlesOrEscapes rests on, before any   *)
(* fairness: each disjunct of EventDue is the guard of OnError, OnClose,   *)
(* TimerFires or the end of the kill.                                      *)
(***************************************************************************)
HangsOnlyByEscaping ==
  \A s \in Steps : promise[s] = "pending" => EventDue(s) \/ Escaped(s)

LEMMA WatchedStep ==
  ASSUME IInv, [Next]_dockerVars, NEW s \in Steps, Watched(s)
  PROVE  Watched(s)'
<1> USE DEF Watched, IInv, TypeOK
<1>1. CASE UNCHANGED dockerVars
  BY <1>1 DEF dockerVars
<1>2. ASSUME NEW t \in Steps, Spawn(t)
      PROVE  Watched(s)'
  <2>1. promise[t] = "none" /\ cli[t] = "none" /\ timer[t] = "off" /\ kill[t] = "none"
    BY <1>2 DEF Spawn, StepInv, CliFollowsPromise, TimerAndKill
  <2> QED BY <1>2, <2>1 DEF Spawn
<1>3. ASSUME NEW t \in Steps, OnClose(t)
      PROVE  Watched(s)'
  BY <1>3 DEF OnClose, Settle, clearTimeout
<1>4. ASSUME NEW t \in Steps, OnError(t)
      PROVE  Watched(s)'
  BY <1>4 DEF OnError, Settle, clearTimeout
<1>5. ASSUME NEW t \in Steps, TimerFires(t)
      PROVE  Watched(s)'
  BY <1>5 DEF TimerFires
<1>6. ASSUME NEW t \in Steps, ContainerStarts(t) \/ DaemonRejects(t) \/ ProgramEnds(t)
      PROVE  Watched(s)'
  BY <1>6 DEF ContainerStarts, DaemonRejects, ProgramEnds, ContainerGone
<1>7. ASSUME NEW t \in Steps, KillLands(t) \/ KillMisses(t) \/ KillFails(t)
      PROVE  Watched(s)'
  BY <1>7 DEF KillLands, KillMisses, KillFails, ContainerGone
<1> QED BY <1>1, <1>2, <1>3, <1>4, <1>5, <1>6, <1>7 DEF Next, Progress

AllWatched == \A s \in Steps : Watched(s)

LEMMA NothingLeftButEscape == IInv /\ AllWatched => HangsOnlyByEscaping
<1> SUFFICES ASSUME IInv, AllWatched, NEW s \in Steps, promise[s] = "pending", ~EventDue(s)
             PROVE  Escaped(s)
  BY DEF HangsOnlyByEscaping
<1> USE DEF EventDue
<1>1. cli[s] = "alive" /\ container[s] \in {"none", "starting", "running", "gone"}
  BY DEF IInv, TypeOK, StepInv, CliFollowsPromise
<1>2. Live(s)
  BY <1>1 DEF AllWatched, Watched, Live
<1>3. kill[s] \in {"done", "failed"}
  BY DEF AllWatched, Watched, IInv, TypeOK
<1> QED BY <1>2, <1>3 DEF Escaped

\* A step that has not settled and has nothing more to wait for has a
\* container that outlived its kill: there is no other way for
\* runDockerStep to hang.
THEOREM OnlyEscapesHang == SafeSpec => []HangsOnlyByEscaping
<1>1. Init => AllWatched
  BY DEF Init, AllWatched, Watched
<1>2. IInv /\ [Next]_dockerVars /\ AllWatched => AllWatched'
  BY WatchedStep DEF AllWatched
<1> QED
  BY <1>1, <1>2, Invariance, NothingLeftButEscape, PTL DEF SafeSpec

(***************************************************************************)
(* A program that sleeps in a container that outlived its kill is never    *)
(* ended: the timer fires once and sends one kill, and those of the other  *)
(* steps have other names.  Its step, and the slot its caller holds, are   *)
(* lost until the process or the container is ended from outside.          *)
(***************************************************************************)
Hung(s) ==
  promise[s] = "pending" /\ Escaped(s) /\ container[s] = "running" /\ program[s] = "sleeps"

StaysHung == [][\A s \in Steps : Hung(s) => Hung(s)']_dockerVars

LEMMA HungStep ==
  ASSUME IInv, [Next]_dockerVars, NEW s \in Steps, Hung(s)
  PROVE  Hung(s)'
<1> USE DEF Hung, Escaped, Live, IInv, TypeOK
<1>1. timer[s] = "fired" /\ cli[s] = "alive"
  BY DEF StepInv, CliFollowsPromise, ContainerFollowsCli, TimerAndKill
<1>2. CASE UNCHANGED dockerVars
  BY <1>2 DEF dockerVars
<1>3. ASSUME NEW t \in Steps, Spawn(t)
      PROVE  Hung(s)'
  <2>1. t # s
    BY <1>3 DEF Spawn
  <2> QED BY <1>3, <2>1 DEF Spawn
<1>4. ASSUME NEW t \in Steps, OnClose(t) \/ OnError(t)
      PROVE  Hung(s)'
  <2>1. t # s
    BY <1>1, <1>4 DEF OnClose, OnError
  <2> QED BY <1>4, <2>1 DEF OnClose, OnError, Settle
<1>5. ASSUME NEW t \in Steps, TimerFires(t)
      PROVE  Hung(s)'
  BY <1>1, <1>5 DEF TimerFires
<1>6. ASSUME NEW t \in Steps, ContainerStarts(t) \/ DaemonRejects(t) \/ ProgramEnds(t)
      PROVE  Hung(s)'
  <2>1. t # s
    BY <1>6 DEF ContainerStarts, DaemonRejects, ProgramEnds
  <2> QED BY <1>6, <2>1 DEF ContainerStarts, DaemonRejects, ProgramEnds, ContainerGone
<1>7. ASSUME NEW t \in Steps, KillLands(t) \/ KillMisses(t) \/ KillFails(t)
      PROVE  Hung(s)'
  <2>1. t # s
    BY <1>7 DEF KillLands, KillMisses, KillFails
  <2>2. s \notin Targets(t)
    BY <2>1 DEF Targets, containerName
  <2> QED BY <1>7, <2>1, <2>2 DEF KillLands, KillMisses, KillFails, ContainerGone
<1> QED BY <1>2, <1>3, <1>4, <1>5, <1>6, <1>7 DEF Next, Progress

\* A step that hangs with a sleeping program hangs for ever.
THEOREM HangsForGood == SafeSpec => StaysHung
<1>1. IInv /\ [Next]_dockerVars => [\A s \in Steps : Hung(s) => Hung(s)']_dockerVars
  BY HungStep
<1> QED
  BY <1>1, Invariance, PTL DEF SafeSpec, StaysHung
=============================================================================
