----------------------------- MODULE DockerStep -----------------------------
(***************************************************************************)
(* runDockerStep of services/executor.js: one `docker run` per step, its   *)
(* wall-clock timer, the `docker kill` the timer sends, and the promise    *)
(* that the 'close' or 'error' event of the child settles.                 *)
(*                                                                         *)
(* The container belongs to the docker daemon, not to Node: starting it    *)
(* (creating it, pulling its image) takes a time of its own while the      *)
(* timer already runs, and a kill that finds no running container of that  *)
(* name does nothing.  Exit codes matter only as zero or not.              *)
(***************************************************************************)
EXTENDS Naturals

CONSTANTS
  Steps,  \* the calls of runDockerStep
  None    \* no value yet

ASSUME DockerAssumption == None \notin Steps

VARIABLES
  promise,    \* of each step: "none", "pending" or "settled"
  cli,        \* the `docker run` process: "none", "alive", "failed", "closed"
  container,  \* "none", "starting", "running" or "gone"
  program,    \* what the code inside does
  exit,       \* exit status of the container
  killedBy,   \* the step whose timer killed the container, or None
  timer,      \* "off", "armed", "fired" or "cleared"
  kill,       \* the `docker kill` process: "none", "sent", "done" or "failed"
  timedOut,   \* let timedOut
  result      \* what the promise resolved to

dockerVars ==
  <<promise, cli, container, program, exit, killedBy, timer, kill, timedOut, result>>

\* A program ends with status zero, with another one (a crash, the memory
\* cap), burns CPU until the kernel's cpu limit ends it, or sleeps for ever.
Programs == {"succeeds", "fails", "spins", "sleeps"}
Exits == {"zero", "nonzero"}
Results == [exit : Exits, timedOut : BOOLEAN]

\* One name for every container.
sharedName(s) == "oj-run"

\* `oj-run-${crypto.randomUUID()}`
containerName(s) == s

Init ==
  /\ promise = [s \in Steps |-> "none"]
  /\ cli = [s \in Steps |-> "none"]
  /\ container = [s \in Steps |-> "none"]
  /\ program = [s \in Steps |-> None]
  /\ exit = [s \in Steps |-> None]
  /\ killedBy = [s \in Steps |-> None]
  /\ timer = [s \in Steps |-> "off"]
  /\ kill = [s \in Steps |-> "none"]
  /\ timedOut = [s \in Steps |-> FALSE]
  /\ result = [s \in Steps |-> None]

Live(s) == container[s] \in {"starting", "running"}

-----------------------------------------------------------------------------
(* The Node side.                                                          *)

\* spawn("docker", ...), setTimeout, stdin.write and stdin.end.  A spawn
\* that fails (no docker binary, no process to be had) creates no container.
Spawn(s) ==
  /\ promise[s] = "none"
  /\ promise' = [promise EXCEPT ![s] = "pending"]
  /\ timer' = [timer EXCEPT ![s] = "armed"]
  /\ \/ /\ cli' = [cli EXCEPT ![s] = "alive"]
        /\ container' = [container EXCEPT ![s] = "starting"]
        /\ \E p \in Programs : program' = [program EXCEPT ![s] = p]
     \/ /\ cli' = [cli EXCEPT ![s] = "failed"]
        /\ UNCHANGED <<container, program>>
  /\ UNCHANGED <<exit, killedBy, kill, timedOut, result>>

Settle(s, r) ==
  /\ promise' = [promise EXCEPT ![s] = "settled"]
  /\ result' = [result EXCEPT ![s] = r]

clearTimeout(s) ==
  timer' = [timer EXCEPT ![s] = IF @ = "armed" THEN "cleared" ELSE @]

\* The 'close' handler without clearTimeout.
OnCloseTimerLeft(s) ==
  /\ cli[s] = "alive" /\ container[s] = "gone"
  /\ cli' = [cli EXCEPT ![s] = "closed"]
  /\ promise[s] = "pending"
  /\ Settle(s, [exit |-> exit[s], timedOut |-> timedOut[s]])
  /\ UNCHANGED <<container, program, exit, killedBy, timer, kill, timedOut>>

\* The end of its stdout taken for the end of the child: the status is not
\* known yet.
OnStdoutEnd(s) ==
  /\ cli[s] = "alive" /\ container[s] \in {"running", "gone"}
  /\ cli' = [cli EXCEPT ![s] = "closed"]
  /\ promise[s] = "pending"
  /\ clearTimeout(s)
  /\ Settle(s, [exit |-> exit[s], timedOut |-> timedOut[s]])
  /\ UNCHANGED <<container, program, exit, killedBy, kill, timedOut>>

\* child.on("close"): the CLI ends once its container is gone.
OnClose(s) ==
  /\ cli[s] = "alive" /\ container[s] = "gone"
  /\ cli' = [cli EXCEPT ![s] = "closed"]
  /\ promise[s] = "pending"
  /\ clearTimeout(s)
  /\ Settle(s, [exit |-> exit[s], timedOut |-> timedOut[s]])
  /\ UNCHANGED <<container, program, exit, killedBy, kill, timedOut>>

\* child.on("error"): exitCode -1, timedOut false.
OnError(s) ==
  /\ cli[s] = "failed"
  /\ promise[s] = "pending"
  /\ clearTimeout(s)
  /\ Settle(s, [exit |-> "nonzero", timedOut |-> FALSE])
  /\ UNCHANGED <<cli, container, program, exit, killedBy, kill, timedOut>>

\* The callback with timedOut assigned after the await of the kill, too late
\* for a 'close' that the kill itself provokes.
TimerFiresAssignsLate(s) ==
  /\ timer[s] = "armed"
  /\ timer' = [timer EXCEPT ![s] = "fired"]
  /\ kill' = [kill EXCEPT ![s] = "sent"]
  /\ UNCHANGED <<promise, cli, container, program, exit, killedBy, timedOut, result>>

\* The callback that resolves at once instead of waiting for 'close'.
TimerFiresSettles(s) ==
  /\ timer[s] = "armed"
  /\ timer' = [timer EXCEPT ![s] = "fired"]
  /\ timedOut' = [timedOut EXCEPT ![s] = TRUE]
  /\ kill' = [kill EXCEPT ![s] = "sent"]
  /\ Settle(s, [exit |-> "nonzero", timedOut |-> TRUE])
  /\ UNCHANGED <<cli, container, program, exit, killedBy>>

\* The callback with the kill command left out.
TimerFiresOnly(s) ==
  /\ timer[s] = "armed"
  /\ timer' = [timer EXCEPT ![s] = "fired"]
  /\ timedOut' = [timedOut EXCEPT ![s] = TRUE]
  /\ UNCHANGED <<promise, cli, container, program, exit, killedBy, kill, result>>

\* The setTimeout callback: timedOut = true, then `docker kill <name>`.
TimerFires(s) ==
  /\ timer[s] = "armed"
  /\ timer' = [timer EXCEPT ![s] = "fired"]
  /\ timedOut' = [timedOut EXCEPT ![s] = TRUE]
  /\ kill' = [kill EXCEPT ![s] = "sent"]
  /\ UNCHANGED <<promise, cli, container, program, exit, killedBy, result>>

-----------------------------------------------------------------------------
(* The docker daemon and the program in the container.                     *)

ContainerGone(s, e) ==
  /\ container' = [container EXCEPT ![s] = "gone"]
  /\ exit' = [exit EXCEPT ![s] = e]

ContainerStarts(s) ==
  /\ container[s] = "starting"
  /\ container' = [container EXCEPT ![s] = "running"]
  /\ UNCHANGED <<promise, cli, program, exit, killedBy, timer, kill, timedOut, result>>

\* The daemon cannot run the image: `docker run` itself exits, with 125.
DaemonRejects(s) ==
  /\ container[s] = "starting"
  /\ ContainerGone(s, "nonzero")
  /\ UNCHANGED <<promise, cli, program, killedBy, timer, kill, timedOut, result>>

\* A program that spins is ended by --ulimit=cpu.
ProgramEnds(s) ==
  /\ container[s] = "running"
  /\ program[s] # "sleeps"
  /\ ContainerGone(s, IF program[s] = "succeeds" THEN "zero" ELSE "nonzero")
  /\ UNCHANGED <<promise, cli, program, killedBy, timer, kill, timedOut, result>>

Targets(s) ==
  {t \in Steps : container[t] = "running" /\ containerName(t) = containerName(s)}

KillLands(s) ==
  /\ kill[s] = "sent"
  /\ \E t \in Targets(s) :
       /\ ContainerGone(t, "nonzero")
       /\ killedBy' = [killedBy EXCEPT ![t] = s]
  /\ kill' = [kill EXCEPT ![s] = "done"]
  /\ UNCHANGED <<promise, cli, program, timer, timedOut, result>>

\* No such container, or not running yet: execFileAsync resolves all the
\* same and nobody looks at the error.
KillMisses(s) ==
  /\ kill[s] = "sent"
  /\ Targets(s) = {}
  /\ kill' = [kill EXCEPT ![s] = "done"]
  /\ UNCHANGED <<promise, cli, container, program, exit, killedBy, timer, timedOut, result>>

\* The command itself fails, or gives up after its ten seconds.
KillFails(s) ==
  /\ kill[s] = "sent"
  /\ kill' = [kill EXCEPT ![s] = "failed"]
  /\ UNCHANGED <<promise, cli, container, program, exit, killedBy, timer, timedOut, result>>

-----------------------------------------------------------------------------

\* What happens to a step once its caller has spawned it.
Progress(s) ==
  \/ OnClose(s) \/ OnError(s) \/ TimerFires(s)
  \/ ContainerStarts(s) \/ DaemonRejects(s) \/ ProgramEnds(s)
  \/ KillLands(s) \/ KillMisses(s) \/ KillFails(s)

Next == \E s \in Steps : Spawn(s) \/ Progress(s)

SafeSpec == Init /\ [][Next]_dockerVars

(***************************************************************************)
(* Node's event loop delivers expired timers and events, the daemon gets   *)
(* every container up or rejects it, a program that is going to end ends,  *)
(* and a `docker kill` returns.                                            *)
(***************************************************************************)
StepFairness(s) ==
  /\ WF_dockerVars(OnClose(s))
  /\ WF_dockerVars(OnError(s))
  /\ WF_dockerVars(TimerFires(s))
  /\ WF_dockerVars(ContainerStarts(s) \/ DaemonRejects(s))
  /\ WF_dockerVars(ProgramEnds(s))
  /\ WF_dockerVars(KillLands(s) \/ KillMisses(s) \/ KillFails(s))

Spec == SafeSpec /\ \A s \in Steps : StepFairness(s)

-----------------------------------------------------------------------------
(* Properties                                                              *)

TypeOK ==
  /\ promise \in [Steps -> {"none", "pending", "settled"}]
  /\ cli \in [Steps -> {"none", "alive", "failed", "closed"}]
  /\ container \in [Steps -> {"none", "starting", "running", "gone"}]
  /\ program \in [Steps -> Programs \cup {None}]
  /\ exit \in [Steps -> Exits \cup {None}]
  /\ killedBy \in [Steps -> Steps \cup {None}]
  /\ timer \in [Steps -> {"off", "armed", "fired", "cleared"}]
  /\ kill \in [Steps -> {"none", "sent", "done", "failed"}]
  /\ timedOut \in [Steps -> BOOLEAN]
  /\ result \in [Steps -> Results \cup {None}]

(***************************************************************************)
(* A result that does not say timedOut is the program's own: the caller    *)
(* never takes the exit status of a container we killed for a crash of the *)
(* submission, however 'close' and the timer callback interleave.          *)
(***************************************************************************)
HonestResult ==
  \A s \in Steps :
    promise[s] = "settled" /\ ~result[s].timedOut => killedBy[s] = None

(***************************************************************************)
(* A kill command in flight, which may outlive its step, never ends the    *)
(* container of another step.                                              *)
(***************************************************************************)
NoStrayKill == \A s \in Steps : killedBy[s] \in {s, None}

(***************************************************************************)
(* When the promise settles the container is gone: the caller may release  *)
(* its slot, reuse the bind-mounted directory and remove it.               *)
(***************************************************************************)
SettledMeansGone == \A s \in Steps : promise[s] = "settled" => ~Live(s)

(***************************************************************************)
(* The timer never sends a kill for a step that has settled.               *)
(***************************************************************************)
NoKillAfterSettle ==
  [][\A s \in Steps :
       promise[s] = "settled" /\ kill[s] = "none" => kill'[s] = "none"]_dockerVars

\* The one kill of a step is over and its container is not: the command
\* failed, or it was sent before the container was up and found nothing.
Escaped(s) == kill[s] \in {"done", "failed"} /\ Live(s)

(***************************************************************************)
(* A step hangs in one way only: its container escapes its kill.           *)
(***************************************************************************)
SettlesOrEscapes ==
  \A s \in Steps : promise[s] = "pending" ~> promise[s] = "settled" \/ Escaped(s)

(***************************************************************************)
(* The README's "5s (15s for compile) wall-clock timeout enforced via      *)
(* docker kill on a named container": every step that is spawned ends.     *)
(***************************************************************************)
EveryStepSettles ==
  \A s \in Steps : promise[s] = "pending" ~> promise[s] = "settled"
=============================================================================
