--------------------------- MODULE ExecutionSlots ---------------------------
(***************************************************************************)
(* The in-process semaphore of services/executor.js that bounds how many   *)
(* submissions execute at once, and its one client, runSubmission.         *)
(*                                                                         *)
(* acquireExecutionSlot and releaseExecutionSlot are synchronous, so each  *)
(* is one step.  What is not synchronous is the .finally callback that     *)
(* decrements queueLength: releaseExecutionSlot resolves the waiter's      *)
(* promise, and the callback runs in a later microtask, together with the  *)
(* continuation of runSubmission.  Between the two the request has been    *)
(* granted a slot but is still counted in queueLength.  The continuation   *)
(* that calls acquireExecutionSlot is itself a microtask, and the model    *)
(* lets the two come in either order.                                      *)
(***************************************************************************)
EXTENDS Naturals, Sequences, FiniteSets

CONSTANTS
  Requests,                 \* calls of runSubmission, one at a time per identity
  MaxConcurrentExecutions,  \* MAX_CONCURRENT_EXECUTIONS
  MaxQueueLength            \* MAX_QUEUE_LENGTH

ASSUME SlotsAssumption ==
  /\ MaxConcurrentExecutions \in Nat \ {0}
  /\ MaxQueueLength \in Nat

VARIABLES
  activeCount,   \* let activeCount
  queueLength,   \* let queueLength
  waiters,       \* const waiters: the requests whose resolve it holds
  status         \* where each request stands in runSubmission

vars == <<activeCount, queueLength, waiters, status>>

Statuses == {"outside", "waiting", "granted", "holding", "refused"}

With(s) == {r \in Requests : status[r] = s}
Owners == {r \in Requests : status[r] \in {"granted", "holding"}}
Waiting == {waiters[i] : i \in DOMAIN waiters}

Init ==
  /\ activeCount = 0
  /\ queueLength = 0
  /\ waiters = << >>
  /\ status = [r \in Requests |-> "outside"]

Becomes(r, s) == status' = [status EXCEPT ![r] = s]

-----------------------------------------------------------------------------
(* acquireExecutionSlot: its three outcomes, tried in this order.          *)

AcquireFree(r) ==
  /\ status[r] = "outside"
  /\ activeCount < MaxConcurrentExecutions
  /\ activeCount' = activeCount + 1
  /\ Becomes(r, "holding")
  /\ UNCHANGED <<queueLength, waiters>>

\* A refusal that the caller handles inside its try block, so that its
\* finally gives back a slot that was never taken.
AcquireRefusedGivesBack(r) ==
  /\ status[r] = "outside"
  /\ activeCount >= MaxConcurrentExecutions
  /\ queueLength >= MaxQueueLength
  /\ activeCount' = activeCount - 1
  /\ Becomes(r, "refused")
  /\ UNCHANGED <<queueLength, waiters>>

\* A refusal with the comparison one short.
AcquireRefusedSoon(r) ==
  /\ status[r] = "outside"
  /\ activeCount >= MaxConcurrentExecutions
  /\ queueLength + 1 >= MaxQueueLength
  /\ Becomes(r, "refused")
  /\ UNCHANGED <<activeCount, queueLength, waiters>>

AcquireRefused(r) ==
  /\ status[r] = "outside"
  /\ activeCount >= MaxConcurrentExecutions
  /\ queueLength >= MaxQueueLength
  /\ Becomes(r, "refused")
  /\ UNCHANGED <<activeCount, queueLength, waiters>>

\* A queue whose last place is counted twice.
AcquireQueuedOneMore(r) ==
  /\ status[r] = "outside"
  /\ activeCount >= MaxConcurrentExecutions
  /\ queueLength <= MaxQueueLength
  /\ queueLength' = queueLength + 1
  /\ waiters' = Append(waiters, r)
  /\ Becomes(r, "waiting")
  /\ UNCHANGED activeCount

AcquireQueued(r) ==
  /\ status[r] = "outside"
  /\ activeCount >= MaxConcurrentExecutions
  /\ queueLength < MaxQueueLength
  /\ queueLength' = queueLength + 1
  /\ waiters' = Append(waiters, r)
  /\ Becomes(r, "waiting")
  /\ UNCHANGED activeCount

\* The .finally callback of a granted waiter, and the resumption of
\* runSubmission after its await.
Dequeue(r) ==
  /\ status[r] = "granted"
  /\ queueLength' = queueLength - 1
  /\ Becomes(r, "holding")
  /\ UNCHANGED <<activeCount, waiters>>

\* ServerBusyError leaves runSubmission: the await is outside its try, so
\* nothing is released.
ThrowBusy(r) ==
  /\ status[r] = "refused"
  /\ Becomes(r, "outside")
  /\ UNCHANGED <<activeCount, queueLength, waiters>>

-----------------------------------------------------------------------------
(* releaseExecutionSlot, called in the finally of runSubmission.           *)

\* A release that gives the slot back and also wakes a waiter, which then
\* does not count itself.
HandOffDecrementing(r) ==
  /\ status[r] = "holding"
  /\ waiters # << >>
  /\ activeCount' = activeCount - 1
  /\ waiters' = Tail(waiters)
  /\ status' = [status EXCEPT ![r] = "outside", ![Head(waiters)] = "granted"]
  /\ UNCHANGED queueLength

\* pop() for shift(): the last to arrive is served first.
HandOffLast(r) ==
  /\ status[r] = "holding"
  /\ waiters # << >>
  /\ waiters' = SubSeq(waiters, 1, Len(waiters) - 1)
  /\ status' = [status EXCEPT ![r] = "outside",
                              ![waiters[Len(waiters)]] = "granted"]
  /\ UNCHANGED <<activeCount, queueLength>>

HandOff(r) ==
  /\ status[r] = "holding"
  /\ waiters # << >>
  /\ waiters' = Tail(waiters)
  /\ status' = [status EXCEPT ![r] = "outside", ![Head(waiters)] = "granted"]
  /\ UNCHANGED <<activeCount, queueLength>>

\* A release that only decrements, whoever waits.
GiveBackAlways(r) ==
  /\ status[r] = "holding"
  /\ activeCount' = activeCount - 1
  /\ Becomes(r, "outside")
  /\ UNCHANGED <<queueLength, waiters>>

GiveBack(r) ==
  /\ status[r] = "holding"
  /\ waiters = << >>
  /\ activeCount' = activeCount - 1
  /\ Becomes(r, "outside")
  /\ UNCHANGED <<queueLength, waiters>>

Acquire(r) == AcquireFree(r) \/ AcquireRefused(r) \/ AcquireQueued(r)
Release(r) == HandOff(r) \/ GiveBack(r)

Next == \E r \in Requests : Acquire(r) \/ Dequeue(r) \/ ThrowBusy(r) \/ Release(r)

SafeSpec == Init /\ [][Next]_vars

(***************************************************************************)
(* Microtasks always run.  That every execution ends, so that its finally  *)
(* releases the slot, is an assumption about the docker step it awaits.    *)
(***************************************************************************)
Fairness ==
  \A r \in Requests : WF_vars(Dequeue(r)) /\ WF_vars(Release(r))

Spec == SafeSpec /\ Fairness

-----------------------------------------------------------------------------
(* Properties                                                              *)

TypeOK ==
  /\ activeCount \in Nat
  /\ queueLength \in Nat
  /\ waiters \in Seq(Requests)
  /\ status \in [Requests -> Statuses]

(***************************************************************************)
(* activeCount is the number of requests that own a slot, those granted by *)
(* a hand-off and not yet resumed included, and never passes the cap: a    *)
(* refusal, a hand-off or a late callback can neither leak nor forge one.  *)
(***************************************************************************)
SlotsConserved ==
  /\ activeCount = Cardinality(Owners)
  /\ activeCount <= MaxConcurrentExecutions

(***************************************************************************)
(* queueLength counts the resolvers in waiters and the callbacks that have *)
(* not run, and keeps within MAX_QUEUE_LENGTH: it returns to the length of *)
(* waiters once the callbacks have run.                                    *)
(***************************************************************************)
QueueCounted ==
  /\ queueLength = Len(waiters) + Cardinality(With("granted"))
  /\ queueLength <= MaxQueueLength

(***************************************************************************)
(* No lost wake-up: nobody waits while a slot is free.                     *)
(***************************************************************************)
NoIdleSlotWhileWaiting ==
  waiters # << >> => activeCount = MaxConcurrentExecutions

(***************************************************************************)
(* A request is in waiters exactly when it waits, and once: each resolver  *)
(* is called at most once, and none is lost.                               *)
(***************************************************************************)
WaitersDistinct ==
  /\ Waiting = With("waiting")
  /\ \A i, j \in DOMAIN waiters : waiters[i] = waiters[j] => i = j

(***************************************************************************)
(* A request is refused only when the cap is reached and MAX_QUEUE_LENGTH  *)
(* others are ahead of it in the queue, waiting or just granted.           *)
(***************************************************************************)
RefusedOnlyWhenFull ==
  [][\A r \in Requests :
       status[r] = "outside" /\ status'[r] = "refused" =>
         /\ Cardinality(Owners) = MaxConcurrentExecutions
         /\ Cardinality(With("waiting") \cup With("granted")) = MaxQueueLength]_vars

(***************************************************************************)
(* Every queued request is eventually given a slot.                        *)
(***************************************************************************)
NoStarvation ==
  \A r \in Requests : status[r] = "waiting" ~> status[r] = "holding"

(***************************************************************************)
(* The semaphore implements the admission line: owners are in service,     *)
(* waiters are the line, and the callback that settles queueLength is not  *)
(* visible.                                                                *)
(***************************************************************************)
Admission == INSTANCE AdmissionQueue WITH
  Capacity <- MaxConcurrentExecutions,
  LineLimit <- MaxQueueLength,
  inService <- Owners,
  line <- waiters,
  turnedAway <- With("refused")

ImplementsAdmission == Admission!Spec
=============================================================================
