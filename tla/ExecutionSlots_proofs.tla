----------------------- MODULE ExecutionSlots_proofs ------------------------
(***************************************************************************)
(* Proofs about the semaphore of services/executor.js, for any set of      *)
(* requests, even an infinite one, and any values of the two limits.       *)
(***************************************************************************)
EXTENDS ExecutionSlots, FiniteSetTheorems, TLAPS

USE SlotsAssumption

(***************************************************************************)
(* The sets the counters count, and the finiteness that makes counting     *)
(* meaningful: Requests itself need not be finite.                         *)
(***************************************************************************)
Counted ==
  /\ IsFiniteSet(Owners)
  /\ IsFiniteSet(With("granted"))
  /\ IsFiniteSet(With("waiting"))
  /\ Cardinality(With("waiting")) = Len(waiters)

(***************************************************************************)
(* The inductive invariant.  TypeOK alone is not inductive: that the       *)
(* counters never go below zero takes the conservation of slots, which     *)
(* takes the agreement of waiters with the requests that wait.             *)
(***************************************************************************)
IInv ==
  /\ TypeOK
  /\ WaitersDistinct
  /\ Counted
  /\ SlotsConserved
  /\ QueueCounted
  /\ NoIdleSlotWhileWaiting

-----------------------------------------------------------------------------
(* How a change of one request's status moves it between the counted sets. *)

LEMMA StatusChange ==
  ASSUME TypeOK, NEW r \in Requests, NEW s \in Statuses, Becomes(r, s)
  PROVE  /\ status' \in [Requests -> Statuses]
         /\ status'[r] = s
         /\ \A q \in Requests : q # r => status'[q] = status[q]
BY DEF TypeOK, Becomes

LEMMA MemberCounted ==
  ASSUME NEW S, IsFiniteSet(S), NEW x \in S
  PROVE  Cardinality(S) \in Nat \ {0}
BY FS_CardinalityType, FS_EmptySet

-----------------------------------------------------------------------------

\* The initial state satisfies the inductive invariant.
LEMMA InitIInv == Init => IInv
<1> SUFFICES ASSUME Init PROVE IInv
  OBVIOUS
<1>1. Owners = {} /\ With("granted") = {} /\ With("waiting") = {}
  BY DEF Init, Owners, With
<1>2. TypeOK
  BY DEF Init, TypeOK, Statuses
<1>3. WaitersDistinct
  BY <1>1 DEF Init, WaitersDistinct, Waiting
<1>4. Counted /\ SlotsConserved /\ QueueCounted
  <2>1. IsFiniteSet({}) /\ Cardinality({}) = 0
    BY FS_EmptySet
  <2>2. Len(waiters) = 0
    BY DEF Init
  <2>3. Counted
    BY <1>1, <2>1, <2>2 DEF Counted
  <2>4. Cardinality(Owners) = 0 /\ Cardinality(With("granted")) = 0
    BY <1>1, <2>1
  <2> QED
    BY <2>2, <2>3, <2>4 DEF Init, SlotsConserved, QueueCounted, SlotsAssumption
<1>5. NoIdleSlotWhileWaiting
  BY DEF Init, NoIdleSlotWhileWaiting
<1> QED
  BY <1>2, <1>3, <1>4, <1>5 DEF IInv

-----------------------------------------------------------------------------
(* One lemma per action.                                                   *)

LEMMA AcquireFreeIInv ==
  ASSUME IInv, NEW r \in Requests, AcquireFree(r)
  PROVE  IInv'
<1> USE DEF IInv, AcquireFree
<1>1. /\ status' \in [Requests -> Statuses]
      /\ status'[r] = "holding"
      /\ \A q \in Requests : q # r => status'[q] = status[q]
  BY StatusChange DEF Statuses
<1>2. /\ Owners' = Owners \cup {r} /\ r \notin Owners
      /\ With("granted")' = With("granted")
      /\ With("waiting")' = With("waiting")
  BY <1>1 DEF Owners, With
<1>3. waiters = << >>
  BY DEF NoIdleSlotWhileWaiting
<1>4. TypeOK'
  BY <1>1 DEF TypeOK
<1>5. WaitersDistinct'
  BY <1>2 DEF WaitersDistinct, Waiting
<1>6. Counted' /\ SlotsConserved' /\ QueueCounted'
  BY <1>2, FS_AddElement DEF Counted, SlotsConserved, QueueCounted, TypeOK
<1>7. NoIdleSlotWhileWaiting'
  BY <1>3 DEF NoIdleSlotWhileWaiting
<1> QED
  BY <1>4, <1>5, <1>6, <1>7

LEMMA AcquireRefusedIInv ==
  ASSUME IInv, NEW r \in Requests, AcquireRefused(r)
  PROVE  IInv'
<1> USE DEF IInv, AcquireRefused
<1>1. /\ status' \in [Requests -> Statuses]
      /\ status'[r] = "refused"
      /\ \A q \in Requests : q # r => status'[q] = status[q]
  BY StatusChange DEF Statuses
<1>2. /\ Owners' = Owners
      /\ With("granted")' = With("granted")
      /\ With("waiting")' = With("waiting")
  BY <1>1 DEF Owners, With
<1> QED
  BY <1>1, <1>2 DEF TypeOK, WaitersDistinct, Waiting, Counted, SlotsConserved,
                    QueueCounted, NoIdleSlotWhileWaiting

LEMMA AcquireQueuedIInv ==
  ASSUME IInv, NEW r \in Requests, AcquireQueued(r)
  PROVE  IInv'
<1> USE DEF IInv, AcquireQueued
<1>1. /\ status' \in [Requests -> Statuses]
      /\ status'[r] = "waiting"
      /\ \A q \in Requests : q # r => status'[q] = status[q]
  BY StatusChange DEF Statuses
<1>2. /\ Owners' = Owners
      /\ With("granted")' = With("granted")
      /\ With("waiting")' = With("waiting") \cup {r} /\ r \notin With("waiting")
  BY <1>1 DEF Owners, With
<1>3. /\ waiters' \in Seq(Requests)
      /\ Len(waiters') = Len(waiters) + 1
      /\ waiters'[Len(waiters) + 1] = r
      /\ \A i \in DOMAIN waiters : i \in DOMAIN waiters' /\ waiters'[i] = waiters[i]
      /\ DOMAIN waiters' = DOMAIN waiters \cup {Len(waiters) + 1}
  BY DEF TypeOK
<1>4. TypeOK'
  BY <1>1, <1>3 DEF TypeOK
<1>5. WaitersDistinct'
  <2>1. Waiting' = Waiting \cup {r}
    BY <1>3 DEF Waiting
  <2>2. \A i \in DOMAIN waiters : waiters[i] # r
    BY <1>2 DEF WaitersDistinct, Waiting
  <2>3. \A i, j \in DOMAIN waiters' : waiters'[i] = waiters'[j] => i = j
    BY <1>3, <2>2 DEF WaitersDistinct
  <2> QED
    BY <1>2, <2>1, <2>3 DEF WaitersDistinct
<1>6. Counted' /\ SlotsConserved'
  BY <1>2, <1>3, FS_AddElement DEF Counted, SlotsConserved
<1>7. QueueCounted'
  <2>1. Cardinality(With("granted")) \in Nat /\ Len(waiters) \in Nat
    BY FS_CardinalityType DEF Counted, TypeOK
  <2> QED
    BY <1>2, <1>3, <2>1 DEF QueueCounted, TypeOK
<1>8. NoIdleSlotWhileWaiting'
  BY DEF NoIdleSlotWhileWaiting, SlotsConserved, TypeOK
<1> QED
  BY <1>4, <1>5, <1>6, <1>7, <1>8

LEMMA DequeueIInv ==
  ASSUME IInv, NEW r \in Requests, Dequeue(r)
  PROVE  IInv'
<1> USE DEF IInv, Dequeue
<1>1. /\ status' \in [Requests -> Statuses]
      /\ status'[r] = "holding"
      /\ \A q \in Requests : q # r => status'[q] = status[q]
  BY StatusChange DEF Statuses
<1>2. /\ Owners' = Owners
      /\ With("granted")' = With("granted") \ {r} /\ r \in With("granted")
      /\ With("waiting")' = With("waiting")
  BY <1>1 DEF Owners, With
<1>3. Cardinality(With("granted")) \in Nat \ {0} /\ Len(waiters) \in Nat
  BY <1>2, MemberCounted DEF Counted, TypeOK
<1>4. Cardinality(With("granted")') = Cardinality(With("granted")) - 1
      /\ IsFiniteSet(With("granted")')
  BY <1>2, FS_RemoveElement DEF Counted
<1>5. TypeOK'
  BY <1>1, <1>3 DEF TypeOK, QueueCounted
<1>6. WaitersDistinct'
  BY <1>2 DEF WaitersDistinct, Waiting
<1>7. Counted' /\ SlotsConserved' /\ NoIdleSlotWhileWaiting'
  BY <1>2, <1>4 DEF Counted, SlotsConserved, NoIdleSlotWhileWaiting
<1>8. QueueCounted'
  BY <1>3, <1>4 DEF QueueCounted, TypeOK
<1> QED
  BY <1>5, <1>6, <1>7, <1>8

LEMMA ThrowBusyIInv ==
  ASSUME IInv, NEW r \in Requests, ThrowBusy(r)
  PROVE  IInv'
<1> USE DEF IInv, ThrowBusy
<1>1. /\ status' \in [Requests -> Statuses]
      /\ status'[r] = "outside"
      /\ \A q \in Requests : q # r => status'[q] = status[q]
  BY StatusChange DEF Statuses
<1>2. /\ Owners' = Owners
      /\ With("granted")' = With("granted")
      /\ With("waiting")' = With("waiting")
  BY <1>1 DEF Owners, With
<1> QED
  BY <1>1, <1>2 DEF TypeOK, WaitersDistinct, Waiting, Counted, SlotsConserved,
                    QueueCounted, NoIdleSlotWhileWaiting

\* The head of the queue, and the queue without it.
LEMMA HeadOfQueue ==
  ASSUME IInv, waiters # << >>
  PROVE  /\ Head(waiters) \in Requests
         /\ status[Head(waiters)] = "waiting"
         /\ Tail(waiters) \in Seq(Requests)
         /\ Len(Tail(waiters)) = Len(waiters) - 1
         /\ {Tail(waiters)[i] : i \in DOMAIN Tail(waiters)} = Waiting \ {Head(waiters)}
         /\ \A i, j \in DOMAIN Tail(waiters) :
              Tail(waiters)[i] = Tail(waiters)[j] => i = j
<1> USE DEF IInv
<1>1. waiters \in Seq(Requests) /\ Len(waiters) \in Nat \ {0}
  BY DEF TypeOK
<1>2. /\ Head(waiters) = waiters[1] /\ 1 \in DOMAIN waiters
      /\ Head(waiters) \in Requests
  BY <1>1
<1>3. Head(waiters) \in Waiting
  BY <1>2 DEF Waiting
<1>4. status[Head(waiters)] = "waiting"
  BY <1>3 DEF WaitersDistinct, With
<1>5. /\ Tail(waiters) \in Seq(Requests)
      /\ Len(Tail(waiters)) = Len(waiters) - 1
      /\ DOMAIN Tail(waiters) = 1 .. Len(waiters) - 1
      /\ \A i \in 1 .. Len(waiters) - 1 : Tail(waiters)[i] = waiters[i + 1]
  BY <1>1
<1>6. DOMAIN waiters = 1 .. Len(waiters)
  BY <1>1
<1>7. ASSUME NEW i \in DOMAIN Tail(waiters), NEW j \in DOMAIN Tail(waiters),
             Tail(waiters)[i] = Tail(waiters)[j]
      PROVE  i = j
  <2>1. i + 1 \in DOMAIN waiters /\ j + 1 \in DOMAIN waiters
    BY <1>1, <1>5, <1>6
  <2>2. waiters[i + 1] = waiters[j + 1]
    BY <1>5, <1>7
  <2>3. i + 1 = j + 1
    BY <2>1, <2>2 DEF WaitersDistinct
  <2> QED
    BY <1>1, <1>5, <2>3
<1>8. ASSUME NEW x
      PROVE  x \in {Tail(waiters)[i] : i \in DOMAIN Tail(waiters)}
               <=> x \in Waiting \ {Head(waiters)}
  <2>1. ASSUME NEW i \in DOMAIN Tail(waiters), x = Tail(waiters)[i]
        PROVE  x \in Waiting \ {Head(waiters)}
    <3>1. i + 1 \in DOMAIN waiters /\ i + 1 # 1 /\ x = waiters[i + 1]
      BY <1>1, <1>5, <1>6, <2>1
    <3>2. x # waiters[1]
      BY <1>2, <3>1 DEF WaitersDistinct
    <3> QED
      BY <1>2, <3>1, <3>2 DEF Waiting
  <2>2. ASSUME NEW i \in DOMAIN waiters, x = waiters[i], x # Head(waiters)
        PROVE  x \in {Tail(waiters)[k] : k \in DOMAIN Tail(waiters)}
    <3>1. i - 1 \in DOMAIN Tail(waiters) /\ (i - 1) + 1 = i
      BY <1>1, <1>2, <1>5, <1>6, <2>2
    <3>2. Tail(waiters)[i - 1] = x
      BY <1>5, <2>2, <3>1
    <3> QED
      BY <3>1, <3>2
  <2> QED
    BY <2>1, <2>2 DEF Waiting
<1> QED
  BY <1>2, <1>4, <1>5, <1>7, <1>8

LEMMA HandOffIInv ==
  ASSUME IInv, NEW r \in Requests, HandOff(r)
  PROVE  IInv'
<1> DEFINE h == Head(waiters)
<1>0. /\ h \in Requests /\ h # r
      /\ status[h] = "waiting"
      /\ status[r] = "holding"
      /\ Len(Tail(waiters)) = Len(waiters) - 1
      /\ Tail(waiters) \in Seq(Requests)
  BY HeadOfQueue DEF HandOff
<1>1. /\ status' \in [Requests -> Statuses]
      /\ status'[r] = "outside" /\ status'[h] = "granted"
      /\ \A q \in Requests : q # r /\ q # h => status'[q] = status[q]
  BY <1>0 DEF HandOff, IInv, TypeOK, Statuses
<1> HIDE DEF h
<1>2. /\ Owners' = (Owners \cup {h}) \ {r}
      /\ h \notin Owners /\ r \in Owners
      /\ With("granted")' = With("granted") \cup {h} /\ h \notin With("granted")
      /\ With("waiting")' = With("waiting") \ {h} /\ h \in With("waiting")
  BY <1>0, <1>1 DEF Owners, With
<1>3. TypeOK'
  BY <1>0, <1>1 DEF HandOff, IInv, TypeOK
<1>4. WaitersDistinct'
  <2>1. waiters' = Tail(waiters) /\ waiters # << >>
    BY DEF HandOff
  <2>2. Waiting' = Waiting \ {h}
    BY <2>1, HeadOfQueue DEF Waiting, h
  <2>3. \A i, j \in DOMAIN waiters' : waiters'[i] = waiters'[j] => i = j
    BY <2>1, HeadOfQueue
  <2> QED
    BY <1>2, <2>2, <2>3 DEF IInv, WaitersDistinct
<1>5. Len(waiters') = Len(waiters) - 1 /\ Len(waiters) \in Nat
  BY <1>0 DEF HandOff, IInv, TypeOK
<1>6. /\ IsFiniteSet(Owners') /\ Cardinality(Owners') = Cardinality(Owners)
  <2>1. /\ IsFiniteSet(Owners \cup {h})
        /\ Cardinality(Owners \cup {h}) = Cardinality(Owners) + 1
    BY <1>2, FS_AddElement DEF IInv, Counted
  <2>2. Cardinality(Owners) \in Nat
    BY FS_CardinalityType DEF IInv, Counted
  <2>3. r \in Owners \cup {h}
    BY <1>2
  <2> DEFINE T == Owners \cup {h}
  <2>4. IsFiniteSet(T \ {r}) /\ Cardinality(T \ {r}) = Cardinality(T) - 1
    <3> HIDE DEF T
    <3>1. IsFiniteSet(T) /\ r \in T
      BY <2>1, <2>3 DEF T
    <3> QED
      BY <3>1, FS_RemoveElement
  <2>5. Cardinality(T \ {r}) = Cardinality(Owners)
    BY <2>1, <2>2, <2>4
  <2> QED
    BY <1>2, <2>4, <2>5
<1>7. /\ IsFiniteSet(With("granted")')
      /\ Cardinality(With("granted")') = Cardinality(With("granted")) + 1
      /\ Cardinality(With("granted")) \in Nat
  BY <1>2, FS_AddElement, FS_CardinalityType DEF IInv, Counted
<1>8. /\ IsFiniteSet(With("waiting")')
      /\ Cardinality(With("waiting")') = Cardinality(With("waiting")) - 1
  BY <1>2, FS_RemoveElement DEF IInv, Counted
<1>9. Counted' /\ SlotsConserved' /\ QueueCounted'
  BY <1>5, <1>6, <1>7, <1>8 DEF HandOff, IInv, Counted, SlotsConserved, QueueCounted
<1>10. NoIdleSlotWhileWaiting'
  BY DEF HandOff, IInv, NoIdleSlotWhileWaiting
<1> QED
  BY <1>3, <1>4, <1>9, <1>10 DEF IInv

LEMMA GiveBackIInv ==
  ASSUME IInv, NEW r \in Requests, GiveBack(r)
  PROVE  IInv'
<1> USE DEF IInv, GiveBack
<1>1. /\ status' \in [Requests -> Statuses]
      /\ status'[r] = "outside"
      /\ \A q \in Requests : q # r => status'[q] = status[q]
  BY StatusChange DEF Statuses
<1>2. /\ Owners' = Owners \ {r} /\ r \in Owners
      /\ With("granted")' = With("granted")
      /\ With("waiting")' = With("waiting")
  BY <1>1 DEF Owners, With
<1>3. Cardinality(Owners) \in Nat \ {0}
  BY <1>2, MemberCounted DEF Counted
<1>4. IsFiniteSet(Owners') /\ Cardinality(Owners') = Cardinality(Owners) - 1
  BY <1>2, FS_RemoveElement DEF Counted
<1>5. TypeOK'
  BY <1>1, <1>3 DEF TypeOK, SlotsConserved
<1>6. WaitersDistinct'
  BY <1>2 DEF WaitersDistinct, Waiting
<1>7. Counted' /\ QueueCounted' /\ NoIdleSlotWhileWaiting'
  BY <1>2, <1>4 DEF Counted, QueueCounted, NoIdleSlotWhileWaiting
<1>8. SlotsConserved'
  BY <1>3, <1>4 DEF SlotsConserved, TypeOK, SlotsAssumption
<1> QED
  BY <1>5, <1>6, <1>7, <1>8

-----------------------------------------------------------------------------

\* Every step of the semaphore keeps the inductive invariant.
LEMMA NextIInv == IInv /\ [Next]_vars => IInv'
<1> SUFFICES ASSUME IInv, [Next]_vars PROVE IInv'
  OBVIOUS
<1>1. CASE UNCHANGED vars
  BY <1>1 DEF vars, IInv, TypeOK, WaitersDistinct, Waiting, Counted, Owners, With,
              SlotsConserved, QueueCounted, NoIdleSlotWhileWaiting
<1>2. ASSUME NEW r \in Requests, Acquire(r) PROVE IInv'
  BY <1>2, AcquireFreeIInv, AcquireRefusedIInv, AcquireQueuedIInv DEF Acquire
<1>3. ASSUME NEW r \in Requests, Dequeue(r) PROVE IInv'
  BY <1>3, DequeueIInv
<1>4. ASSUME NEW r \in Requests, ThrowBusy(r) PROVE IInv'
  BY <1>4, ThrowBusyIInv
<1>5. ASSUME NEW r \in Requests, Release(r) PROVE IInv'
  BY <1>5, HandOffIInv, GiveBackIInv DEF Release
<1> QED
  BY <1>1, <1>2, <1>3, <1>4, <1>5 DEF Next

\* The inductive invariant holds of every reachable state.
THEOREM Invariance == SafeSpec => []IInv
BY InitIInv, NextIInv, PTL DEF SafeSpec

\* Type correctness: in particular neither counter of executor.js ever goes
\* below zero.
THEOREM TypeCorrect == SafeSpec => []TypeOK
<1>1. IInv => TypeOK
  BY DEF IInv
<1> QED
  BY Invariance, <1>1, PTL

\* activeCount counts the owners of a slot and never passes
\* MAX_CONCURRENT_EXECUTIONS, through hand-offs, refusals and late callbacks.
THEOREM CapHolds == SafeSpec => []SlotsConserved
<1>1. IInv => SlotsConserved
  BY DEF IInv
<1> QED
  BY Invariance, <1>1, PTL

\* queueLength counts the waiters and the callbacks still to run, and never
\* passes MAX_QUEUE_LENGTH.
THEOREM QueueBounded == SafeSpec => []QueueCounted
<1>1. IInv => QueueCounted
  BY DEF IInv
<1> QED
  BY Invariance, <1>1, PTL

\* No lost wake-up: nobody waits while a slot is free.
THEOREM NoLostWakeup == SafeSpec => []NoIdleSlotWhileWaiting
<1>1. IInv => NoIdleSlotWhileWaiting
  BY DEF IInv
<1> QED
  BY Invariance, <1>1, PTL

\* waiters holds the resolver of each waiting request exactly once.
THEOREM ResolversDistinct == SafeSpec => []WaitersDistinct
<1>1. IInv => WaitersDistinct
  BY DEF IInv
<1> QED
  BY Invariance, <1>1, PTL

-----------------------------------------------------------------------------

\* The step that refuses finds every slot owned and the queue full.
LEMMA RefusalStep ==
  ASSUME IInv, [Next]_vars, NEW r \in Requests,
         status[r] = "outside", status'[r] = "refused"
  PROVE  /\ Cardinality(Owners) = MaxConcurrentExecutions
         /\ Cardinality(With("waiting") \cup With("granted")) = MaxQueueLength
<1>1. AcquireRefused(r)
  BY DEF Next, vars, Acquire, Release, AcquireFree, AcquireRefused, AcquireQueued,
         Dequeue, ThrowBusy, HandOff, GiveBack, Becomes, IInv, TypeOK
<1>2. With("waiting") \cap With("granted") = {}
  BY DEF With
<1>3. /\ Cardinality(With("waiting") \cup With("granted"))
           = Cardinality(With("waiting")) + Cardinality(With("granted")) - 0
      /\ Cardinality(With("waiting")) \in Nat /\ Cardinality(With("granted")) \in Nat
  <2>1. IsFiniteSet(With("waiting")) /\ IsFiniteSet(With("granted"))
    BY DEF IInv, Counted
  <2> QED BY <1>2, <2>1, FS_Union, FS_EmptySet, FS_CardinalityType
<1> QED
  BY <1>1, <1>3 DEF AcquireRefused, IInv, Counted, SlotsConserved, QueueCounted,
                    TypeOK, SlotsAssumption

\* A request is refused only when every slot is owned and the queue is full.
THEOREM RefusalJustified == SafeSpec => RefusedOnlyWhenFull
<1>1. IInv /\ [Next]_vars =>
        [\A r \in Requests :
           status[r] = "outside" /\ status'[r] = "refused" =>
             /\ Cardinality(Owners) = MaxConcurrentExecutions
             /\ Cardinality(With("waiting") \cup With("granted")) = MaxQueueLength]_vars
  BY RefusalStep
<1> QED
  BY <1>1, Invariance, PTL DEF SafeSpec, RefusedOnlyWhenFull

-----------------------------------------------------------------------------
(* The semaphore implements the admission line.                            *)

\* Cardinality as the instance of AdmissionQueue sees it.
LEMMA SameCardinality == Admission!Cardinality(Owners) = Cardinality(Owners)
BY DEF Admission!Cardinality, Cardinality

\* The queue of the semaphore lists the requests that wait, so those that
\* call acquireExecutionSlot are outside the line.
LEMMA CallersOutside ==
  ASSUME IInv, NEW r \in Requests, status[r] = "outside"
  PROVE  Admission!Outside(r)
BY DEF IInv, WaitersDistinct, Waiting, With, Owners, Admission!Outside, Admission!Standing

LEMMA AcquireMaps ==
  ASSUME IInv, NEW r \in Requests, Acquire(r)
  PROVE  Admission!Enter(r) \/ Admission!Join(r) \/ Admission!TurnAway(r)
<1>0. /\ status \in [Requests -> Statuses] /\ activeCount \in Nat
      /\ activeCount = Cardinality(Owners) /\ activeCount <= MaxConcurrentExecutions
  BY DEF IInv, TypeOK, SlotsConserved
<1>1. CASE AcquireFree(r)
  <2>1. Admission!Outside(r) /\ ~Admission!Full /\ waiters = << >>
    BY <1>0, <1>1, CallersOutside, SameCardinality
       DEF AcquireFree, Admission!Full, IInv, NoIdleSlotWhileWaiting, SlotsAssumption
  <2>2. Owners' = Owners \cup {r} /\ With("refused")' = With("refused")
    BY <1>0, <1>1 DEF AcquireFree, Becomes, Owners, With
  <2> QED
    BY <1>1, <2>1, <2>2 DEF AcquireFree, Admission!Enter
<1>2. CASE AcquireRefused(r)
  <2>1. Admission!Outside(r) /\ Admission!Full
    BY <1>0, <1>2, CallersOutside, SameCardinality DEF AcquireRefused, Admission!Full, SlotsAssumption
  <2>2. Owners' = Owners /\ With("refused")' = With("refused") \cup {r}
    BY <1>0, <1>2 DEF AcquireRefused, Becomes, Owners, With
  <2> QED
    BY <1>2, <2>1, <2>2 DEF AcquireRefused, Admission!TurnAway
<1>3. CASE AcquireQueued(r)
  <2>1. Admission!Outside(r) /\ Admission!Full
    BY <1>0, <1>3, CallersOutside, SameCardinality DEF AcquireQueued, Admission!Full, SlotsAssumption
  <2>2. Owners' = Owners /\ With("refused")' = With("refused")
    BY <1>0, <1>3 DEF AcquireQueued, Becomes, Owners, With
  <2>3. Len(waiters) < MaxQueueLength
    BY <1>3, FS_CardinalityType
       DEF AcquireQueued, IInv, Counted, QueueCounted, TypeOK, SlotsAssumption
  <2> QED
    BY <1>3, <2>1, <2>2, <2>3 DEF AcquireQueued, Admission!Join
<1> QED
  BY <1>1, <1>2, <1>3 DEF Acquire

LEMMA ReleaseMaps ==
  ASSUME IInv, NEW r \in Requests, Release(r)
  PROVE  Admission!Finish(r)
<1>0. status \in [Requests -> Statuses]
  BY DEF IInv, TypeOK
<1>1. r \in Owners
  BY DEF Release, HandOff, GiveBack, Owners
<1>2. CASE HandOff(r)
  <2>1. /\ Head(waiters) \in Requests
        /\ status[Head(waiters)] = "waiting"
    BY <1>2, HeadOfQueue DEF HandOff
  <2>2. /\ Owners' = (Owners \ {r}) \cup {Head(waiters)}
        /\ With("refused")' = With("refused")
    BY <1>0, <1>2, <2>1 DEF HandOff, Owners, With
  <2> QED
    BY <1>1, <1>2, <2>2 DEF HandOff, Admission!Finish
<1>3. CASE GiveBack(r)
  <2>1. Owners' = Owners \ {r} /\ With("refused")' = With("refused")
    BY <1>0, <1>3 DEF GiveBack, Becomes, Owners, With
  <2> QED
    BY <1>1, <1>3, <2>1 DEF GiveBack, Admission!Finish
<1> QED
  BY <1>2, <1>3 DEF Release

\* Every step of the semaphore is a step of the admission line or changes
\* nothing there: the callback that decrements queueLength is such a stutter.
LEMMA StepMaps ==
  ASSUME IInv, [Next]_vars
  PROVE  [Admission!Next]_(Admission!vars)
<1> USE DEF Admission!Next, Admission!vars
<1>1. CASE UNCHANGED vars
  BY <1>1 DEF vars, Owners, With
<1>2. ASSUME NEW r \in Requests, Acquire(r)
      PROVE  Admission!Next
  BY <1>2, AcquireMaps
<1>3. ASSUME NEW r \in Requests, Dequeue(r)
      PROVE  UNCHANGED Admission!vars
  <2>1. Owners' = Owners /\ With("refused")' = With("refused")
    BY <1>3 DEF Dequeue, Becomes, Owners, With, IInv, TypeOK
  <2> QED
    BY <1>3, <2>1 DEF Dequeue
<1>4. ASSUME NEW r \in Requests, ThrowBusy(r)
      PROVE  Admission!Next
  <2>1. /\ Owners' = Owners /\ r \in With("refused")
        /\ With("refused")' = With("refused") \ {r}
    BY <1>4 DEF ThrowBusy, Becomes, Owners, With, IInv, TypeOK
  <2> QED
    BY <1>4, <2>1 DEF ThrowBusy, Admission!GoAway
<1>5. ASSUME NEW r \in Requests, Release(r)
      PROVE  Admission!Next
  BY <1>5, ReleaseMaps
<1> QED
  BY <1>1, <1>2, <1>3, <1>4, <1>5 DEF Next

\* The safety part of ImplementsAdmission: admission to the sandbox is first
\* come, first served, turns nobody away while a slot is free, and hands a
\* slot that is given up to the head of the line.
THEOREM RefinesAdmission == SafeSpec => Admission!SafeSpec
<1>1. Init => Admission!Init
  BY DEF Init, Admission!Init, Owners, With
<1>2. IInv /\ [Next]_vars => [Admission!Next]_(Admission!vars)
  BY StepMaps
<1> QED
  BY <1>1, <1>2, Invariance, PTL DEF SafeSpec, Admission!SafeSpec
=============================================================================
