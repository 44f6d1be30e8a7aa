----------------------------- MODULE RateLimit ------------------------------
(***************************************************************************)
(* middleware/rateLimit.js: one Map of fixed windows for all the limiters  *)
(* of the process, and the periodic sweep of the Map.  A limiter is keyed  *)
(* by user (executions) or by address (forgotten passwords), never by      *)
(* both, so a key has the window and the maximum of its one limiter.  The  *)
(* middleware has no await: each request is one step.                      *)
(***************************************************************************)
EXTENDS Integers, Sequences

CONSTANTS
  Keys,        \* users and addresses
  WindowMs,    \* windowMs of each key's limiter
  Max,         \* max of each key's limiter
  SweepEvery,  \* period of the sweep
  MaxTime,     \* bound on the clock
  None

ASSUME LimitAssumption ==
  /\ WindowMs \in [Keys -> Nat \ {0}]
  /\ Max \in [Keys -> Nat \ {0}]
  /\ SweepEvery \in Nat \ {0}
  /\ MaxTime \in Nat

Entries == [count : Nat, resetAt : Nat]

ASSUME NoneAssumption == None \notin Nat \cup Entries

VARIABLES
  now,        \* Date.now()
  buckets,    \* the entry of each key, None when the Map has none
  sweepAt,    \* when the interval timer is due
  swept,      \* when the sweep last ran
  admitted,   \* history: when the requests of each key were let through
  refusedAt   \* history: when a request of each key was last refused

vars == <<now, buckets, sweepAt, swept, admitted, refusedAt>>

Entry(c, t) == [count |-> c, resetAt |-> t]

Init ==
  /\ now = 0
  /\ buckets = [k \in Keys |-> None]
  /\ sweepAt = SweepEvery
  /\ swept = 0
  /\ admitted = [k \in Keys |-> << >>]
  /\ refusedAt = [k \in Keys |-> None]

Open(k) == buckets[k] # None /\ now <= buckets[k].resetAt

\* The request is let through: next().
Admit(k, e) ==
  /\ buckets' = [buckets EXCEPT ![k] = e]
  /\ admitted' = [admitted EXCEPT ![k] = Append(@, now)]
  /\ UNCHANGED <<now, sweepAt, swept, refusedAt>>

OpenWindow(k) ==
  /\ ~Open(k)
  /\ Admit(k, Entry(1, now + WindowMs[k]))

\* The count of what is left taken for the count of what was used.
CountRequestDown(k) ==
  /\ Open(k)
  /\ buckets[k].count < Max[k]
  /\ Admit(k, [buckets[k] EXCEPT !.count = @ - 1])

CountRequest(k) ==
  /\ Open(k)
  /\ buckets[k].count < Max[k]
  /\ Admit(k, [buckets[k] EXCEPT !.count = @ + 1])

\* A refused request that is counted, and lengthens its window.
RefuseExtending(k) ==
  /\ Open(k)
  /\ buckets[k].count >= Max[k]
  /\ buckets' = [buckets EXCEPT ![k].resetAt = now + WindowMs[k]]
  /\ refusedAt' = [refusedAt EXCEPT ![k] = now]
  /\ UNCHANGED <<now, sweepAt, swept, admitted>>

\* 429, with the time to wait.
Refuse(k) ==
  /\ Open(k)
  /\ buckets[k].count >= Max[k]
  /\ refusedAt' = [refusedAt EXCEPT ![k] = now]
  /\ UNCHANGED <<now, buckets, sweepAt, swept, admitted>>

\* The Map cleared, open windows included.
SweepAll ==
  /\ now >= sweepAt
  /\ buckets' = [k \in Keys |-> None]
  /\ sweepAt' = now + SweepEvery
  /\ swept' = now
  /\ UNCHANGED <<now, admitted, refusedAt>>

\* The comparison the wrong way round: open windows go, expired ones stay.
SweepInverted ==
  /\ now >= sweepAt
  /\ buckets' = [k \in Keys |-> IF Open(k) THEN None ELSE buckets[k]]
  /\ sweepAt' = now + SweepEvery
  /\ swept' = now
  /\ UNCHANGED <<now, admitted, refusedAt>>

\* The callback of setInterval, late or not.
Sweep ==
  /\ now >= sweepAt
  /\ buckets' = [k \in Keys |-> IF Open(k) THEN buckets[k] ELSE None]
  /\ sweepAt' = now + SweepEvery
  /\ swept' = now
  /\ UNCHANGED <<now, admitted, refusedAt>>

Tick ==
  /\ now < MaxTime
  /\ now' = now + 1
  /\ UNCHANGED <<buckets, sweepAt, swept, admitted, refusedAt>>

Request(k) == OpenWindow(k) \/ CountRequest(k) \/ Refuse(k)

Next == Tick \/ Sweep \/ \E k \in Keys : Request(k)

Spec == Init /\ [][Next]_vars

-----------------------------------------------------------------------------
(* Properties                                                              *)

TypeOK ==
  /\ now \in Nat
  /\ buckets \in [Keys -> Entries \cup {None}]
  /\ sweepAt \in Nat
  /\ swept \in 0 .. now
  /\ admitted \in [Keys -> Seq(Nat)]
  /\ refusedAt \in [Keys -> Nat \cup {None}]

(***************************************************************************)
(* The limit of a fixed window holds over any stretch of time, wherever it *)
(* begins and whatever the sweep removes meanwhile: of 2 * max + 1         *)
(* consecutive requests let through, the first and the last are more than  *)
(* windowMs apart.                                                         *)
(***************************************************************************)
TwiceMaxPerWindow ==
  \A k \in Keys : \A i \in DOMAIN admitted[k] :
    LET j == i + 2 * Max[k] IN
    j \in DOMAIN admitted[k] => admitted[k][j] > admitted[k][i] + WindowMs[k]

(***************************************************************************)
(* Nobody is refused for less than the limit: max requests of the key were *)
(* let through in the windowMs before a refusal, the removal of entries    *)
(* and the refusals themselves notwithstanding.                            *)
(***************************************************************************)
RefusedAtLimit ==
  \A k \in Keys : refusedAt[k] # None =>
    \E i \in DOMAIN admitted[k] :
      /\ i + Max[k] - 1 \in DOMAIN admitted[k]
      /\ admitted[k][i] + WindowMs[k] >= refusedAt[k]
      /\ admitted[k][i + Max[k] - 1] <= refusedAt[k]

(***************************************************************************)
(* The Map does not grow without bound: each entry is of a key that was    *)
(* let through in a window still open when the sweep last ran.             *)
(***************************************************************************)
MapSwept ==
  \A k \in Keys : buckets[k] # None =>
    /\ admitted[k] # << >>
    /\ admitted[k][Len(admitted[k])] + WindowMs[k] >= swept
=============================================================================
