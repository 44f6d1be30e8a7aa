-------------------------- MODULE RateLimit_proofs --------------------------
(***************************************************************************)
(* Proofs about the rate limiter for any keys, windows and maxima, and any *)
(* lateness of the sweep.                                                  *)
(***************************************************************************)
EXTENDS RateLimit, TLAPS

(***************************************************************************)
(* What the history a of a key looks like from its entry [c, r].  The      *)
(* window of the entry began w before r: the last c admissions are in it,  *)
(* those before are earlier, and those before m more are earlier by        *)
(* another w, since the previous window held no more than m.               *)
(***************************************************************************)
WithEntry(a, c, r, w, m) ==
  /\ c \in 1 .. m
  /\ c <= Len(a)
  /\ \A j \in 1 .. Len(a) :
       /\ a[j] <= r
       /\ j > Len(a) - c => a[j] + w >= r
       /\ j <= Len(a) - c => a[j] + w < r
       /\ j + m <= Len(a) - c => a[j] + w + w < r

\* The same at time t without an entry: the past windows are over.
WithoutEntry(a, t, w, m) ==
  \A j \in 1 .. Len(a) :
    /\ a[j] < t
    /\ j + m <= Len(a) => a[j] + w < t

HistoryInv(k) ==
  /\ \A j \in DOMAIN admitted[k] : admitted[k][j] <= now
  /\ buckets[k] # None =>
       /\ WithEntry(admitted[k], buckets[k].count, buckets[k].resetAt, WindowMs[k], Max[k])
       /\ buckets[k].resetAt >= swept
  /\ buckets[k] = None => WithoutEntry(admitted[k], now, WindowMs[k], Max[k])

\* The history a holds no more than 2 * m admissions in any stretch of w.
Spread(a, w, m) ==
  \A i \in DOMAIN a : i + 2 * m \in DOMAIN a => a[i + 2 * m] > a[i] + w

\* A refusal at time t has m admissions of the history a behind it.
Deserved(a, t, w, m) ==
  \E i \in DOMAIN a :
    i + m - 1 \in DOMAIN a /\ a[i] + w >= t /\ a[i + m - 1] <= t

KeyInv(k) ==
  /\ HistoryInv(k)
  /\ Spread(admitted[k], WindowMs[k], Max[k])
  /\ refusedAt[k] # None => Deserved(admitted[k], refusedAt[k], WindowMs[k], Max[k])

IInv == TypeOK /\ \A k \in Keys : KeyInv(k)

-----------------------------------------------------------------------------
(* Facts about histories.                                                  *)

LEMMA AppendFacts ==
  ASSUME NEW a \in Seq(Nat), NEW t \in Nat
  PROVE  /\ Append(a, t) \in Seq(Nat)
         /\ Len(a) \in Nat
         /\ Len(Append(a, t)) = Len(a) + 1
         /\ DOMAIN a = 1 .. Len(a)
         /\ DOMAIN Append(a, t) = 1 .. Len(a) + 1
         /\ \A i \in 1 .. Len(a) : Append(a, t)[i] = a[i] /\ a[i] \in Nat
         /\ Append(a, t)[Len(a) + 1] = t
OBVIOUS

\* A new window.
LEMMA WindowOpened ==
  ASSUME NEW a \in Seq(Nat), NEW t \in Nat, NEW w \in Nat \ {0}, NEW m \in Nat \ {0},
         WithoutEntry(a, t, w, m)
  PROVE  WithEntry(Append(a, t), 1, t + w, w, m)
<1> DEFINE n == Len(a)
           b == Append(a, t)
<1>1. /\ n \in Nat /\ Len(b) = n + 1 /\ b[n + 1] = t
      /\ \A j \in 1 .. n : b[j] = a[j] /\ a[j] \in Nat /\ a[j] < t /\ (j + m <= n => a[j] + w < t)
  BY AppendFacts DEF WithoutEntry
<1> HIDE DEF n, b
<1>2. ASSUME NEW j \in 1 .. n + 1
      PROVE  /\ b[j] <= t + w
             /\ j > n => b[j] + w >= t + w
             /\ j <= n => b[j] + w < t + w
             /\ j + m <= n => b[j] + w + w < t + w
  <2>1. CASE j = n + 1
    BY <1>1, <2>1
  <2>2. CASE j \in 1 .. n
    BY <1>1, <2>2
  <2> QED
    BY <1>1, <2>1, <2>2
<1>3. n + 1 - 1 = n /\ 1 \in 1 .. m /\ 1 <= n + 1
  BY <1>1
<1> QED
  BY <1>1, <1>2, <1>3 DEF WithEntry, b

\* One more in a window that is not full.
LEMMA WindowFilled ==
  ASSUME NEW a \in Seq(Nat), NEW t \in Nat, NEW w \in Nat \ {0}, NEW m \in Nat \ {0},
         NEW c \in Nat, NEW r \in Nat, c < m, t <= r, WithEntry(a, c, r, w, m),
         \A j \in 1 .. Len(a) : a[j] <= t
  PROVE  /\ WithEntry(Append(a, t), c + 1, r, w, m)
         /\ \A j \in 1 .. Len(a) : j + 2 * m = Len(a) + 1 => a[j] + w < t
<1> DEFINE n == Len(a)
           b == Append(a, t)
<1>1. /\ n \in Nat /\ Len(b) = n + 1 /\ b[n + 1] = t /\ c \in 1 .. m /\ c <= n
      /\ \A j \in 1 .. n :
           /\ b[j] = a[j] /\ a[j] \in Nat /\ a[j] <= t
           /\ a[j] <= r
           /\ j > n - c => a[j] + w >= r
           /\ j <= n - c => a[j] + w < r
           /\ j + m <= n - c => a[j] + w + w < r
  BY AppendFacts DEF WithEntry
<1> HIDE DEF n, b
<1>2. t + w >= r
  <2>1. n \in 1 .. n /\ n > n - c
    BY <1>1
  <2> QED
    BY <1>1, <2>1
<1>3. ASSUME NEW j \in 1 .. n + 1
      PROVE  /\ b[j] <= r
             /\ j > n - c => b[j] + w >= r
             /\ j <= n - c => b[j] + w < r
             /\ j + m <= n - c => b[j] + w + w < r
  <2>1. CASE j = n + 1
    BY <1>1, <1>2, <2>1
  <2>2. CASE j \in 1 .. n
    BY <1>1, <2>2
  <2> QED
    BY <1>1, <2>1, <2>2
<1>4. (n + 1) - (c + 1) = n - c /\ c + 1 \in 1 .. m /\ c + 1 <= n + 1
  BY <1>1
<1>5. WithEntry(b, c + 1, r, w, m)
  BY <1>1, <1>3, <1>4 DEF WithEntry
<1>6. ASSUME NEW j \in 1 .. n, j + 2 * m = n + 1 PROVE a[j] + w < t
  <2>1. j + m <= n - c
    BY <1>1, <1>6
  <2>2. a[j] \in Nat /\ a[j] + w + w < r
    BY <1>1, <2>1
  <2> QED
    BY <1>2, <2>2
<1> QED
  BY <1>5, <1>6 DEF b, n

\* A window that is over may be forgotten.
LEMMA WindowOver ==
  ASSUME NEW a \in Seq(Nat), NEW t \in Nat, NEW w \in Nat \ {0}, NEW m \in Nat \ {0},
         NEW c \in Nat, NEW r \in Nat, r < t, WithEntry(a, c, r, w, m)
  PROVE  WithoutEntry(a, t, w, m)
<1> SUFFICES ASSUME NEW j \in 1 .. Len(a)
             PROVE  a[j] < t /\ (j + m <= Len(a) => a[j] + w < t)
  BY DEF WithoutEntry
<1>1. a[j] \in Nat /\ Len(a) \in Nat /\ c \in 1 .. m
  BY DEF WithEntry
<1>2. a[j] <= r /\ (j <= Len(a) - c => a[j] + w < r)
  BY DEF WithEntry
<1> QED
  BY <1>1, <1>2

\* A new admission keeps the spread if it is far from the one 2 * m before.
LEMMA SpreadKept ==
  ASSUME NEW a \in Seq(Nat), NEW t \in Nat, NEW w \in Nat \ {0}, NEW m \in Nat \ {0},
         Spread(a, w, m),
         \A j \in 1 .. Len(a) : j + 2 * m = Len(a) + 1 => a[j] + w < t
  PROVE  Spread(Append(a, t), w, m)
<1> DEFINE n == Len(a)
           b == Append(a, t)
<1>1. /\ n \in Nat /\ DOMAIN b = 1 .. n + 1 /\ b[n + 1] = t
      /\ \A j \in 1 .. n : b[j] = a[j] /\ a[j] \in Nat
      /\ \A j \in 1 .. n : j + 2 * m = n + 1 => a[j] + w < t
      /\ \A j \in 1 .. n : j + 2 * m \in 1 .. n => a[j + 2 * m] > a[j] + w
  BY AppendFacts DEF Spread
<1> HIDE DEF n, b
<1>2. ASSUME NEW i \in 1 .. n + 1, i + 2 * m \in 1 .. n + 1
      PROVE  b[i + 2 * m] > b[i] + w
  <2>1. i \in 1 .. n
    BY <1>1, <1>2
  <2>2. CASE i + 2 * m = n + 1
    BY <1>1, <2>1, <2>2
  <2>3. CASE i + 2 * m \in 1 .. n
    BY <1>1, <2>1, <2>3
  <2> QED
    BY <1>1, <1>2, <2>2, <2>3
<1>3. Spread(b, w, m)
  BY <1>1, <1>2 DEF Spread
<1> QED
  BY <1>3 DEF b

LEMMA DeservedKept ==
  ASSUME NEW a \in Seq(Nat), NEW t \in Nat, NEW w \in Nat \ {0}, NEW m \in Nat \ {0},
         NEW u \in Nat, Deserved(a, u, w, m)
  PROVE  Deserved(Append(a, t), u, w, m)
<1> DEFINE b == Append(a, t)
<1>1. /\ Len(a) \in Nat /\ DOMAIN a = 1 .. Len(a) /\ DOMAIN b = 1 .. Len(a) + 1
      /\ \A j \in 1 .. Len(a) : b[j] = a[j]
  BY AppendFacts
<1>2. PICK i \in DOMAIN a : i + m - 1 \in DOMAIN a /\ a[i] + w >= u /\ a[i + m - 1] <= u
  BY DEF Deserved
<1> HIDE DEF b
<1>3. i \in DOMAIN b /\ i + m - 1 \in DOMAIN b /\ b[i] = a[i] /\ b[i + m - 1] = a[i + m - 1]
  BY <1>1, <1>2
<1>4. Deserved(b, u, w, m)
  BY <1>2, <1>3 DEF Deserved
<1> QED
  BY <1>4 DEF b

\* A full window justifies a refusal.
LEMMA FullWindowDeserves ==
  ASSUME NEW a \in Seq(Nat), NEW t \in Nat, NEW w \in Nat \ {0}, NEW m \in Nat \ {0},
         NEW c \in Nat, NEW r \in Nat, c >= m, t <= r, WithEntry(a, c, r, w, m),
         \A j \in 1 .. Len(a) : a[j] <= t
  PROVE  Deserved(a, t, w, m)
<1> DEFINE n == Len(a)
           i == n - m + 1
<1>1. n \in Nat /\ DOMAIN a = 1 .. n /\ c = m /\ m <= n
  BY DEF WithEntry
<1>2. i \in 1 .. n /\ i + m - 1 = n /\ n \in 1 .. n /\ i > n - c
  BY <1>1
<1>3. a[i] \in Nat /\ a[i] + w >= r /\ a[n] \in Nat /\ a[n] <= t
  BY <1>1, <1>2 DEF WithEntry
<1>4. a[i] + w >= t
  BY <1>3
<1> HIDE DEF i, n
<1> QED
  BY <1>1, <1>2, <1>3, <1>4 DEF Deserved

-----------------------------------------------------------------------------
(* The invariant.                                                          *)

LEMMA InitIInv == Init => IInv
<1> SUFFICES ASSUME Init PROVE IInv
  OBVIOUS
<1>1. TypeOK
  BY LimitAssumption DEF Init, TypeOK
<1>2. ASSUME NEW k \in Keys PROVE KeyInv(k)
  <2>1. /\ admitted[k] = << >> /\ Len(admitted[k]) = 0 /\ DOMAIN admitted[k] = {}
        /\ buckets[k] = None /\ refusedAt[k] = None
    BY DEF Init
  <2> QED
    BY <2>1 DEF KeyInv, HistoryInv, WithoutEntry, Spread
<1> QED
  BY <1>1, <1>2 DEF IInv

\* What is known of a key.
LEMMA KeyFacts ==
  ASSUME IInv, NEW k \in Keys
  PROVE  /\ KeyInv(k)
         /\ now \in Nat /\ swept \in Nat /\ swept <= now /\ sweepAt \in Nat
         /\ admitted[k] \in Seq(Nat)
         /\ \A j \in 1 .. Len(admitted[k]) : admitted[k][j] <= now
         /\ WindowMs[k] \in Nat \ {0} /\ Max[k] \in Nat \ {0}
         /\ buckets[k] \in Entries \cup {None}
         /\ refusedAt[k] \in Nat \cup {None}
         /\ buckets[k] # None => /\ buckets[k] \in Entries
                                 /\ buckets[k].count \in Nat /\ buckets[k].resetAt \in Nat
<1>1. KeyInv(k) /\ TypeOK
  BY DEF IInv
<1>2. /\ now \in Nat /\ swept \in Nat /\ swept <= now /\ sweepAt \in Nat
      /\ admitted[k] \in Seq(Nat)
      /\ buckets[k] \in Entries \cup {None} /\ refusedAt[k] \in Nat \cup {None}
  BY <1>1 DEF TypeOK
<1>3. \A j \in 1 .. Len(admitted[k]) : admitted[k][j] <= now
  <2>1. DOMAIN admitted[k] = 1 .. Len(admitted[k])
    BY <1>2
  <2> QED
    BY <1>1, <2>1 DEF KeyInv, HistoryInv
<1>4. WindowMs[k] \in Nat \ {0} /\ Max[k] \in Nat \ {0}
  BY LimitAssumption
<1>5. buckets[k] # None => /\ buckets[k] \in Entries
                           /\ buckets[k].count \in Nat /\ buckets[k].resetAt \in Nat
  BY <1>2 DEF Entries
<1> QED
  BY <1>1, <1>2, <1>3, <1>4, <1>5

\* A request of one key leaves the others as they are.
LEMMA OthersKept ==
  ASSUME IInv, NEW k \in Keys, TypeOK', KeyInv(k)', now' = now, swept' = swept,
         \A x \in Keys \ {k} : /\ buckets'[x] = buckets[x]
                               /\ admitted'[x] = admitted[x]
                               /\ refusedAt'[x] = refusedAt[x]
  PROVE  IInv'
<1>1. ASSUME NEW x \in Keys, x # k PROVE KeyInv(x)'
  <2>1. KeyInv(x)
    BY DEF IInv
  <2> QED
    BY <1>1, <2>1 DEF KeyInv, HistoryInv
<1> QED
  BY <1>1 DEF IInv

\* An admission with entry [c, r], given what the entry must satisfy.
LEMMA AdmitIInv ==
  ASSUME IInv, NEW k \in Keys, NEW c \in Nat, NEW r \in Nat, Admit(k, Entry(c, r)),
         WithEntry(Append(admitted[k], now), c, r, WindowMs[k], Max[k]), r >= now,
         \A j \in 1 .. Len(admitted[k]) :
           j + 2 * Max[k] = Len(admitted[k]) + 1 => admitted[k][j] + WindowMs[k] < now
  PROVE  IInv'
<1> DEFINE a == admitted[k]
           b == Append(a, now)
           e == Entry(c, r)
<1>1. /\ a \in Seq(Nat) /\ now \in Nat /\ swept \in Nat /\ swept <= now
      /\ refusedAt[k] \in Nat \cup {None}
      /\ WindowMs[k] \in Nat \ {0} /\ Max[k] \in Nat \ {0}
      /\ \A j \in 1 .. Len(a) : a[j] <= now
      /\ KeyInv(k)
  BY KeyFacts
<1>2. e \in Entries /\ e.count = c /\ e.resetAt = r /\ e # None
  BY NoneAssumption DEF Entry, Entries
<1>3. b \in Seq(Nat)
  BY <1>1, AppendFacts
<1>4. /\ admitted'[k] = b /\ buckets'[k] = e
      /\ \A x \in Keys \ {k} : buckets'[x] = buckets[x] /\ admitted'[x] = admitted[x]
      /\ UNCHANGED <<now, sweepAt, swept, refusedAt>>
  BY DEF IInv, TypeOK, Admit
<1>5. TypeOK'
  <2>1. admitted' \in [Keys -> Seq(Nat)]
    BY <1>3 DEF IInv, TypeOK, Admit
  <2>2. buckets' \in [Keys -> Entries \cup {None}]
    BY <1>2 DEF IInv, TypeOK, Admit
  <2> QED
    BY <1>4, <2>1, <2>2 DEF IInv, TypeOK
<1>6. HistoryInv(k)'
  <2>1. ASSUME NEW j \in DOMAIN b PROVE b[j] <= now
    <3>1. /\ Len(a) \in Nat /\ DOMAIN b = 1 .. Len(a) + 1 /\ b[Len(a) + 1] = now
          /\ \A i \in 1 .. Len(a) : b[i] = a[i]
      BY <1>1, AppendFacts
    <3>2. CASE j = Len(a) + 1
      BY <1>1, <3>1, <3>2
    <3>3. CASE j \in 1 .. Len(a)
      BY <1>1, <3>1, <3>3
    <3> HIDE DEF a, b
    <3> QED
      BY <2>1, <3>1, <3>2, <3>3
  <2>2. r >= swept
    BY <1>1
  <2> HIDE DEF a, b, e
  <2>3. admitted'[k] = b /\ buckets'[k] = e /\ now' = now /\ swept' = swept
    BY <1>4
  <2>4. WithEntry(b, c, r, WindowMs[k], Max[k])
    BY DEF a, b
  <2> QED
    BY <1>2, <2>1, <2>2, <2>3, <2>4 DEF HistoryInv
<1>7. Spread(b, WindowMs[k], Max[k])
  BY <1>1, SpreadKept DEF KeyInv
<1>8. refusedAt[k] # None => Deserved(b, refusedAt[k], WindowMs[k], Max[k])
  BY <1>1, DeservedKept DEF KeyInv
<1>9. KeyInv(k)'
  BY <1>4, <1>6, <1>7, <1>8 DEF KeyInv
<1> QED
  BY <1>4, <1>5, <1>9, OthersKept

LEMMA OpenWindowIInv ==
  ASSUME IInv, NEW k \in Keys, OpenWindow(k)
  PROVE  IInv'
<1> DEFINE a == admitted[k]
           w == WindowMs[k]
           m == Max[k]
<1>1. /\ a \in Seq(Nat) /\ now \in Nat /\ w \in Nat \ {0} /\ m \in Nat \ {0} /\ KeyInv(k)
      /\ buckets[k] # None => buckets[k].count \in Nat /\ buckets[k].resetAt \in Nat
  BY KeyFacts
<1>2. WithoutEntry(a, now, w, m)
  <2>1. CASE buckets[k] = None
    BY <1>1, <2>1 DEF KeyInv, HistoryInv
  <2>2. CASE buckets[k] # None
    <3>1. buckets[k].resetAt < now
      BY <1>1, <2>2 DEF OpenWindow, Open
    <3>2. WithEntry(a, buckets[k].count, buckets[k].resetAt, w, m)
      BY <1>1, <2>2 DEF KeyInv, HistoryInv
    <3> QED
      BY <1>1, <2>2, <3>1, <3>2, WindowOver
  <2> QED
    BY <2>1, <2>2
<1>3. WithEntry(Append(a, now), 1, now + w, w, m)
  BY <1>1, <1>2, WindowOpened
<1>4. ASSUME NEW j \in 1 .. Len(a), j + 2 * m = Len(a) + 1 PROVE a[j] + w < now
  <2>1. Len(a) \in Nat /\ j + m <= Len(a)
    BY <1>1, <1>4
  <2> QED
    BY <1>2, <2>1 DEF WithoutEntry
<1>5. 1 \in Nat /\ now + w \in Nat /\ now + w >= now
  BY <1>1
<1> QED
  BY <1>3, <1>4, <1>5, AdmitIInv DEF OpenWindow

LEMMA CountRequestIInv ==
  ASSUME IInv, NEW k \in Keys, CountRequest(k)
  PROVE  IInv'
<1> DEFINE a == admitted[k]
           w == WindowMs[k]
           m == Max[k]
           c == buckets[k].count
           r == buckets[k].resetAt
<1>1. buckets[k] # None /\ now <= r /\ c < m
  BY DEF CountRequest, Open
<1>2. /\ a \in Seq(Nat) /\ now \in Nat /\ w \in Nat \ {0} /\ m \in Nat \ {0}
      /\ \A j \in 1 .. Len(a) : a[j] <= now
      /\ buckets[k] \in Entries /\ c \in Nat /\ r \in Nat
      /\ WithEntry(a, c, r, w, m)
  BY <1>1, KeyFacts DEF KeyInv, HistoryInv
<1>3. /\ WithEntry(Append(a, now), c + 1, r, w, m)
      /\ \A j \in 1 .. Len(a) : j + 2 * m = Len(a) + 1 => a[j] + w < now
  BY <1>1, <1>2, WindowFilled
<1>4. [buckets[k] EXCEPT !.count = @ + 1] = Entry(c + 1, r)
  BY <1>2 DEF Entries, Entry
<1>5. Admit(k, Entry(c + 1, r)) /\ c + 1 \in Nat
  BY <1>2, <1>4 DEF CountRequest
<1> QED
  BY <1>1, <1>2, <1>3, <1>5, AdmitIInv

LEMMA RefuseIInv ==
  ASSUME IInv, NEW k \in Keys, Refuse(k)
  PROVE  IInv'
<1>1. buckets[k] # None /\ now <= buckets[k].resetAt /\ buckets[k].count >= Max[k]
  BY DEF Refuse, Open
<1>2. /\ KeyInv(k) /\ now \in Nat /\ admitted[k] \in Seq(Nat)
      /\ \A j \in 1 .. Len(admitted[k]) : admitted[k][j] <= now
      /\ WindowMs[k] \in Nat \ {0} /\ Max[k] \in Nat \ {0}
      /\ buckets[k].count \in Nat /\ buckets[k].resetAt \in Nat
      /\ WithEntry(admitted[k], buckets[k].count, buckets[k].resetAt, WindowMs[k], Max[k])
  BY <1>1, KeyFacts DEF KeyInv, HistoryInv
<1>3. Deserved(admitted[k], now, WindowMs[k], Max[k])
  BY <1>1, <1>2, FullWindowDeserves
<1>4. /\ refusedAt'[k] = now
      /\ \A x \in Keys \ {k} : refusedAt'[x] = refusedAt[x]
      /\ UNCHANGED <<now, buckets, sweepAt, swept, admitted>>
  BY DEF Refuse, IInv, TypeOK
<1>5. TypeOK'
  BY <1>2 DEF Refuse, IInv, TypeOK
<1>6. KeyInv(k)'
  BY <1>2, <1>3, <1>4 DEF KeyInv, HistoryInv
<1> QED
  BY <1>4, <1>5, <1>6, OthersKept

LEMMA SweepIInv ==
  ASSUME IInv, Sweep
  PROVE  IInv'
<1>1. /\ now \in Nat /\ now' = now /\ swept' = now
      /\ UNCHANGED <<admitted, refusedAt>>
      /\ \A k \in Keys : buckets'[k] = IF Open(k) THEN buckets[k] ELSE None
  BY DEF Sweep, IInv, TypeOK
<1>2. TypeOK'
  BY LimitAssumption DEF Sweep, IInv, TypeOK
<1>3. ASSUME NEW k \in Keys PROVE KeyInv(k)'
  <2>1. /\ KeyInv(k) /\ admitted[k] \in Seq(Nat)
        /\ WindowMs[k] \in Nat \ {0} /\ Max[k] \in Nat \ {0}
        /\ buckets[k] # None => buckets[k].count \in Nat /\ buckets[k].resetAt \in Nat
    BY KeyFacts
  <2>2. HistoryInv(k)'
    <3>1. CASE Open(k)
      <4>1. buckets'[k] = buckets[k] /\ buckets[k] # None /\ buckets[k].resetAt >= now
        BY <1>1, <2>1, <3>1 DEF Open
      <4> QED
        BY <1>1, <2>1, <4>1 DEF KeyInv, HistoryInv
    <3>2. CASE ~Open(k)
      <4>1. WithoutEntry(admitted[k], now, WindowMs[k], Max[k])
        <5>1. CASE buckets[k] = None
          BY <2>1, <5>1 DEF KeyInv, HistoryInv
        <5>2. CASE buckets[k] # None
          <6>1. buckets[k].resetAt < now
            BY <1>1, <2>1, <3>2, <5>2 DEF Open
          <6>2. WithEntry(admitted[k], buckets[k].count, buckets[k].resetAt,
                          WindowMs[k], Max[k])
            BY <2>1, <5>2 DEF KeyInv, HistoryInv
          <6> QED
            BY <1>1, <2>1, <5>2, <6>1, <6>2, WindowOver
        <5> QED
          BY <5>1, <5>2
      <4>2. buckets'[k] = None
        BY <1>1, <3>2
      <4> QED
        BY <1>1, <2>1, <4>1, <4>2 DEF KeyInv, HistoryInv
    <3> QED
      BY <3>1, <3>2
  <2> QED
    BY <1>1, <2>1, <2>2 DEF KeyInv
<1> QED
  BY <1>2, <1>3 DEF IInv

LEMMA TickIInv ==
  ASSUME IInv, Tick
  PROVE  IInv'
<1>1. /\ now \in Nat /\ now' = now + 1
      /\ UNCHANGED <<buckets, sweepAt, swept, admitted, refusedAt>>
  BY DEF Tick, IInv, TypeOK
<1>2. TypeOK'
  BY <1>1 DEF IInv, TypeOK
<1>3. ASSUME NEW k \in Keys PROVE KeyInv(k)'
  <2>1. /\ KeyInv(k) /\ admitted[k] \in Seq(Nat) /\ WindowMs[k] \in Nat
        /\ Len(admitted[k]) \in Nat /\ DOMAIN admitted[k] = 1 .. Len(admitted[k])
        /\ \A j \in 1 .. Len(admitted[k]) : admitted[k][j] \in Nat
    BY KeyFacts
  <2>2. \A j \in DOMAIN admitted[k] : admitted[k][j] <= now + 1
    BY <1>1, <2>1 DEF KeyInv, HistoryInv
  <2>3. buckets[k] = None => WithoutEntry(admitted[k], now + 1, WindowMs[k], Max[k])
    <3> SUFFICES ASSUME buckets[k] = None, NEW j \in 1 .. Len(admitted[k])
                 PROVE  /\ admitted[k][j] < now + 1
                        /\ j + Max[k] <= Len(admitted[k])
                             => admitted[k][j] + WindowMs[k] < now + 1
      BY DEF WithoutEntry
    <3>1. /\ admitted[k][j] < now
          /\ j + Max[k] <= Len(admitted[k]) => admitted[k][j] + WindowMs[k] < now
      BY <2>1 DEF KeyInv, HistoryInv, WithoutEntry
    <3> QED
      BY <1>1, <2>1, <3>1
  <2> QED
    BY <1>1, <2>1, <2>2, <2>3 DEF KeyInv, HistoryInv
<1> QED
  BY <1>2, <1>3 DEF IInv

LEMMA NextIInv == IInv /\ [Next]_vars => IInv'
<1> SUFFICES ASSUME IInv, [Next]_vars PROVE IInv'
  OBVIOUS
<1>1. CASE UNCHANGED vars
  BY <1>1 DEF vars, IInv, TypeOK, KeyInv, HistoryInv
<1>2. CASE Tick
  BY <1>2, TickIInv
<1>3. CASE Sweep
  BY <1>3, SweepIInv
<1>4. ASSUME NEW k \in Keys, Request(k) PROVE IInv'
  BY <1>4, OpenWindowIInv, CountRequestIInv, RefuseIInv DEF Request
<1> QED
  BY <1>1, <1>2, <1>3, <1>4 DEF Next

\* Requests of any keys, and the sweep however late, keep the inductive invariant: the
\* entry of a key counts its last admissions, all in the entry's window, and what was
\* admitted before is a window older (rateLimit.js).
THEOREM Invariance == Spec => []IInv
BY InitIInv, NextIInv, PTL DEF Spec

\* Type correctness.
THEOREM TypeCorrect == Spec => []TypeOK
<1>1. IInv => TypeOK
  BY DEF IInv
<1> QED
  BY <1>1, Invariance, PTL

(***************************************************************************)
(* No stretch of windowMs sees more than twice the maximum, for every      *)
(* window, maximum and period of the sweep.                                *)
(***************************************************************************)
THEOREM RateBounded == Spec => []TwiceMaxPerWindow
<1>1. IInv => TwiceMaxPerWindow
  BY DEF IInv, KeyInv, Spread, TwiceMaxPerWindow
<1> QED
  BY <1>1, Invariance, PTL

\* A refusal has the full maximum of admissions behind it.
THEOREM RefusalsDeserved == Spec => []RefusedAtLimit
<1>1. IInv => RefusedAtLimit
  BY DEF IInv, KeyInv, Deserved, RefusedAtLimit
<1> QED
  BY <1>1, Invariance, PTL

\* The Map holds no entry that was expired when the sweep last ran.
THEOREM SweepBoundsMap == Spec => []MapSwept
<1>1. ASSUME IInv, NEW k \in Keys, buckets[k] # None
      PROVE  /\ admitted[k] # << >>
             /\ admitted[k][Len(admitted[k])] + WindowMs[k] >= swept
  <2> DEFINE a == admitted[k]
             n == Len(a)
             r == buckets[k].resetAt
  <2>1. /\ a \in Seq(Nat) /\ swept \in Nat /\ r \in Nat /\ r >= swept /\ WindowMs[k] \in Nat
        /\ WithEntry(a, buckets[k].count, r, WindowMs[k], Max[k])
    BY <1>1, KeyFacts DEF KeyInv, HistoryInv
  <2>2. n \in Nat /\ buckets[k].count \in 1 .. Max[k] /\ buckets[k].count <= n
    BY <2>1 DEF WithEntry
  <2>3. n \in 1 .. n /\ n > n - buckets[k].count
    BY <2>2
  <2>4. a[n] + WindowMs[k] >= r
    BY <2>1, <2>3 DEF WithEntry
  <2>5. a[n] \in Nat /\ a # << >>
    BY <2>1, <2>3
  <2> QED
    BY <2>1, <2>4, <2>5
<1>2. IInv => MapSwept
  BY <1>1 DEF MapSwept
<1> QED
  BY <1>2, Invariance, PTL
=============================================================================
