---------------------------- MODULE Judge_proofs ----------------------------
(***************************************************************************)
(* Proofs about submitCode and runCode for any number of requests, test    *)
(* cases, edits and crashes.  What holds of the semaphore is taken from    *)
(* ExecutionSlots_proofs, with the requests of both handlers for its       *)
(* Requests.                                                               *)
(***************************************************************************)
EXTENDS Judge, FiniteSetTheorems, SequenceTheorems, TLAPS

SP == INSTANCE ExecutionSlots_proofs

-----------------------------------------------------------------------------
(* The inductive invariant.                                                *)

Lists == {s \in Seq(BOOLEAN) : Len(s) <= MaxTests}

AnyOutcomes == UNION {Contract!Outcomes(n) : n \in 1 .. MaxTests}

Replies == [code : {200, 400, 404, 500, 503}, body : {None} \cup Rows]

Types ==
  /\ points \in Points \cup {None}
  /\ tests \in Lists
  /\ at \in [Requests -> Places]
  /\ read \in [Requests -> Points \cup {None}]
  /\ cases \in [Requests -> Lists]
  /\ result \in [Requests -> {None} \cup AnyOutcomes]
  /\ stored \in [Requests -> {None} \cup Rows]
  /\ answer \in [Requests -> {None} \cup Replies]
  /\ edits \in Nat /\ crashes \in Nat

\* All that the message of a row quotes is the run it says has failed.
Quotes(row) ==
  row.error # 0 => /\ row.verdict = "Runtime Error"
                   /\ row.failed # None /\ row.failed.index = row.error

\* A row that says only what may be said of q.
Fit(q, row) ==
  /\ row.failed # None /\ row.failed.detailed => cases[q][row.failed.index]
  /\ Quotes(row)

Coherent(q, row) ==
  /\ row.totalCount = Len(cases[q])
  /\ row.score = IF row.verdict = "Accepted" THEN read[q] ELSE 0
  /\ row.verdict = "Accepted" => row.passedCount = row.totalCount
  /\ row.failed # None =>
       /\ row.verdict \in Contract!TestFailures
       /\ row.failed.index = row.passedCount + 1

PendingRow(q) == Row("Pending", 0, Len(cases[q]), 0, None, 0)

\* What a handler has read, at each place.
HasRead(q) ==
  /\ at[q] \notin {"start", "answered", "lost"} => read[q] \in Points
  /\ at[q] \notin {"start", "findTests", "answered", "lost"} => cases[q] # << >>
  /\ q \in Trials => \A i \in DOMAIN cases[q] : cases[q][i]

\* Its result, and its document so far.
HasStored(q) ==
  /\ at[q] \in {"create", "busy", "save"} => q \in Submits
  /\ at[q] = "save" => result[q] \in Contract!Outcomes(Len(cases[q]))
  /\ at[q] # "save" => result[q] = None
  /\ at[q] \in {"start", "findTests", "create"} \/ q \in Trials => stored[q] = None
  /\ at[q] \in {"run", "judging", "busy", "save"} /\ q \in Submits =>
       stored[q] = PendingRow(q)
  /\ stored[q] # None => Coherent(q, stored[q]) /\ Fit(q, stored[q])

\* Its answer agrees with its document.
HasAnswered(q) ==
  /\ at[q] # "answered" => answer[q] = None
  /\ answer[q] # None =>
       /\ answer[q].body # None => Fit(q, answer[q].body)
       /\ q \in Submits =>
            /\ answer[q].code = 200 => stored[q] = answer[q].body
            /\ answer[q].code # 200 => stored[q] = None \/ stored[q] = PendingRow(q)

OnlyJudging(q) == status[q] # "outside" => at[q] = "judging"

HandlerInv(q) == HasRead(q) /\ HasStored(q) /\ HasAnswered(q) /\ OnlyJudging(q)

IInv == SP!IInv /\ Types /\ \A q \in Requests : HandlerInv(q)

-----------------------------------------------------------------------------
(* The semaphore.                                                          *)

LEMMA Limits == MaxConcurrentExecutions \in Nat \ {0} /\ MaxQueueLength \in Nat
BY JudgeAssumption

LEMMA SlotsInit == SP!Init => SP!IInv
BY Limits, SP!InitIInv

\* The semaphore of a process that starts again.
LEMMA SlotsRestart == SP!Init' => SP!IInv'
BY SlotsInit, PTL

LEMMA SlotsStay ==
  ASSUME SP!IInv, UNCHANGED slotVars
  PROVE  SP!IInv' /\ status' = status
<1>1. UNCHANGED SP!vars
  BY DEF slotVars, SP!vars
<1> QED BY <1>1, Limits, SP!NextIInv DEF slotVars

\* The two instances of ExecutionSlots are the same.
LEMMA SameCalls ==
  ASSUME NEW q \in Requests
  PROVE  /\ Slots!Acquire(q) => SP!Acquire(q)
         /\ Slots!Dequeue(q) => SP!Dequeue(q)
         /\ Slots!ThrowBusy(q) => SP!ThrowBusy(q)
         /\ Slots!Release(q) => SP!Release(q)
BY DEF Slots!Acquire, SP!Acquire, Slots!AcquireFree, SP!AcquireFree,
       Slots!AcquireRefused, SP!AcquireRefused, Slots!AcquireQueued, SP!AcquireQueued,
       Slots!Dequeue, SP!Dequeue, Slots!ThrowBusy, SP!ThrowBusy, Slots!Release, SP!Release,
       Slots!HandOff, SP!HandOff, Slots!GiveBack, SP!GiveBack, Slots!Becomes, SP!Becomes

\* What a call of the semaphore does to its invariant and to the requests.
LEMMA SlotsStep ==
  ASSUME SP!IInv, NEW q \in Requests,
         Slots!Acquire(q) \/ Slots!Dequeue(q) \/ Slots!ThrowBusy(q) \/ Slots!Release(q)
  PROVE  /\ SP!IInv'
         /\ \A p \in Requests \ {q} : status[p] = "outside" => status'[p] = "outside"
         /\ Slots!Dequeue(q) => status[q] # "outside"
         /\ Slots!ThrowBusy(q) => status[q] # "outside" /\ status'[q] = "outside"
         /\ Slots!Release(q) => status'[q] = "outside"
<1>1. /\ Slots!Acquire(q) => SP!Acquire(q)
      /\ Slots!Dequeue(q) => SP!Dequeue(q)
      /\ Slots!ThrowBusy(q) => SP!ThrowBusy(q)
      /\ Slots!Release(q) => SP!Release(q)
  BY SameCalls
<1>2. SP!IInv'
  BY <1>1, Limits, SP!NextIInv DEF SP!Next
<1>3. status \in [Requests -> SP!Statuses]
  BY DEF SP!IInv, SP!TypeOK
<1>4. SP!Acquire(q) =>
        \A p \in Requests \ {q} : status'[p] = status[p]
  BY <1>3 DEF SP!Acquire, SP!AcquireFree, SP!AcquireRefused, SP!AcquireQueued, SP!Becomes
<1>5. SP!Dequeue(q) \/ SP!ThrowBusy(q) =>
        /\ status[q] # "outside" /\ (SP!ThrowBusy(q) => status'[q] = "outside")
        /\ \A p \in Requests \ {q} : status'[p] = status[p]
  BY <1>3 DEF SP!Dequeue, SP!ThrowBusy, SP!Becomes
<1>6. SP!GiveBack(q) =>
        /\ status'[q] = "outside"
        /\ \A p \in Requests \ {q} : status'[p] = status[p]
  BY <1>3 DEF SP!GiveBack, SP!Becomes
<1>7. ASSUME SP!HandOff(q)
      PROVE  /\ status'[q] = "outside"
             /\ \A p \in Requests \ {q} : status[p] = "outside" => status'[p] = "outside"
  <2>1. Head(waiters) \in Requests /\ status[Head(waiters)] = "waiting"
    BY <1>7, Limits, SP!HeadOfQueue DEF SP!HandOff
  <2> QED BY <1>3, <1>7, <2>1 DEF SP!HandOff
<1>8. SP!Release(q) =>
        /\ status'[q] = "outside"
        /\ \A p \in Requests \ {q} : status[p] = "outside" => status'[p] = "outside"
  BY <1>6, <1>7 DEF SP!Release
<1> QED BY <1>1, <1>2, <1>4, <1>5, <1>8

-----------------------------------------------------------------------------
(* Outcomes and rows.                                                      *)

LEMMA OutcomeCases ==
  ASSUME NEW n
  PROVE  \A o \in Contract!Outcomes(n) :
           \/ o = Contract!Outcome("Accepted", n, n, 0)
           \/ o = Contract!Outcome("Compilation Error", 0, n, 0)
           \/ \E v \in Contract!TestFailures, p \in 0 .. n - 1 : o = Contract!Outcome(v, p, n, p + 1)
<1> DEFINE AtTests == {Contract!Outcome(v, p, n, p + 1) : v \in Contract!TestFailures, p \in 0 .. n - 1}
           Others == {Contract!Outcome("Accepted", n, n, 0), Contract!Outcome("Compilation Error", 0, n, 0)}
<1>1. Contract!Outcomes(n) = Others \cup AtTests
  BY DEF Contract!Outcomes
<1>2. \A o \in AtTests :
        \E v \in Contract!TestFailures, p \in 0 .. n - 1 : o = Contract!Outcome(v, p, n, p + 1)
  OBVIOUS
<1> HIDE DEF AtTests
<1> QED BY <1>1, <1>2

LEMMA OutcomeFacts ==
  ASSUME NEW n \in 1 .. MaxTests, NEW o \in Contract!Outcomes(n)
  PROVE  /\ o.verdict \in Verdicts
         /\ o.passedCount \in 0 .. n /\ o.totalCount = n /\ o.failed \in 0 .. n
         /\ o.verdict = "Accepted" => o.passedCount = n
         /\ o.failed # 0 => o.verdict \in Contract!TestFailures /\ o.failed = o.passedCount + 1
<1>0. 0 \in 0 .. n /\ n \in 0 .. n /\ \A p \in 0 .. n - 1 : p \in 0 .. n /\ p + 1 \in 0 .. n
  BY JudgeAssumption
<1>1. \/ o = Contract!Outcome("Accepted", n, n, 0)
      \/ o = Contract!Outcome("Compilation Error", 0, n, 0)
      \/ \E v \in Contract!TestFailures, p \in 0 .. n - 1 : o = Contract!Outcome(v, p, n, p + 1)
  BY OutcomeCases
<1>3. ASSUME NEW v, NEW p, NEW f, o = Contract!Outcome(v, p, n, f)
      PROVE  o.verdict = v /\ o.passedCount = p /\ o.totalCount = n /\ o.failed = f
  BY <1>3 DEF Contract!Outcome
<1>4. CASE \E v \in Contract!TestFailures, p \in 0 .. n - 1 : o = Contract!Outcome(v, p, n, p + 1)
  <2>1. PICK v \in Contract!TestFailures, p \in 0 .. n - 1 : o = Contract!Outcome(v, p, n, p + 1)
    BY <1>4
  <2>2. o.verdict = v /\ o.passedCount = p /\ o.totalCount = n /\ o.failed = p + 1
    BY <1>3, <2>1
  <2>3. v \in Verdicts /\ v # "Accepted"
    BY DEF Contract!TestFailures, Verdicts
  <2> QED BY <1>0, <2>2, <2>3
<1>5. CASE o = Contract!Outcome("Accepted", n, n, 0)
  BY <1>0, <1>3, <1>5 DEF Verdicts
<1>6. CASE o = Contract!Outcome("Compilation Error", 0, n, 0)
  <2>1. o.verdict = "Compilation Error" /\ o.passedCount = 0 /\ o.totalCount = n /\ o.failed = 0
    BY <1>3, <1>6
  <2> QED BY <1>0, <2>1 DEF Verdicts
<1> QED BY <1>1, <1>4, <1>5, <1>6

\* The samples of a list of test cases.
LEMMA SamplesFacts ==
  ASSUME NEW s \in Lists
  PROVE  Samples(s) \in Lists /\ \A i \in DOMAIN Samples(s) : Samples(s)[i]
<1> DEFINE Chosen == {j \in DOMAIN s : s[j]}
<1>1. s \in Seq(BOOLEAN) /\ DOMAIN s = 1 .. Len(s) /\ Len(s) \in Nat /\ Len(s) <= MaxTests
  BY DEF Lists
<1>2. IsFiniteSet(1 .. Len(s)) /\ Cardinality(1 .. Len(s)) = Len(s)
  BY <1>1, FS_Interval
<1>3. Chosen \in SUBSET (1 .. Len(s))
  BY <1>1
<1> HIDE DEF Chosen
<1>4. Cardinality(Chosen) \in Nat /\ Cardinality(Chosen) <= Len(s)
  BY <1>2, <1>3, FS_Subset, FS_CardinalityType
<1>5. PICK n \in Nat : n = Cardinality(Chosen)
  BY <1>4
<1>6. Samples(s) = [i \in 1 .. n |-> TRUE]
  BY <1>5 DEF Samples, Chosen
<1>7. Samples(s) \in Seq(BOOLEAN) /\ Len(Samples(s)) = n
  <2>1. \A i \in 1 .. n : TRUE \in BOOLEAN
    OBVIOUS
  <2>2. [i \in 1 .. n |-> TRUE] \in [1 .. n -> BOOLEAN]
    OBVIOUS
  <2> QED BY <1>6, <2>2
<1>8. \A i \in DOMAIN Samples(s) : Samples(s)[i]
  BY <1>6
<1>9. n <= MaxTests
  BY <1>1, <1>4, <1>5, JudgeAssumption
<1> QED BY <1>7, <1>8, <1>9 DEF Lists

LEMMA LengthOfCases ==
  ASSUME NEW s \in Lists
  PROVE  /\ s \in Seq(BOOLEAN) /\ Len(s) \in 0 .. MaxTests /\ DOMAIN s = 1 .. Len(s)
         /\ s # << >> => Len(s) \in 1 .. MaxTests
BY JudgeAssumption DEF Lists

LEMMA PendingFacts ==
  ASSUME NEW q \in Requests, cases[q] \in Lists
  PROVE  /\ PendingRow(q) \in Rows /\ PendingRow(q).verdict = "Pending"
         /\ Coherent(q, PendingRow(q)) /\ Fit(q, PendingRow(q))
<1>1. Len(cases[q]) \in 0 .. MaxTests /\ 0 \in 0 .. MaxTests
  BY LengthOfCases, JudgeAssumption
<1>2. "Pending" \in Verdicts /\ None \in FailedDetails
  BY DEF Verdicts, FailedDetails
<1>3. /\ PendingRow(q).verdict = "Pending" /\ PendingRow(q).totalCount = Len(cases[q])
      /\ PendingRow(q).score = 0 /\ PendingRow(q).failed = None /\ PendingRow(q).error = 0
  BY DEF PendingRow, Row
<1>4. PendingRow(q) \in Rows
  BY <1>1, <1>2 DEF PendingRow, Row, Rows
<1> QED BY <1>3, <1>4 DEF Coherent, Fit, Quotes

LEMMA DetailsAreSome ==
  ASSUME NEW d \in [index : 1 .. MaxTests, isSample : BOOLEAN, detailed : BOOLEAN]
  PROVE  d # None /\ d \in FailedDetails
<1>1. 1 .. MaxTests \subseteq Nat
  BY JudgeAssumption
<1>2. d \in [index : Nat, isSample : BOOLEAN, detailed : BOOLEAN]
  BY <1>1
<1> QED BY <1>2, JudgeAssumption DEF FailedDetails

\* What the executor says of a failing test case, and what is left of it.
LEMMA FailedFacts ==
  ASSUME NEW q \in Requests, cases[q] \in Lists, cases[q] # << >>,
         NEW o \in Contract!Outcomes(Len(cases[q]))
  PROVE  LET f == FailedTestCase(q, o)
             g == redactFailedTestCase(f)
         IN
         /\ f \in FailedDetails
         /\ f # None => f.isSample = cases[q][o.failed] /\ f.index = o.failed /\ o.failed # 0
         /\ o.failed # 0 => f # None /\ g # None
         /\ g \in FailedDetails
         /\ g # None =>
              /\ g.index = o.failed /\ o.failed # 0
              /\ g.detailed => cases[q][o.failed]
<1> DEFINE f == FailedTestCase(q, o)
           g == redactFailedTestCase(f)
<1>1. Len(cases[q]) \in 1 .. MaxTests /\ DOMAIN cases[q] = 1 .. Len(cases[q]) /\ cases[q] \in Seq(BOOLEAN)
  BY LengthOfCases
<1>2. o.failed \in 0 .. Len(cases[q])
  BY <1>1, OutcomeFacts
<1>3. CASE o.failed = 0
  <2>1. f = None /\ g = None
    BY <1>3 DEF FailedTestCase, redactFailedTestCase
  <2> QED BY <1>3, <2>1 DEF FailedDetails
<1>4. CASE o.failed # 0
  <2>1. o.failed \in 1 .. MaxTests /\ cases[q][o.failed] \in BOOLEAN
    BY <1>1, <1>2, <1>4, JudgeAssumption
  <2>2. f = [index |-> o.failed, isSample |-> cases[q][o.failed], detailed |-> TRUE]
    BY <1>4 DEF FailedTestCase
  <2> HIDE DEF f
  <2>3. /\ f.index = o.failed /\ f.isSample = cases[q][o.failed] /\ f \in FailedDetails
        /\ f # None
    BY <2>1, <2>2, DetailsAreSome
  <2>4. CASE f = None \/ f.isSample
    BY <1>4, <2>3, <2>4 DEF redactFailedTestCase, f
  <2>5. CASE ~(f = None \/ f.isSample)
    <3>1. g = [index |-> o.failed, isSample |-> cases[q][o.failed], detailed |-> FALSE]
      BY <2>2, <2>5 DEF redactFailedTestCase
    <3> HIDE DEF g
    <3>2. g.index = o.failed /\ ~g.detailed /\ g \in FailedDetails /\ g # None
      BY <2>1, <3>1, DetailsAreSome
    <3> QED BY <1>4, <2>3, <3>2 DEF f, g
  <2> QED BY <2>4, <2>5 DEF f
<1> QED BY <1>3, <1>4

Errors == 0 .. MaxTests

\* What errorMessage quotes: nothing, or the run on the failing test case.
LEMMA ErrorFacts ==
  ASSUME NEW n \in 1 .. MaxTests, NEW o \in Contract!Outcomes(n)
  PROVE  /\ ErrorMessage(o) \in Errors
         /\ ErrorMessage(o) # 0 =>
              o.verdict = "Runtime Error" /\ o.failed # 0 /\ ErrorMessage(o) = o.failed
<1>1. o.failed \in 0 .. n
  BY OutcomeFacts
<1>2. 0 \in 0 .. MaxTests /\ o.failed \in 0 .. MaxTests
  BY <1>1, JudgeAssumption
<1> QED BY <1>2 DEF ErrorMessage, Errors

LEMMA RowOfOutcome ==
  ASSUME NEW q \in Requests, cases[q] \in Lists, cases[q] # << >>,
         NEW o \in Contract!Outcomes(Len(cases[q])), NEW s \in Points \cup {0},
         NEW g \in FailedDetails, NEW e \in Errors
  PROVE  LET row == Row(o.verdict, o.passedCount, o.totalCount, s, g, e) IN
         /\ row \in Rows
         /\ row.verdict = o.verdict /\ row.passedCount = o.passedCount
         /\ row.totalCount = Len(cases[q]) /\ row.score = s /\ row.failed = g /\ row.error = e
<1>1. Len(cases[q]) \in 1 .. MaxTests
  BY LengthOfCases
<1>2. /\ o.verdict \in Verdicts /\ o.passedCount \in 0 .. Len(cases[q])
      /\ o.totalCount = Len(cases[q])
  BY <1>1, OutcomeFacts
<1>3. o.passedCount \in 0 .. MaxTests /\ o.totalCount \in 0 .. MaxTests
  BY <1>1, <1>2, JudgeAssumption
<1> QED BY <1>2, <1>3 DEF Row, Rows, Errors

\* The row that submitCode saves and sends.
LEMMA JudgedFacts ==
  ASSUME NEW q \in Requests, cases[q] \in Lists, cases[q] # << >>, read[q] \in Points,
         result[q] \in Contract!Outcomes(Len(cases[q]))
  PROVE  Judged(q) \in Rows /\ Coherent(q, Judged(q)) /\ Fit(q, Judged(q))
<1> DEFINE o == result[q]
           g == redactFailedTestCase(FailedTestCase(q, o))
           e == ErrorMessage(o)
<1>0. Len(cases[q]) \in 1 .. MaxTests
  BY LengthOfCases
<1>1. score(q) \in Points \cup {0}
  BY DEF score
<1>2. /\ g \in FailedDetails
      /\ o.failed # 0 => g # None
      /\ g # None =>
           /\ g.index = o.failed /\ o.failed # 0
           /\ g.detailed => cases[q][o.failed]
  BY FailedFacts
<1>e. e \in Errors /\ (e # 0 => o.verdict = "Runtime Error" /\ o.failed # 0 /\ e = o.failed)
  BY <1>0, ErrorFacts
<1>3. Judged(q) = Row(o.verdict, o.passedCount, o.totalCount, score(q), g, e)
  BY DEF Judged
<1> HIDE DEF g, e
<1>4. /\ Judged(q) \in Rows
      /\ Judged(q).verdict = o.verdict /\ Judged(q).passedCount = o.passedCount
      /\ Judged(q).totalCount = Len(cases[q]) /\ Judged(q).score = score(q)
      /\ Judged(q).failed = g /\ Judged(q).error = e
  <2>1. g \in FailedDetails /\ e \in Errors /\ o \in Contract!Outcomes(Len(cases[q]))
    BY <1>2, <1>e
  <2> HIDE DEF o
  <2> QED BY <2>1, <1>1, <1>3, RowOfOutcome
<1>6. /\ o.verdict = "Accepted" => o.passedCount = Len(cases[q])
      /\ o.failed # 0 => o.verdict \in Contract!TestFailures /\ o.failed = o.passedCount + 1
  BY <1>0, OutcomeFacts
<1> HIDE DEF o
<1>7. Fit(q, Judged(q))
  BY <1>2, <1>e, <1>4 DEF Fit, Quotes
<1>8. score(q) = IF o.verdict = "Accepted" THEN read[q] ELSE 0
  BY DEF score, o
<1> QED BY <1>2, <1>4, <1>6, <1>7, <1>8 DEF Coherent

\* The row that runCode sends: of samples, so with nothing to hide.
LEMMA TrialFacts ==
  ASSUME NEW q \in Requests, cases[q] \in Lists, cases[q] # << >>,
         \A i \in DOMAIN cases[q] : cases[q][i],
         NEW o \in Contract!Outcomes(Len(cases[q]))
  PROVE  LET row == Row(o.verdict, o.passedCount, o.totalCount, 0, FailedTestCase(q, o),
                        ErrorMessage(o)) IN
         row \in Rows /\ Fit(q, row)
<1> DEFINE f == FailedTestCase(q, o)
           e == ErrorMessage(o)
           row == Row(o.verdict, o.passedCount, o.totalCount, 0, f, e)
<1>1. /\ f \in FailedDetails /\ (f # None => f.index = o.failed /\ o.failed # 0)
      /\ o.failed # 0 => f # None
  BY FailedFacts
<1>e. e \in Errors /\ (e # 0 => o.verdict = "Runtime Error" /\ o.failed # 0 /\ e = o.failed)
  BY LengthOfCases, ErrorFacts
<1> HIDE DEF f, e
<1>2. row \in Rows /\ row.failed = f /\ row.error = e /\ row.verdict = o.verdict
  <2>1. PICK s \in Points \cup {0} : s = 0
    OBVIOUS
  <2>2. LET r == Row(o.verdict, o.passedCount, o.totalCount, s, f, e) IN
        r \in Rows /\ r.failed = f /\ r.error = e /\ r.verdict = o.verdict
    <3>1. f \in FailedDetails /\ e \in Errors
      BY <1>1, <1>e
    <3> QED BY <3>1, RowOfOutcome
  <2> QED BY <2>1, <2>2
<1>3. Len(cases[q]) \in 1 .. MaxTests /\ DOMAIN cases[q] = 1 .. Len(cases[q])
  BY LengthOfCases
<1>4. o.failed \in 0 .. Len(cases[q])
  BY <1>3, OutcomeFacts
<1>5. o.failed # 0 => o.failed \in DOMAIN cases[q]
  BY <1>3, <1>4
<1> HIDE DEF row
<1>6. Fit(q, row)
  BY <1>1, <1>2, <1>e, <1>5 DEF Fit, Quotes
<1> QED BY <1>2, <1>6 DEF row, f, e

-----------------------------------------------------------------------------
(* A step of one request leaves the others alone.                          *)

Same(q) ==
  /\ at'[q] = at[q] /\ read'[q] = read[q] /\ cases'[q] = cases[q]
  /\ result'[q] = result[q] /\ stored'[q] = stored[q] /\ answer'[q] = answer[q]

Has(q) == HasRead(q) /\ HasStored(q) /\ HasAnswered(q)

LEMMA SameKeeps ==
  ASSUME NEW q \in Requests, HandlerInv(q), Same(q),
         status[q] = "outside" => status'[q] = "outside"
  PROVE  HandlerInv(q)'
<1> USE DEF Same
<1>1. HasRead(q)'
  BY DEF HandlerInv, HasRead
<1>2. HasStored(q)'
  BY DEF HandlerInv, HasStored, PendingRow, Coherent, Fit
<1>3. HasAnswered(q)'
  BY DEF HandlerInv, HasAnswered, PendingRow, Fit
<1>4. OnlyJudging(q)'
  BY DEF HandlerInv, OnlyJudging
<1> QED BY <1>1, <1>2, <1>3, <1>4 DEF HandlerInv

\* A step of a handler that calls nothing of the semaphore.
LEMMA PlainStep ==
  ASSUME IInv, NEW q \in Requests, at[q] # "judging", UNCHANGED slotVars, Types', Has(q)',
         \A p \in Requests \ {q} : Same(p)
  PROVE  IInv'
<1>1. SP!IInv' /\ status' = status
  BY SlotsStay DEF IInv
<1>2. status[q] = "outside"
  BY DEF IInv, HandlerInv, OnlyJudging
<1>3. HandlerInv(q)'
  BY <1>1, <1>2 DEF HandlerInv, OnlyJudging, Has
<1> QED BY <1>1, <1>3, SameKeeps DEF IInv

\* One that calls the semaphore.
LEMMA SlotStep ==
  ASSUME IInv, NEW q \in Requests,
         Slots!Acquire(q) \/ Slots!Dequeue(q) \/ Slots!ThrowBusy(q) \/ Slots!Release(q),
         Types', Has(q)', OnlyJudging(q)', \A p \in Requests \ {q} : Same(p)
  PROVE  IInv'
<1>1. SP!IInv' /\ \A p \in Requests \ {q} : status[p] = "outside" => status'[p] = "outside"
  BY SlotsStep DEF IInv
<1>2. HandlerInv(q)'
  BY DEF HandlerInv, Has
<1> QED BY <1>1, <1>2, SameKeeps DEF IInv

\* The result is a local of the handler: gone with its answer.
Forgets(q) ==
  \/ result' = [result EXCEPT ![q] = None]
  \/ result' = result /\ at[q] # "save"

\* A response other than 200 ends a handler with nothing said of a verdict.
LEMMA RefusalHas ==
  ASSUME IInv, NEW q \in Requests, at[q] \notin {"answered", "lost"},
         NEW code \in {400, 404, 500, 503}, Respond(q, code, None),
         Forgets(q),
         UNCHANGED <<problemVars, crashes, read, cases, stored>>
  PROVE  /\ Types' /\ Has(q)' /\ at'[q] = "answered"
         /\ \A p \in Requests \ {q} : Same(p)
<1>1. Types /\ HasRead(q) /\ HasStored(q) /\ HasAnswered(q) /\ UNCHANGED <<points, tests, edits>>
  BY DEF IInv, HandlerInv, problemVars
<1>2. at' = [at EXCEPT ![q] = "answered"] /\ answer' = [answer EXCEPT ![q] = Reply(code, None)]
  BY DEF Respond, Goto
<1>3. Reply(code, None) \in Replies
  BY DEF Reply, Replies
<1>4. Types'
  BY <1>1, <1>2, <1>3 DEF Types, Places, Forgets
<1>5. \A p \in Requests \ {q} : Same(p)
  BY <1>1, <1>2 DEF Types, Same, Forgets
<1>6. at'[q] = "answered" /\ answer'[q] = Reply(code, None) /\ result'[q] = None
  BY <1>1, <1>2 DEF Types, HasStored, Forgets
<1>7. stored[q] = None \/ stored[q] = PendingRow(q)
  BY <1>1 DEF Types, Places, HasStored, Requests
<1>8. HasRead(q)'
  BY <1>1, <1>6 DEF HasRead
<1>9. HasStored(q)'
  BY <1>1, <1>6 DEF HasStored, Coherent, Fit
<1>10. HasAnswered(q)'
  <2>1. answer'[q].body = None /\ answer'[q].code # 200
    BY <1>6 DEF Reply
  <2> QED BY <1>6, <1>7, <2>1 DEF HasAnswered, PendingRow
<1> QED BY <1>4, <1>5, <1>6, <1>8, <1>9, <1>10 DEF Has

-----------------------------------------------------------------------------
(* One lemma per step of the handlers.                                     *)

LEMMA RejectInputIInv ==
  ASSUME IInv, NEW q \in Requests, RejectInput(q)
  PROVE  IInv'
<1>1. at[q] = "start" /\ Respond(q, 400, None)
      /\ UNCHANGED <<slotVars, problemVars, crashes, read, cases, result, stored>>
  BY DEF RejectInput
<1>2. Types' /\ Has(q)' /\ \A p \in Requests \ {q} : Same(p)
  BY <1>1, RefusalHas DEF Forgets
<1> QED BY <1>1, <1>2, PlainStep

LEMMA FindProblemIInv ==
  ASSUME IInv, NEW q \in Requests, FindProblem(q)
  PROVE  IInv'
<1>1. at[q] = "start" /\ UNCHANGED <<slotVars, problemVars, crashes, cases, result, stored>>
  BY DEF FindProblem
<1>2. CASE UNCHANGED read /\ \E code \in {404, 500} : Respond(q, code, None)
  <2>1. Types' /\ Has(q)' /\ \A p \in Requests \ {q} : Same(p)
    BY <1>1, <1>2, RefusalHas DEF Forgets
  <2> QED BY <1>1, <2>1, PlainStep
<1>3. CASE /\ points # None /\ read' = [read EXCEPT ![q] = points]
           /\ at' = [at EXCEPT ![q] = "findTests"] /\ UNCHANGED answer
  <2>1. Types /\ HasRead(q) /\ HasStored(q) /\ HasAnswered(q) /\ UNCHANGED <<points, tests, edits>>
    BY <1>1 DEF IInv, HandlerInv, problemVars
  <2>2. Types' /\ \A p \in Requests \ {q} : Same(p)
    BY <1>1, <1>3, <2>1 DEF Types, Places, Same
  <2>3. at'[q] = "findTests" /\ read'[q] \in Points
    BY <1>3, <2>1 DEF Types
  <2>4. Has(q)'
    BY <1>1, <1>3, <2>1, <2>3 DEF Has, HasRead, HasStored, HasAnswered
  <2> QED BY <1>1, <2>2, <2>4, PlainStep
<1> QED BY <1>2, <1>3 DEF FindProblem, Fail, Goto

LEMMA FindTestsIInv ==
  ASSUME IInv, NEW q \in Requests, FindTests(q)
  PROVE  IInv'
<1> DEFINE found == IF q \in Submits THEN tests ELSE Samples(tests)
           next == IF q \in Submits THEN "create" ELSE "run"
<1>1. at[q] = "findTests" /\ UNCHANGED <<slotVars, problemVars, crashes, read, result, stored>>
  BY DEF FindTests
<1>2. CASE UNCHANGED cases /\ \E code \in {400, 500} : Respond(q, code, None)
  <2>1. Types' /\ Has(q)' /\ \A p \in Requests \ {q} : Same(p)
    BY <1>1, <1>2, RefusalHas DEF Forgets
  <2> QED BY <1>1, <2>1, PlainStep
<1>3. CASE /\ found # << >> /\ cases' = [cases EXCEPT ![q] = found]
           /\ at' = [at EXCEPT ![q] = next] /\ UNCHANGED answer
  <2>1. Types /\ HasRead(q) /\ HasStored(q) /\ HasAnswered(q) /\ UNCHANGED <<points, tests, edits>>
    BY <1>1 DEF IInv, HandlerInv, problemVars
  <2>2. found \in Lists /\ (q \in Trials => \A i \in DOMAIN found : found[i])
    BY <2>1, SamplesFacts, JudgeAssumption DEF Types
  <2>3. next \in Places /\ next \in {"create", "run"} /\ (next = "create" <=> q \in Submits)
    BY DEF Places
  <2>4. q \in Submits \/ q \in Trials
    BY DEF Requests
  <2> HIDE DEF found, next
  <2>5. Types' /\ \A p \in Requests \ {q} : Same(p)
    BY <1>1, <1>3, <2>1, <2>2, <2>3 DEF Types, Same
  <2>6. at'[q] = next /\ cases'[q] = found
    BY <1>3, <2>1 DEF Types
  <2>7. Has(q)'
    BY <1>1, <1>3, <2>1, <2>2, <2>3, <2>4, <2>6, JudgeAssumption
       DEF Has, HasRead, HasStored, HasAnswered
  <2> QED BY <1>1, <2>5, <2>7, PlainStep
<1> QED BY <1>2, <1>3 DEF FindTests, Fail, Goto

LEMMA CreateSubmissionIInv ==
  ASSUME IInv, NEW q \in Requests, CreateSubmission(q)
  PROVE  IInv'
<1>1. at[q] = "create" /\ UNCHANGED <<slotVars, problemVars, crashes, read, cases, result>>
  BY DEF CreateSubmission
<1>2. CASE UNCHANGED stored /\ Respond(q, 500, None)
  <2>1. Types' /\ Has(q)' /\ \A p \in Requests \ {q} : Same(p)
    BY <1>1, <1>2, RefusalHas DEF Forgets
  <2> QED BY <1>1, <2>1, PlainStep
<1>3. CASE /\ stored' = [stored EXCEPT ![q] = PendingRow(q)]
           /\ at' = [at EXCEPT ![q] = "run"] /\ UNCHANGED answer
  <2>1. Types /\ HasRead(q) /\ HasStored(q) /\ HasAnswered(q) /\ UNCHANGED <<points, tests, edits>>
    BY <1>1 DEF IInv, HandlerInv, problemVars
  <2>2. PendingRow(q) \in Rows /\ Coherent(q, PendingRow(q)) /\ Fit(q, PendingRow(q))
    BY <2>1, PendingFacts DEF Types
  <2>3. Types' /\ \A p \in Requests \ {q} : Same(p)
    BY <1>1, <1>3, <2>1, <2>2 DEF Types, Places, Same
  <2>4. at'[q] = "run" /\ stored'[q] = PendingRow(q) /\ UNCHANGED <<read, cases, result, answer>>
    BY <1>1, <1>3, <2>1 DEF Types
  <2>5. q \in Submits /\ q \notin Trials
    BY <1>1, <2>1, JudgeAssumption DEF HasStored
  <2>6. HasRead(q)'
    BY <1>1, <2>1, <2>4 DEF HasRead
  <2>7. HasStored(q)'
    BY <1>1, <2>1, <2>2, <2>4, <2>5 DEF HasStored, PendingRow, Coherent, Fit
  <2>8. HasAnswered(q)'
    BY <1>1, <2>1, <2>4 DEF HasAnswered
  <2> QED BY <1>1, <2>3, <2>6, <2>7, <2>8, PlainStep DEF Has
<1> QED BY <1>2, <1>3 DEF CreateSubmission, Fail, Goto, PendingRow

LEMMA RunSubmissionIInv ==
  ASSUME IInv, NEW q \in Requests, RunSubmission(q)
  PROVE  IInv'
<1>1. /\ at[q] = "run" /\ at' = [at EXCEPT ![q] = "judging"] /\ Slots!Acquire(q)
      /\ UNCHANGED <<problemVars, crashes, read, cases, result, stored, answer>>
  BY DEF RunSubmission, Goto
<1>2. Types /\ HasRead(q) /\ HasStored(q) /\ HasAnswered(q) /\ UNCHANGED <<points, tests, edits>>
  BY <1>1 DEF IInv, HandlerInv, problemVars
<1>3. Types' /\ at'[q] = "judging" /\ \A p \in Requests \ {q} : Same(p)
  BY <1>1, <1>2 DEF Types, Places, Same
<1>4. HasRead(q)' /\ HasAnswered(q)' /\ OnlyJudging(q)'
  BY <1>1, <1>2, <1>3 DEF HasRead, HasAnswered, OnlyJudging
<1>5. HasStored(q)'
  BY <1>1, <1>2, <1>3 DEF HasStored, PendingRow, Coherent, Fit
<1> QED BY <1>1, <1>3, <1>4, <1>5, SlotStep DEF Has

LEMMA GetSlotIInv ==
  ASSUME IInv, NEW q \in Requests, GetSlot(q)
  PROVE  IInv'
<1>1. Slots!Dequeue(q) /\ UNCHANGED <<problemVars, crashes, requestVars>>
  BY DEF GetSlot
<1>2. status[q] # "outside" /\ \A p \in Requests : Same(p)
  BY <1>1, SlotsStep DEF IInv, Same, requestVars
<1>3. at[q] = "judging" /\ UNCHANGED <<at, read, cases, result, stored, answer, points, tests, edits>>
  BY <1>1, <1>2 DEF IInv, HandlerInv, OnlyJudging, requestVars, problemVars
<1>4. Types'
  BY <1>1, <1>3 DEF IInv, Types
<1>5. HasRead(q)' /\ HasAnswered(q)' /\ OnlyJudging(q)'
  BY <1>3 DEF IInv, HandlerInv, HasRead, HasAnswered, OnlyJudging, PendingRow, Fit
<1>6. HasStored(q)'
  BY <1>3 DEF IInv, HandlerInv, HasStored, PendingRow, Coherent, Fit
<1> QED BY <1>1, <1>2, <1>4, <1>5, <1>6, SlotStep DEF Has

LEMMA CatchBusyIInv ==
  ASSUME IInv, NEW q \in Requests, CatchBusy(q)
  PROVE  IInv'
<1>1. Slots!ThrowBusy(q) /\ UNCHANGED <<problemVars, crashes, read, cases, result, stored>>
  BY DEF CatchBusy
<1>2. status[q] # "outside" /\ status'[q] = "outside"
  BY <1>1, SlotsStep DEF IInv
<1>3. Types /\ HasRead(q) /\ HasStored(q) /\ HasAnswered(q) /\ at[q] = "judging"
  BY <1>2 DEF IInv, HandlerInv, OnlyJudging
<1>4. OnlyJudging(q)'
  BY <1>2 DEF OnlyJudging
<1>5. CASE q \in Submits
  <2>1. at' = [at EXCEPT ![q] = "busy"] /\ UNCHANGED answer /\ UNCHANGED <<points, tests, edits>>
    BY <1>1, <1>5 DEF CatchBusy, Goto, problemVars
  <2>2. Types' /\ at'[q] = "busy" /\ \A p \in Requests \ {q} : Same(p)
    BY <1>1, <1>3, <2>1 DEF Types, Places, Same
  <2>3. HasRead(q)' /\ HasAnswered(q)'
    BY <1>1, <1>3, <2>1, <2>2 DEF HasRead, HasAnswered
  <2>4. HasStored(q)'
    BY <1>1, <1>3, <1>5, <2>1, <2>2 DEF HasStored, PendingRow, Coherent, Fit
  <2> QED BY <1>1, <1>4, <2>2, <2>3, <2>4, SlotStep DEF Has
<1>6. CASE q \notin Submits
  <2>1. Respond(q, 503, None)
    BY <1>6 DEF CatchBusy
  <2>2. Types' /\ Has(q)' /\ \A p \in Requests \ {q} : Same(p)
    BY <1>1, <1>3, <2>1, RefusalHas DEF Forgets
  <2> QED BY <1>1, <1>4, <2>2, SlotStep
<1> QED BY <1>5, <1>6

LEMMA SaveBusyIInv ==
  ASSUME IInv, NEW q \in Requests, SaveBusy(q)
  PROVE  IInv'
<1>1. /\ at[q] = "busy" /\ (\E code \in {500, 503} : Respond(q, code, None))
      /\ UNCHANGED <<slotVars, problemVars, crashes, read, cases, result>>
  BY DEF SaveBusy, Fail
<1>2. UNCHANGED stored
  <2>1. stored \in [Requests -> {None} \cup Rows] /\ stored[q] = PendingRow(q)
    BY <1>1 DEF IInv, HandlerInv, Types, HasStored
  <2>2. [PendingRow(q) EXCEPT !.verdict = "Pending"] = PendingRow(q)
    BY DEF PendingRow, Row
  <2>3. [stored EXCEPT ![q].verdict = "Pending"] = stored
    BY <2>1, <2>2
  <2> QED BY <2>3 DEF SaveBusy
<1>3. Types' /\ Has(q)' /\ \A p \in Requests \ {q} : Same(p)
  BY <1>1, <1>2, RefusalHas DEF Forgets
<1> QED BY <1>1, <1>3, PlainStep

LEMMA ExecutionEndsIInv ==
  ASSUME IInv, NEW q \in Requests, ExecutionEnds(q)
  PROVE  IInv'
<1>1. /\ at[q] = "judging" /\ Slots!Release(q)
      /\ UNCHANGED <<problemVars, crashes, read, cases, stored>>
  BY DEF ExecutionEnds
<1>2. status'[q] = "outside"
  BY <1>1, SlotsStep DEF IInv
<1>3. OnlyJudging(q)'
  BY <1>2 DEF OnlyJudging
<1>4. Types /\ HasRead(q) /\ HasStored(q) /\ HasAnswered(q) /\ UNCHANGED <<points, tests, edits>>
  BY <1>1 DEF IInv, HandlerInv, problemVars
<1>5. cases[q] \in Lists /\ cases[q] # << >> /\ Len(cases[q]) \in 1 .. MaxTests
  BY <1>1, <1>4, LengthOfCases DEF Types, HasRead
<1>6. CASE Respond(q, 500, None) /\ UNCHANGED result
  <2>1. Types' /\ Has(q)' /\ \A p \in Requests \ {q} : Same(p)
    BY <1>1, <1>6, RefusalHas DEF Forgets
  <2> QED BY <1>1, <1>3, <2>1, SlotStep
<1>7. ASSUME NEW o \in Contract!Outcomes(Len(cases[q])), q \in Trials, UNCHANGED result,
             Respond(q, 200, Row(o.verdict, o.passedCount, o.totalCount, 0,
                                 FailedTestCase(q, o), ErrorMessage(o)))
      PROVE  IInv'
  <2> DEFINE row == Row(o.verdict, o.passedCount, o.totalCount, 0, FailedTestCase(q, o),
                        ErrorMessage(o))
  <2>1. row \in Rows /\ Fit(q, row)
    BY <1>4, <1>5, <1>7, TrialFacts DEF HasRead
  <2>2. at' = [at EXCEPT ![q] = "answered"] /\ answer' = [answer EXCEPT ![q] = Reply(200, row)]
    BY <1>7 DEF Respond, Goto
  <2> HIDE DEF row
  <2>3. Reply(200, row) \in Replies /\ Reply(200, row).body = row
    BY <2>1 DEF Reply, Replies
  <2>4. Types' /\ \A p \in Requests \ {q} : Same(p)
    BY <1>1, <1>4, <1>7, <2>2, <2>3 DEF Types, Places, Same
  <2>5. at'[q] = "answered" /\ answer'[q] = Reply(200, row) /\ q \notin Submits
    BY <1>4, <1>7, <2>2, JudgeAssumption DEF Types
  <2>6. HasRead(q)' /\ HasStored(q)'
    BY <1>1, <1>4, <1>7, <2>5 DEF HasRead, HasStored
  <2>7. HasAnswered(q)'
    BY <1>1, <2>1, <2>3, <2>5 DEF HasAnswered, Fit
  <2> QED BY <1>1, <1>3, <2>4, <2>6, <2>7, SlotStep DEF Has
<1>8. ASSUME NEW o \in Contract!Outcomes(Len(cases[q])), q \in Submits,
             result' = [result EXCEPT ![q] = o], at' = [at EXCEPT ![q] = "save"], UNCHANGED answer
      PROVE  IInv'
  <2>1. o \in AnyOutcomes
    BY <1>5 DEF AnyOutcomes
  <2>2. Types' /\ \A p \in Requests \ {q} : Same(p)
    BY <1>1, <1>4, <1>8, <2>1 DEF Types, Places, Same
  <2>3. at'[q] = "save" /\ result'[q] = o /\ q \notin Trials
    BY <1>4, <1>8, JudgeAssumption DEF Types
  <2>4. HasRead(q)' /\ HasAnswered(q)'
    BY <1>1, <1>4, <1>8, <2>3 DEF HasRead, HasAnswered
  <2>5. HasStored(q)'
    BY <1>1, <1>4, <1>8, <2>3 DEF HasStored, PendingRow, Coherent, Fit
  <2> QED BY <1>1, <1>3, <2>2, <2>4, <2>5, SlotStep DEF Has
<1> QED BY <1>6, <1>7, <1>8 DEF ExecutionEnds, Fail, Goto

LEMMA SaveResultIInv ==
  ASSUME IInv, NEW q \in Requests, SaveResult(q)
  PROVE  IInv'
<1>1. /\ at[q] = "save" /\ result' = [result EXCEPT ![q] = None]
      /\ UNCHANGED <<slotVars, problemVars, crashes, read, cases>>
  BY DEF SaveResult
<1>2. CASE UNCHANGED stored /\ Respond(q, 500, None)
  <2>1. /\ Forgets(q) /\ at[q] \notin {"answered", "lost"}
        /\ UNCHANGED <<problemVars, crashes, read, cases, stored>>
    BY <1>1, <1>2 DEF Forgets
  <2>2. PICK code \in {400, 404, 500, 503} : Respond(q, code, None)
    BY <1>2
  <2>3. Types' /\ Has(q)' /\ \A p \in Requests \ {q} : Same(p)
    BY <2>1, <2>2, RefusalHas
  <2> QED BY <1>1, <2>3, PlainStep
<1>3. CASE stored' = [stored EXCEPT ![q] = Judged(q)] /\ Respond(q, 200, Judged(q))
  <2>1. Types /\ HasRead(q) /\ HasStored(q) /\ HasAnswered(q) /\ UNCHANGED <<points, tests, edits>>
    BY <1>1 DEF IInv, HandlerInv, problemVars
  <2> DEFINE row == Judged(q)
  <2>2. row \in Rows /\ Coherent(q, row) /\ Fit(q, row)
    BY <1>1, <2>1, JudgedFacts DEF Types, HasRead, HasStored
  <2>3. /\ stored' = [stored EXCEPT ![q] = row] /\ at' = [at EXCEPT ![q] = "answered"]
        /\ answer' = [answer EXCEPT ![q] = Reply(200, row)]
    BY <1>3 DEF Respond, Goto
  <2>4. q \in Submits /\ q \notin Trials
    BY <1>1, <2>1, JudgeAssumption DEF HasStored
  <2>5. PICK w : w = row
    OBVIOUS
  <2> HIDE DEF row
  <2>6. Reply(200, w) \in Replies /\ Reply(200, w).body = w /\ Reply(200, w).code = 200
    BY <2>2, <2>5 DEF Reply, Replies
  <2>7. Types' /\ \A p \in Requests \ {q} : Same(p)
    BY <1>1, <2>1, <2>2, <2>3, <2>5, <2>6 DEF Types, Places, Same
  <2>8. /\ at'[q] = "answered" /\ stored'[q] = w /\ answer'[q] = Reply(200, w)
        /\ result'[q] = None /\ UNCHANGED <<read, cases>>
    BY <1>1, <2>1, <2>3, <2>5 DEF Types
  <2>9. (Coherent(q, w) /\ Fit(q, w))'
    BY <2>2, <2>5, <2>8 DEF Coherent, Fit
  <2>10. HasRead(q)'
    BY <2>1, <2>8 DEF HasRead
  <2>11. HasStored(q)'
    BY <2>4, <2>8, <2>9 DEF HasStored, Coherent, Fit
  <2>12. HasAnswered(q)'
    BY <2>6, <2>8, <2>9 DEF HasAnswered, Fit
  <2> QED BY <1>1, <2>7, <2>10, <2>11, <2>12, PlainStep DEF Has
<1> QED BY <1>2, <1>3 DEF SaveResult, Fail

-----------------------------------------------------------------------------
(* Administrators, and the process.                                        *)

\* A step of an administrator changes no request.
LEMMA EditStep ==
  ASSUME IInv, UNCHANGED <<slotVars, crashes, requestVars>>,
         points' \in Points \cup {None}, tests' \in Lists, edits' \in Nat
  PROVE  IInv'
<1>1. SP!IInv' /\ status' = status
  BY SlotsStay DEF IInv
<1>2. Types'
  BY DEF IInv, Types, requestVars
<1>3. \A q \in Requests : Same(q)
  BY DEF Same, requestVars
<1> QED BY <1>1, <1>2, <1>3, SameKeeps DEF IInv

LEMMA UpdatePointsIInv ==
  ASSUME IInv, UpdatePoints
  PROVE  IInv'
<1>1. UNCHANGED <<slotVars, crashes, requestVars>>
  BY DEF UpdatePoints
<1> QED BY <1>1, EditStep DEF UpdatePoints, Edit, IInv, Types

LEMMA AddTestCaseIInv ==
  ASSUME IInv, AddTestCase
  PROVE  IInv'
<1>1. UNCHANGED <<slotVars, crashes, requestVars>>
  BY DEF AddTestCase
<1>2. tests \in Seq(BOOLEAN) /\ Len(tests) < MaxTests
  BY DEF AddTestCase, IInv, Types, Lists
<1>3. PICK b \in BOOLEAN : tests' = Append(tests, b)
  BY DEF AddTestCase
<1>4. tests' \in Seq(BOOLEAN) /\ Len(tests') <= MaxTests
  BY <1>2, <1>3, JudgeAssumption
<1> QED BY <1>1, <1>4, EditStep DEF AddTestCase, Edit, IInv, Types, Lists

LEMMA DeleteTestCaseIInv ==
  ASSUME IInv, DeleteTestCase
  PROVE  IInv'
<1>1. UNCHANGED <<slotVars, crashes, requestVars>>
  BY DEF DeleteTestCase
<1>2. tests \in Seq(BOOLEAN) /\ Len(tests) <= MaxTests
  BY DEF IInv, Types, Lists
<1>3. PICK i \in DOMAIN tests :
        tests' = SubSeq(tests, 1, i - 1) \o SubSeq(tests, i + 1, Len(tests))
  BY DEF DeleteTestCase
<1>4. i \in 1 .. Len(tests) /\ Len(tests) \in Nat /\ \A j \in 1 .. Len(tests) : tests[j] \in BOOLEAN
  BY <1>2
<1>5. /\ SubSeq(tests, 1, i - 1) \in Seq(BOOLEAN) /\ Len(SubSeq(tests, 1, i - 1)) = i - 1
      /\ SubSeq(tests, i + 1, Len(tests)) \in Seq(BOOLEAN)
      /\ Len(SubSeq(tests, i + 1, Len(tests))) = Len(tests) - i
  BY <1>4, SubSeqProperties
<1>6. tests' \in Seq(BOOLEAN) /\ Len(tests') = (i - 1) + (Len(tests) - i)
  BY <1>3, <1>5, ConcatProperties
<1>7. Len(tests') <= MaxTests
  BY <1>2, <1>4, <1>6, JudgeAssumption
<1>8. tests' \in Lists
  BY <1>6, <1>7 DEF Lists
<1>9. points' \in Points \cup {None} /\ edits' \in Nat
  BY DEF DeleteTestCase, Edit, IInv, Types
<1> QED BY <1>1, <1>8, <1>9, EditStep

LEMMA DeleteProblemIInv ==
  ASSUME IInv, DeleteProblem \/ DeleteItsTestCases
  PROVE  IInv'
<1>1. UNCHANGED <<slotVars, crashes, requestVars>>
  BY DEF DeleteProblem, DeleteItsTestCases
<1>2. << >> \in Lists
  BY JudgeAssumption DEF Lists
<1> QED BY <1>1, <1>2, EditStep DEF DeleteProblem, DeleteItsTestCases, Edit, IInv, Types

LEMMA CrashIInv ==
  ASSUME IInv, Crash
  PROVE  IInv'
<1>1. SP!Init'
  BY DEF Crash, SP!Init
<1>2. SP!IInv'
  BY <1>1, SlotsRestart
<1>3. Types'
  BY DEF Crash, problemVars, IInv, Types, Places
<1>4. ASSUME NEW q \in Requests
      PROVE  HandlerInv(q)'
  <2>1. /\ at'[q] = IF InFlight(q) THEN "lost" ELSE at[q]
        /\ result'[q] = None /\ status'[q] = "outside"
        /\ UNCHANGED <<read, cases, stored, answer>>
    BY DEF Crash
  <2>2. HasRead(q) /\ HasStored(q) /\ HasAnswered(q)
    BY DEF IInv, HandlerInv
  <2>3. HasRead(q)' /\ OnlyJudging(q)'
    BY <2>1, <2>2 DEF HasRead, OnlyJudging, InFlight
  <2>4. HasStored(q)'
    BY <2>1, <2>2 DEF HasStored, Coherent, Fit, InFlight
  <2>5. HasAnswered(q)'
    BY <2>1, <2>2 DEF HasAnswered, InFlight, PendingRow, Fit
  <2> QED BY <2>3, <2>4, <2>5 DEF HandlerInv
<1> QED BY <1>2, <1>3, <1>4 DEF IInv

-----------------------------------------------------------------------------

LEMMA InitIInv == Init => IInv
<1> SUFFICES ASSUME Init
             PROVE  IInv
  OBVIOUS
<1>1. SP!IInv
  <2>1. SP!Init
    BY DEF Init, Slots!Init, SP!Init
  <2> QED BY <2>1, SlotsInit
<1>2. tests \in Lists
  <2>1. PICK n \in 0 .. MaxTests : tests \in [1 .. n -> BOOLEAN]
    BY DEF Init
  <2>2. tests \in Seq(BOOLEAN) /\ Len(tests) = n
    BY <2>1
  <2> QED BY <2>1, <2>2, JudgeAssumption DEF Lists
<1>3. << >> \in Lists
  BY JudgeAssumption DEF Lists
<1>4. Types
  BY <1>2, <1>3 DEF Init, Types, Places
<1>5. ASSUME NEW q \in Requests
      PROVE  HandlerInv(q)
  <2>1. /\ at[q] = "start" /\ cases[q] = << >> /\ result[q] = None /\ stored[q] = None
        /\ answer[q] = None /\ status[q] = "outside"
    BY <1>4 DEF Init, Slots!Init, Types
  <2> QED BY <2>1 DEF HandlerInv, HasRead, HasStored, HasAnswered, OnlyJudging
<1> QED BY <1>1, <1>4, <1>5 DEF IInv

LEMMA NextIInv == IInv /\ [Next]_vars => IInv'
<1> SUFFICES ASSUME IInv, [Next]_vars
             PROVE  IInv'
  OBVIOUS
<1>1. CASE UNCHANGED vars
  <2>1. /\ UNCHANGED <<slotVars, crashes, requestVars>>
        /\ points' = points /\ tests' = tests /\ edits' = edits
    BY <1>1 DEF vars, problemVars
  <2> QED BY <2>1, EditStep DEF IInv, Types
<1>2. CASE Environment
  BY <1>2, UpdatePointsIInv, AddTestCaseIInv, DeleteTestCaseIInv, DeleteProblemIInv, CrashIInv
     DEF Environment
<1>3. ASSUME NEW q \in Requests, RejectInput(q) \/ FindProblem(q) \/ Continue(q)
      PROVE  IInv'
  BY <1>3, RejectInputIInv, FindProblemIInv, FindTestsIInv, CreateSubmissionIInv,
     RunSubmissionIInv, GetSlotIInv, CatchBusyIInv, SaveBusyIInv, ExecutionEndsIInv,
     SaveResultIInv DEF Continue
<1> QED BY <1>1, <1>2, <1>3 DEF Next

(***************************************************************************)
(* The invariant the theorems below are read from: what the semaphore      *)
(* promises, and at each place of a handler what it has read, stored and   *)
(* answered.                                                               *)
(***************************************************************************)
THEOREM Invariance == SafeSpec => []IInv
<1> QED BY InitIInv, NextIInv, PTL DEF SafeSpec

LEMMA TypesOK == IInv => TypeOK
<1> SUFFICES ASSUME IInv
             PROVE  TypeOK
  OBVIOUS
<1>1. Slots!TypeOK
  BY DEF IInv, SP!IInv, SP!TypeOK, Slots!TypeOK, SP!Statuses, Slots!Statuses
<1>2. Types
  BY DEF IInv
<1>3. ASSUME NEW q \in Requests
      PROVE  /\ result[q] \in {None} \cup Contract!Outcomes(Len(cases[q]))
             /\ stored[q] \in {None} \cup Rows
             /\ answer[q] = None \/ /\ answer[q].code \in {200, 400, 404, 500, 503}
                                    /\ answer[q].body \in {None} \cup Rows
  <2>1. result[q] \in {None} \cup Contract!Outcomes(Len(cases[q]))
    BY DEF IInv, HandlerInv, HasStored
  <2>2. answer[q] \in {None} \cup Replies /\ stored[q] \in {None} \cup Rows
    BY <1>2 DEF Types
  <2> QED BY <2>1, <2>2 DEF Replies
<1>4. cases \in [Requests -> Seq(BOOLEAN)] /\ tests \in Seq(BOOLEAN)
  BY <1>2 DEF Types, Lists
<1> QED BY <1>1, <1>2, <1>3, <1>4 DEF TypeOK, Types

(***************************************************************************)
(* Every variable keeps its type: a Submission and a response are always   *)
(* rows of the shape the schema and the client expect.                     *)
(***************************************************************************)
THEOREM TypeCorrect == SafeSpec => []TypeOK
<1> QED BY Invariance, TypesOK, PTL

LEMMA Redacted == IInv => HiddenCaseRedacted
<1> SUFFICES ASSUME IInv, NEW q \in Requests,
                    NEW row \in {stored[q]} \cup IF answer[q] = None THEN {} ELSE {answer[q].body},
                    row # None
             PROVE  Fit(q, row)
  BY DEF HiddenCaseRedacted, Fit, Quotes
<1>1. CASE row = stored[q]
  BY <1>1 DEF IInv, HandlerInv, HasStored
<1>2. CASE answer[q] # None /\ row = answer[q].body
  BY <1>2 DEF IInv, HandlerInv, HasAnswered
<1> QED BY <1>1, <1>2

(***************************************************************************)
(* The details of a failing test case are stored or sent only when that    *)
(* was a sample as it was judged, whatever administrators edit meanwhile;  *)
(* of a hidden one at most the program's standard error or exit code is,   *)
(* in the errorMessage of a Runtime Error at that case.                    *)
(***************************************************************************)
THEOREM HiddenTellsOnlyItsError == SafeSpec => []HiddenCaseRedacted
<1> QED BY Invariance, Redacted, PTL

\* The parts of a stored verdict agree with each other and with what the
\* handler read.
THEOREM StoredCohere == SafeSpec => []RowsCohere
<1>1. IInv => RowsCohere
  BY DEF IInv, HandlerInv, HasStored, Coherent, RowsCohere, Requests
<1> QED BY Invariance, <1>1, PTL

LEMMA Truthful == IInv => AnswersTruthful
<1> SUFFICES ASSUME IInv, NEW q \in Submits, answer[q] # None
             PROVE  /\ answer[q].code = 200 => stored[q] = answer[q].body
                    /\ answer[q].code # 200 => stored[q] = None \/ stored[q].verdict = "Pending"
  BY DEF AnswersTruthful, IInv, HandlerInv, HasStored, Requests
<1>1. q \in Requests
  BY DEF Requests
<1>2. PendingRow(q).verdict = "Pending"
  BY DEF PendingRow, Row
<1> QED BY <1>1, <1>2 DEF IInv, HandlerInv, HasAnswered

(***************************************************************************)
(* What the client of submitCode was told is what is stored: a 200 comes   *)
(* with the document as it stands, and no verdict is behind another code.  *)
(* A trial run stores nothing.                                             *)
(***************************************************************************)
THEOREM ToldTheTruth == SafeSpec => []AnswersTruthful
<1> QED BY Invariance, Truthful, PTL

\* Cardinality as the two instances see it.
LEMMA SameCardinality ==
  ASSUME NEW S
  PROVE  Slots!Cardinality(S) = SP!Cardinality(S)
BY DEF Slots!Cardinality, SP!Cardinality

LEMMA NothingLeft == IInv => NoSlotLeft
<1> SUFFICES ASSUME IInv
             PROVE  NoSlotLeft
  OBVIOUS
<1>1. SP!SlotsConserved /\ SP!QueueCounted
  BY DEF IInv, SP!IInv
<1>2. Slots!Owners = SP!Owners /\ Slots!With("granted") = SP!With("granted")
  BY DEF Slots!Owners, SP!Owners, Slots!With, SP!With
<1>3. Slots!SlotsConserved /\ Slots!QueueCounted
  BY <1>1, <1>2, SameCardinality
     DEF Slots!SlotsConserved, SP!SlotsConserved, Slots!QueueCounted, SP!QueueCounted
<1> QED BY <1>3 DEF NoSlotLeft, IInv, HandlerInv, OnlyJudging

(***************************************************************************)
(* The semaphore follows the requests across throws, refusals and crashes: *)
(* its counters count the requests being judged and no others.             *)
(***************************************************************************)
THEOREM SlotsFollowRequests == SafeSpec => []NoSlotLeft
<1> QED BY Invariance, NothingLeft, PTL

-----------------------------------------------------------------------------
(* The semaphore inside the handlers.                                      *)

\* Each step of the handlers is one of the semaphore, or leaves it alone, or
\* is the restart of the process.
LEMMA StepOfSlots == [Next]_vars => [Slots!Next \/ Slots!Init']_slotVars
<1> SUFFICES ASSUME [Next]_vars
             PROVE  [Slots!Next \/ Slots!Init']_slotVars
  OBVIOUS
<1>1. CASE UNCHANGED vars
  BY <1>1 DEF vars
<1>2. CASE Environment
  <2>1. UpdatePoints \/ AddTestCase \/ DeleteTestCase \/ DeleteProblem \/ DeleteItsTestCases
          => UNCHANGED slotVars
    BY DEF UpdatePoints, AddTestCase, DeleteTestCase, DeleteProblem, DeleteItsTestCases
  <2>2. Crash => Slots!Init'
    BY DEF Crash, Slots!Init
  <2> QED BY <1>2, <2>1, <2>2 DEF Environment
<1>3. ASSUME NEW q \in Requests, RejectInput(q) \/ FindProblem(q) \/ Continue(q)
      PROVE  [Slots!Next]_slotVars
  <2>1. RejectInput(q) \/ FindProblem(q) \/ FindTests(q) \/ CreateSubmission(q) \/ SaveBusy(q)
          \/ SaveResult(q) => UNCHANGED slotVars
    BY DEF RejectInput, FindProblem, FindTests, CreateSubmission, SaveBusy, SaveResult
  <2>2. RunSubmission(q) \/ GetSlot(q) \/ CatchBusy(q) \/ ExecutionEnds(q) => Slots!Next
    BY DEF RunSubmission, GetSlot, CatchBusy, ExecutionEnds, Slots!Next
  <2> QED BY <1>3, <2>1, <2>2 DEF Continue
<1> QED BY <1>1, <1>2, <1>3 DEF Next

(***************************************************************************)
(* The handlers are clients of the semaphore as ExecutionSlots describes   *)
(* it, and only a restart of the process puts it back to its beginning:    *)
(* no throw, refusal or answer of a handler by-passes a counter of it.     *)
(***************************************************************************)
THEOREM SlotsUsed == SafeSpec => Slots!Init /\ [][Slots!Next \/ Slots!Init']_slotVars
<1>1. Init => Slots!Init
  BY DEF Init
<1> QED BY <1>1, StepOfSlots, PTL DEF SafeSpec

\* Both count with the same Cardinality.
LEMMA CountsOfSlots ==
  /\ SP!Cardinality(SP!Owners) = Cardinality(Slots!Owners)
  /\ SP!Cardinality(SP!With("waiting") \cup SP!With("granted"))
       = Cardinality(Slots!With("waiting") \cup Slots!With("granted"))
BY DEF SP!Cardinality, Cardinality, Slots!Owners, SP!Owners, Slots!With, SP!With

(***************************************************************************)
(* A client is told that the server is busy only when every slot is owned  *)
(* and MAX_QUEUE_LENGTH others queue, whatever throws, answers and crashes *)
(* came before.                                                            *)
(***************************************************************************)
BusyOnlyWhenFull ==
  [][\A q \in Requests :
       status[q] = "outside" /\ status'[q] = "refused" =>
         /\ Cardinality(Slots!Owners) = MaxConcurrentExecutions
         /\ Cardinality(Slots!With("waiting") \cup Slots!With("granted")) = MaxQueueLength]_vars

LEMMA BusyStep ==
  ASSUME IInv, [Next]_vars, NEW q \in Requests, status[q] = "outside", status'[q] = "refused"
  PROVE  /\ Cardinality(Slots!Owners) = MaxConcurrentExecutions
         /\ Cardinality(Slots!With("waiting") \cup Slots!With("granted")) = MaxQueueLength
<1>1. ~Slots!Init' /\ ~UNCHANGED slotVars
  BY DEF Slots!Init, slotVars
<1>2. Slots!Next
  BY <1>1, StepOfSlots
<1>3. SP!Next
  BY <1>2, SameCalls DEF Slots!Next, SP!Next
<1>4. /\ SP!Cardinality(SP!Owners) = MaxConcurrentExecutions
      /\ SP!Cardinality(SP!With("waiting") \cup SP!With("granted")) = MaxQueueLength
  BY <1>3, Limits, SP!RefusalStep DEF IInv
<1> QED BY <1>4, CountsOfSlots

\* ServerBusyError is thrown only by a semaphore that is full.
THEOREM BusyJustified == SafeSpec => BusyOnlyWhenFull
<1>1. IInv /\ [Next]_vars =>
        [\A q \in Requests :
           status[q] = "outside" /\ status'[q] = "refused" =>
             /\ Cardinality(Slots!Owners) = MaxConcurrentExecutions
             /\ Cardinality(Slots!With("waiting") \cup Slots!With("granted")) = MaxQueueLength]_vars
  BY BusyStep
<1> QED BY <1>1, Invariance, PTL DEF SafeSpec, BusyOnlyWhenFull

-----------------------------------------------------------------------------
(* Nobody waits for nobody.                                                *)

\* A request that is being judged has a place in the semaphore.
HasPlace(q) == at[q] = "judging" => status[q] # "outside"

(***************************************************************************)
(* A request in flight has a step of its own to come (an answer of         *)
(* MongoDB, its call of the semaphore, its execution, the error it was     *)
(* refused with), or it waits in the queue while another one owns a slot   *)
(* and is being judged, crashes and restarts included.  This is what       *)
(* EveryRequestAnswered rests on, before any fairness.                     *)
(***************************************************************************)
NobodyWaitsForNobody ==
  \A q \in Requests : InFlight(q) =>
    \/ at[q] # "judging" /\ status[q] = "outside"
    \/ at[q] = "judging" /\ status[q] \in {"granted", "holding", "refused"}
    \/ /\ at[q] = "judging" /\ status[q] = "waiting"
       /\ \E p \in Requests : at[p] = "judging" /\ status[p] \in {"granted", "holding"}

\* Who is in the semaphore leaves it only by a step of its own.
LEMMA OthersStay ==
  ASSUME SP!IInv, NEW q \in Requests, NEW p \in Requests, p # q, status[p] # "outside",
         Slots!Acquire(q) \/ Slots!Dequeue(q) \/ Slots!ThrowBusy(q) \/ Slots!Release(q)
  PROVE  status'[p] # "outside"
<1>1. status \in [Requests -> SP!Statuses]
  BY DEF SP!IInv, SP!TypeOK
<1>2. CASE SP!Acquire(q)
  BY <1>1, <1>2 DEF SP!Acquire, SP!AcquireFree, SP!AcquireRefused, SP!AcquireQueued, SP!Becomes
<1>3. CASE SP!Dequeue(q) \/ SP!ThrowBusy(q) \/ SP!GiveBack(q)
  BY <1>1, <1>3 DEF SP!Dequeue, SP!ThrowBusy, SP!GiveBack, SP!Becomes
<1>4. CASE SP!HandOff(q)
  <2>1. Head(waiters) \in Requests
    BY <1>4, Limits, SP!HeadOfQueue DEF SP!HandOff
  <2> QED BY <1>1, <1>4, <2>1 DEF SP!HandOff
<1> QED BY <1>2, <1>3, <1>4, SameCalls DEF SP!Release

LEMMA HasPlaceStep ==
  ASSUME IInv, [Next]_vars, \A q \in Requests : HasPlace(q), NEW p \in Requests
  PROVE  HasPlace(p)'
<1>1. at \in [Requests -> Places] /\ status \in [Requests -> SP!Statuses] /\ SP!IInv
  BY DEF IInv, Types, SP!IInv, SP!TypeOK
<1>2. CASE UNCHANGED <<status, at>>
  BY <1>2 DEF HasPlace
<1>3. CASE Crash
  BY <1>3 DEF Crash, HasPlace, InFlight
<1>4. ASSUME NEW q \in Requests, UNCHANGED status, at[q] # "judging",
             \E l \in Places \ {"judging"} : at' = [at EXCEPT ![q] = l]
      PROVE  HasPlace(p)'
  BY <1>1, <1>4 DEF HasPlace
<1>5. ASSUME NEW q \in Requests, GetSlot(q)
      PROVE  HasPlace(p)'
  <2>1. at'[p] = at[p]
    BY <1>5 DEF GetSlot, requestVars
  <2>2. status'[q] # "outside"
    BY <1>1, <1>5 DEF GetSlot, Slots!Dequeue, Slots!Becomes
  <2>3. p # q /\ status[p] # "outside" => status'[p] # "outside"
    BY <1>1, <1>5, OthersStay DEF GetSlot
  <2> QED BY <2>1, <2>2, <2>3 DEF HasPlace
<1>6. ASSUME NEW q \in Requests, RunSubmission(q)
      PROVE  HasPlace(p)'
  <2>1. p # q => at'[p] = at[p]
    BY <1>1, <1>6 DEF RunSubmission, Goto
  <2>2. status'[q] # "outside"
    BY <1>1, <1>6 DEF RunSubmission, Slots!Acquire, Slots!AcquireFree, Slots!AcquireRefused,
                      Slots!AcquireQueued, Slots!Becomes
  <2>3. p # q /\ status[p] # "outside" => status'[p] # "outside"
    BY <1>1, <1>6, OthersStay DEF RunSubmission
  <2> QED BY <2>1, <2>2, <2>3 DEF HasPlace
<1>7. ASSUME NEW q \in Requests, CatchBusy(q) \/ ExecutionEnds(q)
      PROVE  HasPlace(p)'
  <2>1. \E l \in Places \ {"judging"} : at' = [at EXCEPT ![q] = l]
    BY <1>7 DEF CatchBusy, ExecutionEnds, Respond, Fail, Goto, Places
  <2>2. p # q /\ status[p] # "outside" => status'[p] # "outside"
    BY <1>1, <1>7, OthersStay DEF CatchBusy, ExecutionEnds
  <2> QED BY <1>1, <2>1, <2>2 DEF HasPlace
<1>8. ASSUME NEW q \in Requests,
             \/ RejectInput(q) \/ FindProblem(q) \/ FindTests(q) \/ CreateSubmission(q)
             \/ SaveBusy(q) \/ SaveResult(q)
      PROVE  /\ UNCHANGED status /\ at[q] # "judging"
             /\ \E l \in Places \ {"judging"} : at' = [at EXCEPT ![q] = l]
  BY <1>8 DEF RejectInput, FindProblem, FindTests, CreateSubmission, SaveBusy, SaveResult,
              Respond, Fail, Goto, Places, slotVars
<1>9. UNCHANGED vars \/ UpdatePoints \/ AddTestCase \/ DeleteTestCase \/ DeleteProblem
        \/ DeleteItsTestCases => UNCHANGED <<status, at>>
  BY DEF vars, UpdatePoints, AddTestCase, DeleteTestCase, DeleteProblem, DeleteItsTestCases,
         slotVars, requestVars
<1> QED BY <1>2, <1>3, <1>4, <1>5, <1>6, <1>7, <1>8, <1>9 DEF Next, Environment, Continue

LEMMA SomebodyOwns ==
  ASSUME IInv, NEW q \in Requests, status[q] = "waiting"
  PROVE  \E p \in Requests : at[p] = "judging" /\ status[p] \in {"granted", "holding"}
<1>1. q \in SP!Waiting
  BY DEF IInv, SP!IInv, SP!WaitersDistinct, SP!With
<1>2. waiters # << >>
  BY <1>1 DEF SP!Waiting
<1>3. SP!Cardinality(SP!Owners) = MaxConcurrentExecutions
  BY <1>2 DEF IInv, SP!IInv, SP!NoIdleSlotWhileWaiting, SP!SlotsConserved
<1>4. Cardinality(SP!Owners) # 0
  BY <1>3, Limits DEF SP!Cardinality, Cardinality
<1>5. SP!Owners # {}
  BY <1>4, FS_EmptySet
<1>6. PICK p \in Requests : status[p] \in {"granted", "holding"}
  BY <1>5 DEF SP!Owners
<1> QED BY <1>6 DEF IInv, HandlerInv, OnlyJudging

LEMMA NobodyWaits ==
  ASSUME IInv, \A q \in Requests : HasPlace(q)
  PROVE  NobodyWaitsForNobody
<1> SUFFICES ASSUME NEW q \in Requests, InFlight(q)
             PROVE  \/ at[q] # "judging" /\ status[q] = "outside"
                    \/ at[q] = "judging" /\ status[q] \in {"granted", "holding", "refused"}
                    \/ /\ at[q] = "judging" /\ status[q] = "waiting"
                       /\ \E p \in Requests : at[p] = "judging" /\ status[p] \in {"granted", "holding"}
  BY DEF NobodyWaitsForNobody
<1>1. status[q] \in SP!Statuses /\ OnlyJudging(q) /\ HasPlace(q)
  BY DEF IInv, SP!IInv, SP!TypeOK, HandlerInv
<1> QED BY <1>1, SomebodyOwns DEF OnlyJudging, HasPlace, SP!Statuses

\* The requests of both handlers never wait for one another in a circle, nor
\* for a slot that nobody will give back.
THEOREM NoDeadlock == SafeSpec => []NobodyWaitsForNobody
<1>1. Init => \A q \in Requests : HasPlace(q)
  BY DEF Init, HasPlace
<1>2. IInv /\ [Next]_vars /\ (\A q \in Requests : HasPlace(q)) => (\A q \in Requests : HasPlace(q))'
  BY HasPlaceStep
<1> QED BY <1>1, <1>2, NobodyWaits, Invariance, PTL DEF SafeSpec
=============================================================================
