------------------------------- MODULE Judge --------------------------------
(***************************************************************************)
(* controllers/submissionController.js between the HTTP request and the    *)
(* executor: submitCode and runCode, cut at their awaits, against one      *)
(* problem that administrators edit meanwhile.  Admission to the executor  *)
(* is ExecutionSlots; what an execution may end with is RunContract.  The  *)
(* process may crash and start again: what is in memory is gone, what is   *)
(* in MongoDB is not.                                                      *)
(***************************************************************************)
EXTENDS Naturals, Sequences, FiniteSets

CONSTANTS
  Submits,   \* requests to POST /problems/:slug/submit
  Trials,    \* requests to POST /problems/:slug/run
  MaxConcurrentExecutions,
  MaxQueueLength,
  MaxTests,  \* bound on the test cases of the problem
  Points,    \* values of problem.points
  Edits,     \* bound on the administrators' edits
  Crashes,   \* bound on the crashes of the process
  DbMayFail, \* whether a call to MongoDB may be rejected
  None, Threw

ASSUME JudgeAssumption ==
  /\ Submits \cap Trials = {}
  /\ MaxConcurrentExecutions \in Nat \ {0}
  /\ MaxQueueLength \in Nat
  /\ MaxTests \in Nat \ {0}
  /\ Points \subseteq Nat
  /\ Edits \in Nat /\ Crashes \in Nat
  /\ DbMayFail \in BOOLEAN
  /\ None \notin [index : Nat, isSample : BOOLEAN, detailed : BOOLEAN]

Requests == Submits \cup Trials

VARIABLES
  activeCount, queueLength, waiters, status,  \* the executor's semaphore
  points,       \* points of the problem document, None once it is deleted
  tests,        \* isSample of the problem's test cases, in order
  at,           \* where each request stands in its handler
  read,         \* the points its problem document carried when it was read
  cases,        \* the test cases it read
  result,       \* what runSubmission resolved to, until the handler ends
  stored,       \* its Submission document
  answer,       \* its response
  edits, crashes

slotVars == <<activeCount, queueLength, waiters, status>>
problemVars == <<points, tests, edits>>
requestVars == <<at, read, cases, result, stored, answer>>
vars == <<slotVars, problemVars, crashes, requestVars>>

Slots == INSTANCE ExecutionSlots
Contract == INSTANCE RunContract WITH
  Runs <- Requests, total <- [q \in Requests |-> Len(cases[q])], outcome <- result

Places == {"start", "findTests", "create", "run", "judging", "busy", "save",
           "answered", "lost"}

Reply(code, body) == [code |-> code, body |-> body]

\* error stands for errorMessage by what it quotes: the test case whose run's
\* standard error or exit code it is, 0 when it quotes no run.
Row(v, p, n, s, f, e) ==
  [verdict |-> v, passedCount |-> p, totalCount |-> n, score |-> s, failed |-> f,
   error |-> e]

Init ==
  /\ Slots!Init
  /\ points \in Points
  /\ tests \in UNION {[1 .. n -> BOOLEAN] : n \in 0 .. MaxTests}
  /\ at = [q \in Requests |-> "start"]
  /\ read = [q \in Requests |-> None]
  /\ cases = [q \in Requests |-> << >>]
  /\ result = [q \in Requests |-> None]
  /\ stored = [q \in Requests |-> None]
  /\ answer = [q \in Requests |-> None]
  /\ edits = 0 /\ crashes = 0

Goto(q, p) == at' = [at EXCEPT ![q] = p]

Respond(q, code, body) ==
  /\ Goto(q, "answered")
  /\ answer' = [answer EXCEPT ![q] = Reply(code, body)]

\* A rejected promise reaches the error handler of app.js.
Fail(q) == Respond(q, 500, None)

-----------------------------------------------------------------------------
(* The handlers.                                                           *)

\* No code, no language, a language that is not offered, too long a code.
RejectInput(q) ==
  /\ at[q] = "start"
  /\ Respond(q, 400, None)
  /\ UNCHANGED <<slotVars, problemVars, crashes, read, cases, result, stored>>

FindProblem(q) ==
  /\ at[q] = "start"
  /\ \/ /\ points = None
        /\ Respond(q, 404, None)
        /\ UNCHANGED read
     \/ /\ points # None
        /\ read' = [read EXCEPT ![q] = points]
        /\ Goto(q, "findTests")
        /\ UNCHANGED answer
     \/ DbMayFail /\ Fail(q) /\ UNCHANGED read
  /\ UNCHANGED <<slotVars, problemVars, crashes, cases, result, stored>>

\* TestCase.find with isSample: true.
Samples(s) == [i \in 1 .. Cardinality({j \in DOMAIN s : s[j]}) |-> TRUE]

\* submitCode reads every test case, runCode the samples.
FindTests(q) ==
  LET found == IF q \in Submits THEN tests ELSE Samples(tests) IN
  /\ at[q] = "findTests"
  /\ \/ /\ found = << >>
        /\ Respond(q, 400, None)
        /\ UNCHANGED cases
     \/ /\ found # << >>
        /\ cases' = [cases EXCEPT ![q] = found]
        /\ Goto(q, IF q \in Submits THEN "create" ELSE "run")
        /\ UNCHANGED answer
     \/ DbMayFail /\ Fail(q) /\ UNCHANGED cases
  /\ UNCHANGED <<slotVars, problemVars, crashes, read, result, stored>>

CreateSubmission(q) ==
  /\ at[q] = "create"
  /\ \/ /\ stored' = [stored EXCEPT ![q] = Row("Pending", 0, Len(cases[q]), 0, None, 0)]
        /\ Goto(q, "run")
        /\ UNCHANGED answer
     \/ DbMayFail /\ Fail(q) /\ UNCHANGED stored
  /\ UNCHANGED <<slotVars, problemVars, crashes, read, cases, result>>

\* The call of runSubmission, up to the await of its slot.
RunSubmission(q) ==
  /\ at[q] = "run"
  /\ Slots!Acquire(q)
  /\ Goto(q, "judging")
  /\ UNCHANGED <<problemVars, crashes, read, cases, result, stored, answer>>

GetSlot(q) ==
  /\ Slots!Dequeue(q)
  /\ UNCHANGED <<problemVars, crashes, requestVars>>

\* ServerBusyError reaches the handler's catch.
CatchBusy(q) ==
  /\ Slots!ThrowBusy(q)
  /\ IF q \in Submits
       THEN Goto(q, "busy") /\ UNCHANGED answer
       ELSE Respond(q, 503, None)
  /\ UNCHANGED <<problemVars, crashes, read, cases, result, stored>>

\* submission.verdict = "Pending", save, 503.
SaveBusy(q) ==
  /\ at[q] = "busy"
  /\ \/ /\ stored' = [stored EXCEPT ![q].verdict = "Pending"]
        /\ Respond(q, 503, None)
     \/ DbMayFail /\ Fail(q) /\ UNCHANGED stored
  /\ UNCHANGED <<slotVars, problemVars, crashes, read, cases, result>>

\* failedTestCase as the executor builds it.
FailedTestCase(q, o) ==
  IF o.failed = 0 THEN None
  ELSE [index |-> o.failed, isSample |-> cases[q][o.failed], detailed |-> TRUE]

\* The errorMessage of a run-time error is the program's, that of the other
\* verdicts is empty, the compiler's or a fixed sentence.
ErrorMessage(o) == IF o.verdict = "Runtime Error" THEN o.failed ELSE 0

\* Without a try..finally around executeSubmission, a throw keeps the slot.
ExecutionEndsNoFinally(q) ==
  /\ at[q] = "judging"
  /\ status[q] = "holding"
  /\ \E o \in Contract!Outcomes(Len(cases[q])) \cup {Threw} :
       \/ /\ o = Threw
          /\ Fail(q)
          /\ UNCHANGED <<result, slotVars>>
       \/ /\ o # Threw
          /\ Slots!Release(q)
          /\ result' = [result EXCEPT ![q] = o]
          /\ Goto(q, "save")
          /\ UNCHANGED answer
  /\ UNCHANGED <<problemVars, crashes, read, cases, stored>>

\* executeSubmission settles, its slot is released in the finally, and the
\* handler resumes.  runCode sends the result as it is.
ExecutionEnds(q) ==
  /\ at[q] = "judging"
  /\ Slots!Release(q)
  /\ \E o \in Contract!Outcomes(Len(cases[q])) \cup {Threw} :
       \/ /\ o = Threw
          /\ Fail(q)
          /\ UNCHANGED result
       \/ /\ o # Threw /\ q \in Trials
          /\ UNCHANGED result
          /\ Respond(q, 200, Row(o.verdict, o.passedCount, o.totalCount, 0,
                                 FailedTestCase(q, o), ErrorMessage(o)))
       \/ /\ o # Threw /\ q \in Submits
          /\ result' = [result EXCEPT ![q] = o]
          /\ Goto(q, "save")
          /\ UNCHANGED answer
  /\ UNCHANGED <<problemVars, crashes, read, cases, stored>>

\* The failing test case kept whole.
keepFailedTestCase(f) == f

redactFailedTestCase(f) ==
  IF f = None \/ f.isSample THEN f ELSE [f EXCEPT !.detailed = FALSE]

\* The points read again when the verdict is known.
scoreNow(q) == IF result[q].verdict = "Accepted" THEN points ELSE 0

score(q) == IF result[q].verdict = "Accepted" THEN read[q] ELSE 0

Judged(q) ==
  LET o == result[q] IN
  Row(o.verdict, o.passedCount, o.totalCount, score(q),
      redactFailedTestCase(FailedTestCase(q, o)), ErrorMessage(o))

\* The response sent without awaiting the save.
SaveResultUnawaited(q) ==
  /\ at[q] = "save"
  /\ \/ stored' = [stored EXCEPT ![q] = Judged(q)]
     \/ DbMayFail /\ UNCHANGED stored
  /\ Respond(q, 200, Judged(q))
  /\ result' = [result EXCEPT ![q] = None]
  /\ UNCHANGED <<slotVars, problemVars, crashes, read, cases>>

SaveResult(q) ==
  /\ at[q] = "save"
  /\ \/ /\ stored' = [stored EXCEPT ![q] = Judged(q)]
        /\ Respond(q, 200, Judged(q))
     \/ DbMayFail /\ Fail(q) /\ UNCHANGED stored
  /\ result' = [result EXCEPT ![q] = None]
  /\ UNCHANGED <<slotVars, problemVars, crashes, read, cases>>

-----------------------------------------------------------------------------
(* Administrators and the process.  The look-up of an administrator's      *)
(* request and its write are one step here.                                *)

Edit == edits < Edits /\ edits' = edits + 1

UpdatePoints ==
  /\ Edit
  /\ points # None
  /\ points' \in Points
  /\ UNCHANGED <<tests, slotVars, crashes, requestVars>>

AddTestCase ==
  /\ Edit
  /\ points # None
  /\ Len(tests) < MaxTests
  /\ \E b \in BOOLEAN : tests' = Append(tests, b)
  /\ UNCHANGED <<points, slotVars, crashes, requestVars>>

DeleteTestCase ==
  /\ Edit
  /\ points # None
  /\ \E i \in DOMAIN tests :
       tests' = SubSeq(tests, 1, i - 1) \o SubSeq(tests, i + 1, Len(tests))
  /\ UNCHANGED <<points, slotVars, crashes, requestVars>>

\* findOneAndDelete; the test cases follow in a second write.
DeleteProblem ==
  /\ Edit
  /\ points # None
  /\ points' = None
  /\ UNCHANGED <<tests, slotVars, crashes, requestVars>>

DeleteItsTestCases ==
  /\ points = None
  /\ tests # << >>
  /\ tests' = << >>
  /\ UNCHANGED <<points, edits, slotVars, crashes, requestVars>>

InFlight(q) == at[q] \notin {"start", "answered", "lost"}

\* The process ends and is started again.  A request that was being handled
\* gets no answer.
Crash ==
  /\ crashes < Crashes
  /\ \E q \in Requests : InFlight(q)
  /\ crashes' = crashes + 1
  /\ activeCount' = 0 /\ queueLength' = 0 /\ waiters' = << >>
  /\ status' = [q \in Requests |-> "outside"]
  /\ at' = [q \in Requests |-> IF InFlight(q) THEN "lost" ELSE at[q]]
  /\ result' = [q \in Requests |-> None]
  /\ UNCHANGED <<problemVars, read, cases, stored, answer>>

-----------------------------------------------------------------------------

Continue(q) ==
  \/ FindTests(q) \/ CreateSubmission(q) \/ RunSubmission(q) \/ GetSlot(q)
  \/ CatchBusy(q) \/ SaveBusy(q) \/ ExecutionEnds(q) \/ SaveResult(q)

Environment ==
  \/ UpdatePoints \/ AddTestCase \/ DeleteTestCase
  \/ DeleteProblem \/ DeleteItsTestCases
  \/ Crash

Next ==
  \/ Environment
  \/ \E q \in Requests : RejectInput(q) \/ FindProblem(q) \/ Continue(q)

SafeSpec == Init /\ [][Next]_vars

(***************************************************************************)
(* Once the handler has begun, its awaits settle: MongoDB answers, and an  *)
(* execution ends (what DockerStep shows under its own assumptions).       *)
(***************************************************************************)
Spec == SafeSpec /\ \A q \in Requests : WF_vars(Continue(q))

-----------------------------------------------------------------------------
(* Properties                                                              *)

FailedDetails ==
  {None} \cup [index : 1 .. MaxTests, isSample : BOOLEAN, detailed : BOOLEAN]

Verdicts ==
  {"Pending", "Accepted", "Wrong Answer", "Compilation Error", "Runtime Error",
   "Time Limit Exceeded"}

Rows ==
  [verdict : Verdicts, passedCount : 0 .. MaxTests, totalCount : 0 .. MaxTests,
   score : Points \cup {0}, failed : FailedDetails, error : 0 .. MaxTests]

TypeOK ==
  /\ Slots!TypeOK
  /\ points \in Points \cup {None}
  /\ tests \in Seq(BOOLEAN)
  /\ at \in [Requests -> Places]
  /\ read \in [Requests -> Points \cup {None}]
  /\ cases \in [Requests -> Seq(BOOLEAN)]
  /\ \A q \in Requests :
       /\ result[q] \in {None} \cup Contract!Outcomes(Len(cases[q]))
       /\ stored[q] \in {None} \cup Rows
       /\ answer[q] = None \/ /\ answer[q].code \in {200, 400, 404, 500, 503}
                              /\ answer[q].body \in {None} \cup Rows
  /\ {edits, crashes} \subseteq Nat

(***************************************************************************)
(* The failedTestCase of a Submission or a response has the input and the  *)
(* outputs of a test case only when that was a sample as it was judged,    *)
(* whatever administrators do to the test cases meanwhile.  All that a row *)
(* quotes besides, of a run on a hidden case too, is the program's         *)
(* standard error or exit code, as it is: under a Runtime Error only, and  *)
(* of the very case the row names as failed.                               *)
(***************************************************************************)
HiddenCaseRedacted ==
  \A q \in Requests :
    LET shown == {stored[q]} \cup IF answer[q] = None THEN {} ELSE {answer[q].body} IN
    \A row \in shown \ {None} :
      /\ row.failed # None /\ row.failed.detailed => cases[q][row.failed.index]
      /\ row.error # 0 => /\ row.verdict = "Runtime Error"
                         /\ row.failed # None /\ row.failed.index = row.error

(***************************************************************************)
(* A stored verdict agrees with the rest of its document: only an Accepted *)
(* submission scores, the points its problem had when it was read, after   *)
(* passing all the test cases read, and a failing one names the first test *)
(* case it did not pass.                                                   *)
(***************************************************************************)
RowsCohere ==
  \A q \in Submits : stored[q] # None =>
    LET row == stored[q] IN
    /\ row.totalCount = Len(cases[q])
    /\ row.score = IF row.verdict = "Accepted" THEN read[q] ELSE 0
    /\ row.verdict = "Accepted" => row.passedCount = row.totalCount
    /\ row.failed # None =>
         /\ row.verdict \in Contract!TestFailures
         /\ row.failed.index = row.passedCount + 1

(***************************************************************************)
(* What the client was told is what is stored: 200 with the document as it *)
(* stands, and no verdict behind a 503.  A verdict nobody was told of is   *)
(* only one whose process crashed.  Nothing is stored of a trial run.      *)
(***************************************************************************)
AnswersTruthful ==
  /\ \A q \in Submits : answer[q] # None =>
       /\ answer[q].code = 200 => stored[q] = answer[q].body
       /\ answer[q].code # 200 => stored[q] = None \/ stored[q].verdict = "Pending"
  /\ \A q \in Trials : stored[q] = None

(***************************************************************************)
(* The semaphore follows the requests across throws, refusals and crashes: *)
(* only a request being judged owns a slot or waits for one, so that an    *)
(* answered or lost one leaves nothing behind.                             *)
(***************************************************************************)
NoSlotLeft ==
  /\ \A q \in Requests : status[q] # "outside" => at[q] = "judging"
  /\ Slots!SlotsConserved
  /\ Slots!QueueCounted

(***************************************************************************)
(* Every request that got past its problem is answered, or lost with the   *)
(* process.                                                                *)
(***************************************************************************)
EveryRequestAnswered ==
  \A q \in Requests : at[q] = "findTests" ~> at[q] \in {"answered", "lost"}

(***************************************************************************)
(* "Users ... submit code ... and get an automated verdict" (README): a    *)
(* Submission that is Pending is eventually judged.                        *)
(***************************************************************************)
EverySubmissionJudged ==
  \A q \in Submits :
    stored[q] # None ~> stored[q] # None /\ stored[q].verdict # "Pending"
=============================================================================
