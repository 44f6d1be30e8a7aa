# TLA+ models of the online judge

Models, model-checking runs and machine-checked proofs for the MERN online
judge in this repository: an Express backend that judges submissions in Docker
containers, and a React frontend. Paths below are relative to `src/`.

## The system

| component | source | state it keeps | operations |
|---|---|---|---|
| execution slots | `backend/services/executor.js:60-85, 180-192` | `activeCount`, `queueLength`, `waiters` | `acquireExecutionSlot`, `releaseExecutionSlot`, `runSubmission` |
| docker step | `executor.js:87-174` | one child process, timer, kill command, container | `runDockerStep` and its callbacks |
| execution | `executor.js:194-295` | run directory, `passedCount` | `executeSubmission` |
| submission handlers | `backend/controllers/submissionController.js` | `Submission` documents | `submitCode`, `runCode`, four queries |
| rate limiter | `backend/middleware/rateLimit.js` | `buckets` | the middleware, the sweep |
| accounts | `backend/controllers/authController.js`, `middleware/auth.js` | `User` documents with reset-token hashes | `signup`, `login`, `updateProfile`, `forgotPassword`, `resetPassword` |
| catalogue | `backend/controllers/problemController.js` | `Problem` and `TestCase` documents | create, update, delete; add and delete a test case |
| competitions | `backend/controllers/competitionController.js` | `Competition` documents | create, update, delete, `getLeaderboard` |
| browser session | `frontend/src/api/client.js`, `context/AuthContext.jsx` | token in local storage, `user` | login, signup, logout, `/auth/me` at start-up, the 401 interceptor |
| browser pages | `frontend/src/pages/*` | what each page has fetched | fetch on mount, forms |
| start-up | `backend/server.js`, `app.js`, `config/db.js`, `seed/seed.js` | none of its own | sequential glue |

A submission goes through them in this order: the rate limiter admits the
request; `submitCode` reads the problem and its test cases and creates a
`Pending` document; `runSubmission` takes a slot, waits for one, or refuses;
`executeSubmission` makes a directory, compiles if the language needs it, and
runs the test cases one by one, each as a `docker run` with a timer that sends
one `docker kill`; the `finally` blocks remove the directory and release the
slot; the handler scores the verdict, redacts a hidden failing case, saves the
document and answers.

### What makes each part correct

* Execution slots: never more than the cap run, no slot is lost or given twice,
  no request waits beside a free slot or for ever, a refusal means full.
* Docker step: it settles once, with what the program did, when its container
  is gone; its kill ends its own container or nothing.
* Execution: the verdict is that of the first failing test case, the directory
  outlives every container, and nothing is left behind on any path.
* Submission handlers: a stored document agrees with itself and with what the
  client was told; of a hidden case it has no input and no output, and nothing
  of its run but the error the program itself wrote; every request is answered.
* Rate limiter: what is let through is bounded in any stretch of time, nobody is
  refused for less, and the Map does not grow without bound.
* Accounts: one account for an address; a password changes only through a link
  mailed for it; old and used links are dead.
* Catalogue and competitions: slugs are unique, nothing refers to a document that
  is gone, the ranking is that of the best submissions.
* Browser session: the token and the user shown belong to the latest login.

### What is hard in it

* **Interleavings between awaits.** Node runs one callback at a time, but every
  handler gives way at each `await`. State read before one (the problem's
  points, its test cases, a free slug, a reset token, a competition) may have
  changed after it.
* **Two processes and a daemon.** The `docker run` CLI, the `docker kill` CLI
  and the daemon are separate: a kill may arrive before the container is up,
  while it runs, when it is gone, or while the next step of the run is going.
* **A counter settled late.** The `.finally` callback that decrements
  `queueLength` runs after the slot has already been handed over.
* **Partial failure.** The file system, MongoDB, the daemon and the whole
  process may fail between any two steps of a submission.
* **Ordering on the client.** Responses arrive in any order.

The hazards, each at the line where it bites and with the properties that watch
it, are in `PROJECT.json`; those that no property watches say why.

## Modules

| module | models | composed of |
|---|---|---|
| `AdmissionQueue` | abstract: a line served first come, first served, with a bound on those in service and in line | |
| `ExecutionSlots` | the semaphore and its client `runSubmission` | refines `AdmissionQueue` |
| `DockerStep` | `runDockerStep`, its timer, its kill, the container on the daemon's side, for any set of steps | |
| `RunContract` | abstract: how an execution may end | |
| `Executor` | `executeSubmission`: each step a step of `DockerStep` | `DockerStep`; refines `RunContract` |
| `Judge` | `submitCode` and `runCode` against edits, failing writes and crashes | `ExecutionSlots`, `RunContract` |
| `RateLimit` | the limiter middleware, its Map and the sweep | |
| `Accounts` | `signup`, `forgotPassword`, `resetPassword`, `updateProfile` over `User` documents | |
| `Catalogue` | the handlers of problems, test cases and competitions, and the seed script, cut at their awaits | |
| `Leaderboard` | the aggregation of `getLeaderboard`, and the ranking as its comment describes it | |
| `Contest` | submissions to the problems of the catalogue, ranked for each competition | `Catalogue`, `Leaderboard` |
| `Session` | token, `AuthContext`, interceptors, protected routes, log-in, log-out, change of profile; requests in flight | |
| `ProblemPage` | `ProblemDetail`: its problem, trial run and submission | extends `Session` |
| `EditPage` | `AdminEditProblem`: its list and fields, and what is stored | extends `Session` |
| `Browser` | one tab | `ProblemPage`, `EditPage` |
| `ExecutionSlots_proofs`, `DockerStep_proofs`, `RateLimit_proofs`, `Accounts_proofs`, `Contest_proofs` | theorems | |
| `Executor_proofs`, `Judge_proofs`, `Browser_proofs` | theorems; the first two instantiate `DockerStep_proofs` and `ExecutionSlots_proofs` | |
| `MC*` | constants for TLC | |

### ExecutionSlots

`activeCount`, `queueLength` and `waiters` are the variables of the module of
the code; `waiters` holds request names where the code holds resolvers.
`status` is where a call of `runSubmission` stands. `acquireExecutionSlot` and
`releaseExecutionSlot` have no await, so each of their outcomes is one action:
`AcquireFree`, `AcquireRefused`, `AcquireQueued`; `HandOff`, `GiveBack`.
`Dequeue` is the microtask in which the callback decrements `queueLength` and
`runSubmission` resumes: between `HandOff` and `Dequeue` a request is `granted`,
it owns a slot and is still counted in the queue. `ThrowBusy` is the exception
that leaves `runSubmission` before its `try`.

### DockerStep

Per step: the state of the promise, of the CLI process, of the container, the
program in it, its exit status, who killed it, the timer, the kill command, and
the local `timedOut`. `Spawn` starts CLI and timer together; `OnClose`,
`OnError` and `TimerFires` are the three callbacks; `KillLands`, `KillMisses`
and `KillFails` are the outcomes of the one `docker kill`. The rest is the
daemon, which is not in the repository: a container is up some time after the
spawn (or is rejected), its program ends by itself or sleeps for ever, its end
closes the CLI. Container names are unique (`randomUUID`), `containerName(s)`.
A CLI that dies while its container lives on (a lost connection to the daemon)
is not modelled, nor are the chunks of stdout and stderr.

### Executor

`at` is the place between two awaits in `executeSubmission`; `compiled` is
whether the language has a compile step. A `return` inside the `try` only fixes
`returning`; `Cleanup` is the `finally`. Step 0 of a run compiles, step `i`
runs test case `i`, and a kill of an earlier step can still be in flight. The
comparison of outputs is a free choice: any output may match or not.

### Judge

One problem (its points and, for each test case, whether it is a sample), one
entry per request for the place in its handler, what it has read, its
`Submission` document and its response. Each step between two awaits of
`submitCode` or `runCode` is one action; a rejected promise goes to the error
handler (`Fail`). An execution is any outcome `RunContract` allows, which is
what the run `executor` shows of `Executor`. Administrators change points, add
and delete test cases, and delete the problem, whose test cases go in a second
step. `Crash` drops what is in memory and keeps what is in MongoDB.

`failed` stands for `failedTestCase`, `detailed` for its input and outputs, which
`redactFailedTestCase` takes away. `error` stands for `errorMessage` by its origin: the
test case whose run's standard error or exit code it quotes, which only a Runtime
Error does (`executor.js:261`); the other messages are empty, the compiler's or a
fixed sentence. Nothing redacts `errorMessage` (`submissionController.js:70`), so
`HiddenCaseRedacted` says exactly how far the redaction goes: never details of a
hidden case, and of a run on one at most that error, of the case named as failed.
What a program may write to its standard error is not modelled.

### RateLimit

All limiters of the process share the Map `buckets`. A request is keyed by its
user, or by its address where nobody is logged in; the two limiters of the
routes sit on either side of that line (`routes/submissions.js:19` behind
`requireAuth`, `routes/auth.js:16` before any login), so each key belongs to
one of them and has its `WindowMs` and `Max`. The middleware has no await:
`OpenWindow`, `CountRequest` and `Refuse` are its three outcomes. `Sweep` is the
callback of the interval timer, any time after it is due. `admitted` and
`refusedAt` are history, `swept` the time of the last sweep; they are read by
properties only.

### Accounts

A request stands in its handler at `at`, with the address and the document it
has found; passwords and reset tokens go by the name of the request that brought
them. A look-up and the save that follows it are two actions, with the
hash of the password or the write in between; everything else interleaves. Three
facts about Mongoose matter and are modelled by what they do: a save writes
only the paths that the handler assigned, the unique index rejects a second
document of an address, and the schema trims an address while the
handlers' queries only lower-case it, so that an address typed with blanks is not
found but collides. A token's hour ends at any moment (`Expire`). `login` and
`me` change nothing.

### Catalogue

A request stands in its handler at `job[q].at`, with the slug it tries or has
looked up, the document it found, the value it read there and the one it is going
to write. Slugs are pairs of what `slugify` makes of a title and the number of
the suffix; a document goes by the request that created it. A save by Mongoose
writes the paths whose value the handler changed: an update that
sets the competition, or the end of a window, to what it had read writes nothing there,
and `SaveProblem` and `SaveCompetition` compare with `read` for that. A
`findOneAndDelete` and the `deleteMany` or `updateMany` after it are two actions,
and `DbFails` may fall between. `late` on a problem or a test case is history:
when the reference was written, its target was gone. The problems of the seed
script are requests of their own (`Seeds`), which try one slug and skip it when
it is taken. `Judge` has the edits that a submission can observe; here they meet
each other.

### Leaderboard and Contest

`rows` is the collection of submissions in order of `createdAt`; a row has score 0
until it is judged, in any order. `Before`, `First`, `Standing` and `Above` are the
stages of the pipeline. `Total`, `Solved` and `ReachedAt` are the description
in the comment of `getLeaderboard`, computed without sorting: the best score for each
problem, and the first row after which the final sum was there. Two rows never
have one `createdAt`, and points are natural numbers: the form asks for at least 1
(`components/ProblemFields.jsx:59`), though the schema takes any number.

### Session, ProblemPage, EditPage, Browser

`flight` holds the requests that have been sent and not answered. Each carries
the token that was stored when it was sent, and `by`: its component is still
mounted, has been left, or the document has been reloaded since, in which case
no code waits for the answer and an edit may still take effect. A token is named
by its account and by the request that brought it. `Settle`, `Failed`,
`Unauthorized` and `Expelled` are what the response interceptor makes of an answer:
the last is its `window.location.assign`, which ends every page.
`MeAnswered`, `LoginAnswered` and `ProfileAnswered` follow with the `then`, `catch`
and `finally` of their callers.

`page` and `form` are the states of the two components, `None` while they are not
mounted. A page's own actions leave the other page to its route
(`PageStays`, `FormStays`). In `ProblemPage` a result is the number of the request
it answers. In `EditPage` an edit is handled (`Handle`), then answered
(`EditAnswered`) or lost (`EditLost`), before or after it was handled; `exact`
is history: the page loaded, no edit was under way when it was opened, and no
answer has been lost.

## Runs

| run | instance | shows |
|---|---|---|
| `slots` | 5 requests, 2 slots, 2 places | counters equal what they count; no idle slot beside a waiter; a refusal only when slots and queue are full; no starvation; refinement of `AdmissionQueue` with its fairness |
| `docker` | 2 concurrent steps | a result without `timedOut` is the program's own; a kill never ends another step's container; a settled promise has no container; no kill after it; a step hangs only if its container escaped its one kill |
| `docker_timeout` | 1 step | **violated**: every spawned step settles |
| `executor` | 1 run, up to 3 test cases, with and without compile step | verdicts say what the containers did; judging stops at the first failure; the mounted directory outlives the container and one container runs at a time; refinement of `RunContract`; a run ends unless a container escaped |
| `judge` | 2 submissions, 1 trial, 1 slot, 1 place, 1 edit, 1 crash, failing database | a hidden failing case is stored and sent without details, and of its run at most the program's own error; nothing is stored of a trial run; the parts of a stored document agree; clients are told what is stored; the semaphore is left clean; every request is answered |
| `judge_pending` | 1 submission, 1 trial, 1 slot, no queue | **violated**: every `Pending` submission is judged |
| `ratelimit` | a user (2 in 2 ticks), an address (1 in 4 ticks), a sweep every 2 | no stretch of `windowMs` sees more than twice the maximum; who is refused has used up the maximum; after a sweep the Map holds only windows that were then open |
| `accounts` | 2 addresses, 2 sign-ups, 2 link requests, 2 resets, 1 profile change | one account for an address; passwords change only by a reset with a link mailed for that account; only the last link opens, and only until it is used |
| `accounts_single_use` | 1 link, 2 resets | **violated**: a link resets once |
| `contest` | 2 old problems, 1 competition, seven loads of up to 4 requests, 2 participants, submissions up to 4 requests in all | an edit changes the document it looked up and no other, and brings none back; two creations never end under one slug; what refers to a document that is gone was written by a request that had looked before the deletion, or is left by a deletion that failed half-way; a window is proper unless two updates raced; the leaderboard ranks as described but for ties with a participant who has failed at a problem |
| `browser` | 2 accounts, 1 administrator, 2 problems, 2 test cases, 2 drafts, 4 requests | the user shown is the one the token acts as, unless a late answer of an earlier token arrives; a verdict answers the last click; the edit page ends with what is stored |
| `browser_login_error` | the same with 2 requests | **violated**: a failed log-in leaves the stored token alone |

### Bounds

* `slots`: five requests against two slots and two places make every outcome
  of an acquire happen while two hand-offs are pending, and a request returns to
  `outside` and calls again. The proofs remove the bound.
* `docker`: one step has the race of its own timer and `close`; a second is
  what a stray kill would hit. The proofs remove the bound.
* `executor`: with three test cases there is a first, a middle and a last one,
  and a kill in flight from a step that is not the one before. Runs share
  nothing but container names, which `docker` covers. The proofs remove the bound on
  runs and test cases.
* `judge`: the one slot, one place and three requests give an execution, a
  waiter and a refusal at once. `MaxTests = 1` makes the sample flag of
  the failing case the only one; longer prefixes of passed cases are `executor`'s.
  One edit and one crash fall at every point of every handler. The proofs remove all
  of these bounds.
* `ratelimit`: the clock runs to `MaxTime = 7`, three windows of the user and
  one and a half of the address, whose window spans two sweeps. The proofs
  remove the bound.
* `accounts`: two of each kind is the least at which a handler races with
  itself; the second address is whose password a stray write would change.
  Requests of a kind are interchangeable, addresses too, and no property is a
  liveness property, so the run uses symmetry. The proofs remove the bound.
* `contest`: a load names the requests that may run together, chosen because they
  touch the same documents: three writers and a deletion are enough for a
  document to vanish between another's look-up and save while its name is
  taken by a third. Four submissions give a tie of two participants over two
  problems with a failure in it. The exceptions of the properties are all reached.
  Problems, titles and participants are interchangeable in the loads, and no
  property is a liveness property, so the run uses symmetry. The proofs remove the
  bounds on requests, documents, submissions and participants.
* `browser`: the tab may begin signed in and idle, so four requests are four that
  overlap: a start-up request against two log-ins; an opened page with three
  edits of it, among them an addition, two deletions and the repetition of one; a
  run, a submission and two problems. A tab opened before, and one reloaded,
  are both initial states or reached. The proofs remove the bounds.
* Edits and crashes are bounded by counters (`Edits`, `Crashes`), test cases by
  `MaxTests`; nothing else is cut off.

`CHECK_DEADLOCK FALSE` is given where requests are finite in number, so that the
model stops when they are all answered; `slots` goes on for ever and is checked
for deadlock.

### Fairness

* `ExecutionSlots`: microtasks run, and an execution ends (`WF` of `Dequeue` and
  `Release`). The second is an assumption: `docker_timeout` is how it fails.
* `DockerStep`: the event loop delivers expired timers and events, the daemon
  gets a container up or rejects it, a program that is going to end ends, a
  `docker kill` returns (`execFile` has its own limit of 10 s). Nothing says a
  sleeping program ends, nor that a kill succeeds.
* `Executor`: a file-system call settles, and a settled promise resumes its run.
* `Judge`: a handler that has begun goes on; a call to MongoDB settles, and an
  execution ends. The last leaves out the steps that hang, which `DockerStep` and
  `Executor` show (finding 1). Nothing is assumed of clients, administrators or crashes.
* `RateLimit`, `Accounts`, `Contest` and `Browser` state safety only and assume
  no fairness: a browser may be closed, and an answer may never come.

`Judge`, `Accounts` and `Catalogue` assume that a rejected call to MongoDB has written nothing.
A write that succeeds and whose acknowledgement is lost is outside the models.

### Findings

1. `docker_timeout`: `README.md:23` promises a wall-clock limit for each step.
   The timer starts with the CLI and sends one kill. If the container is not up
   yet, the kill finds nothing, its error is swallowed, and none follows: a
   program that sleeps then holds its slot for ever (the CPU limit does not count
   sleep).
2. `judge_pending`: `README.md:3` promises an automated verdict. A submission
   whose execution throws, or that is refused a slot (503), keeps its document
   as `Pending`; no code picks it up again.
3. `accounts_single_use`: `README.md:118` lists single-use tokens, and
   `auth.test.js:134` uses a link twice in a row. Two requests that are both past
   the look-up, while the first hashes its password, are both answered 200, and
   the later one decides the password. What does hold is `OnlyLastLinkOpens`: no
   reset that begins after the first was answered gets through.

4. `browser_login_error`: `client.js:15` and `README.md:48` say that a wrong
   password on the login form does not trigger the automatic log-out. Whether it
   does is decided by the token the request carried, and the request interceptor
   adds the stored token to the log-in too; `/login` is open to who is signed in.
   The valid session's token is dropped, while the page goes on showing
   its user until the next request is refused.

### Limits the passing properties draw

Three statements of the documents hold only with an exception, which the property
names and the run reaches:

* `README.md:72` says that deleting a competition un-scopes its problems. A
  `createProblem` or `updateProblem` that resolved the competition before the
  deletion and saves after it, or a failing `updateMany`, leaves a problem whose
  competition is gone (`ReferencesHold`); test cases of deleted problems likewise.
* `competitionController.js:92` and `README.md:70` break ties by who reached the
  score earliest. `lastSolvedAt` also counts the first failed attempt at a problem
  never solved, so that a later failure moves a participant down (`StandingsAsDescribed`).
* `updateCompetition` refuses a window that ends before it begins; two updates, one of
  the start and one of the end, each checked against the old document, leave one
  (`WindowsProper`).

`ActsAsShown` has one too: the answer to `/auth/me` sent at start-up, or to a change of
profile, replaces the user on display whoever has logged in since. It says that user
and token go together, not that a login lasts: a late 401 of an older token ends
both, in `Session` as in `client.js:24`.

## Proofs

Checked by `tlapm` for every value of the constants that satisfies the
assumptions of the modules (`SlotsAssumption`: at least one slot, a natural
bound on the queue; `DockerAssumption`: what tells `None` from a step;
`LimitAssumption`: windows, maxima and the period of the sweep are
positive; `AccountsAssumption` and `KindsAssumption`: no request is of two kinds;
`TimesAssumption`: times are natural numbers and two of them differ;
`ExecutorAssumption`: a run may have a test case; `JudgeAssumption`: a request is a
submission or a trial run, there is a slot, points are natural numbers, `None` is not
a failing test case;
`PointsAssumption`: so are those that the leaderboard sums; `DatabaseAssumption`:
finitely many problems are stored at the start; `EditAssumption`: the database
gives a new test case an id of its own; `NoneAssumption`: `None` is not a value it
stands beside). Each of them is evaluated by TLC in the runs of its module.

`ExecutionSlots_proofs`. The invariant is the conjunction `IInv` of type
correctness, the two counting facts, no lost wake-up, `WaitersDistinct`, and the
finiteness of the sets counted. No single conjunct is inductive:
`SlotsConserved` alone does not survive `HandOff`, because the head of `waiters`
might be somebody who already owns a slot, which `WaitersDistinct` excludes;
`activeCount` stays a natural number in `GiveBack` only because it equals the
cardinality of a set with a member. One lemma per action shows that it
preserves `IInv`. From `IInv` follow `TypeCorrect`, `CapHolds`, `QueueBounded`,
`NoLostWakeup`, `ResolversDistinct`, the action property `RefusalJustified`, and
`RefinesAdmission`: initial states map to initial states and each action to an
action of `AdmissionQueue` or to a stutter.

`DockerStep_proofs`. The invariant is `StepInv(s)` for each step: the CLI
follows the promise, the container follows the CLI, the timer and the kill
advance together with `timedOut`, and a killed container was killed by its own
timer. Since an action of one step leaves the variables of the others alone
(`Elsewhere`), the lemma `OneStepChanges` reduces each action to its own step.
From it: `TypeCorrect`, `ResultsHonest`, `KillsAimed`, `ContainersGone`,
`NoLateKill`. Two more say what the liveness property `SettlesOrEscapes` rests on.
`OnlyEscapesHang`: a step that has not settled has an event to come (`EventDue`
lists the guards of its callbacks) or has a container that escaped its one kill;
its invariant `Watched` says that the timer is put away only with the promise.
`HangsForGood`: where the program of an escaped container sleeps, no step of the
system changes that (the first finding, for every instance and without fairness).

`RateLimit_proofs`. That a fixed window lets through at most twice its maximum
in any stretch of its length is not inductive by itself: nothing in it speaks of
the entry. `WithEntry` says that the last `count` admissions lie in the entry's
window, that earlier ones are a window older, and that those `Max` before
are two windows older; `WithoutEntry` says the same of the present when the
sweep has taken the entry. A lemma about histories for each of the steps that open
a window, count in one, or drop an entry, and one that derives the bound at the
new admission, carry the step proofs. From `IInv` follow `TypeCorrect`,
`RateBounded`, `RefusalsDeserved` and `SweepBoundsMap`.

`Accounts_proofs`. The two action properties speak of tokens and history, so
the invariant has to tie them to the documents: a token in a document is of a
link mailed for it, the last one, presented by no reset that was answered 200
(`LinkInv`); a reset past its look-up holds a link of the account it writes
(`ResetInv`); a handler that has a document to write finds it there
(`HandlerInv`). Three lemmas say what all answers, all look-ups and all
overwritings have in common; each action is then an instance with its own few
facts. From `IInv` follow `TypeCorrect`, `SignupUnique`, `PasswordsGuarded` and
`LinksSuperseded`.

`Contest_proofs`. `ReferencesHold` is inductive once `JobInv` says what a
handler has in hand at each place and `FreshProblems` that a document is not there
before the request that creates it has written it; a step of one request never
makes another's deletion forgotten (`LeftStays`). `WindowsProper` is not: a save
leaves alone the time it has not changed, so the invariant has to say
where that time came from. `StaleInv` does, of every update that is about to
save: where the document is no longer as it read it, another update that was
answered 200 has set that time. `SaveCompetitionIInv` then has four cases, by
which times are written: both are the checked ones; none changes and the earlier
state decides; with one written, the other is of an update whose own window
was checked, and that update and this one are the two of the property. The
lemmas `ContestsStay`, `ProblemsStay` and `OwnStep` say
once what most steps leave alone. `ContestRefines` carries the theorems from the
catalogue to `ContestSpec`, which adds submissions and the leaderboard:
`TypeCorrect`, `ReferencesGuarded`, `WindowsGuarded` and `EditsGuarded`.

The standings are a sum over the best submission of each problem, computed by a
fold. Induction over the problems cannot be cited here (the library's rule has an
operator as its parameter), so `FoldExists`, `FoldSums` and `SumUnique` argue by the
smallest set for which a statement fails: take out one element, and it holds of the
rest. `FirstIs` shows that the `CHOOSE` of the pipeline is the first in the total
order `Before`, `FirstReaches` that it is the earliest submission with the best
score. Different problems have different first submissions, so both ways of
summing agree (`TotalsAgree`) and both counts of solved problems (`CountsAgree`).
`CompleteAt` finds the moment at which the sum is complete, `LastIs` that it is
`lastSolvedAt` for who has no trial in vain, the exception of the property.
`StandingsInv` keeps the stored problems finite. The result is `StandingsGuarded`.

`Executor_proofs`. Each docker step of each run is a step of `DockerStep`
(`NextUsesDocker`), so `DockerStep_proofs` is instantiated with the steps of all runs
and its invariant carried over (`DockerInv`). `RunInv` adds per run: `Counts` (how
far it is, that the directory is there, what it returns), `Spawned` (which steps
have been started, and that only the current one may be pending), `Passes` (the
test cases counted did pass) and `Reasons` (a verdict has its cause in the results
of the steps). From it follow `TypeCorrect`, `VerdictsFaithful`, `StopsEarly` and
`MountStays`; `ContractImplemented` is the refinement of `RunContract`;
`DockerUsed` says that the executor is no more than a client of `DockerStep`. With
`Turn` (the step a run is about to spawn is not spawned, the one it waits for
is), `OnlyEscapesHang` and `RunsHangForGood` lift the two theorems about hanging
steps to runs: only an escaped container makes `executeSubmission` hang, and a
sleeping one does so for good, with the directory left where it is.

`Judge_proofs`. The handlers are to the semaphore what a run is to its steps, and
`ExecutionSlots_proofs` is instantiated with the requests of both; a crash is its
initial state again (`SlotsRestart`, `SlotsUsed`). `HandlerInv` says per request what
it has read, stored and answered at its place, and that only a request that is
judged is in the semaphore: `StoredCohere` needs that the points and the test
cases are those the handler read, not those of the problem by now, and
`ToldTheTruth` that a document still `Pending` is all that any other
answer than 200 leaves. From it follow
`TypeCorrect`, `HiddenTellsOnlyItsError`, `StoredCohere`, `ToldTheTruth` and
`SlotsFollowRequests`; `BusyJustified`: a 503 is sent only when slots and queue were
full; `NoDeadlock`: who waits in the queue waits for a request that owns a slot and
is being judged, and everyone else has a step of its own to come.

`Browser_proofs`. `FlightOK` tells requests apart by their numbers. `PageInv` says
that a mounted page waits for the request of its last click and no other,
which is false of a page whose two buttons do not exclude each other. `FormInv` is
about the difference between what the form shows and what is stored: it is made
up exactly by the answers that are still to come (`Removed`, `Added`, and the one
save). Steps of the session and of the other page leave a page's requests alone or
end it (`Untouched`), so that `PageKept` and `FormKept` cover them all at once. From
it follow `VerdictIsLatest`, `EditsConverge` and, from a case distinction on who
writes `user` or `stored`, `UserFollowsToken`. `SpinnersEnd` adds that whatever
is shown as under way (start-up, run, submission, the form that loads, an edit of
it) has its request in flight, through any 401, change of route, reload or
lost answer.

Only model-checked: liveness under fairness (`NoStarvation`, `SettlesOrEscapes`,
`EndsOrEscapes`, `EveryRequestAnswered` and the fairness part of
`ImplementsAdmission`), which needs `ENABLED`, out of the prover's reach. What can be
said of it without fairness is proved: that nothing waits without somebody or some
event to wait for (`NoLostWakeup`, the two `OnlyEscapesHang`, `NoDeadlock`,
`SpinnersEnd`). Every other property of the runs that pass is a theorem.

## Not modelled

* Queries that change no state, wording, logging, HTML, styles.
* Password hashing, JWT signatures, MongoDB and Docker themselves: they are
  external, modelled where the code depends on what they do.
* The limits of CPU, memory, processes and network of a container: options handed to
  the daemon, enforced by it.
* The `EPIPE` of `child.stdin` (`executor.js:170`) as a cause of the crash;
  the crash itself is in `Judge`.
* A second tab on the same local storage; a second administrator editing the
  problem that `EditPage` shows (in `Catalogue` administrators do meet).
* In `ProblemDetail` the choice of a language and the upload of a file, and that the
  trial run needs a sample; the other pages, which fetch once
  and render, or send one form.
* The status of a competition (`computeStatus`), which is computed from the clock
  for each answer and stored nowhere.
* The chunks of a container's output, their limit and its truncation
  (`executor.js:148-153`).
* More than one backend process: `README.md:155` names the in-memory semaphore
  and limiter as limits of the design. For the same reason containers that
  outlive a crashed process are not counted against the cap.

## Plan

1. `Judge` with executions that are runs of `Executor` instead of any outcome that
   `RunContract` allows, and the theorem that this implements `Judge`, from
   `ContractImplemented`.
2. What a hanging run costs there: `RunsHangForGood` carried to its slot, and the
   number of such runs after which every request waits or is refused.
3. `OutputCapture`: chunks, the limit on their length, truncation.
