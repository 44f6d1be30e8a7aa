-------------------------- MODULE Contest_proofs ----------------------------
(***************************************************************************)
(* Proofs about problems, test cases and competitions for any number of    *)
(* documents and requests, all of them at a time, and about the standings  *)
(* for any submissions to them.                                            *)
(***************************************************************************)
EXTENDS Contest, FiniteSetTheorems, WellFoundedInduction, TLAPS

\* What a handler has in hand at each place.
Sound(q, j) ==
  /\ j.at # "done" => j.code = None
  /\ q \in Creates \cup NewContests \cup Seeds /\ j.at \in {"naming", "named", "saving"} =>
       j.slug \in Slugs
  /\ q \in Updates /\ j.at = "saving" => j.found \in ProblemIds
  /\ q \in ProblemRequests \cup Seeds /\ j.at \in {"found", "filling", "clearing"} =>
       j.found \in ProblemIds
  /\ q \in Creates \cup Seeds /\ j.at = "saving" => j.set \in ContestIds \cup {None}
  /\ q \in Seeds /\ j.at = "start" => j.set = None
  /\ q \in Updates /\ j.at = "saving" => j.set \in ContestIds \cup {None, Keep}
  /\ q \in ContestDeletes /\ j.at = "clearing" => j.found \in ContestIds
  /\ q \in ContestUpdates /\ (j.at = "saving" \/ j.code = "2xx") =>
       /\ j.found \in ContestIds
       /\ j.read \in Windows
       /\ j.set \in Windows
       /\ j.set.startTime < j.set.endTime

JobInv == \A q \in Requests : Sound(q, job[q])

\* Who creates a document has not stored it before.
FreshProblems == \A q \in Creates \cup Seeds : job[q].at \in Early => problems[q] = None
FreshContests == \A q \in NewContests : job[q].at # "done" => contests[q] = None

\* The two halves of ReferencesHold.
TestRefs ==
  \A t \in tests : problems[t.problem] = None => t.late \/ LeftBehind(Deletes, t.problem)
ProblemRefs ==
  \A p \in Stored(problems) :
    Gone(problems[p].competition) =>
      problems[p].late \/ LeftBehind(ContestDeletes, problems[p].competition)

\* v is an update of c that has been answered 200.
Applied(v, c) == v \in ContestUpdates /\ job[v].found = c /\ job[v].code = "2xx"

\* An update that is to save found its competition stored, and where a time is
\* no longer the one it read, another update has set it since.
Explained(q, c) ==
  /\ c \in NewContests => job[c].at = "done"
  /\ contests[c] # None =>
       /\ job[q].read.startTime # contests[c].startTime =>
            \E v \in ContestUpdates : Applied(v, c) /\ job[v].set.startTime = contests[c].startTime
       /\ job[q].read.endTime # contests[c].endTime =>
            \E v \in ContestUpdates : Applied(v, c) /\ job[v].set.endTime = contests[c].endTime

StaleInv ==
  \A q \in ContestUpdates, c \in ContestIds :
    job[q].at = "saving" /\ job[q].found = c => Explained(q, c)

ProblemInv == FreshProblems /\ TestRefs
ContestInv == FreshContests /\ StaleInv /\ WindowsProper
IInv == TypeOK /\ JobInv /\ ProblemInv /\ ProblemRefs /\ ContestInv

-----------------------------------------------------------------------------
(* What steps have in common.                                              *)

\* What a document is made of.
LEMMA DocumentFacts ==
  /\ \A s \in Slugs, c \in ContestIds \cup {None}, q \in OldProblems \cup Requests, l \in BOOLEAN :
       /\ Problem(s, c, q, l) \in Problems
       /\ Problem(s, c, q, l).competition = c
       /\ Problem(s, c, q, l).late = l
       /\ Problem(s, c, q, l).by = q
  /\ \A d \in Problems : d # None /\ d.slug \in Slugs /\ d.competition \in ContestIds \cup {None}
  /\ \A s \in Slugs, from, to \in Times :
       /\ Contest(s, from, to) \in Competitions
       /\ Contest(s, from, to).startTime = from
       /\ Contest(s, from, to).endTime = to
  /\ \A c \in Competitions :
       c # None /\ c.slug \in Slugs /\ c.startTime \in Times /\ c.endTime \in Times
BY NoneAssumption DEF Problem, Problems, Contest, Competitions

\* What is written with a reference says whether its target was there.
LEMMA NewProblem ==
  ASSUME NEW s \in Slugs, NEW c \in ContestIds \cup {None}, NEW q \in OldProblems \cup Requests
  PROVE  LET d == Problem(s, c, q, Gone(c)) IN
         d \in Problems /\ d.competition = c /\ (d.late <=> Gone(c))
<1> DEFINE l == Gone(c)
<1>1. l \in BOOLEAN
  BY DEF Gone
<1> HIDE DEF l
<1>2. LET d == Problem(s, c, q, l) IN d \in Problems /\ d.competition = c /\ (d.late <=> l)
  BY <1>1 DEF Problem, Problems
<1> QED BY <1>2 DEF l

LEMMA NewTestCase ==
  ASSUME NEW p \in ProblemIds, NEW q \in OldProblems \cup Requests
  PROVE  LET t == TestCase(p, q) IN
         t \in TestCases /\ t.problem = p /\ (t.late <=> problems[p] = None)
<1> DEFINE l == (problems[p] = None)
<1>1. l \in BOOLEAN
  OBVIOUS
<1> HIDE DEF l
<1>2. LET t == [problem |-> p, by |-> q, late |-> l] IN
      t \in TestCases /\ t.problem = p /\ (t.late <=> l)
  BY <1>1 DEF TestCases
<1> QED BY <1>2 DEF l, TestCase

\* An answer is a sound state of any handler but an update of a competition
\* that has saved.
LEMMA AnswerFacts ==
  ASSUME NEW q \in Requests, NEW c \in {"2xx", "4xx", "5xx"}, q \in ContestUpdates => c # "2xx"
  PROVE  LET j == [Fresh("done") EXCEPT !.code = c] IN
         j \in Jobs /\ Sound(q, j) /\ j.at = "done" /\ j.code = c
BY DEF Fresh, Jobs, Sound, Values, Places, Codes

LEMMA JobStep ==
  ASSUME IInv, NEW q \in Requests, NEW j \in Jobs, Sound(q, j), job' = [job EXCEPT ![q] = j]
  PROVE  /\ job' \in [Requests -> Jobs]
         /\ job'[q] = j
         /\ \A r \in Requests : r # q => job'[r] = job[r]
         /\ JobInv'
<1>1. /\ job' \in [Requests -> Jobs] /\ job'[q] = j
      /\ \A r \in Requests : r # q => job'[r] = job[r]
  BY DEF IInv, TypeOK
<1>2. \A r \in Requests : Sound(r, job'[r])
  BY <1>1 DEF IInv, JobInv
<1>3. JobInv'
  BY <1>2 DEF JobInv, Sound
<1> QED BY <1>1, <1>3

\* A step about problems leaves the competitions as they are.
LEMMA ContestsStay ==
  ASSUME IInv, contests' = contests, \A r \in ContestRequests : job'[r] = job[r]
  PROVE  ContestInv'
BY DEF IInv, ContestInv, FreshContests, StaleInv, Explained, WindowsProper, Applied, ContestRequests, Stored

\* A step about competitions leaves the problems as they are.
LEMMA ProblemsStay ==
  ASSUME IInv, problems' = problems, tests' = tests,
         \A r \in ProblemRequests \cup Seeds : job'[r] = job[r]
  PROVE  ProblemInv'
BY DEF IInv, ProblemInv, FreshProblems, TestRefs, LeftBehind, ProblemRequests

\* Who leaves something behind is not forgotten by a step of q that keeps it.
LEMMA LeftStays ==
  ASSUME IInv, NEW q \in Requests, NEW D, NEW d, D \subseteq Requests, LeftBehind(D, d),
         \A r \in Requests : r # q => job'[r] = job[r],
         q \in D => \/ job[q].at # "clearing" /\ job[q].code # "5xx"
                    \/ job'[q].found = job[q].found /\ job'[q].code = "5xx"
  PROVE  LeftBehind(D, d)'
BY DEF LeftBehind

\* A step of q that changes nothing but its own entry.
LEMMA OwnStep ==
  ASSUME IInv, NEW q \in Requests, NEW j \in Jobs, Sound(q, j), job' = [job EXCEPT ![q] = j],
         UNCHANGED <<problems, tests, contests>>,
         job[q].at \notin {"unsent", "done"},
         q \in Creates \cup Seeds /\ j.at \in Early => job[q].at \in Early,
         job[q].at = "clearing" => j.found = job[q].found /\ j.code = "5xx",
         q \in ContestUpdates => j.code # "2xx",
         q \in ContestUpdates /\ j.at = "saving" =>
           j.found \in Stored(contests) /\ j.read = Window(contests[j.found])
  PROVE  IInv'
<1>1. /\ job' \in [Requests -> Jobs] /\ job'[q] = j /\ JobInv'
      /\ \A r \in Requests : r # q => job'[r] = job[r]
  BY JobStep
<1>2. job[q].code = None
  BY DEF IInv, JobInv, Sound
<1>3. \A D, d : D \subseteq Requests /\ LeftBehind(D, d) => LeftBehind(D, d)'
  BY <1>1, <1>2, LeftStays, NoneAssumption
<1>4. Deletes \subseteq Requests /\ ContestDeletes \subseteq Requests
  BY DEF Requests, ProblemRequests, ContestRequests
<1>5. ProblemInv'
  <2>1. FreshProblems'
    BY <1>1 DEF IInv, ProblemInv, FreshProblems
  <2>2. TestRefs'
    BY <1>3, <1>4 DEF IInv, ProblemInv, TestRefs
  <2> QED BY <2>1, <2>2 DEF ProblemInv
<1>6. ProblemRefs'
  BY <1>3, <1>4 DEF IInv, ProblemRefs, Stored, Gone
<1>7. ContestInv'
  <2>1. FreshContests'
    BY <1>1 DEF IInv, ContestInv, FreshContests, Requests, ContestRequests
  <2>2. \A v, c : Applied(v, c) => Applied(v, c)' /\ job'[v] = job[v]
    BY <1>1, <1>2, NoneAssumption DEF Applied, Requests, ContestRequests
  <2>3. WindowsProper'
    BY <2>2 DEF IInv, ContestInv, WindowsProper, Applied, Stored
  <2>4. ASSUME NEW u \in ContestUpdates, NEW c \in ContestIds, job'[u].at = "saving", job'[u].found = c
        PROVE  Explained(u, c)'
    <3>1. CASE u # q
      <4>1. job'[u] = job[u]
        BY <1>1, <3>1 DEF Requests, ContestRequests
      <4>2. c \in NewContests /\ job[c].at = "done" => job'[c].at = "done"
        BY <1>1 DEF Requests, ContestRequests
      <4>3. Explained(u, c)
        BY <4>1, <2>4 DEF IInv, ContestInv, StaleInv
      <4> QED BY <4>1, <4>2, <4>3, <2>2 DEF Explained
    <3>2. CASE u = q
      <4>1. c \in Stored(contests) /\ job'[u].read = Window(contests[c])
        BY <1>1, <2>4, <3>2
      <4>2. c \in NewContests => job'[c].at = "done"
        BY <4>1, <1>1, <3>2, KindsAssumption
           DEF IInv, ContestInv, FreshContests, Stored, Requests, ContestRequests
      <4> QED BY <4>1, <4>2 DEF Window, Explained
    <3> QED BY <3>1, <3>2
  <2>5. StaleInv'
    BY <2>4 DEF StaleInv
  <2> QED BY <2>1, <2>3, <2>5 DEF ContestInv
<1> QED BY <1>1, <1>5, <1>6, <1>7 DEF IInv, TypeOK

\* An error, before anything was deleted.
LEMMA ErrorStep ==
  ASSUME IInv, NEW q \in Requests, NEW c \in {"4xx", "5xx"}, Answer(q, c),
         UNCHANGED <<problems, tests, contests>>,
         job[q].at \notin {"unsent", "clearing", "done"}
  PROVE  IInv'
<1> DEFINE j == [Fresh("done") EXCEPT !.code = c]
<1>1. j \in Jobs /\ Sound(q, j) /\ j.at = "done" /\ j.code = c
  BY AnswerFacts
<1>2. job' = [job EXCEPT ![q] = j]
  BY DEF Answer
<1> HIDE DEF j
<1> QED BY <1>1, <1>2, OwnStep DEF Early

-----------------------------------------------------------------------------
(* Each step preserves the invariant.                                      *)

LEMMA RejectInputIInv ==
  ASSUME IInv, NEW q \in Requests, RejectInput(q)
  PROVE  IInv'
BY ErrorStep DEF RejectInput

LEMMA DbFailsIInv ==
  ASSUME IInv, NEW q \in Requests, DbFails(q)
  PROVE  IInv'
<1>1. CASE job[q].at # "clearing"
  BY <1>1, ErrorStep DEF DbFails
<1>2. CASE job[q].at = "clearing"
  <2> DEFINE j == [job[q] EXCEPT !.at = "done", !.code = "5xx"]
  <2>1. /\ j \in Jobs /\ j.at = "done" /\ j.code = "5xx"
        /\ j.found = job[q].found
        /\ job' = [job EXCEPT ![q] = j]
    BY <1>2 DEF DbFails, IInv, TypeOK, Jobs, Places, Codes
  <2>2. Sound(q, j)
    BY <2>1 DEF Sound
  <2>3. UNCHANGED <<problems, tests, contests>>
    BY DEF DbFails
  <2> HIDE DEF j
  <2> QED BY <2>1, <2>2, <2>3, <1>2, OwnStep DEF Early
<1> QED BY <1>1, <1>2

LEMMA TrySlugIInv ==
  ASSUME IInv, NEW q \in Creates \cup NewContests, NEW docs, TrySlug(q, docs)
  PROVE  IInv'
<1>1. q \in Requests /\ q \notin ContestUpdates \cup Updates \cup Seeds \cup ContestDeletes
  BY KindsAssumption DEF Requests, ProblemRequests, ContestRequests
<1>2. PICK s \in IF job[q].at = "start" THEN Titles \X {0} ELSE {job[q].slug} :
        job' = IF Taken(docs, s)
               THEN [job EXCEPT ![q].at = "naming", ![q].slug = <<s[1], s[2] + 1>>]
               ELSE [job EXCEPT ![q].at = "named", ![q].slug = s]
  BY DEF TrySlug
<1>3. job[q].at \in {"start", "naming"}
  BY DEF TrySlug
<1>4. s \in Slugs /\ <<s[1], s[2] + 1>> \in Slugs
  BY <1>1, <1>2, <1>3 DEF IInv, JobInv, Sound, Slugs
<1> DEFINE next(at, slug) == [job[q] EXCEPT !.at = at, !.slug = slug]
<1>5. \E at \in {"naming", "named"}, slug \in Slugs : job' = [job EXCEPT ![q] = next(at, slug)]
  BY <1>1, <1>2, <1>4 DEF IInv, TypeOK, Jobs
<1>6. ASSUME NEW at \in {"naming", "named"}, NEW slug \in Slugs, job' = [job EXCEPT ![q] = next(at, slug)]
      PROVE  IInv'
  <2> DEFINE j == next(at, slug)
  <2>1. /\ j \in Jobs /\ j.at = at /\ j.slug = slug /\ j.code = job[q].code
        /\ j.found = job[q].found
    BY <1>1 DEF IInv, TypeOK, Jobs, Places, Early
  <2>2. Sound(q, j)
    BY <1>1, <1>3, <2>1 DEF IInv, JobInv, Sound
  <2>3. UNCHANGED <<problems, tests, contests>>
    BY DEF TrySlug
  <2> HIDE DEF j
  <2>4. job' = [job EXCEPT ![q] = j]
    BY <1>6 DEF j
  <2> QED BY <1>1, <1>3, <2>1, <2>2, <2>3, <2>4, OwnStep DEF Early
<1> QED BY <1>5, <1>6

LEMMA FindProblemIInv ==
  ASSUME IInv, NEW q \in Updates \cup Adds \cup Removals, FindProblem(q)
  PROVE  IInv'
<1>1. /\ q \in Requests
      /\ q \notin ContestUpdates \cup Creates \cup NewContests \cup Seeds \cup ContestDeletes
  BY KindsAssumption DEF Requests, ProblemRequests, ContestRequests
<1>2. job[q].at = "start" /\ UNCHANGED <<problems, tests, contests>>
  BY DEF FindProblem
<1>3. CASE Answer(q, "4xx")
  BY <1>1, <1>2, <1>3, ErrorStep
<1>4. ASSUME NEW p \in Stored(problems),
             job' = [job EXCEPT ![q].at = "found", ![q].slug = problems[p].slug,
                                ![q].found = p, ![q].read = problems[p].competition]
      PROVE  IInv'
  <2> DEFINE j == [job[q] EXCEPT !.at = "found", !.slug = problems[p].slug,
                                 !.found = p, !.read = problems[p].competition]
  <2>1. /\ p \in ProblemIds /\ problems[p].slug \in Slugs
        /\ problems[p].competition \in ContestIds \cup {None}
    BY DocumentFacts DEF IInv, TypeOK, Stored
  <2>2. /\ j \in Jobs /\ j.at = "found" /\ j.found = p /\ j.code = job[q].code
        /\ job' = [job EXCEPT ![q] = j]
    BY <1>1, <1>4, <2>1 DEF IInv, TypeOK, Jobs, Places, Values
  <2>3. Sound(q, j)
    BY <1>1, <1>2, <2>1, <2>2 DEF IInv, JobInv, Sound
  <2> HIDE DEF j
  <2> QED BY <1>1, <1>2, <2>2, <2>3, OwnStep DEF Early
<1> QED BY <1>3, <1>4 DEF FindProblem

LEMMA ResolveCompetitionIInv ==
  ASSUME IInv, NEW q \in Creates \cup Updates, ResolveCompetition(q)
  PROVE  IInv'
<1>1. q \in Requests /\ q \notin ContestRequests \cup Seeds \cup Deletes
  BY KindsAssumption DEF Requests, ProblemRequests
<1>2. job[q].at = (IF q \in Creates THEN "named" ELSE "found") /\ UNCHANGED <<problems, tests, contests>>
  BY DEF ResolveCompetition
<1>3. CASE Answer(q, "4xx")
  BY <1>1, <1>2, <1>3, ErrorStep
<1>4. ASSUME NEW c \in Stored(contests) \cup {None} \cup (IF q \in Updates THEN {Keep} ELSE {}),
             job' = [job EXCEPT ![q].at = "saving", ![q].set = c]
      PROVE  IInv'
  <2> DEFINE j == [job[q] EXCEPT !.at = "saving", !.set = c]
  <2>1. c \in ContestIds \cup {None} \cup (IF q \in Updates THEN {Keep} ELSE {})
    BY DEF IInv, TypeOK, Stored
  <2>2. /\ j \in Jobs /\ j.at = "saving" /\ j.found = job[q].found /\ j.code = job[q].code
        /\ j.slug = job[q].slug /\ j.set = c
        /\ job' = [job EXCEPT ![q] = j]
    BY <1>1, <1>4, <2>1 DEF IInv, TypeOK, Jobs, Places, Early, Values
  <2>3. Sound(q, j)
    BY <1>1, <1>2, <2>1, <2>2, KindsAssumption
       DEF IInv, JobInv, Sound, ContestRequests, ProblemRequests
  <2> HIDE DEF j
  <2> QED BY <1>1, <1>2, <2>2, <2>3, OwnStep DEF Early, ContestRequests
<1> QED BY <1>3, <1>4 DEF ResolveCompetition

LEMMA SeedLooksUpIInv ==
  ASSUME IInv, NEW q \in Seeds, SeedLooksUp(q)
  PROVE  IInv'
<1>1. q \in Requests /\ q \notin ContestRequests \cup ProblemRequests
  BY KindsAssumption DEF Requests
<1>2. job[q].at = "start" /\ UNCHANGED <<problems, tests, contests>>
  BY DEF SeedLooksUp
<1>3. CASE Answer(q, "2xx")
  <2> DEFINE j == [Fresh("done") EXCEPT !.code = "2xx"]
  <2>1. j \in Jobs /\ Sound(q, j) /\ j.at = "done" /\ j.code = "2xx"
    BY <1>1, AnswerFacts DEF ContestRequests
  <2>2. job' = [job EXCEPT ![q] = j]
    BY <1>3 DEF Answer
  <2> HIDE DEF j
  <2> QED BY <1>1, <1>2, <2>1, <2>2, OwnStep DEF Early, ContestRequests
<1>4. ASSUME NEW t \in Titles, job' = [job EXCEPT ![q].at = "saving", ![q].slug = <<t, 0>>]
      PROVE  IInv'
  <2> DEFINE j == [job[q] EXCEPT !.at = "saving", !.slug = <<t, 0>>]
  <2>1. /\ j \in Jobs /\ j.at = "saving" /\ j.slug \in Slugs /\ j.set = job[q].set
        /\ j.code = job[q].code
        /\ job' = [job EXCEPT ![q] = j]
    BY <1>1, <1>4 DEF IInv, TypeOK, Jobs, Places, Early, Slugs
  <2>2. Sound(q, j)
    BY <1>1, <1>2, <2>1 DEF IInv, JobInv, Sound, ContestRequests, ProblemRequests
  <2> HIDE DEF j
  <2> QED BY <1>1, <1>2, <2>1, <2>2, OwnStep DEF Early, ContestRequests
<1> QED BY <1>3, <1>4 DEF SeedLooksUp

LEMMA AssignWindowIInv ==
  ASSUME IInv, NEW q \in ContestUpdates, AssignWindow(q)
  PROVE  IInv'
<1>1. /\ q \in Requests
      /\ q \notin ProblemRequests \cup Seeds \cup NewContests \cup ContestDeletes
  BY KindsAssumption DEF Requests, ContestRequests
<1>2. job[q].at = "start" /\ UNCHANGED <<problems, tests, contests>>
  BY DEF AssignWindow
<1>3. CASE Answer(q, "4xx")
  BY <1>1, <1>2, <1>3, ErrorStep
<1>4. ASSUME NEW c \in Stored(contests), NEW from \in Times, NEW to \in Times, ~(from >= to),
             job' = [job EXCEPT ![q].at = "saving", ![q].found = c, ![q].read = Window(contests[c]),
                                ![q].set = [startTime |-> from, endTime |-> to]]
      PROVE  IInv'
  <2> DEFINE w == [startTime |-> from, endTime |-> to]
             j == [job[q] EXCEPT !.at = "saving", !.found = c, !.read = Window(contests[c]), !.set = w]
  <2>1. c \in ContestIds /\ Window(contests[c]) \in Windows
    BY DocumentFacts DEF IInv, TypeOK, Stored, Window, Windows
  <2>2. w \in Windows /\ w.startTime < w.endTime
    BY <1>4, TimesAssumption DEF Windows
  <2> HIDE DEF w
  <2>3. /\ j \in Jobs /\ j.at = "saving" /\ j.found = c /\ j.code = job[q].code
        /\ j.read = Window(contests[c]) /\ j.set = w
        /\ job' = [job EXCEPT ![q] = j]
    BY <1>1, <1>4, <2>1, <2>2 DEF IInv, TypeOK, Jobs, Places, Early, Values, w
  <2>4. job[q].code = None
    BY <1>1, <1>2 DEF IInv, JobInv, Sound
  <2> HIDE DEF j
  <2>5. Sound(q, j)
    BY <1>1, <2>1, <2>2, <2>3, <2>4 DEF Sound, ProblemRequests
  <2> QED BY <1>1, <1>2, <1>4, <2>3, <2>4, <2>5, OwnStep, NoneAssumption DEF Early, ProblemRequests
<1> QED BY <1>3, <1>4 DEF AssignWindow

LEMMA CreateProblemIInv ==
  ASSUME IInv, NEW q \in Creates \cup Seeds, CreateProblem(q)
  PROVE  IInv'
<1>1. /\ q \in Requests /\ q \in ProblemIds
      /\ q \notin ContestRequests \cup Deletes \cup Updates
  BY KindsAssumption DEF Requests, ProblemRequests, ProblemIds
<1>2. job[q].at = "saving" /\ tests' = tests /\ contests' = contests
  BY DEF CreateProblem
<1>3. CASE Taken(problems, job[q].slug)
  BY <1>1, <1>2, <1>3, ErrorStep DEF CreateProblem
<1>4. CASE ~Taken(problems, job[q].slug)
  <2> DEFINE d == Problem(job[q].slug, job[q].set, q, Gone(job[q].set))
  <2>1. problems[q] = None /\ job[q].slug \in Slugs /\ job[q].set \in ContestIds \cup {None}
    BY <1>1, <1>2 DEF IInv, ProblemInv, FreshProblems, JobInv, Sound, Early
  <2>2. /\ d \in Problems /\ d # None /\ d.competition = job[q].set
        /\ (d.late <=> Gone(job[q].set))
    BY <1>1, <2>1, NewProblem, DocumentFacts
  <2>3. problems' = [problems EXCEPT ![q] = d]
    BY <1>4 DEF CreateProblem
  <2> HIDE DEF d
  <2>4. PICK j \in Jobs : Sound(q, j) /\ j.at \in {"filling", "done"} /\ job' = [job EXCEPT ![q] = j]
    <3>1. CASE Answer(q, "2xx")
      BY <1>1, <3>1, AnswerFacts DEF Answer, ContestRequests
    <3>2. CASE job' = [job EXCEPT ![q].at = "filling", ![q].found = q]
      <4> DEFINE j == [job[q] EXCEPT !.at = "filling", !.found = q]
      <4>1. /\ j \in Jobs /\ j.at = "filling" /\ j.found = q /\ j.code = job[q].code
            /\ job' = [job EXCEPT ![q] = j]
        BY <1>1, <3>2 DEF IInv, TypeOK, Jobs, Places
      <4>2. Sound(q, j)
        BY <1>1, <1>2, <4>1 DEF IInv, JobInv, Sound, ContestRequests
      <4> QED BY <4>1, <4>2
    <3> QED BY <1>4, <3>1, <3>2 DEF CreateProblem
  <2>5. /\ job' \in [Requests -> Jobs] /\ job'[q] = j /\ JobInv'
        /\ \A r \in Requests : r # q => job'[r] = job[r]
    BY <1>1, <2>4, JobStep
  <2>6. /\ problems' \in [ProblemIds -> Problems \cup {None}]
        /\ problems'[q] = d
        /\ \A p \in ProblemIds : p # q => problems'[p] = problems[p]
    BY <1>1, <2>2, <2>3 DEF IInv, TypeOK
  <2>7. TypeOK'
    BY <1>2, <2>5, <2>6 DEF IInv, TypeOK
  <2>8. FreshProblems'
    BY <2>4, <2>5, <2>6 DEF IInv, ProblemInv, FreshProblems, Early, ProblemIds, Requests, ProblemRequests
  <2>9. TestRefs'
    BY <1>1, <1>2, <2>2, <2>5, <2>6
       DEF IInv, ProblemInv, TestRefs, LeftBehind, TypeOK, TestCases, Requests, ProblemRequests
  <2>a. \A r \in ContestDeletes : job'[r] = job[r]
    BY <1>1, <2>5 DEF Requests, ContestRequests
  <2>10. ProblemRefs'
    BY <1>2, <2>1, <2>2, <2>6, <2>a DEF IInv, TypeOK, ProblemRefs, Stored, Gone, LeftBehind
  <2>11. ContestInv'
    BY <1>1, <1>2, <2>5, ContestsStay DEF Requests
  <2> QED BY <2>5, <2>7, <2>8, <2>9, <2>10, <2>11 DEF IInv, ProblemInv
<1> QED BY <1>3, <1>4

\* A step of a problem's request that is answered 200 or 201.
LEMMA AnsweredStep ==
  ASSUME IInv, NEW q \in ProblemRequests \cup Seeds, Answer(q, "2xx")
  PROVE  /\ job' \in [Requests -> Jobs]
         /\ job'[q].at = "done" /\ job'[q].code = "2xx"
         /\ \A r \in Requests : r # q => job'[r] = job[r]
         /\ JobInv'
<1> DEFINE j == [Fresh("done") EXCEPT !.code = "2xx"]
<1>1. q \in Requests /\ q \notin ContestUpdates
  BY KindsAssumption DEF Requests, ContestRequests
<1>2. j \in Jobs /\ Sound(q, j) /\ j.at = "done" /\ j.code = "2xx"
  BY <1>1, AnswerFacts
<1>3. job' = [job EXCEPT ![q] = j]
  BY DEF Answer
<1> HIDE DEF j
<1> QED BY <1>1, <1>2, <1>3, JobStep

LEMMA InsertTestCasesIInv ==
  ASSUME IInv, NEW q \in Creates \cup Seeds \cup Adds, InsertTestCases(q)
  PROVE  IInv'
<1>1. q \in ProblemRequests \cup Seeds /\ q \in Requests /\ q \notin ContestRequests \cup Deletes
  BY KindsAssumption DEF Requests, ProblemRequests
<1>2. /\ job[q].at = (IF q \in Adds THEN "found" ELSE "filling")
      /\ UNCHANGED <<problems, contests>>
      /\ tests' = tests \cup {TestCase(job[q].found, q)}
  BY DEF InsertTestCases
<1>3. /\ job' \in [Requests -> Jobs] /\ job'[q].at = "done" /\ JobInv'
      /\ \A r \in Requests : r # q => job'[r] = job[r]
  BY <1>1, AnsweredStep DEF InsertTestCases
<1>4. job[q].found \in ProblemIds
  BY <1>1, <1>2 DEF IInv, JobInv, Sound
<1> DEFINE t == TestCase(job[q].found, q)
<1>a. t \in TestCases /\ (t.late <=> problems[t.problem] = None)
  BY <1>1, <1>4, NewTestCase
<1> HIDE DEF t
<1>b. tests' = tests \cup {t}
  BY <1>2 DEF t
<1>5. TypeOK'
  BY <1>2, <1>3, <1>a, <1>b DEF IInv, TypeOK
<1>6. FreshProblems'
  BY <1>2, <1>3 DEF IInv, ProblemInv, FreshProblems, Early, Requests, ProblemRequests
<1>7. TestRefs'
  BY <1>1, <1>2, <1>3, <1>a, <1>b DEF IInv, ProblemInv, TestRefs, LeftBehind, Requests, ProblemRequests
<1>8. ProblemRefs'
  BY <1>1, <1>2, <1>3 DEF IInv, TypeOK, ProblemRefs, Stored, Gone, LeftBehind, Requests, ContestRequests
<1>9. ContestInv'
  BY <1>1, <1>2, <1>3, ContestsStay DEF Requests
<1> QED BY <1>3, <1>5, <1>6, <1>7, <1>8, <1>9 DEF IInv, ProblemInv

LEMMA SaveProblemIInv ==
  ASSUME IInv, NEW q \in Updates, SaveProblem(q)
  PROVE  IInv'
<1>1. /\ q \in ProblemRequests \cup Seeds /\ q \in Requests
      /\ q \notin ContestRequests \cup Deletes \cup Creates \cup Seeds
  BY KindsAssumption DEF Requests, ProblemRequests
<1>2. job[q].at = "saving" /\ tests' = tests /\ contests' = contests
  BY DEF SaveProblem
<1> DEFINE f == job[q].found
           c == job[q].set
           d == IF c \in {Keep, job[q].read} THEN [problems[f] EXCEPT !.by = q]
                ELSE Problem(problems[f].slug, c, q, Gone(c))
<1>3. CASE problems[f] = None
  BY <1>1, <1>2, <1>3, ErrorStep DEF SaveProblem
<1>4. CASE problems[f] # None
  <2>1. f \in ProblemIds /\ problems[f] \in Problems /\ c \in ContestIds \cup {None, Keep}
    BY <1>1, <1>2, <1>4 DEF IInv, TypeOK, JobInv, Sound
  <2>2. /\ d \in Problems /\ d # None
        /\ \/ d.competition = problems[f].competition /\ d.late = problems[f].late
           \/ (d.late <=> Gone(d.competition))
    <3>1. CASE c \in {Keep, job[q].read}
      BY <1>1, <2>1, <3>1, DocumentFacts DEF Problems
    <3>2. CASE c \notin {Keep, job[q].read}
      <4>1. problems[f].slug \in Slugs /\ c \in ContestIds \cup {None} /\ q \in Requests
        BY <1>1, <2>1, <3>2, DocumentFacts
      <4>2. d = Problem(problems[f].slug, c, q, Gone(c))
        BY <3>2
      <4> QED BY <4>1, <4>2, NewProblem, DocumentFacts
    <3> QED BY <3>1, <3>2
  <2>3. problems' = [problems EXCEPT ![f] = d] /\ Answer(q, "2xx")
    BY <1>4 DEF SaveProblem
  <2> HIDE DEF d, c, f
  <2>4. /\ job' \in [Requests -> Jobs] /\ job'[q].at = "done" /\ JobInv'
        /\ \A r \in Requests : r # q => job'[r] = job[r]
    BY <1>1, <2>3, AnsweredStep
  <2>5. /\ problems' \in [ProblemIds -> Problems \cup {None}]
        /\ problems'[f] = d
        /\ \A p \in ProblemIds : p # f => problems'[p] = problems[p]
    BY <2>1, <2>2, <2>3 DEF IInv, TypeOK
  <2>6. TypeOK'
    BY <1>2, <2>4, <2>5 DEF IInv, TypeOK
  <2>7. FreshProblems'
    BY <1>1, <1>4, <2>4, <2>5 DEF IInv, ProblemInv, FreshProblems, ProblemIds, Requests, ProblemRequests, f
  <2>8. TestRefs'
    BY <1>1, <1>2, <2>2, <2>4, <2>5
       DEF IInv, ProblemInv, TestRefs, LeftBehind, TypeOK, TestCases, Requests, ProblemRequests
  <2>9. \A r \in ContestDeletes : job'[r] = job[r]
    BY <1>1, <2>4 DEF Requests, ContestRequests
  <2>10. ProblemRefs'
    BY <1>2, <1>4, <2>1, <2>2, <2>5, <2>9 DEF IInv, TypeOK, ProblemRefs, Stored, Gone, LeftBehind, f
  <2>11. ContestInv'
    BY <1>1, <1>2, <2>4, ContestsStay DEF Requests
  <2> QED BY <2>4, <2>6, <2>7, <2>8, <2>10, <2>11 DEF IInv, ProblemInv
<1> QED BY <1>3, <1>4

LEMMA DeleteProblemIInv ==
  ASSUME IInv, NEW q \in Deletes, DeleteProblem(q)
  PROVE  IInv'
<1>1. /\ q \in Requests
      /\ q \notin ContestRequests \cup Creates \cup Updates \cup Seeds
  BY KindsAssumption DEF Requests, ProblemRequests
<1>2. job[q].at = "start" /\ tests' = tests /\ contests' = contests
  BY DEF DeleteProblem
<1>3. CASE Answer(q, "4xx") /\ UNCHANGED problems
  BY <1>1, <1>2, <1>3, ErrorStep
<1>4. ASSUME NEW p \in Stored(problems), problems' = [problems EXCEPT ![p] = None],
             job' = [job EXCEPT ![q].at = "clearing", ![q].found = p]
      PROVE  IInv'
  <2> DEFINE j == [job[q] EXCEPT !.at = "clearing", !.found = p]
  <2>1. p \in ProblemIds
    BY DEF IInv, TypeOK, Stored
  <2>2. /\ j \in Jobs /\ j.at = "clearing" /\ j.found = p /\ j.code = job[q].code
        /\ job' = [job EXCEPT ![q] = j]
    BY <1>1, <1>4, <2>1 DEF IInv, TypeOK, Jobs, Places
  <2>3. Sound(q, j) /\ job[q].code = None
    BY <1>1, <1>2, <2>1, <2>2, NoneAssumption DEF IInv, JobInv, Sound, ContestRequests
  <2> HIDE DEF j
  <2>4. /\ job' \in [Requests -> Jobs] /\ job'[q] = j /\ JobInv'
        /\ \A r \in Requests : r # q => job'[r] = job[r]
    BY <1>1, <2>2, <2>3, JobStep
  <2>5. /\ problems' \in [ProblemIds -> Problems \cup {None}]
        /\ problems'[p] = None
        /\ \A r \in ProblemIds : r # p => problems'[r] = problems[r]
    BY <1>4, <2>1 DEF IInv, TypeOK
  <2>6. TypeOK'
    BY <1>2, <2>4, <2>5 DEF IInv, TypeOK
  <2>7. FreshProblems'
    BY <1>1, <2>4, <2>5 DEF IInv, ProblemInv, FreshProblems, ProblemIds, Requests, ProblemRequests
  <2>8. TestRefs'
    <3>1. \A r \in Deletes : r # q => job'[r] = job[r]
      BY <2>4 DEF Requests, ProblemRequests
    <3> QED BY <1>2, <2>2, <2>3, <2>4, <2>5, <3>1, NoneAssumption
            DEF IInv, ProblemInv, TestRefs, LeftBehind, TypeOK, TestCases
  <2>9. \A r \in ContestDeletes : job'[r] = job[r]
    BY <1>1, <2>4 DEF Requests, ContestRequests
  <2>10. ProblemRefs'
    BY <1>2, <2>1, <2>5, <2>9 DEF IInv, TypeOK, ProblemRefs, Stored, Gone, LeftBehind
  <2>11. ContestInv'
    BY <1>1, <1>2, <2>4, ContestsStay DEF Requests
  <2> QED BY <2>4, <2>6, <2>7, <2>8, <2>10, <2>11 DEF IInv, ProblemInv
<1> QED BY <1>3, <1>4 DEF DeleteProblem

LEMMA ClearTestCasesIInv ==
  ASSUME IInv, NEW q \in Deletes, ClearTestCases(q)
  PROVE  IInv'
<1>1. /\ q \in Requests /\ q \in ProblemRequests \cup Seeds
      /\ q \notin ContestRequests \cup Creates \cup Seeds
  BY KindsAssumption DEF Requests, ProblemRequests
<1>2. /\ job[q].at = "clearing"
      /\ UNCHANGED <<problems, contests>>
      /\ tests' = {t \in tests : t.problem # job[q].found}
  BY DEF ClearTestCases
<1>3. /\ job' \in [Requests -> Jobs] /\ JobInv'
      /\ \A r \in Requests : r # q => job'[r] = job[r]
  BY <1>1, AnsweredStep DEF ClearTestCases
<1>4. TypeOK'
  BY <1>2, <1>3 DEF IInv, TypeOK
<1>5. FreshProblems'
  BY <1>1, <1>2, <1>3 DEF IInv, ProblemInv, FreshProblems, Requests, ProblemRequests
<1>6. TestRefs'
  <2>1. \A r \in Deletes : r # q => job'[r] = job[r]
    BY <1>3 DEF Requests, ProblemRequests
  <2> QED BY <1>2, <2>1 DEF IInv, ProblemInv, TestRefs, LeftBehind
<1>7. ProblemRefs'
  <2>1. \A r \in ContestDeletes : job'[r] = job[r]
    BY <1>1, <1>3 DEF Requests, ContestRequests
  <2> QED BY <1>2, <2>1 DEF IInv, ProblemRefs, Stored, Gone, LeftBehind
<1>8. ContestInv'
  BY <1>1, <1>2, <1>3, ContestsStay DEF Requests
<1> QED BY <1>3, <1>4, <1>5, <1>6, <1>7, <1>8 DEF IInv, ProblemInv

LEMMA RemoveTestCaseIInv ==
  ASSUME IInv, NEW q \in Removals, RemoveTestCase(q)
  PROVE  IInv'
<1>1. /\ q \in Requests /\ q \in ProblemRequests \cup Seeds
      /\ q \notin ContestRequests \cup Creates \cup Deletes \cup Seeds
  BY KindsAssumption DEF Requests, ProblemRequests
<1>2. job[q].at = "found" /\ UNCHANGED <<problems, contests>> /\ tests' \subseteq tests
  BY DEF RemoveTestCase
<1>3. CASE Answer(q, "4xx") /\ UNCHANGED tests
  BY <1>1, <1>2, <1>3, ErrorStep
<1>4. CASE Answer(q, "2xx")
  <2>1. /\ job' \in [Requests -> Jobs] /\ JobInv'
        /\ \A r \in Requests : r # q => job'[r] = job[r]
    BY <1>1, <1>4, AnsweredStep
  <2>2. /\ \A r \in Deletes : job'[r] = job[r]
        /\ \A r \in ContestDeletes : job'[r] = job[r]
    BY <1>1, <2>1 DEF Requests, ProblemRequests, ContestRequests
  <2>3. TypeOK'
    BY <1>2, <2>1 DEF IInv, TypeOK
  <2>4. FreshProblems'
    BY <1>1, <1>2, <2>1 DEF IInv, ProblemInv, FreshProblems, Requests, ProblemRequests
  <2>5. TestRefs' /\ ProblemRefs'
    BY <1>2, <2>2 DEF IInv, ProblemInv, TestRefs, ProblemRefs, Stored, Gone, LeftBehind
  <2>6. ContestInv'
    BY <1>1, <1>2, <2>1, ContestsStay DEF Requests
  <2> QED BY <2>1, <2>3, <2>4, <2>5, <2>6 DEF IInv, ProblemInv
<1> QED BY <1>3, <1>4 DEF RemoveTestCase

LEMMA CreateCompetitionIInv ==
  ASSUME IInv, NEW q \in NewContests, CreateCompetition(q)
  PROVE  IInv'
<1>1. /\ q \in Requests /\ q \in ContestIds
      /\ q \notin ProblemRequests \cup Seeds \cup ContestUpdates \cup ContestDeletes
  BY KindsAssumption DEF Requests, ContestRequests, ContestIds
<1>2. job[q].at = "named" /\ UNCHANGED <<problems, tests>>
  BY DEF CreateCompetition
<1>3. CASE Taken(contests, job[q].slug)
  BY <1>1, <1>2, <1>3, ErrorStep DEF CreateCompetition
<1>4. CASE ~Taken(contests, job[q].slug)
  <2>1. job[q].slug \in Slugs /\ contests[q] = None
    BY <1>1, <1>2 DEF IInv, JobInv, Sound, ContestInv, FreshContests
  <2>2. PICK from \in Times, to \in Times :
          from < to /\ contests' = [contests EXCEPT ![q] = Contest(job[q].slug, from, to)]
    BY <1>4 DEF CreateCompetition
  <2> DEFINE d == Contest(job[q].slug, from, to)
             j == [Fresh("done") EXCEPT !.code = "2xx"]
  <2>3. d \in Competitions /\ d # None /\ d.startTime < d.endTime
    BY <2>1, <2>2, DocumentFacts
  <2>4. j \in Jobs /\ Sound(q, j) /\ j.at = "done" /\ job' = [job EXCEPT ![q] = j]
    BY <1>1, <1>4, AnswerFacts DEF CreateCompetition, Answer
  <2> HIDE DEF d, j
  <2>5. /\ job' \in [Requests -> Jobs] /\ job'[q].at = "done" /\ JobInv'
        /\ \A r \in Requests : r # q => job'[r] = job[r]
    BY <1>1, <2>4, JobStep
  <2>6. /\ contests' \in [ContestIds -> Competitions \cup {None}]
        /\ contests'[q] = d
        /\ \A c \in ContestIds : c # q => contests'[c] = contests[c]
    BY <1>1, <2>2, <2>3 DEF IInv, TypeOK, d
  <2>7. TypeOK'
    BY <1>2, <2>5, <2>6 DEF IInv, TypeOK
  <2>8. ProblemInv'
    BY <1>1, <1>2, <2>5, ProblemsStay DEF Requests
  <2>9. \A r \in ContestUpdates \cup ContestDeletes : job'[r] = job[r]
    BY <1>1, <2>5 DEF Requests, ContestRequests
  <2>10. ProblemRefs'
    <3>1. \A p \in Stored(problems) : problems[p].competition \in ContestIds \cup {None}
      BY DocumentFacts DEF IInv, TypeOK, Stored
    <3> QED BY <1>2, <2>3, <2>6, <2>9, <3>1 DEF IInv, ProblemRefs, Stored, Gone, LeftBehind
  <2>11. FreshContests'
    BY <2>5, <2>6 DEF IInv, ContestInv, FreshContests, ContestIds, Requests, ContestRequests
  <2>12. \A v, c : Applied(v, c) => Applied(v, c)' /\ job'[v] = job[v]
    BY <2>9 DEF Applied
  <2>13. ASSUME NEW u \in ContestUpdates, NEW c \in ContestIds, job'[u].at = "saving", job'[u].found = c
         PROVE  Explained(u, c)'
    <3>1. job'[u] = job[u] /\ Explained(u, c)
      BY <2>9, <2>13 DEF IInv, ContestInv, StaleInv
    <3>2. c # q
      BY <1>2, <3>1 DEF Explained
    <3>3. c \in NewContests => job'[c] = job[c]
      BY <2>5, <3>2 DEF Requests, ContestRequests
    <3> QED BY <2>6, <2>12, <3>1, <3>2, <3>3 DEF Explained
  <2>14. StaleInv'
    BY <2>13 DEF StaleInv
  <2>15. WindowsProper'
    BY <2>3, <2>6, <2>9 DEF IInv, TypeOK, ContestInv, WindowsProper, Stored
  <2> QED BY <2>5, <2>7, <2>8, <2>10, <2>11, <2>14, <2>15 DEF IInv, ContestInv
<1> QED BY <1>3, <1>4

\* An update has been checked against what it read: where it leaves a time that
\* is not its own, another update has set it since.
LEMMA SaveCompetitionIInv ==
  ASSUME IInv, NEW q \in ContestUpdates, SaveCompetition(q)
  PROVE  IInv'
<1>1. /\ q \in Requests
      /\ q \notin ProblemRequests \cup Seeds \cup NewContests \cup ContestDeletes
  BY KindsAssumption DEF Requests, ContestRequests
<1>2. job[q].at = "saving" /\ UNCHANGED <<problems, tests>>
  BY DEF SaveCompetition
<1>0. PICK c, read, set : c = job[q].found /\ read = job[q].read /\ set = job[q].set
  OBVIOUS
<1> DEFINE j == [job[q] EXCEPT !.at = "done", !.code = "2xx"]
           from == IF set.startTime = read.startTime THEN contests[c].startTime ELSE set.startTime
           to == IF set.endTime = read.endTime THEN contests[c].endTime ELSE set.endTime
<1>3. CASE contests[c] = None
  BY <1>0, <1>1, <1>2, <1>3, ErrorStep DEF SaveCompetition
<1>4. CASE contests[c] # None
  <2>1. /\ c \in ContestIds /\ read \in Windows /\ set \in Windows
        /\ set.startTime < set.endTime
        /\ contests[c] \in Competitions
    BY <1>0, <1>1, <1>2, <1>4 DEF IInv, TypeOK, JobInv, Sound
  <2>2. Explained(q, c)
    BY <1>0, <1>2, <2>1 DEF IInv, ContestInv, StaleInv
  <2>3. /\ contests' = [contests EXCEPT ![c].startTime = from, ![c].endTime = to]
        /\ job' = [job EXCEPT ![q].at = "done", ![q].code = "2xx"]
    BY <1>0, <1>4 DEF SaveCompetition
  <2>4. /\ j \in Jobs /\ j.at = "done" /\ j.code = "2xx" /\ job' = [job EXCEPT ![q] = j]
        /\ j.found = c /\ j.read = read /\ j.set = set
    BY <1>0, <1>1, <2>3 DEF IInv, TypeOK, Jobs, Places, Codes
  <2> HIDE DEF j
  <2>5. Sound(q, j)
    BY <1>1, <2>1, <2>4 DEF Sound, ProblemRequests
  <2>6. /\ job' \in [Requests -> Jobs] /\ job'[q] = j /\ JobInv'
        /\ \A r \in Requests : r # q => job'[r] = job[r]
    BY <1>1, <2>4, <2>5, JobStep
  <2>7. from \in Times /\ to \in Times
    BY <2>1 DEF Windows, Competitions
  <2>8. /\ contests' \in [ContestIds -> Competitions \cup {None}]
        /\ contests'[c] # None /\ contests'[c].startTime = from /\ contests'[c].endTime = to
        /\ \A b \in ContestIds : b # c => contests'[b] = contests[b]
    <3> DEFINE w == [contests[c] EXCEPT !.startTime = from, !.endTime = to]
    <3>1. w \in Competitions /\ w.startTime = from /\ w.endTime = to
      BY <2>1, <2>7 DEF Competitions
    <3>2. contests' = [contests EXCEPT ![c] = w]
      BY <2>1, <2>3 DEF IInv, TypeOK
    <3> HIDE DEF w, from, to
    <3> QED BY <2>1, <3>1, <3>2, DocumentFacts DEF IInv, TypeOK
  <2>9. TypeOK'
    BY <1>2, <2>6, <2>8 DEF IInv, TypeOK
  <2>10. ProblemInv'
    BY <1>1, <1>2, <2>6, ProblemsStay DEF Requests
  <2>11. \A r \in ContestDeletes : job'[r] = job[r]
    BY <1>1, <2>6 DEF Requests, ContestRequests
  <2>12. ProblemRefs'
    <3>1. \A p \in Stored(problems) : problems[p].competition \in ContestIds \cup {None}
      BY DocumentFacts DEF IInv, TypeOK, Stored
    <3> QED BY <1>2, <1>4, <2>1, <2>8, <2>11, <3>1 DEF IInv, ProblemRefs, Stored, Gone, LeftBehind
  <2>13. FreshContests'
    <3>1. \A r \in NewContests : job'[r] = job[r]
      BY <1>1, <2>6 DEF Requests, ContestRequests
    <3> QED BY <1>4, <2>1, <2>8, <3>1 DEF IInv, ContestInv, FreshContests, ContestIds
  <2>14. \A v, b : Applied(v, b) => Applied(v, b)' /\ job'[v] = job[v]
    <3>1. job[q].code = None
      BY <1>1, <1>2 DEF IInv, JobInv, Sound
    <3> QED BY <2>6, <3>1, NoneAssumption DEF Applied, Requests, ContestRequests
  <2>15. Applied(q, c)' /\ job'[q].set = set
    BY <2>4, <2>6 DEF Applied
  <2>16. StaleInv'
    <3>1. ASSUME NEW u \in ContestUpdates, NEW b \in ContestIds, job'[u].at = "saving", job'[u].found = b
          PROVE  Explained(u, b)'
      <4>1. job'[u] = job[u] /\ Explained(u, b)
        BY <2>4, <2>6, <3>1 DEF IInv, ContestInv, StaleInv, Requests, ContestRequests
      <4>2. b \in NewContests => job'[b] = job[b]
        BY <1>1, <2>6 DEF Requests, ContestRequests
      <4>3. CASE b # c
        <5> HIDE DEF from, to
        <5> QED BY <2>8, <2>14, <4>1, <4>2, <4>3 DEF Explained
      <4>4. CASE b = c
        <5>1. from \in {contests[c].startTime, set.startTime} /\ to \in {contests[c].endTime, set.endTime}
          OBVIOUS
        <5> HIDE DEF from, to
        <5> QED BY <1>4, <2>8, <2>14, <2>15, <4>1, <4>2, <4>4, <5>1 DEF Explained
      <4> QED BY <4>3, <4>4
    <3> QED BY <3>1 DEF StaleInv
  <2>17. WindowsProper'
    <3>1. \A v \in ContestUpdates : Applied(v, c)' =>
            job'[v].set.startTime < job'[v].set.endTime
      BY <2>6 DEF JobInv, Sound, Applied, Requests, ContestRequests
    <3>2. from < to \/
            \E u, v \in ContestUpdates :
              /\ Applied(u, c)' /\ job'[u].set.endTime # to
              /\ Applied(v, c)' /\ job'[v].set.startTime # from
              /\ from = job'[u].set.startTime /\ to = job'[v].set.endTime
      <4>1. CASE from = set.startTime /\ to = set.endTime
        BY <2>1, <4>1
      <4>2. CASE from = contests[c].startTime /\ from # set.startTime /\ to = set.endTime
        <5>1. read.startTime # contests[c].startTime
          BY <4>2
        <5>2. PICK v \in ContestUpdates : Applied(v, c) /\ job[v].set.startTime = from
          BY <1>0, <1>4, <2>2, <4>2, <5>1 DEF Explained
        <5>3. Applied(v, c)' /\ job'[v].set.startTime = from
          BY <2>14, <5>2
        <5> HIDE DEF from, to
        <5>4. CASE job'[v].set.endTime = to
          BY <3>1, <5>3, <5>4
        <5>5. CASE job'[v].set.endTime # to
          BY <2>15, <4>2, <5>3, <5>5
        <5> QED BY <5>4, <5>5
      <4>3. CASE from = set.startTime /\ to = contests[c].endTime /\ to # set.endTime
        <5>1. read.endTime # contests[c].endTime
          BY <4>3
        <5>2. PICK v \in ContestUpdates : Applied(v, c) /\ job[v].set.endTime = to
          BY <1>0, <1>4, <2>2, <4>3, <5>1 DEF Explained
        <5>3. Applied(v, c)' /\ job'[v].set.endTime = to
          BY <2>14, <5>2
        <5> HIDE DEF from, to
        <5>4. CASE job'[v].set.startTime = from
          BY <3>1, <5>3, <5>4
        <5>5. CASE job'[v].set.startTime # from
          BY <2>15, <4>3, <5>3, <5>5
        <5> QED BY <5>4, <5>5
      <4>4. CASE from = contests[c].startTime /\ to = contests[c].endTime
        <5> HIDE DEF from, to
        <5>1. from < to \/
                \E u, v \in ContestUpdates :
                  /\ Applied(u, c) /\ job[u].set.endTime # to
                  /\ Applied(v, c) /\ job[v].set.startTime # from
                  /\ from = job[u].set.startTime /\ to = job[v].set.endTime
          BY <1>4, <2>1, <4>4 DEF IInv, ContestInv, TypeOK, WindowsProper, Stored, Applied
        <5> QED BY <2>14, <5>1
      <4> QED BY <4>1, <4>2, <4>3, <4>4
    <3>3. ASSUME NEW b \in ContestIds, b # c, contests[b] # None
          PROVE  contests[b].startTime < contests[b].endTime \/
            \E u, v \in ContestUpdates :
              /\ Applied(u, b)' /\ job'[u].set.endTime # contests[b].endTime
              /\ Applied(v, b)' /\ job'[v].set.startTime # contests[b].startTime
              /\ contests[b].startTime = job'[u].set.startTime
              /\ contests[b].endTime = job'[v].set.endTime
      BY <2>14, <3>3 DEF IInv, ContestInv, TypeOK, WindowsProper, Stored, Applied
    <3> HIDE DEF from, to
    <3> QED BY <2>1, <2>8, <3>2, <3>3 DEF WindowsProper, Applied, Stored
  <2> QED BY <2>6, <2>9, <2>10, <2>12, <2>13, <2>16, <2>17 DEF IInv, ContestInv
<1> QED BY <1>3, <1>4

LEMMA DeleteCompetitionIInv ==
  ASSUME IInv, NEW q \in ContestDeletes, DeleteCompetition(q)
  PROVE  IInv'
<1>1. /\ q \in Requests
      /\ q \notin ProblemRequests \cup Seeds \cup NewContests \cup ContestUpdates
  BY KindsAssumption DEF Requests, ContestRequests
<1>2. job[q].at = "start" /\ UNCHANGED <<problems, tests>>
  BY DEF DeleteCompetition
<1>3. CASE Answer(q, "4xx") /\ UNCHANGED contests
  BY <1>1, <1>2, <1>3, ErrorStep
<1>4. ASSUME NEW c \in Stored(contests), contests' = [contests EXCEPT ![c] = None],
             job' = [job EXCEPT ![q].at = "clearing", ![q].found = c]
      PROVE  IInv'
  <2> DEFINE j == [job[q] EXCEPT !.at = "clearing", !.found = c]
  <2>1. c \in ContestIds /\ contests[c] # None
    BY DEF IInv, TypeOK, Stored
  <2>2. /\ j \in Jobs /\ j.at = "clearing" /\ j.found = c /\ j.code = job[q].code
        /\ job' = [job EXCEPT ![q] = j]
    BY <1>1, <1>4, <2>1 DEF IInv, TypeOK, Jobs, Places
  <2>3. Sound(q, j) /\ job[q].code = None
    BY <1>1, <1>2, <2>1, <2>2, NoneAssumption DEF IInv, JobInv, Sound, ProblemRequests
  <2> HIDE DEF j
  <2>4. /\ job' \in [Requests -> Jobs] /\ job'[q] = j /\ JobInv'
        /\ \A r \in Requests : r # q => job'[r] = job[r]
    BY <1>1, <2>2, <2>3, JobStep
  <2>5. /\ contests' \in [ContestIds -> Competitions \cup {None}]
        /\ contests'[c] = None
        /\ \A b \in ContestIds : b # c => contests'[b] = contests[b]
    BY <1>4, <2>1 DEF IInv, TypeOK
  <2>6. TypeOK'
    BY <1>2, <2>4, <2>5 DEF IInv, TypeOK
  <2>7. ProblemInv'
    BY <1>1, <1>2, <2>4, ProblemsStay DEF Requests
  <2>8. ProblemRefs'
    <3>1. \A p \in Stored(problems) : problems[p].competition \in ContestIds \cup {None}
      BY DocumentFacts DEF IInv, TypeOK, Stored
    <3>2. \A r \in ContestDeletes : r # q => job'[r] = job[r]
      BY <2>4 DEF Requests, ContestRequests
    <3>3. \A b : LeftBehind(ContestDeletes, b) => LeftBehind(ContestDeletes, b)'
      BY <1>2, <2>3, <3>2, NoneAssumption DEF LeftBehind
    <3>4. LeftBehind(ContestDeletes, c)'
      BY <2>2, <2>4 DEF LeftBehind
    <3> QED BY <1>2, <2>5, <3>1, <3>3, <3>4 DEF IInv, ProblemRefs, Stored, Gone
  <2>9. \A r \in NewContests \cup ContestUpdates : job'[r] = job[r]
    BY <1>1, <2>4 DEF Requests, ContestRequests
  <2>10. FreshContests'
    BY <2>5, <2>9 DEF IInv, ContestInv, FreshContests, ContestIds
  <2>11. \A v, b : Applied(v, b) => Applied(v, b)' /\ job'[v] = job[v]
    BY <2>9 DEF Applied
  <2>12. StaleInv'
    <3>1. ASSUME NEW u \in ContestUpdates, NEW b \in ContestIds, job'[u].at = "saving", job'[u].found = b
          PROVE  Explained(u, b)'
      <4>1. job'[u] = job[u] /\ Explained(u, b)
        BY <2>9, <3>1 DEF IInv, ContestInv, StaleInv
      <4> QED BY <2>5, <2>9, <2>11, <4>1 DEF Explained
    <3> QED BY <3>1 DEF StaleInv
  <2>13. WindowsProper'
    BY <2>5, <2>9 DEF IInv, TypeOK, ContestInv, WindowsProper, Stored
  <2> QED BY <2>4, <2>6, <2>7, <2>8, <2>10, <2>12, <2>13 DEF IInv, ContestInv
<1> QED BY <1>3, <1>4 DEF DeleteCompetition

LEMMA UnscopeProblemsIInv ==
  ASSUME IInv, NEW q \in ContestDeletes, UnscopeProblems(q)
  PROVE  IInv'
<1>1. /\ q \in Requests
      /\ q \notin ProblemRequests \cup Seeds \cup NewContests \cup ContestUpdates
  BY KindsAssumption DEF Requests, ContestRequests
<1>2. job[q].at = "clearing" /\ UNCHANGED <<tests, contests>>
  BY DEF UnscopeProblems
<1> DEFINE j == [Fresh("done") EXCEPT !.code = "2xx"]
<1>3. j \in Jobs /\ Sound(q, j) /\ j.at = "done" /\ job' = [job EXCEPT ![q] = j]
  BY <1>1, AnswerFacts DEF UnscopeProblems, Answer
<1> HIDE DEF j
<1>4. /\ job' \in [Requests -> Jobs] /\ job'[q] = j /\ JobInv'
      /\ \A r \in Requests : r # q => job'[r] = job[r]
  BY <1>1, <1>3, JobStep
<1> DEFINE gone == job[q].found
<1>5. /\ problems' \in [ProblemIds -> Problems \cup {None}]
      /\ \A p \in ProblemIds :
           /\ problems'[p] = None <=> problems[p] = None
           /\ problems[p] # None /\ problems[p].competition = gone =>
                problems'[p].competition = None
           /\ problems[p] = None \/ problems[p].competition # gone =>
                problems'[p] = problems[p]
  <2>1. ASSUME NEW d \in Problems
        PROVE  LET e == [d EXCEPT !.competition = None, !.late = FALSE] IN
               e \in Problems /\ e # None /\ e.competition = None
    <3>1. LET e == [d EXCEPT !.competition = None, !.late = FALSE] IN
          e \in Problems /\ e.competition = None
      BY DEF Problems
    <3> QED BY <3>1, DocumentFacts
  <2>2. problems \in [ProblemIds -> Problems \cup {None}]
    BY DEF IInv, TypeOK
  <2> DEFINE image(p) == [problems[p] EXCEPT !.competition = None, !.late = FALSE]
  <2>3. \A p \in ProblemIds : problems[p] # None =>
          image(p) \in Problems /\ image(p) # None /\ image(p).competition = None
    BY <2>1, <2>2
  <2>4. problems' = [p \in ProblemIds |->
          IF problems[p] # None /\ problems[p].competition = gone THEN image(p) ELSE problems[p]]
    BY DEF UnscopeProblems
  <2> HIDE DEF image, gone
  <2> QED BY <2>2, <2>3, <2>4
<1> HIDE DEF gone
<1>6. TypeOK'
  BY <1>2, <1>4, <1>5 DEF IInv, TypeOK
<1>7. \A r \in ProblemRequests \cup Seeds \cup NewContests \cup ContestUpdates : job'[r] = job[r]
  BY <1>1, <1>4 DEF Requests, ContestRequests
<1>8. FreshProblems'
  BY <1>5, <1>7 DEF IInv, ProblemInv, FreshProblems, ProblemIds, ProblemRequests
<1>9. TestRefs'
  <2>1. \A t \in tests : t.problem \in ProblemIds
    BY DEF IInv, TypeOK, TestCases
  <2> QED BY <1>2, <1>5, <1>7, <2>1 DEF IInv, ProblemInv, TestRefs, LeftBehind, ProblemRequests
<1>10. ProblemRefs'
  <2>1. SUFFICES ASSUME NEW p \in Stored(problems)', Gone(problems[p].competition)'
                 PROVE  (problems[p].late \/ LeftBehind(ContestDeletes, problems[p].competition))'
    BY DEF ProblemRefs
  <2>2. p \in ProblemIds /\ problems'[p] # None
    BY <1>5, <2>1 DEF Stored
  <2>3. problems[p] # None /\ problems'[p] = problems[p] /\ problems[p].competition # gone
    BY <1>5, <2>1, <2>2 DEF Gone
  <2>4. problems[p].late \/ LeftBehind(ContestDeletes, problems[p].competition)
    BY <1>2, <2>1, <2>2, <2>3 DEF IInv, TypeOK, ProblemRefs, Stored, Gone
  <2>5. PICK c : c = problems[p].competition
    OBVIOUS
  <2>6. LeftBehind(ContestDeletes, c) => LeftBehind(ContestDeletes, c)'
    <3>1. \A r \in ContestDeletes : r # q => job'[r] = job[r]
      BY <1>4 DEF Requests, ContestRequests
    <3> QED BY <2>3, <2>5, <3>1 DEF LeftBehind, gone
  <2>7. problems'[p].late \/ LeftBehind(ContestDeletes, c)'
    BY <2>3, <2>4, <2>5, <2>6
  <2>8. problems'[p].competition = c
    BY <2>3, <2>5
  <2> QED BY <2>7, <2>8 DEF LeftBehind
<1>11. ContestInv'
  BY <1>2, <1>7 DEF IInv, ContestInv, FreshContests, StaleInv, Explained, WindowsProper, Applied, Stored
<1> QED BY <1>4, <1>6, <1>8, <1>9, <1>10, <1>11 DEF IInv, ProblemInv

LEMMA InitIInv ==
  ASSUME Init
  PROVE  IInv
<1>1. PICK slugOf \in [OldProblems -> Titles], inside \in [OldProblems -> OldContests \cup {None}] :
        problems = [p \in ProblemIds |->
          IF p \in OldProblems THEN Problem(<<slugOf[p], 0>>, inside[p], p, FALSE) ELSE None]
  BY DEF Init
<1>2. PICK titleOf \in [OldContests -> Titles], from \in Times, to \in Times :
        /\ \A t \in Times : from <= t /\ t <= to
        /\ contests = [c \in ContestIds |->
             IF c \in OldContests THEN Contest(<<titleOf[c], 0>>, from, to) ELSE None]
  BY DEF Init
<1>3. tests = {[problem |-> p, by |-> p, late |-> FALSE] : p \in OldProblems}
  BY DEF Init
<1>4. PICK load \in Loads : job = [q \in Requests |-> Fresh(IF q \in load THEN "start" ELSE "unsent")]
  BY DEF Init
<1>5. /\ OldProblems \subseteq ProblemIds /\ OldContests \subseteq ContestIds
      /\ \A p \in OldProblems : <<slugOf[p], 0>> \in Slugs
      /\ \A c \in OldContests : <<titleOf[c], 0>> \in Slugs
  BY DEF ProblemIds, ContestIds, Slugs
<1>6. /\ problems \in [ProblemIds -> Problems \cup {None}]
      /\ \A p \in OldProblems : problems[p] # None /\ problems[p].competition \in OldContests \cup {None}
      /\ \A p \in ProblemIds \ OldProblems : problems[p] = None
  <2>1. ASSUME NEW p \in OldProblems
        PROVE  LET d == Problem(<<slugOf[p], 0>>, inside[p], p, FALSE) IN
               d \in Problems /\ d # None /\ d.competition \in OldContests \cup {None}
    <3>1. PICK s, c : s = <<slugOf[p], 0>> /\ c = inside[p]
      OBVIOUS
    <3>2. s \in Slugs /\ c \in OldContests \cup {None} /\ c \in ContestIds \cup {None}
      BY <1>5, <3>1
    <3>3. Problem(s, c, p, FALSE) \in Problems /\ Problem(s, c, p, FALSE).competition = c
      BY <3>2 DEF Problem, Problems
    <3>4. Problem(s, c, p, FALSE) # None
      BY <3>3, DocumentFacts
    <3> QED BY <3>1, <3>2, <3>3, <3>4
  <2> DEFINE d(p) == Problem(<<slugOf[p], 0>>, inside[p], p, FALSE)
  <2>2. \A p \in OldProblems : d(p) \in Problems /\ d(p) # None
                               /\ d(p).competition \in OldContests \cup {None}
    BY <2>1
  <2>3. problems = [p \in ProblemIds |-> IF p \in OldProblems THEN d(p) ELSE None]
    BY <1>1
  <2> HIDE DEF d
  <2> QED BY <1>5, <2>2, <2>3
<1>7. from < to
  BY <1>2, TimesAssumption
<1>8. /\ contests \in [ContestIds -> Competitions \cup {None}]
      /\ \A c \in OldContests : contests[c] # None /\ contests[c].startTime < contests[c].endTime
      /\ \A c \in ContestIds \ OldContests : contests[c] = None
  <2> DEFINE d(c) == Contest(<<titleOf[c], 0>>, from, to)
  <2>1. \A c \in OldContests : d(c) \in Competitions /\ d(c) # None /\ d(c).startTime < d(c).endTime
    BY <1>5, <1>7, DocumentFacts
  <2>2. contests = [c \in ContestIds |-> IF c \in OldContests THEN d(c) ELSE None]
    BY <1>2
  <2> HIDE DEF d
  <2> QED BY <1>5, <2>1, <2>2
<1>9. tests \subseteq TestCases /\ \A t \in tests : t.problem \in OldProblems
  <2>1. ASSUME NEW t \in tests
        PROVE  t \in TestCases /\ t.problem \in OldProblems
    <3>1. PICK p \in OldProblems : t = [problem |-> p, by |-> p, late |-> FALSE]
      BY <1>3
    <3> QED BY <1>5, <3>1 DEF TestCases
  <2> QED BY <2>1
<1>10. /\ job \in [Requests -> Jobs]
       /\ \A q \in Requests : /\ job[q].at \in {"unsent", "start"}
                              /\ job[q].set = None /\ job[q].code = None
  BY <1>4 DEF Fresh, Jobs, Values, Codes, Places, Early
<1>11. JobInv
  BY <1>10, NoneAssumption DEF JobInv, Sound
<1>12. ProblemInv /\ ProblemRefs
  <2>1. FreshProblems
    BY <1>6, KindsAssumption DEF FreshProblems, ProblemIds
  <2>2. TestRefs
    BY <1>6, <1>9 DEF TestRefs
  <2>3. ProblemRefs
    BY <1>6, <1>8 DEF ProblemRefs, Stored, Gone
  <2> QED BY <2>1, <2>2, <2>3 DEF ProblemInv
<1>13. ContestInv
  <2>1. FreshContests
    BY <1>8, KindsAssumption DEF FreshContests, ContestIds
  <2>2. StaleInv
    BY <1>10 DEF StaleInv, Requests, ContestRequests
  <2>3. WindowsProper
    BY <1>8 DEF WindowsProper, Stored
  <2> QED BY <2>1, <2>2, <2>3 DEF ContestInv
<1> QED BY <1>6, <1>8, <1>9, <1>10, <1>11, <1>12, <1>13 DEF IInv, TypeOK

LEMMA StutterIInv ==
  ASSUME IInv, UNCHANGED vars
  PROVE  IInv'
<1>1. TypeOK' /\ JobInv' /\ ProblemInv'
  BY DEF IInv, TypeOK, JobInv, Sound, ProblemInv, FreshProblems, TestRefs, LeftBehind, vars
<1>2. ProblemRefs'
  BY DEF IInv, ProblemRefs, Stored, Gone, LeftBehind, vars
<1>3. ContestInv'
  BY DEF IInv, ContestInv, FreshContests, StaleInv, Explained, WindowsProper, Applied, Stored, vars
<1> QED BY <1>1, <1>2, <1>3 DEF IInv

LEMMA NextIInv ==
  ASSUME IInv, [Next]_vars
  PROVE  IInv'
<1>1. Creates \cup Adds \cup NewContests \subseteq Requests
  BY DEF Requests, ProblemRequests, ContestRequests
<1>2. CASE \E q \in Creates \cup Adds \cup NewContests : RejectInput(q)
  BY <1>1, <1>2, RejectInputIInv
<1>3. CASE \E q \in Requests : DbFails(q)
  BY <1>3, DbFailsIInv
<1>4. CASE \E q \in Creates : TrySlug(q, problems) \/ ResolveCompetition(q)
  BY <1>4, TrySlugIInv, ResolveCompetitionIInv
<1>5. CASE \E q \in Creates \cup Seeds : CreateProblem(q)
  BY <1>5, CreateProblemIInv
<1>6. CASE \E q \in Creates \cup Seeds \cup Adds : InsertTestCases(q)
  BY <1>6, InsertTestCasesIInv
<1>7. CASE \E q \in Updates : ResolveCompetition(q) \/ SaveProblem(q)
  BY <1>7, ResolveCompetitionIInv, SaveProblemIInv
<1>8. CASE \E q \in Updates \cup Adds \cup Removals : FindProblem(q)
  BY <1>8, FindProblemIInv
<1>9. CASE \E q \in Deletes : DeleteProblem(q) \/ ClearTestCases(q)
  BY <1>9, DeleteProblemIInv, ClearTestCasesIInv
<1>10. CASE \E q \in Removals : RemoveTestCase(q)
  BY <1>10, RemoveTestCaseIInv
<1>11. CASE \E q \in Seeds : SeedLooksUp(q)
  BY <1>11, SeedLooksUpIInv
<1>12. CASE \E q \in NewContests : TrySlug(q, contests) \/ CreateCompetition(q)
  BY <1>12, TrySlugIInv, CreateCompetitionIInv
<1>13. CASE \E q \in ContestUpdates : AssignWindow(q) \/ SaveCompetition(q)
  BY <1>13, AssignWindowIInv, SaveCompetitionIInv
<1>14. CASE \E q \in ContestDeletes : DeleteCompetition(q) \/ UnscopeProblems(q)
  BY <1>14, DeleteCompetitionIInv, UnscopeProblemsIInv
<1>15. CASE UNCHANGED vars
  BY <1>15, StutterIInv
<1> QED BY <1>2, <1>3, <1>4, <1>5, <1>6, <1>7, <1>8, <1>9, <1>10, <1>11, <1>12, <1>13, <1>14, <1>15
        DEF Next

\* The catalogue with the submissions and the leaderboard does only what the
\* catalogue does.
LEMMA ContestRefines == ContestSpec => Spec
<1>1. ContestInit => Init
  BY DEF ContestInit
<1>2. [ContestNext]_allVars => [Next]_vars
  BY DEF ContestNext, SubmitTo, Judged, allVars, vars
<1> QED BY <1>1, <1>2, PTL DEF ContestSpec, Spec

LEMMA Invariant == Spec => []IInv
<1> QED BY InitIInv, NextIInv, PTL DEF Spec

\* The action of EditsAimed.
Aimed ==
  \A p \in ProblemIds :
    LET old == problems[p]
        new == problems'[p] IN
    old # new /\ new # None =>
      IF old = None
      THEN p \notin OldProblems /\ job[p].at = "saving" /\ ~Taken(problems, new.slug)
      ELSE /\ new.slug = old.slug
           /\ \/ \E q \in Updates : /\ job[q].found = p
                                    /\ job[q].code = None /\ job'[q].code = "2xx"
                                    /\ new.by = q
              \/ \E q \in ContestDeletes : /\ job[q].found = old.competition
                                           /\ new.competition = None /\ new.by = old.by

LEMMA CreateProblemAimed ==
  ASSUME IInv, NEW q \in Creates \cup Seeds, CreateProblem(q)
  PROVE  Aimed
<1>1. problems[q] = None /\ q \notin OldProblems /\ job[q].at = "saving"
  BY KindsAssumption DEF CreateProblem, IInv, ProblemInv, FreshProblems, Early
<1>2. \A p \in ProblemIds : p # q => problems'[p] = problems[p]
  BY DEF CreateProblem, IInv, TypeOK
<1>3. problems'[q] # None => ~Taken(problems, problems'[q].slug)
  <2>1. CASE problems' = problems
    BY <1>1, <2>1
  <2>2. CASE /\ ~Taken(problems, job[q].slug)
             /\ problems' = [problems EXCEPT ![q] =
                  Problem(job[q].slug, job[q].set, q, Gone(job[q].set))]
    <3>1. q \in ProblemIds /\ problems \in [ProblemIds -> Problems \cup {None}]
      BY DEF IInv, TypeOK, ProblemIds
    <3>2. problems'[q] = Problem(job[q].slug, job[q].set, q, Gone(job[q].set))
      BY <2>2, <3>1
    <3>3. problems'[q].slug = job[q].slug
      BY <3>2 DEF Problem
    <3> QED BY <2>2, <3>3
  <2> QED BY <2>1, <2>2 DEF CreateProblem
<1> QED BY <1>1, <1>2, <1>3 DEF Aimed

LEMMA SaveProblemAimed ==
  ASSUME IInv, NEW q \in Updates, SaveProblem(q)
  PROVE  Aimed
<1>0. PICK f : f = job[q].found
  OBVIOUS
<1>1. CASE problems[f] = None
  BY <1>0, <1>1 DEF SaveProblem, Aimed
<1>2. CASE problems[f] # None
  <2>1. /\ q \in Requests /\ job[q].at = "saving" /\ Answer(q, "2xx")
    BY <1>0, <1>2 DEF SaveProblem, Requests, ProblemRequests
  <2>2. f \in ProblemIds /\ problems[f] \in Problems /\ job[q].code = None
    BY <1>0, <1>2, <2>1 DEF IInv, TypeOK, JobInv, Sound
  <2>3. q \in ProblemRequests \cup Seeds
    BY DEF ProblemRequests
  <2>4. job'[q].code = "2xx"
    BY <2>1, <2>3, AnsweredStep
  <2> DEFINE d == IF job[q].set \in {Keep, job[q].read} THEN [problems[f] EXCEPT !.by = q]
                  ELSE Problem(problems[f].slug, job[q].set, q, Gone(job[q].set))
  <2>5. d.by = q /\ d.slug = problems[f].slug
    BY <2>2 DEF Problem, Problems
  <2>6. problems' = [problems EXCEPT ![f] = d]
    BY <1>0, <1>2 DEF SaveProblem
  <2> HIDE DEF d
  <2>7. /\ problems'[f].by = q /\ problems'[f].slug = problems[f].slug
        /\ \A p \in ProblemIds : p # f => problems'[p] = problems[p]
    BY <2>2, <2>5, <2>6 DEF IInv, TypeOK
  <2> QED BY <1>0, <1>2, <2>2, <2>4, <2>7 DEF Aimed
<1> QED BY <1>1, <1>2

LEMMA UnscopeProblemsAimed ==
  ASSUME IInv, NEW q \in ContestDeletes, UnscopeProblems(q)
  PROVE  Aimed
<1>1. ASSUME NEW p \in ProblemIds, problems[p] # problems'[p]
      PROVE  /\ problems[p] # None /\ job[q].found = problems[p].competition
             /\ problems'[p].competition = None /\ problems'[p].by = problems[p].by
             /\ problems'[p].slug = problems[p].slug
  <2>1. problems[p] \in Problems \cup {None}
    BY DEF IInv, TypeOK
  <2>2. /\ problems[p] # None /\ problems[p].competition = job[q].found
        /\ problems'[p] = [problems[p] EXCEPT !.competition = None, !.late = FALSE]
    BY <1>1 DEF UnscopeProblems
  <2> QED BY <2>1, <2>2 DEF Problems
<1> QED BY <1>1 DEF Aimed

LEMMA NextAimed ==
  ASSUME IInv, [Next]_vars
  PROVE  [Aimed]_vars
<1>1. CASE problems' = problems
  BY <1>1 DEF Aimed
<1>2. CASE \E q \in Creates \cup Seeds : CreateProblem(q)
  BY <1>2, CreateProblemAimed
<1>3. CASE \E q \in Updates : SaveProblem(q)
  BY <1>3, SaveProblemAimed
<1>4. CASE \E q \in ContestDeletes : UnscopeProblems(q)
  BY <1>4, UnscopeProblemsAimed
<1>5. CASE \E q \in Deletes : DeleteProblem(q)
  <2>1. \A p \in ProblemIds : problems'[p] \in {None, problems[p]}
    BY <1>5 DEF DeleteProblem, IInv, TypeOK
  <2> QED BY <2>1 DEF Aimed
<1> QED BY <1>1, <1>2, <1>3, <1>4, <1>5
        DEF Next, vars, RejectInput, DbFails, TrySlug, ResolveCompetition, InsertTestCases, FindProblem,
            ClearTestCases, RemoveTestCase, SeedLooksUp, CreateCompetition, AssignWindow,
            SaveCompetition, DeleteCompetition

-----------------------------------------------------------------------------
(* Sums over finite sets, by the smallest set for which a statement fails.  *)

LEMMA LeastSet ==
  ASSUME NEW S, IsFiniteSet(S), NEW T \in SUBSET SUBSET S, T # {}
  PROVE  \E X \in T : \A Y \in T : Y \subseteq X => Y = X
<1>1. \E X \in T : \A Y \in T : ~ (<<Y, X>> \in StrictSubsetOrdering(S))
  BY FS_StrictSubsetOrderingWellFounded, WFMin, FS_FiniteSubsetsOfFinite
<1> QED BY <1>1 DEF StrictSubsetOrdering

\* A finite set has a first element in any total order of it.
LEMMA FirstOf ==
  ASSUME NEW T, IsFiniteSet(T), T # {}, NEW R,
         \A x, y \in T : <<x, y>> \in R \/ <<y, x>> \in R,
         \A x, y, z \in T : <<x, y>> \in R /\ <<y, z>> \in R => <<x, z>> \in R
  PROVE  \E x \in T : \A y \in T : <<x, y>> \in R
<1> DEFINE Upper(x) == {y \in T : <<y, x>> \in R}
           Uppers == {X \in SUBSET T : \E x \in T : X = Upper(x)}
<1>1. Uppers \in SUBSET SUBSET T
  OBVIOUS
<1>2. PICK t \in T : TRUE
  OBVIOUS
<1>3. Uppers # {}
  <2>1. Upper(t) \in Uppers
    OBVIOUS
  <2> QED BY <2>1
<1>4. PICK X \in Uppers : \A Y \in Uppers : Y \subseteq X => Y = X
  <2> HIDE DEF Uppers
  <2> QED BY <1>1, <1>3, LeastSet
<1>5. PICK x \in T : X = Upper(x)
  OBVIOUS
<1>6. ASSUME NEW y \in T, <<x, y>> \notin R PROVE FALSE
  <2>1. <<y, x>> \in R /\ <<x, x>> \in R
    BY <1>6
  <2>2. Upper(y) \subseteq X /\ x \in X /\ x \notin Upper(y)
    BY <1>5, <1>6, <2>1
  <2>3. Upper(y) \in Uppers
    OBVIOUS
  <2> QED BY <1>4, <2>2, <2>3
<1> QED BY <1>6

LEMMA GreatestOf ==
  ASSUME NEW T \in SUBSET Nat, IsFiniteSet(T), T # {}
  PROVE  \E x \in T : \A y \in T : x >= y
<1> DEFINE R == {r \in T \X T : r[1] >= r[2]}
<1>1. \A x, y \in T : <<x, y>> \in R <=> x >= y
  OBVIOUS
<1>2. \A x, y, z \in T : (x >= y \/ y >= x) /\ (x >= y /\ y >= z => x >= z)
  OBVIOUS
<1> HIDE DEF R
<1>3. \A x, y \in T : <<x, y>> \in R \/ <<y, x>> \in R
  BY <1>1, <1>2
<1>4. \A x, y, z \in T : <<x, y>> \in R /\ <<y, z>> \in R => <<x, z>> \in R
  BY <1>1, <1>2
<1>5. \E x \in T : \A y \in T : <<x, y>> \in R
  BY <1>3, <1>4, FirstOf
<1> QED BY <1>1, <1>5

LEMMA LeastOf ==
  ASSUME NEW T \in SUBSET Nat, T # {}
  PROVE  \E x \in T : \A y \in T : x <= y
<1>1. PICK t \in T : TRUE
  OBVIOUS
<1> DEFINE U == {x \in T : x <= t}
           R == {r \in U \X U : r[1] <= r[2]}
<1>2. IsFiniteSet(U)
  <2>1. U \in SUBSET Nat /\ t \in Nat /\ \A x \in U : x <= t
    OBVIOUS
  <2> HIDE DEF U
  <2> QED BY <2>1, FS_BoundedSetOfNaturals
<1>3. t \in U
  BY <1>1
<1>4. \A x, y \in U : <<x, y>> \in R <=> x <= y
  OBVIOUS
<1>5. \A x, y, z \in U : (x <= y \/ y <= x) /\ (x <= y /\ y <= z => x <= z)
  OBVIOUS
<1>6. \E x \in U : \A y \in U : <<x, y>> \in R
  <2> HIDE DEF R, U
  <2>1. \A x, y \in U : <<x, y>> \in R \/ <<y, x>> \in R
    BY <1>4, <1>5
  <2>2. \A x, y, z \in U : <<x, y>> \in R /\ <<y, z>> \in R => <<x, z>> \in R
    BY <1>4, <1>5
  <2> QED BY <1>2, <1>3, <2>1, <2>2, FirstOf
<1>7. PICK x \in U : \A y \in U : x <= y
  <2> HIDE DEF R, U
  <2> QED BY <1>4, <1>6
<1>8. ASSUME NEW y \in T PROVE x <= y
  BY <1>7
<1> QED BY <1>8

Pick(s) == CHOOSE x \in s : TRUE

\* The folds of the community modules, over the subsets D.
Folds(it, F, D) ==
  it = [s \in D |-> IF s = {} THEN 0 ELSE F[Pick(s)] + it[s \ {Pick(s)}]]

\* it is the sum of F over each subset of S.
Sums(it, F, S) ==
  /\ it \in [SUBSET S -> Nat]
  /\ it[{}] = 0
  /\ \A s \in SUBSET S : \A x \in s : it[s] = F[x] + it[s \ {x}]

LEMMA FoldExists ==
  ASSUME NEW S, IsFiniteSet(S), NEW F
  PROVE  \E it : Folds(it, F, SUBSET S)
<1> DEFINE Sized(n) == {s \in SUBSET S : Cardinality(s) <= n}
           Bad == {n \in Nat : ~ \E it : Folds(it, F, Sized(n))}
<1>0. \A s \in SUBSET S : IsFiniteSet(s) /\ Cardinality(s) \in Nat
  BY FS_Subset, FS_CardinalityType
<1>1. ASSUME Bad # {} PROVE FALSE
  <2>1. PICK m \in Bad : \A n \in Bad : m <= n
    <3> HIDE DEF Bad
    <3>1. Bad \in SUBSET Nat
      BY DEF Bad
    <3> QED BY <1>1, <3>1, LeastOf
  <2>2. CASE m = 0
    <3> DEFINE it == [s \in Sized(m) |-> 0]
    <3>1. \A s \in Sized(m) : s = {}
      BY <1>0, <2>2, FS_EmptySet
    <3>2. it = [s \in Sized(m) |-> IF s = {} THEN 0 ELSE F[Pick(s)] + it[s \ {Pick(s)}]]
      BY <3>1
    <3>3. Folds(it, F, Sized(m))
      BY <3>2 DEF Folds
    <3> QED BY <3>3
  <2>3. CASE m # 0
    <3>1. m \in Nat /\ m - 1 \in Nat /\ ~ (m <= m - 1)
      BY <2>3
    <3>2. m - 1 \notin Bad
      BY <2>1, <3>1
    <3>3. PICK it : Folds(it, F, Sized(m - 1))
      BY <3>1, <3>2
    <3> DEFINE new == [s \in Sized(m) |-> IF s = {} THEN 0 ELSE F[Pick(s)] + it[s \ {Pick(s)}]]
    <3>4. ASSUME NEW s \in Sized(m), s # {}
          PROVE  new[s \ {Pick(s)}] = it[s \ {Pick(s)}]
      <4> DEFINE t == s \ {Pick(s)}
      <4>1. Pick(s) \in s
        BY <3>4 DEF Pick
      <4>2. Cardinality(t) = Cardinality(s) - 1
        BY <1>0, <4>1, FS_RemoveElement
      <4>3. t \in Sized(m - 1) /\ t \in Sized(m)
        BY <1>0, <3>1, <4>2
      <4>4. it[t] = IF t = {} THEN 0 ELSE F[Pick(t)] + it[t \ {Pick(t)}]
        <5> HIDE DEF Sized, t
        <5> QED BY <3>3, <4>3 DEF Folds
      <4> HIDE DEF t
      <4>5. new[t] = IF t = {} THEN 0 ELSE F[Pick(t)] + it[t \ {Pick(t)}]
        BY <4>3
      <4> QED BY <4>4, <4>5 DEF t
    <3>5. new = [s \in Sized(m) |-> IF s = {} THEN 0 ELSE F[Pick(s)] + new[s \ {Pick(s)}]]
      <4> HIDE DEF Sized
      <4>1. \A s \in Sized(m) :
              (IF s = {} THEN 0 ELSE F[Pick(s)] + it[s \ {Pick(s)}])
              = (IF s = {} THEN 0 ELSE F[Pick(s)] + new[s \ {Pick(s)}])
        BY <3>4
      <4> QED BY <4>1
    <3> HIDE DEF new
    <3>6. Folds(new, F, Sized(m))
      BY <3>5 DEF Folds
    <3> QED BY <2>1, <3>6
  <2> QED BY <2>2, <2>3
<1>2. Cardinality(S) \in Nat /\ Cardinality(S) \notin Bad
  BY <1>1, FS_CardinalityType
<1>3. Sized(Cardinality(S)) = SUBSET S
  BY FS_Subset
<1> QED BY <1>2, <1>3

LEMMA FoldSums ==
  ASSUME NEW S, IsFiniteSet(S), NEW F \in [S -> Nat], NEW it, Folds(it, F, SUBSET S)
  PROVE  Sums(it, F, S)
<1>0. it = [s \in SUBSET S |-> IF s = {} THEN 0 ELSE F[Pick(s)] + it[s \ {Pick(s)}]]
  BY DEF Folds
<1>1. it[{}] = 0
  BY <1>0
<1>2. \A s \in SUBSET S : s # {} => Pick(s) \in s /\ it[s] = F[Pick(s)] + it[s \ {Pick(s)}]
  BY <1>0 DEF Pick
<1>3. \A s \in SUBSET S : it[s] \in Nat
  <2> DEFINE Bad == {s \in SUBSET S : it[s] \notin Nat}
  <2>1. SUFFICES ASSUME Bad # {} PROVE FALSE
    OBVIOUS
  <2>2. PICK s \in Bad : \A t \in Bad : t \subseteq s => t = s
    <3>1. Bad \in SUBSET SUBSET S
      OBVIOUS
    <3> HIDE DEF Bad
    <3> QED BY <2>1, <3>1, LeastSet
  <2>3. s \in SUBSET S /\ it[s] \notin Nat
    BY <2>2
  <2>3a. ASSUME s = {} PROVE FALSE
    <3>1. it[s] = 0
      BY <1>1, <2>3a
    <3>2. 0 \in Nat
      OBVIOUS
    <3> QED BY <2>3, <3>1, <3>2
  <2>4. /\ Pick(s) \in s /\ it[s] = F[Pick(s)] + it[s \ {Pick(s)}]
    BY <1>2, <2>3, <2>3a
  <2>5. s \ {Pick(s)} \notin Bad
    BY <2>2, <2>4
  <2>6. it[s \ {Pick(s)}] \in Nat /\ F[Pick(s)] \in Nat
    BY <2>3, <2>4, <2>5
  <2> QED BY <2>3, <2>4, <2>6
<1>4. \A s \in SUBSET S : \A x \in s : it[s] = F[x] + it[s \ {x}]
  <2> DEFINE Bad == {s \in SUBSET S : \E x \in s : it[s] # F[x] + it[s \ {x}]}
  <2>1. SUFFICES ASSUME Bad # {} PROVE FALSE
    OBVIOUS
  <2>2. PICK s \in Bad : \A t \in Bad : t \subseteq s => t = s
    <3>1. Bad \in SUBSET SUBSET S
      OBVIOUS
    <3> HIDE DEF Bad
    <3> QED BY <2>1, <3>1, LeastSet
  <2>3. PICK x \in s : it[s] # F[x] + it[s \ {x}]
    OBVIOUS
  <2> DEFINE c == Pick(s)
  <2>4. c \in s /\ it[s] = F[c] + it[s \ {c}]
    BY <1>2, <2>3
  <2>5. c # x
    BY <2>3, <2>4
  <2>6. s \in SUBSET S /\ s \ {c} \notin Bad /\ s \ {x} \notin Bad
    BY <2>2, <2>3, <2>4
  <2> HIDE DEF c
  <2>7. it[s \ {c}] = F[x] + it[(s \ {c}) \ {x}]
    BY <2>3, <2>5, <2>6
  <2>8. it[s \ {x}] = F[c] + it[(s \ {x}) \ {c}]
    BY <2>4, <2>5, <2>6
  <2>9. (s \ {c}) \ {x} = (s \ {x}) \ {c}
    OBVIOUS
  <2>10. F[x] \in Nat /\ F[c] \in Nat /\ it[(s \ {c}) \ {x}] \in Nat
    BY <1>3, <2>3, <2>4, <2>6
  <2>11. it[s] = F[c] + (F[x] + it[(s \ {c}) \ {x}])
    BY <2>4, <2>7
  <2>12. it[s \ {x}] = F[c] + it[(s \ {c}) \ {x}]
    BY <2>8, <2>9
  <2> DEFINE r == it[(s \ {c}) \ {x}]
             fx == F[x]
             fc == F[c]
  <2>13. fc + (fx + r) = fx + (fc + r)
    <3>1. fx \in Nat /\ fc \in Nat /\ r \in Nat
      BY <2>10
    <3> HIDE DEF fx, fc, r
    <3> QED BY <3>1
  <2> QED BY <2>3, <2>11, <2>12, <2>13
<1> QED BY <1>0, <1>1, <1>3, <1>4 DEF Sums

LEMMA SumOrder ==
  ASSUME NEW S, IsFiniteSet(S), NEW F \in [S -> Nat], NEW G \in [S -> Nat],
         NEW it, NEW jt, Sums(it, F, S), Sums(jt, G, S),
         \A x \in S : F[x] <= G[x]
  PROVE  /\ it[S] <= jt[S]
         /\ it[S] = jt[S] => \A x \in S : F[x] = G[x]
<1> DEFINE Fine(s) == it[s] <= jt[s] /\ (it[s] = jt[s] => \A x \in s : F[x] = G[x])
           Bad == {s \in SUBSET S : ~ Fine(s)}
<1>1. SUFFICES ASSUME Bad # {} PROVE FALSE
  <2>1. S \notin Bad
    BY <1>1
  <2> QED BY <2>1
<1>2. PICK s \in Bad : \A t \in Bad : t \subseteq s => t = s
  <2>1. Bad \in SUBSET SUBSET S
    OBVIOUS
  <2> HIDE DEF Bad
  <2> QED BY <1>1, <2>1, LeastSet
<1>3. s \in SUBSET S /\ ~ Fine(s)
  OBVIOUS
<1>4. ASSUME s = {} PROVE FALSE
  <2>1. it[s] = 0 /\ jt[s] = 0 /\ \A x \in s : F[x] = G[x]
    BY <1>4 DEF Sums
  <2>2. Fine(s)
    BY <2>1
  <2> QED BY <1>3, <2>2
<1>5. PICK x \in s : TRUE
  BY <1>4
<1> DEFINE t == s \ {x}
<1>6. t \in SUBSET S /\ Fine(t)
  <2>1. t \in SUBSET S /\ t # s /\ t \subseteq s
    BY <1>3, <1>5
  <2>2. t \notin Bad
    BY <1>2, <2>1
  <2> QED BY <2>1, <2>2
<1>7. it[s] = F[x] + it[t] /\ jt[s] = G[x] + jt[t]
  BY <1>3, <1>5 DEF Sums
<1>8. it[t] \in Nat /\ jt[t] \in Nat /\ F[x] \in Nat /\ G[x] \in Nat /\ F[x] <= G[x]
  BY <1>3, <1>5, <1>6 DEF Sums
<1>9. it[s] <= jt[s] /\ (it[s] = jt[s] => it[t] = jt[t] /\ F[x] = G[x])
  <2> DEFINE a == it[t]
             b == jt[t]
             c == F[x]
             d == G[x]
  <2>1. a \in Nat /\ b \in Nat /\ c \in Nat /\ d \in Nat /\ a <= b /\ c <= d
    BY <1>6, <1>8
  <2>2. it[s] = c + a /\ jt[s] = d + b
    BY <1>7
  <2> HIDE DEF a, b, c, d
  <2>3. c + a <= d + b /\ (c + a = d + b => a = b /\ c = d)
    BY <2>1
  <2> QED BY <2>2, <2>3 DEF a, b, c, d
<1>10. Fine(s)
  <2>1. ASSUME it[s] = jt[s], NEW y \in s PROVE F[y] = G[y]
    <3>1. CASE y = x
      BY <3>1, <2>1, <1>9
    <3>2. CASE y # x
      <4>1. y \in t /\ it[t] = jt[t]
        BY <2>1, <3>2, <1>9
      <4> QED BY <4>1, <1>6
    <3> QED BY <3>1, <3>2
  <2> QED BY <2>1, <1>9
<1> QED BY <1>3, <1>10

LEMMA SumUnique ==
  ASSUME NEW S, IsFiniteSet(S), NEW F \in [S -> Nat],
         NEW it, NEW jt, Sums(it, F, S), Sums(jt, F, S)
  PROVE  it[S] = jt[S] /\ it[S] \in Nat
<1>1. \A x \in S : F[x] <= F[x]
  <2>1. \A x \in S : F[x] \in Nat
    OBVIOUS
  <2> QED BY <2>1
<1>2. it[S] <= jt[S] /\ jt[S] <= it[S]
  BY <1>1, SumOrder
<1>3. it[S] \in Nat /\ jt[S] \in Nat
  BY DEF Sums
<1> QED BY <1>2, <1>3

\* h takes the elements of A apart; what is summed over S is 0 outside A.
LEMMA SumOfImage ==
  ASSUME NEW S, IsFiniteSet(S), NEW A \in SUBSET S, NEW B, NEW h \in [A -> B],
         \A x, y \in A : h[x] = h[y] => x = y,
         B = {h[x] : x \in A},
         NEW F \in [B -> Nat], NEW G \in [S -> Nat],
         \A x \in A : F[h[x]] = G[x],
         \A x \in S \ A : G[x] = 0,
         NEW it, NEW jt, Sums(it, F, B), Sums(jt, G, S)
  PROVE  it[B] = jt[S]
<1> DEFINE Img(s) == {h[x] : x \in s \cap A}
           Bad == {s \in SUBSET S : it[Img(s)] # jt[s]}
<1>1. SUFFICES ASSUME Bad # {} PROVE FALSE
  <2>1. S \notin Bad /\ Img(S) = B
    BY <1>1
  <2> QED BY <2>1
<1>2. PICK s \in Bad : \A t \in Bad : t \subseteq s => t = s
  <2>1. Bad \in SUBSET SUBSET S
    OBVIOUS
  <2> HIDE DEF Bad
  <2> QED BY <1>1, <2>1, LeastSet
<1>3. s \in SUBSET S /\ it[Img(s)] # jt[s]
  OBVIOUS
<1>4. ASSUME s = {} PROVE FALSE
  <2>1. Img(s) = {}
    BY <1>4
  <2>2. it[Img(s)] = 0 /\ jt[s] = 0
    BY <1>4, <2>1 DEF Sums
  <2> QED BY <1>3, <2>2
<1>5. PICK x \in s : TRUE
  BY <1>4
<1> DEFINE t == s \ {x}
<1>6. t \in SUBSET S /\ it[Img(t)] = jt[t]
  <2>1. t \in SUBSET S /\ t # s /\ t \subseteq s
    BY <1>3, <1>5
  <2>2. t \notin Bad
    BY <1>2, <2>1
  <2> QED BY <2>1, <2>2
<1>7. jt[s] = G[x] + jt[t] /\ jt[t] \in Nat
  BY <1>3, <1>5, <1>6 DEF Sums
<1>8. CASE x \in A
  <2>1. Img(s) \in SUBSET B /\ h[x] \in Img(s)
    BY <1>3, <1>5, <1>8
  <2>2. Img(t) = Img(s) \ {h[x]}
    BY <1>3, <1>5, <1>8
  <2>3. it[Img(s)] = F[h[x]] + it[Img(t)]
    <3>1. \A r \in SUBSET B : \A y \in r : it[r] = F[y] + it[r \ {y}]
      BY DEF Sums
    <3> HIDE DEF Img, t
    <3>2. it[Img(s)] = F[h[x]] + it[Img(s) \ {h[x]}]
      BY <2>1, <3>1
    <3> QED BY <2>2, <3>2
  <2> QED BY <1>3, <1>6, <1>7, <1>8, <2>3
<1>9. CASE x \notin A
  <2>1. Img(t) = Img(s)
    BY <1>9
  <2>2. G[x] = 0
    BY <1>3, <1>5, <1>9
  <2>3. jt[s] = jt[t]
    BY <1>7, <2>2
  <2> QED BY <1>3, <1>6, <2>1, <2>3
<1> QED BY <1>8, <1>9

-----------------------------------------------------------------------------
(* The leaderboard, for any submissions and any finite set of problems.     *)

\* What the standings need to know of the submissions.
RowsTyped ==
  /\ Len(rows) \in Nat
  /\ DOMAIN rows = 1 .. Len(rows)
  /\ \A i \in DOMAIN rows : rows[i].score \in Nat

LEMMA GroupFacts ==
  ASSUME RowsTyped, NEW u, NEW p
  PROVE  /\ Group(u, p) \in SUBSET Nat /\ IsFiniteSet(Group(u, p))
         /\ \A i \in Group(u, p) :
              /\ i \in Nat /\ i <= Len(rows) /\ rows[i].score \in Nat
              /\ rows[i].user = u /\ rows[i].problem = p
<1>1. IsFiniteSet(1 .. Len(rows))
  BY FS_Interval DEF RowsTyped
<1>2. Group(u, p) \in SUBSET (1 .. Len(rows))
  BY DEF Group, RowsTyped
<1>3. IsFiniteSet(Group(u, p))
  BY <1>1, <1>2, FS_Subset
<1>4. \A i \in 1 .. Len(rows) : i \in Nat /\ i <= Len(rows)
  BY DEF RowsTyped
<1> QED BY <1>2, <1>3, <1>4 DEF Group, RowsTyped

LEMMA MaxOf ==
  ASSUME NEW T \in SUBSET Nat, IsFiniteSet(T), T # {}
  PROVE  Max(T) \in T /\ \A y \in T : Max(T) >= y
BY GreatestOf DEF Max

LEMMA MinOf ==
  ASSUME NEW T \in SUBSET Nat, T # {}
  PROVE  Min(T) \in T /\ \A y \in T : Min(T) <= y
BY LeastOf DEF Min

LEMMA BestIs ==
  ASSUME RowsTyped, NEW u, NEW p, NEW n
  PROVE  LET b == BestUpTo(u, p, n) IN
         /\ b \in Nat
         /\ \A i \in Group(u, p) : i <= n => rows[i].score <= b
         /\ b = 0 \/ \E i \in Group(u, p) : i <= n /\ rows[i].score = b
<1> DEFINE D == {i \in Group(u, p) : i <= n}
           I == {rows[i].score : i \in D}
           f == [i \in D |-> rows[i].score]
           T == {0} \cup I
<1>1. IsFiniteSet(D)
  BY GroupFacts, FS_Subset
<1>2. f \in Surjection(D, I)
  BY DEF Surjection
<1>3. IsFiniteSet(I)
  <2> HIDE DEF D, I, f
  <2> QED BY <1>1, <1>2, FS_Surjection
<1>4. IsFiniteSet(T)
  <2> HIDE DEF I
  <2> QED BY <1>3, FS_Singleton, FS_Union
<1>5. T \in SUBSET Nat
  BY GroupFacts
<1>6. 0 \in T
  OBVIOUS
<1>7. Max(T) \in T /\ \A y \in T : Max(T) >= y
  <2> HIDE DEF T
  <2>1. T # {}
    BY <1>6
  <2> QED BY <1>4, <1>5, <2>1, MaxOf
<1>8. BestUpTo(u, p, n) = Max(T)
  BY DEF BestUpTo
<1> DEFINE b == Max(T)
<1>9. b \in Nat
  BY <1>5, <1>7
<1>10. \A i \in Group(u, p) : i <= n => rows[i].score <= b
  <2> SUFFICES ASSUME NEW i \in Group(u, p), i <= n PROVE rows[i].score <= b
    OBVIOUS
  <2>1. rows[i].score \in T
    OBVIOUS
  <2>2. rows[i].score \in Nat
    BY GroupFacts
  <2> HIDE DEF T
  <2> QED BY <1>7, <1>9, <2>1, <2>2
<1>11. b = 0 \/ \E i \in Group(u, p) : i <= n /\ rows[i].score = b
  <2> HIDE DEF b
  <2>1. b \in T
    BY <1>7 DEF b
  <2> QED BY <2>1
<1> QED BY <1>8, <1>9, <1>10, <1>11

LEMMA FirstIs ==
  ASSUME RowsTyped, NEW u, NEW p, Group(u, p) # {}
  PROVE  /\ First(u, p) \in Group(u, p)
         /\ \A j \in Group(u, p) \ {First(u, p)} : Before(First(u, p), j)
<1> DEFINE T == Group(u, p)
           R == {r \in T \X T : r[1] = r[2] \/ Before(r[1], r[2])}
<1>1. \A i, j \in T : <<i, j>> \in R <=> i = j \/ Before(i, j)
  OBVIOUS
<1>2. \A i, j \in T : i = j \/ Before(i, j) \/ Before(j, i)
  BY GroupFacts DEF Before
<1>3. \A i, j, k \in T : Before(i, j) /\ Before(j, k) => Before(i, k)
  BY GroupFacts DEF Before
<1>4. IsFiniteSet(T)
  BY GroupFacts
<1>5. \E x \in T : \A y \in T : <<x, y>> \in R
  <2> HIDE DEF R, T
  <2>1. T # {}
    BY DEF T
  <2>2. \A i, j \in T : <<i, j>> \in R \/ <<j, i>> \in R
    BY <1>1, <1>2
  <2>3. \A i, j, k \in T : <<i, j>> \in R /\ <<j, k>> \in R => <<i, k>> \in R
    BY <1>1, <1>3
  <2> QED BY <1>4, <2>1, <2>2, <2>3, FirstOf
<1>6. \E x \in T : \A y \in T \ {x} : Before(x, y)
  <2> HIDE DEF R, T
  <2> QED BY <1>1, <1>5
<1> QED BY <1>6 DEF First

\* First(u, p) is where u's best score at p is reached.
LEMMA FirstReaches ==
  ASSUME RowsTyped, NEW u, NEW p, Group(u, p) # {}
  PROVE  /\ rows[First(u, p)].score = BestUpTo(u, p, Len(rows))
         /\ \A n \in Nat :
              BestUpTo(u, p, Len(rows)) > 0 =>
                (BestUpTo(u, p, n) = BestUpTo(u, p, Len(rows)) <=> First(u, p) <= n)
<1> DEFINE f == First(u, p)
           best == BestUpTo(u, p, Len(rows))
<1>1. f \in Group(u, p) /\ f \in Nat /\ f <= Len(rows) /\ rows[f].score \in Nat
  BY FirstIs, GroupFacts
<1>2. \A j \in Group(u, p) :
        /\ j \in Nat /\ rows[j].score \in Nat /\ rows[j].score <= rows[f].score
        /\ rows[j].score = rows[f].score => f <= j
  BY <1>1, FirstIs, GroupFacts DEF Before
<1>3. rows[f].score = best
  BY <1>1, <1>2, BestIs
<1>4. ASSUME NEW n \in Nat, best > 0
      PROVE  BestUpTo(u, p, n) = best <=> f <= n
  <2> DEFINE b == BestUpTo(u, p, n)
  <2>1. /\ b \in Nat
        /\ \A i \in Group(u, p) : i <= n => rows[i].score <= b
        /\ b = 0 \/ \E i \in Group(u, p) : i <= n /\ rows[i].score = b
    BY BestIs
  <2> HIDE DEF b, f, best
  <2>2. CASE f <= n
    <3>1. best <= b
      BY <1>1, <1>3, <2>1, <2>2
    <3>2. b <= best
      <4>1. CASE b = 0
        BY <1>1, <1>3, <4>1
      <4>2. CASE \E i \in Group(u, p) : i <= n /\ rows[i].score = b
        BY <1>2, <1>3, <4>2
      <4> QED BY <2>1, <4>1, <4>2
    <3>3. b = best
      BY <1>1, <1>3, <2>1, <3>1, <3>2
    <3> QED BY <2>2, <3>3 DEF b
  <2>3. CASE b = best
    <3>1. PICK i \in Group(u, p) : i <= n /\ rows[i].score = best
      BY <1>4, <2>1, <2>3
    <3>2. f <= i
      BY <1>2, <1>3, <3>1
    <3>3. f \in Nat /\ i \in Nat /\ i <= n
      BY <1>1, <1>2, <3>1
    <3>4. \A x, y, z \in Nat : x <= y /\ y <= z => x <= z
      OBVIOUS
    <3>5. f <= n
      BY <3>2, <3>3, <3>4
    <3> QED BY <2>3, <3>5 DEF b
  <2> QED BY <2>2, <2>3 DEF b
<1> QED BY <1>3, <1>4

LEMMA NeverTried ==
  ASSUME RowsTyped, NEW u, NEW p, Group(u, p) = {}, NEW n
  PROVE  BestUpTo(u, p, n) = 0
BY BestIs

\* The fold that MapThenSumSet makes of a function is its sum.
LEMMA ScoreFold ==
  ASSUME RowsTyped, NEW B \in SUBSET DOMAIN rows, IsFiniteSet(B), NEW F,
         F = [i \in B |-> rows[i].score]
  PROVE  \E it : Sums(it, F, B) /\ MapThenSumSet(LAMBDA i : rows[i].score, B) = it[B]
<1>1. F \in [B -> Nat]
  BY DEF RowsTyped
<1>2. PICK jt : Folds(jt, F, SUBSET B)
  BY FoldExists
<1>3. \A s \in SUBSET B : s # {} => Pick(s) \in B /\ F[Pick(s)] = rows[Pick(s)].score
  BY DEF Pick
<1>4. jt = [s \in SUBSET B |-> IF s = {} THEN 0 ELSE rows[Pick(s)].score + jt[s \ {Pick(s)}]]
  <2>1. \A s \in SUBSET B : (IF s = {} THEN 0 ELSE F[Pick(s)] + jt[s \ {Pick(s)}])
                          = (IF s = {} THEN 0 ELSE rows[Pick(s)].score + jt[s \ {Pick(s)}])
    BY <1>3
  <2> QED BY <1>2, <2>1 DEF Folds
<1>5. \E it : /\ it = [s \in SUBSET B |-> IF s = {} THEN 0 ELSE rows[Pick(s)].score + it[s \ {Pick(s)}]]
              /\ MapThenSumSet(LAMBDA i : rows[i].score, B) = it[B]
  BY <1>4 DEF MapThenSumSet, MapThenFoldSet, Pick
<1>6. PICK it : /\ it = [s \in SUBSET B |-> IF s = {} THEN 0 ELSE rows[Pick(s)].score + it[s \ {Pick(s)}]]
                /\ MapThenSumSet(LAMBDA i : rows[i].score, B) = it[B]
  BY <1>5
<1>7. it = [s \in SUBSET B |-> IF s = {} THEN 0 ELSE F[Pick(s)] + it[s \ {Pick(s)}]]
  <2>1. \A s \in SUBSET B : (IF s = {} THEN 0 ELSE F[Pick(s)] + it[s \ {Pick(s)}])
                          = (IF s = {} THEN 0 ELSE rows[Pick(s)].score + it[s \ {Pick(s)}])
    BY <1>3
  <2> QED BY <1>6, <2>1
<1>8. Sums(it, F, B)
  BY <1>1, <1>7, FoldSums DEF Folds
<1> QED BY <1>6, <1>8

LEMMA BestFold ==
  ASSUME RowsTyped, NEW B, IsFiniteSet(B), NEW u, NEW n, NEW F,
         F = [p \in B |-> BestUpTo(u, p, n)]
  PROVE  F \in [B -> Nat] /\ \E it : Sums(it, F, B) /\ TotalUpTo(u, B, n) = it[B]
<1>1. F \in [B -> Nat]
  BY BestIs
<1>2. PICK jt : Folds(jt, F, SUBSET B)
  BY FoldExists
<1>3. \A s \in SUBSET B : s # {} => Pick(s) \in B /\ F[Pick(s)] = BestUpTo(u, Pick(s), n)
  BY DEF Pick
<1>4. jt = [s \in SUBSET B |-> IF s = {} THEN 0 ELSE BestUpTo(u, Pick(s), n) + jt[s \ {Pick(s)}]]
  <2>1. \A s \in SUBSET B : (IF s = {} THEN 0 ELSE F[Pick(s)] + jt[s \ {Pick(s)}])
                          = (IF s = {} THEN 0 ELSE BestUpTo(u, Pick(s), n) + jt[s \ {Pick(s)}])
    BY <1>3
  <2> QED BY <1>2, <2>1 DEF Folds
<1>6. PICK it : /\ it = [s \in SUBSET B |-> IF s = {} THEN 0 ELSE BestUpTo(u, Pick(s), n) + it[s \ {Pick(s)}]]
                /\ TotalUpTo(u, B, n) = it[B]
  BY <1>4 DEF MapThenSumSet, MapThenFoldSet, Pick, TotalUpTo
<1>7. it = [s \in SUBSET B |-> IF s = {} THEN 0 ELSE F[Pick(s)] + it[s \ {Pick(s)}]]
  <2>1. \A s \in SUBSET B : (IF s = {} THEN 0 ELSE F[Pick(s)] + it[s \ {Pick(s)}])
                          = (IF s = {} THEN 0 ELSE BestUpTo(u, Pick(s), n) + it[s \ {Pick(s)}])
    BY <1>3
  <2> QED BY <1>6, <2>1
<1>8. Sums(it, F, B)
  BY <1>1, <1>7, FoldSums DEF Folds
<1> QED BY <1>1, <1>6, <1>8

Firsts(u, ids) == {First(u, p) : p \in Attempted(u, ids)}

LEMMA FirstsFacts ==
  ASSUME RowsTyped, NEW u, NEW ids, IsFiniteSet(ids)
  PROVE  /\ Attempted(u, ids) \in SUBSET ids /\ IsFiniteSet(Attempted(u, ids))
         /\ Firsts(u, ids) \in SUBSET Nat /\ Firsts(u, ids) \in SUBSET DOMAIN rows
         /\ IsFiniteSet(Firsts(u, ids))
         /\ \A p \in Attempted(u, ids) :
              /\ Group(u, p) # {} /\ First(u, p) \in Group(u, p) /\ First(u, p) \in Nat
              /\ rows[First(u, p)].problem = p
              /\ rows[First(u, p)].score = BestUpTo(u, p, Len(rows))
         /\ \A p \in ids \ Attempted(u, ids) : Group(u, p) = {}
<1> DEFINE A == Attempted(u, ids)
           h == [p \in A |-> First(u, p)]
<1>1. A \in SUBSET ids /\ \A p \in A : Group(u, p) # {}
  BY DEF Attempted
<1>2. IsFiniteSet(A)
  BY <1>1, FS_Subset
<1>3. \A p \in A : /\ First(u, p) \in Group(u, p) /\ First(u, p) \in Nat
                   /\ rows[First(u, p)].problem = p
                   /\ rows[First(u, p)].score = BestUpTo(u, p, Len(rows))
  BY <1>1, FirstIs, FirstReaches, GroupFacts
<1>4. h \in Surjection(A, Firsts(u, ids))
  BY DEF Firsts, Surjection
<1>5. IsFiniteSet(Firsts(u, ids))
  <2> HIDE DEF A, h
  <2> QED BY <1>2, <1>4, FS_Surjection
<1>6. Firsts(u, ids) \in SUBSET Nat /\ Firsts(u, ids) \in SUBSET DOMAIN rows
  BY <1>3 DEF Firsts, Group
<1> QED BY <1>1, <1>2, <1>3, <1>5, <1>6 DEF Attempted

LEMMA TotalsAgree ==
  ASSUME RowsTyped, NEW u, NEW ids, IsFiniteSet(ids)
  PROVE  Standing(u, ids).totalScore = Total(u, ids) /\ Total(u, ids) \in Nat
<1> DEFINE A == Attempted(u, ids)
           B == Firsts(u, ids)
           h == [p \in A |-> First(u, p)]
           F == [i \in B |-> rows[i].score]
           G == [p \in ids |-> BestUpTo(u, p, Len(rows))]
<1>1. PICK it : Sums(it, F, B) /\ MapThenSumSet(LAMBDA i : rows[i].score, B) = it[B]
  <2>1. B \in SUBSET DOMAIN rows /\ IsFiniteSet(B)
    BY FirstsFacts
  <2> HIDE DEF B
  <2> QED BY <2>1, ScoreFold
<1>2. PICK jt : Sums(jt, G, ids) /\ TotalUpTo(u, ids, Len(rows)) = jt[ids]
  BY BestFold
<1>3. G \in [ids -> Nat]
  BY BestIs
<1>4. F \in [B -> Nat]
  BY FirstsFacts DEF RowsTyped
<1>5. it[B] = jt[ids]
  <2>1. A \in SUBSET ids
    BY FirstsFacts
  <2>2. h \in [A -> B]
    BY DEF Firsts
  <2>3. \A x, y \in A : h[x] = h[y] => x = y
    BY FirstsFacts
  <2>4. B = {h[x] : x \in A}
    BY DEF Firsts
  <2>5. \A x \in A : F[h[x]] = G[x]
    BY <2>1, FirstsFacts DEF Firsts
  <2>6. \A x \in ids \ A : G[x] = 0
    BY FirstsFacts, NeverTried
  <2> HIDE DEF A, B, h, F, G
  <2> QED BY <1>1, <1>2, <1>3, <1>4, <2>1, <2>2, <2>3, <2>4, <2>5, <2>6, SumOfImage
<1>6. Standing(u, ids).totalScore = it[B]
  BY <1>1 DEF Standing, Firsts
<1>7. jt[ids] \in Nat
  BY <1>2 DEF Sums
<1> QED BY <1>2, <1>5, <1>6, <1>7 DEF Total

LEMMA CountsAgree ==
  ASSUME RowsTyped, NEW u, NEW ids, IsFiniteSet(ids)
  PROVE  /\ Standing(u, ids).problemsSolved = Cardinality(Solved(u, ids))
         /\ Cardinality(Solved(u, ids)) \in Nat
<1> DEFINE A == Attempted(u, ids)
           B == Firsts(u, ids)
           W == {i \in B : rows[i].score > 0}
           h == [p \in Solved(u, ids) |-> First(u, p)]
<1>1. Solved(u, ids) \in SUBSET A
  <2>1. \A p \in ids \ A : BestUpTo(u, p, Len(rows)) = 0
    BY FirstsFacts, NeverTried
  <2> QED BY <2>1 DEF Solved
<1>2. h \in [Solved(u, ids) -> W]
  BY <1>1, FirstsFacts DEF Solved, Firsts
<1>3. \A x, y \in Solved(u, ids) : h[x] = h[y] => x = y
  BY <1>1, FirstsFacts
<1>4. ASSUME NEW i \in W PROVE \E p \in Solved(u, ids) : h[p] = i
  <2>1. PICK p \in A : i = First(u, p)
    BY DEF Firsts
  <2>2. p \in ids /\ BestUpTo(u, p, Len(rows)) > 0
    BY <2>1, FirstsFacts
  <2>3. p \in Solved(u, ids)
    BY <2>2 DEF Solved
  <2> QED BY <2>1, <2>3
<1>5. h \in Bijection(Solved(u, ids), W)
  <2> HIDE DEF h, W
  <2> QED BY <1>2, <1>3, <1>4 DEF Bijection, Injection, Surjection, IsInjective
<1>6. IsFiniteSet(Solved(u, ids))
  BY FS_Subset DEF Solved
<1>7. Cardinality(W) = Cardinality(Solved(u, ids))
  <2> HIDE DEF h, W
  <2> QED BY <1>5, <1>6, FS_Bijection DEF ExistsBijection
<1>8. Standing(u, ids).problemsSolved = Cardinality(W)
  BY DEF Standing, Firsts
<1> QED BY <1>6, <1>7, <1>8, FS_CardinalityType

\* The total is complete when the last of the best submissions is in.
LEMMA CompleteAt ==
  ASSUME RowsTyped, NEW u, NEW ids, IsFiniteSet(ids),
         Attempted(u, ids) = Solved(u, ids), NEW n \in Nat
  PROVE  TotalUpTo(u, ids, n) = Total(u, ids) <=> \A i \in Firsts(u, ids) : i <= n
<1> DEFINE A == Attempted(u, ids)
           F == [p \in ids |-> BestUpTo(u, p, n)]
           G == [p \in ids |-> BestUpTo(u, p, Len(rows))]
<1>1. PICK it : Sums(it, F, ids) /\ TotalUpTo(u, ids, n) = it[ids]
  BY BestFold
<1>2. PICK jt : Sums(jt, G, ids) /\ Total(u, ids) = jt[ids]
  BY BestFold DEF Total
<1>3. F \in [ids -> Nat] /\ G \in [ids -> Nat]
  BY BestIs
<1>4. ASSUME NEW p \in ids PROVE BestUpTo(u, p, n) <= BestUpTo(u, p, Len(rows))
  <2> DEFINE b == BestUpTo(u, p, n)
             c == BestUpTo(u, p, Len(rows))
  <2>1. b \in Nat /\ c \in Nat /\ (b = 0 \/ b <= c)
    BY BestIs, GroupFacts
  <2> HIDE DEF b, c
  <2>2. b <= c
    BY <2>1
  <2> QED BY <2>2 DEF b, c
<1>5. \A p \in ids : F[p] <= G[p]
  BY <1>4
<1>6. \A p \in A : p \in ids /\ (F[p] = G[p] <=> First(u, p) <= n)
  <2> SUFFICES ASSUME NEW p \in A PROVE p \in ids /\ (F[p] = G[p] <=> First(u, p) <= n)
    OBVIOUS
  <2>1. p \in ids /\ BestUpTo(u, p, Len(rows)) > 0 /\ Group(u, p) # {}
    BY FirstsFacts DEF Solved
  <2>2. BestUpTo(u, p, n) = BestUpTo(u, p, Len(rows)) <=> First(u, p) <= n
    BY <2>1, FirstReaches
  <2> QED BY <2>1, <2>2
<1>7. \A p \in ids \ A : F[p] = G[p]
  BY FirstsFacts, NeverTried
<1>8. ASSUME it[ids] = jt[ids] PROVE \A p \in A : First(u, p) <= n
  <2>1. \A p \in ids : F[p] = G[p]
    <3> HIDE DEF A, F, G
    <3> QED BY <1>1, <1>2, <1>3, <1>5, <1>8, SumOrder
  <2> HIDE DEF A, F, G
  <2> QED BY <1>6, <2>1
<1>9. ASSUME \A p \in A : First(u, p) <= n PROVE it[ids] = jt[ids]
  <2>1. \A p \in ids : F[p] = G[p]
    <3> HIDE DEF A, F, G
    <3> QED BY <1>6, <1>7, <1>9
  <2>2. F = G
    BY <2>1
  <2> HIDE DEF A, F, G
  <2> QED BY <1>1, <1>2, <1>3, <2>2, SumUnique
<1>10. (\A i \in Firsts(u, ids) : i <= n) <=> \A p \in A : First(u, p) <= n
  BY DEF Firsts
<1> QED BY <1>1, <1>2, <1>8, <1>9, <1>10

\* With no trial in vain, lastSolvedAt is when the total was reached.
LEMMA LastIs ==
  ASSUME RowsTyped, NEW u, NEW ids, IsFiniteSet(ids),
         Attempted(u, ids) = Solved(u, ids), Attempted(u, ids) # {}
  PROVE  Standing(u, ids).lastSolvedAt = ReachedAt(u, ids)
<1> DEFINE B == Firsts(u, ids)
           m == Max(B)
           T == {n \in 0..Len(rows) : TotalUpTo(u, ids, n) = Total(u, ids)}
<1>1. m \in B /\ \A i \in B : m >= i
  <2>1. B \in SUBSET Nat /\ IsFiniteSet(B) /\ B # {}
    BY FirstsFacts DEF Firsts
  <2> HIDE DEF B
  <2> QED BY <2>1, MaxOf
<1>2. m \in Nat /\ m <= Len(rows) /\ B \in SUBSET Nat
  <2>1. B \in SUBSET Nat /\ B \in SUBSET (1 .. Len(rows)) /\ Len(rows) \in Nat
    BY FirstsFacts DEF RowsTyped
  <2> HIDE DEF B
  <2>2. m \in 1 .. Len(rows) /\ m \in Nat
    BY <1>1, <2>1
  <2> QED BY <2>1, <2>2
<1>3. \A n \in Nat : (\A i \in B : i <= n) <=> m <= n
  <2> HIDE DEF B, m
  <2>1. ASSUME NEW n \in Nat, m <= n, NEW i \in B PROVE i <= n
    <3>1. i \in Nat /\ i <= m
      BY <1>1, <1>2
    <3> QED BY <1>2, <2>1, <3>1
  <2> QED BY <1>1, <2>1
<1>4. \A n \in Nat : TotalUpTo(u, ids, n) = Total(u, ids) <=> m <= n
  BY <1>3, CompleteAt
<1>5. T \in SUBSET Nat /\ m \in T /\ \A n \in T : m <= n
  <2> HIDE DEF m
  <2>1. \A n \in 0 .. Len(rows) : n \in Nat
    BY DEF RowsTyped
  <2>2. m \in 0 .. Len(rows) /\ m <= m
    BY <1>2 DEF RowsTyped
  <2> QED BY <1>4, <2>1, <2>2
<1>6. Min(T) = m
  <2> HIDE DEF T, m
  <2>1. T # {}
    BY <1>5
  <2>2. Min(T) \in T /\ \A n \in T : Min(T) <= n
    BY <1>5, <2>1, MinOf
  <2>3. Min(T) <= m /\ m <= Min(T) /\ Min(T) \in Nat
    BY <1>5, <2>2
  <2> QED BY <1>2, <2>3
<1>7. Standing(u, ids).lastSolvedAt = m
  BY DEF Standing, Firsts
<1> QED BY <1>6, <1>7 DEF ReachedAt

LEMMA Ranking ==
  ASSUME RowsTyped, NEW ids, IsFiniteSet(ids)
  PROVE  RankedAsDescribed(ids)
<1> SUFFICES ASSUME NEW u \in Ranked(ids), NEW v \in Ranked(ids)
             PROVE  /\ Standing(u, ids).totalScore = Total(u, ids)
                    /\ Standing(u, ids).problemsSolved = Cardinality(Solved(u, ids))
                    /\ \/ Above(Standing(u, ids), Standing(v, ids)) <=> Better(u, v, ids)
                       \/ TiedAfterFailure(u, v, ids)
  BY DEF RankedAsDescribed
<1>1. /\ Standing(u, ids).totalScore = Total(u, ids)
      /\ Standing(v, ids).totalScore = Total(v, ids)
      /\ Standing(u, ids).problemsSolved = Cardinality(Solved(u, ids))
      /\ Standing(v, ids).problemsSolved = Cardinality(Solved(v, ids))
  BY TotalsAgree, CountsAgree
<1>2. /\ Total(u, ids) \in Nat /\ Total(v, ids) \in Nat
      /\ Cardinality(Solved(u, ids)) \in Nat /\ Cardinality(Solved(v, ids)) \in Nat
  BY TotalsAgree, CountsAgree
<1>3. CASE Total(u, ids) # Total(v, ids) \/ Cardinality(Solved(u, ids)) # Cardinality(Solved(v, ids))
  BY <1>1, <1>2, <1>3 DEF Above, Better
<1>4. CASE TiedAfterFailure(u, v, ids)
  BY <1>1, <1>4
<1>5. CASE /\ Total(u, ids) = Total(v, ids)
           /\ Cardinality(Solved(u, ids)) = Cardinality(Solved(v, ids))
           /\ ~ TiedAfterFailure(u, v, ids)
  <2>1. \A w \in {u, v} : Attempted(w, ids) = Solved(w, ids)
    BY <1>5 DEF TiedAfterFailure
  <2>2. Attempted(u, ids) # {} /\ Attempted(v, ids) # {}
    BY DEF Ranked
  <2>3. /\ Standing(u, ids).lastSolvedAt = ReachedAt(u, ids)
        /\ Standing(v, ids).lastSolvedAt = ReachedAt(v, ids)
    BY <2>1, <2>2, LastIs
  <2>4. Above(Standing(u, ids), Standing(v, ids)) <=> Better(u, v, ids)
    BY <1>1, <1>2, <1>5, <2>3 DEF Above, Better
  <2> QED BY <1>1, <2>4
<1> QED BY <1>3, <1>4, <1>5

-----------------------------------------------------------------------------
(* The standings of ContestSpec.                                           *)

Rows == [user : Participants, problem : ProblemIds, score : Nat, judged : BOOLEAN]

\* The submissions are rows, and finitely many problems are stored.
StandingsInv == rows \in Seq(Rows) /\ IsFiniteSet(Stored(problems))

LEMMA RowsStep ==
  ASSUME TypeOK, rows \in Seq(Rows), [ContestNext]_allVars
  PROVE  rows' \in Seq(Rows)
<1>1. CASE rows' = rows
  BY <1>1
<1>2. ASSUME NEW u \in Participants, NEW p \in Stored(problems), Submit(u, p)
      PROVE  rows' \in Seq(Rows)
  <2>1. p \in ProblemIds
    BY DEF Stored, TypeOK
  <2> DEFINE r == Row(u, p, 0, FALSE)
  <2>2. r \in Rows
    BY <2>1 DEF Row, Rows
  <2>3. rows' = Append(rows, r)
    BY <1>2 DEF Submit
  <2> HIDE DEF r
  <2> QED BY <2>2, <2>3
<1>3. ASSUME NEW i \in DOMAIN rows, Score(i)
      PROVE  rows' \in Seq(Rows)
  <2>1. rows[i] \in Rows /\ Len(rows) \in Nat /\ DOMAIN rows = 1 .. Len(rows)
    OBVIOUS
  <2>2. PICK s \in PointValues \cup {0} :
          rows' = [rows EXCEPT ![i] = Row(rows[i].user, rows[i].problem, s, TRUE)]
    BY <1>3 DEF Score
  <2> DEFINE r == Row(rows[i].user, rows[i].problem, s, TRUE)
  <2>3. r \in Rows
    <3>1. rows[i].user \in Participants /\ rows[i].problem \in ProblemIds
      BY <2>1 DEF Rows
    <3>2. s \in Nat
      BY PointsAssumption
    <3> QED BY <3>1, <3>2 DEF Row, Rows
  <2>4. rows' = [rows EXCEPT ![i] = r]
    BY <2>2
  <2> HIDE DEF r
  <2> QED BY <2>1, <2>3, <2>4
<1> QED BY <1>1, <1>2, <1>3 DEF ContestNext, SubmitTo, Judged, allVars

\* Of a step at most one problem is new.
LEMMA OneNewProblem ==
  ASSUME IInv, [Next]_vars
  PROVE  \E q : Stored(problems)' \subseteq Stored(problems) \cup {q}
<1>1. CASE problems' = problems
  BY <1>1 DEF Stored
<1>2. ASSUME NEW q, NEW d, problems' = [problems EXCEPT ![q] = d]
      PROVE  \E r : Stored(problems)' \subseteq Stored(problems) \cup {r}
  <2>1. DOMAIN problems' = DOMAIN problems
    BY <1>2
  <2>2. Stored(problems)' \subseteq Stored(problems) \cup {q}
    BY <1>2, <2>1 DEF Stored
  <2> QED BY <2>2
<1>3. CASE \E q \in Creates \cup Seeds : CreateProblem(q)
  BY <1>1, <1>2, <1>3 DEF CreateProblem
<1>4. CASE \E q \in Updates : SaveProblem(q)
  <2>1. PICK q \in Updates : SaveProblem(q)
    BY <1>4
  <2>2. \/ problems' = problems
        \/ \E d : problems' = [problems EXCEPT ![job[q].found] = d]
    BY <2>1 DEF SaveProblem
  <2> QED BY <1>1, <1>2, <2>2
<1>5. CASE \E q \in Deletes : DeleteProblem(q)
  BY <1>1, <1>2, <1>5 DEF DeleteProblem
<1>6. CASE \E q \in ContestDeletes : UnscopeProblems(q)
  <2>1. \A p \in ProblemIds : problems[p] = None => problems'[p] = None
    BY <1>6 DEF UnscopeProblems
  <2>2. DOMAIN problems = ProblemIds /\ DOMAIN problems' = ProblemIds
    BY <1>6 DEF UnscopeProblems, IInv, TypeOK
  <2> QED BY <2>1, <2>2 DEF Stored
<1> QED BY <1>1, <1>3, <1>4, <1>5, <1>6
        DEF Next, vars, RejectInput, DbFails, TrySlug, ResolveCompetition, InsertTestCases, FindProblem,
            ClearTestCases, RemoveTestCase, SeedLooksUp, CreateCompetition, AssignWindow,
            SaveCompetition, DeleteCompetition

LEMMA StandingsInvariant == ContestSpec => [](IInv /\ StandingsInv)
<1>1. ContestInit => StandingsInv
  <2> SUFFICES ASSUME ContestInit PROVE StandingsInv
    OBVIOUS
  <2>1. Stored(problems) \in SUBSET OldProblems
    BY DEF ContestInit, Init, Stored
  <2>2. IsFiniteSet(Stored(problems))
    BY <2>1, DatabaseAssumption, FS_Subset
  <2>3. rows \in Seq(Rows)
    BY DEF ContestInit
  <2> QED BY <2>2, <2>3 DEF StandingsInv
<1>2. ASSUME IInv, StandingsInv, [ContestNext]_allVars
      PROVE  StandingsInv'
  <2>1. rows' \in Seq(Rows)
    BY <1>2, RowsStep DEF IInv, StandingsInv
  <2>2. [Next]_vars
    BY <1>2 DEF ContestNext, SubmitTo, Judged, allVars, vars
  <2>3. PICK q : Stored(problems)' \subseteq Stored(problems) \cup {q}
    BY <1>2, <2>2, OneNewProblem
  <2>4. IsFiniteSet(Stored(problems) \cup {q})
    BY <1>2, FS_AddElement DEF StandingsInv
  <2>5. IsFiniteSet(Stored(problems)')
    BY <2>3, <2>4, FS_Subset
  <2> QED BY <2>1, <2>5 DEF StandingsInv
<1>3. ContestSpec => []IInv
  BY ContestRefines, Invariant, PTL
<1> QED BY <1>1, <1>2, <1>3, PTL DEF ContestSpec

-----------------------------------------------------------------------------
(* Theorems                                                                *)

(***************************************************************************)
(* The documents and what the handlers have in hand have their types, with *)
(* submissions and leaderboard (ContestSpec) as without them.              *)
(***************************************************************************)
THEOREM TypeCorrect == ContestSpec => []TypeOK
<1>1. IInv => TypeOK
  BY DEF IInv
<1> QED BY <1>1, ContestRefines, Invariant, PTL

(***************************************************************************)
(* However the creations, updates and deletions of problems, test cases    *)
(* and competitions and the seed script interleave and fail, a reference   *)
(* to a document that is gone was late when it was written, or its         *)
(* deletion is not over or failed half-way.                                *)
(***************************************************************************)
THEOREM ReferencesGuarded == ContestSpec => []ReferencesHold
<1>1. IInv => ReferencesHold
  BY DEF IInv, ProblemInv, TestRefs, ProblemRefs, ReferencesHold
<1> QED BY <1>1, ContestRefines, Invariant, PTL

(***************************************************************************)
(* A competition's window is only ever stored the wrong way round by two   *)
(* updates that raced, whatever the number of updates.                     *)
(***************************************************************************)
THEOREM WindowsGuarded == ContestSpec => []WindowsProper
<1>1. IInv => WindowsProper
  BY DEF IInv, ContestInv
<1> QED BY <1>1, ContestRefines, Invariant, PTL

(***************************************************************************)
(* A problem is changed by an update that looked up that very document, or *)
(* by the deletion of its competition, and is created only once, under a   *)
(* slug that no other problem has and that it keeps: for any number of     *)
(* requests at a time.                                                     *)
(***************************************************************************)
THEOREM EditsGuarded == ContestSpec => EditsAimed
<1>1. IInv /\ [Next]_vars => [Aimed]_vars
  BY NextAimed
<1> QED BY <1>1, ContestRefines, Invariant, PTL DEF Spec, EditsAimed, Aimed

(***************************************************************************)
(* Whatever the submissions to however many problems and in whatever order *)
(* they are judged, getLeaderboard ranks as its comment describes: by the  *)
(* sum of the best scores, then by the number of problems solved, then by  *)
(* who reached that score first, save in a tie with somebody who has tried *)
(* a problem in vain.                                                      *)
(***************************************************************************)
THEOREM StandingsGuarded == ContestSpec => []StandingsAsDescribed
<1>1. StandingsInv => StandingsAsDescribed
  <2> SUFFICES ASSUME StandingsInv, NEW c \in Stored(contests)
               PROVE  RankedAsDescribed(ProblemsOf(c))
    BY DEF StandingsAsDescribed
  <2>1. ProblemsOf(c) \in SUBSET Stored(problems)
    BY DEF ProblemsOf
  <2>2. IsFiniteSet(ProblemsOf(c))
    BY <2>1, FS_Subset DEF StandingsInv
  <2>3. RowsTyped
    <3>1. /\ Len(rows) \in Nat /\ DOMAIN rows = 1 .. Len(rows)
          /\ \A i \in DOMAIN rows : rows[i] \in Rows
      BY DEF StandingsInv
    <3>2. \A r \in Rows : r.score \in Nat
      BY DEF Rows
    <3> QED BY <3>1, <3>2 DEF RowsTyped
  <2> QED BY <2>2, <2>3, Ranking
<1> QED BY <1>1, StandingsInvariant, PTL
=============================================================================
