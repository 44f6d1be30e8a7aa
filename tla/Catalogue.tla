----------------------------- MODULE Catalogue ------------------------------
(***************************************************************************)
(* controllers/problemController.js and competitionController.js, and the  *)
(* seed script, over the collections of problems, test cases and           *)
(* competitions.  Each await of a handler ends an action; there are no     *)
(* transactions.  A document is named by the request that created it.      *)
(* Mongoose saves the paths whose value a handler has changed and no       *)
(* others, rejects the save of a document that is gone, and the unique     *)
(* index on slug rejects a second document; a rejected call has written    *)
(* nothing.                                                                *)
(***************************************************************************)
EXTENDS Naturals

CONSTANTS
  OldProblems, OldContests,  \* documents that are there at the start
  Creates, Updates, Deletes, \* requests about problems
  Seeds,                     \* problems of the seed script
  Adds, Removals,            \* requests about test cases
  NewContests, ContestUpdates, ContestDeletes,
  Loads,                     \* sets of requests that may come in together
  Titles,                    \* what slugify makes of the titles in use
  Times,
  None,
  Keep                       \* undefined: a path the request does not name

ProblemIds == OldProblems \cup Creates \cup Seeds
ContestIds == OldContests \cup NewContests
ProblemRequests == Creates \cup Updates \cup Deletes \cup Adds \cup Removals
ContestRequests == NewContests \cup ContestUpdates \cup ContestDeletes
Requests == ProblemRequests \cup ContestRequests \cup Seeds

ASSUME KindsAssumption ==
  /\ Creates \cap (Updates \cup Deletes \cup Adds \cup Removals) = {}
  /\ Updates \cap (Deletes \cup Adds \cup Removals) = {}
  /\ Deletes \cap (Adds \cup Removals) = {}
  /\ Adds \cap Removals = {}
  /\ NewContests \cap (ContestUpdates \cup ContestDeletes) = {}
  /\ ContestUpdates \cap ContestDeletes = {}
  /\ ProblemRequests \cap (ContestRequests \cup Seeds) = {}
  /\ ContestRequests \cap Seeds = {}
  /\ OldProblems \cap (Creates \cup Seeds) = {}
  /\ OldContests \cap NewContests = {}

ASSUME TimesAssumption == Times \subseteq Nat /\ \E s, t \in Times : s < t

VARIABLES
  problems,  \* the document of each id, None when there is none
  tests,     \* the test cases that are stored
  contests,  \* the Competition documents
  job        \* each request: its place in its handler and its local variables

vars == <<problems, tests, contests, job>>

\* late is history: when the reference was written, what it refers to was gone.
Problem(s, c, q, l) == [slug |-> s, competition |-> c, by |-> q, late |-> l]
TestCase(p, q) == [problem |-> p, by |-> q, late |-> problems[p] = None]
Contest(s, from, to) == [slug |-> s, startTime |-> from, endTime |-> to]

Fresh(place) == [at |-> place, slug |-> None, found |-> None,
                 read |-> None, set |-> None, code |-> None]

Slugs == Titles \X Nat
Windows == [startTime : Times, endTime : Times]
Problems == [slug : Slugs, competition : ContestIds \cup {None},
             by : OldProblems \cup Requests, late : BOOLEAN]
TestCases == [problem : ProblemIds, by : OldProblems \cup Requests, late : BOOLEAN]
Competitions == [slug : Slugs, startTime : Times, endTime : Times]
Values == ContestIds \cup {None, Keep} \cup Windows
Codes == {None, "2xx", "4xx", "5xx"}
Early == {"unsent", "start", "naming", "named", "saving"}
Places == Early \cup {"found", "filling", "clearing", "done"}
Jobs == [at : Places, slug : Slugs \cup {None}, found : ProblemIds \cup ContestIds \cup {None},
         read : Values, set : Values, code : Codes]

ASSUME NoneAssumption ==
  /\ None \notin {"2xx", "4xx", "5xx"} \cup Problems \cup Competitions
  /\ Keep \notin ContestIds \cup {None}

TypeOK ==
  /\ problems \in [ProblemIds -> Problems \cup {None}]
  /\ tests \subseteq TestCases
  /\ contests \in [ContestIds -> Competitions \cup {None}]
  /\ job \in [Requests -> Jobs]

Init ==
  /\ \E slugOf \in [OldProblems -> Titles], inside \in [OldProblems -> OldContests \cup {None}] :
       /\ \A p, q \in OldProblems : slugOf[p] = slugOf[q] => p = q
       /\ problems = [p \in ProblemIds |->
            IF p \in OldProblems THEN Problem(<<slugOf[p], 0>>, inside[p], p, FALSE) ELSE None]
  /\ tests = {[problem |-> p, by |-> p, late |-> FALSE] : p \in OldProblems}
  /\ \E slugOf \in [OldContests -> Titles], from, to \in Times :
       /\ \A t \in Times : from <= t /\ t <= to
       /\ \A c, d \in OldContests : slugOf[c] = slugOf[d] => c = d
       /\ contests = [c \in ContestIds |->
            IF c \in OldContests THEN Contest(<<slugOf[c], 0>>, from, to) ELSE None]
  /\ \E load \in Loads :
       job = [q \in Requests |-> Fresh(IF q \in load THEN "start" ELSE "unsent")]

\* Statuses by their class.  What the handler knew is kept where a property
\* asks for it: a failed clean-up, an update of a competition.
Answer(q, c) == job' = [job EXCEPT ![q] = [Fresh("done") EXCEPT !.code = c]]

\* Missing fields, or a window that ends before it begins.
RejectInput(q) ==
  /\ job[q].at = "start"
  /\ Answer(q, "4xx")
  /\ UNCHANGED <<problems, tests, contests>>

\* A call to MongoDB is rejected, which ends the seed script too.
DbFails(q) ==
  /\ job[q].at \notin {"unsent", "done"}
  /\ IF job[q].at = "clearing"
     THEN job' = [job EXCEPT ![q].at = "done", ![q].code = "5xx"]
     ELSE Answer(q, "5xx")
  /\ UNCHANGED <<problems, tests, contests>>

Stored(docs) == {d \in DOMAIN docs : docs[d] # None}
Taken(docs, s) == \E d \in Stored(docs) : docs[d].slug = s

\* One turn of the loop that looks for a free slug: base, base-1, base-2...
TrySlug(q, docs) ==
  /\ job[q].at \in {"start", "naming"}
  /\ \E s \in IF job[q].at = "start" THEN Titles \X {0} ELSE {job[q].slug} :
       job' = IF Taken(docs, s)
              THEN [job EXCEPT ![q].at = "naming", ![q].slug = <<s[1], s[2] + 1>>]
              ELSE [job EXCEPT ![q].at = "named", ![q].slug = s]
  /\ UNCHANGED <<problems, tests, contests>>

-----------------------------------------------------------------------------
(* Problems                                                                *)

\* findOne({ slug: req.params.slug })
FindProblem(q) ==
  /\ job[q].at = "start"
  /\ \/ \E p \in Stored(problems) :
          job' = [job EXCEPT ![q].at = "found", ![q].slug = problems[p].slug,
                             ![q].found = p, ![q].read = problems[p].competition]
     \/ Answer(q, "4xx")
  /\ UNCHANGED <<problems, tests, contests>>

\* No slug, a known one, an unknown one; an update may leave the field out.
ResolveCompetition(q) ==
  /\ job[q].at = IF q \in Creates THEN "named" ELSE "found"
  /\ \/ \E c \in Stored(contests) \cup {None} \cup (IF q \in Updates THEN {Keep} ELSE {}) :
          job' = [job EXCEPT ![q].at = "saving", ![q].set = c]
     \/ Answer(q, "4xx")
  /\ UNCHANGED <<problems, tests, contests>>

Gone(c) == c # None /\ contests[c] = None

CreateProblem(q) ==
  /\ job[q].at = "saving"
  /\ IF Taken(problems, job[q].slug)
     THEN Answer(q, "5xx") /\ UNCHANGED problems
     ELSE /\ problems' = [problems EXCEPT ![q] =
               Problem(job[q].slug, job[q].set, q, Gone(job[q].set))]
          /\ \/ job' = [job EXCEPT ![q].at = "filling", ![q].found = q]
             \/ q \in Creates /\ Answer(q, "2xx")
  /\ UNCHANGED <<tests, contests>>

\* TestCase.insertMany of a new problem, TestCase.create of an old one:
\* neither looks whether the problem is still there.
InsertTestCases(q) ==
  /\ job[q].at = IF q \in Adds THEN "found" ELSE "filling"
  /\ tests' = tests \cup {TestCase(job[q].found, q)}
  /\ Answer(q, "2xx")
  /\ UNCHANGED <<problems, contests>>

\* The save by slug and with upsert.
SaveProblemBySlug(q) ==
  /\ job[q].at = "saving"
  /\ \E p \in IF Taken(problems, job[q].slug)
              THEN {p \in Stored(problems) : problems[p].slug = job[q].slug}
              ELSE {job[q].found} :
       problems' = [problems EXCEPT ![p] =
         Problem(job[q].slug, IF job[q].set = Keep THEN job[q].read ELSE job[q].set, q, FALSE)]
  /\ Answer(q, "2xx")
  /\ UNCHANGED <<tests, contests>>

\* A competition equal to the one that was read is not written.
SaveProblem(q) ==
  /\ job[q].at = "saving"
  /\ IF problems[job[q].found] = None
     THEN Answer(q, "5xx") /\ UNCHANGED problems
     ELSE /\ LET c == job[q].set
                 p == problems[job[q].found] IN
             problems' = [problems EXCEPT ![job[q].found] =
               IF c \in {Keep, job[q].read} THEN [p EXCEPT !.by = q]
               ELSE Problem(p.slug, c, q, Gone(c))]
          /\ Answer(q, "2xx")
  /\ UNCHANGED <<tests, contests>>

\* findOneAndDelete({ slug })
DeleteProblem(q) ==
  /\ job[q].at = "start"
  /\ \/ \E p \in Stored(problems) :
          /\ problems' = [problems EXCEPT ![p] = None]
          /\ job' = [job EXCEPT ![q].at = "clearing", ![q].found = p]
     \/ Answer(q, "4xx") /\ UNCHANGED problems
  /\ UNCHANGED <<tests, contests>>

\* deleteMany forgotten.
ClearNothing(q) ==
  /\ job[q].at = "clearing"
  /\ Answer(q, "2xx")
  /\ UNCHANGED <<problems, tests, contests>>

ClearTestCases(q) ==
  /\ job[q].at = "clearing"
  /\ tests' = {t \in tests : t.problem # job[q].found}
  /\ Answer(q, "2xx")
  /\ UNCHANGED <<problems, contests>>

\* findOneAndDelete({ _id, problem })
RemoveTestCase(q) ==
  /\ job[q].at = "found"
  /\ \/ \E t \in tests :
          t.problem = job[q].found /\ tests' = tests \ {t} /\ Answer(q, "2xx")
     \/ Answer(q, "4xx") /\ UNCHANGED tests
  /\ UNCHANGED <<problems, contests>>

\* The script looks for the slug of the title itself and skips what it finds.
SeedLooksUp(q) ==
  /\ job[q].at = "start"
  /\ \E t \in Titles :
       IF Taken(problems, <<t, 0>>) THEN Answer(q, "2xx")
       ELSE job' = [job EXCEPT ![q].at = "saving", ![q].slug = <<t, 0>>]
  /\ UNCHANGED <<problems, tests, contests>>

-----------------------------------------------------------------------------
(* Competitions                                                            *)

CreateCompetition(q) ==
  /\ job[q].at = "named"
  /\ IF Taken(contests, job[q].slug)
     THEN Answer(q, "5xx") /\ UNCHANGED contests
     ELSE /\ \E from, to \in Times :
               from < to /\ contests' = [contests EXCEPT ![q] = Contest(job[q].slug, from, to)]
          /\ Answer(q, "2xx")
  /\ UNCHANGED <<problems, tests>>

Window(c) == [startTime |-> c.startTime, endTime |-> c.endTime]

\* The two times stored as they come.
AssignUnchecked(q) ==
  /\ job[q].at = "start"
  /\ \E c \in Stored(contests), from, to \in Times :
       job' = [job EXCEPT ![q].at = "saving", ![q].found = c, ![q].read = Window(contests[c]),
                          ![q].set = [startTime |-> from, endTime |-> to]]
  /\ UNCHANGED <<problems, tests, contests>>

\* The document with the new times assigned is what is checked.
AssignWindow(q) ==
  /\ job[q].at = "start"
  /\ \/ \E c \in Stored(contests), from, to \in Times :
          IF from >= to THEN Answer(q, "4xx")
          ELSE job' = [job EXCEPT ![q].at = "saving", ![q].found = c, ![q].read = Window(contests[c]),
                                  ![q].set = [startTime |-> from, endTime |-> to]]
     \/ Answer(q, "4xx")
  /\ UNCHANGED <<problems, tests, contests>>

SaveCompetition(q) ==
  LET c == job[q].found
      new(path, stored) ==
        IF job[q].set[path] = job[q].read[path] THEN stored ELSE job[q].set[path] IN
  /\ job[q].at = "saving"
  /\ IF contests[c] = None
     THEN Answer(q, "5xx") /\ UNCHANGED contests
     ELSE /\ contests' = [contests EXCEPT
               ![c].startTime = new("startTime", @), ![c].endTime = new("endTime", @)]
          /\ job' = [job EXCEPT ![q].at = "done", ![q].code = "2xx"]
  /\ UNCHANGED <<problems, tests>>

\* findOneAndDelete({ slug })
DeleteCompetition(q) ==
  /\ job[q].at = "start"
  /\ \/ \E c \in Stored(contests) :
          /\ contests' = [contests EXCEPT ![c] = None]
          /\ job' = [job EXCEPT ![q].at = "clearing", ![q].found = c]
     \/ Answer(q, "4xx") /\ UNCHANGED contests
  /\ UNCHANGED <<problems, tests>>

\* Problem.updateMany({ competition }, { competition: null })
UnscopeProblems(q) ==
  /\ job[q].at = "clearing"
  /\ problems' = [p \in ProblemIds |->
       IF problems[p] # None /\ problems[p].competition = job[q].found
       THEN [problems[p] EXCEPT !.competition = None, !.late = FALSE] ELSE problems[p]]
  /\ Answer(q, "2xx")
  /\ UNCHANGED <<tests, contests>>

Next ==
  \/ \E q \in Creates \cup Adds \cup NewContests : RejectInput(q)
  \/ \E q \in Requests : DbFails(q)
  \/ \E q \in Creates : TrySlug(q, problems) \/ ResolveCompetition(q)
  \/ \E q \in Creates \cup Seeds : CreateProblem(q)
  \/ \E q \in Creates \cup Seeds \cup Adds : InsertTestCases(q)
  \/ \E q \in Updates : ResolveCompetition(q) \/ SaveProblem(q)
  \/ \E q \in Updates \cup Adds \cup Removals : FindProblem(q)
  \/ \E q \in Deletes : DeleteProblem(q) \/ ClearTestCases(q)
  \/ \E q \in Removals : RemoveTestCase(q)
  \/ \E q \in Seeds : SeedLooksUp(q)
  \/ \E q \in NewContests : TrySlug(q, contests) \/ CreateCompetition(q)
  \/ \E q \in ContestUpdates : AssignWindow(q) \/ SaveCompetition(q)
  \/ \E q \in ContestDeletes : DeleteCompetition(q) \/ UnscopeProblems(q)

Spec == Init /\ [][Next]_vars

-----------------------------------------------------------------------------
(* Properties                                                              *)

(***************************************************************************)
(* A problem changes only through an update that looked up that very       *)
(* document, or when its competition is deleted, and is created only once: *)
(* a save that comes after a deletion brings nothing back, and touches no  *)
(* other problem that has taken the slug since.  Its slug is free when it  *)
(* is created, however long ago that was looked up, and stays as it is.    *)
(***************************************************************************)
EditsAimed ==
  [][\A p \in ProblemIds :
       LET old == problems[p]
           new == problems'[p] IN
       old # new /\ new # None =>
         IF old = None
         THEN p \notin OldProblems /\ job[p].at = "saving" /\ ~Taken(problems, new.slug)
         ELSE /\ new.slug = old.slug
              /\ \/ \E q \in Updates : /\ job[q].found = p
                                       /\ job[q].code = None /\ job'[q].code = "2xx"
                                       /\ new.by = q
                 \/ \E q \in ContestDeletes : /\ job[q].found = old.competition
                                              /\ new.competition = None /\ new.by = old.by]_vars

\* The deletion of d has not been cleaned up after, and may never be.
LeftBehind(requests, d) ==
  \E q \in requests : job[q].found = d /\ (job[q].at = "clearing" \/ job[q].code = "5xx")

(***************************************************************************)
(* A test case whose problem is gone, and a problem whose competition is   *)
(* gone (README: deleting a competition un-scopes its problems), was       *)
(* written after the deletion by a request that had looked before it; or   *)
(* the deletion is not over, or failed half-way.  In particular without    *)
(* overlap and failures nothing refers to a document that is gone.         *)
(***************************************************************************)
ReferencesHold ==
  /\ \A t \in tests :
       problems[t.problem] = None => t.late \/ LeftBehind(Deletes, t.problem)
  /\ \A p \in Stored(problems) :
       Gone(problems[p].competition) =>
         problems[p].late \/ LeftBehind(ContestDeletes, problems[p].competition)

(***************************************************************************)
(* A stored competition begins before it ends, unless two updates raced:   *)
(* each was checked and answered 200, and each read a time that the other  *)
(* has replaced.                                                           *)
(***************************************************************************)
WindowsProper ==
  \A c \in Stored(contests) :
    contests[c].startTime < contests[c].endTime \/
      \E u, v \in ContestUpdates :
        /\ job[u].found = c /\ job[u].code = "2xx" /\ job[u].set.endTime # contests[c].endTime
        /\ job[v].found = c /\ job[v].code = "2xx" /\ job[v].set.startTime # contests[c].startTime
        /\ contests[c].startTime = job[u].set.startTime
        /\ contests[c].endTime = job[v].set.endTime
=============================================================================
