------------------------------ MODULE Contest -------------------------------
(***************************************************************************)
(* The catalogue with the submissions to its problems, and the leaderboard *)
(* of each competition over both.                                          *)
(***************************************************************************)
EXTENDS Catalogue, Leaderboard

CONSTANT MaxRequests  \* bound: requests of all kinds in a run

\* The database holds finitely many problems to begin with.
ASSUME DatabaseAssumption == IsFiniteSet(OldProblems)

allVars == <<problems, tests, contests, job, rows>>

ContestInit == Init /\ rows = << >>

Sent == Cardinality({q \in Requests : job[q].at # "unsent"}) + Len(rows)

\* submitCode between its look-up and the row is Judge's concern.
SubmitTo(u, p) == Submit(u, p) /\ UNCHANGED vars
Judged(i) == Score(i) /\ UNCHANGED vars

ContestNext ==
  /\ \/ Next /\ UNCHANGED rows
     \/ \E u \in Participants, p \in Stored(problems) : SubmitTo(u, p)
     \/ \E i \in DOMAIN rows : Judged(i)
  /\ Sent' <= MaxRequests

ContestSpec == ContestInit /\ [][ContestNext]_allVars

\* Problem.find({ competition: competition._id })
ProblemsOf(c) == {p \in Stored(problems) : problems[p].competition = c}

\* Each competition that can be asked for has the ranking that is described.
StandingsAsDescribed == \A c \in Stored(contests) : RankedAsDescribed(ProblemsOf(c))
=============================================================================
