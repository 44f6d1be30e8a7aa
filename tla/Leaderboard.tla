---------------------------- MODULE Leaderboard -----------------------------
(***************************************************************************)
(* The aggregation of getLeaderboard (controllers/competitionController.js)*)
(* over the Submission documents.  A row's place in the sequence is its    *)
(* createdAt; its score is 0 until it is judged.  Points are positive, as  *)
(* the forms of the frontend demand.                                       *)
(***************************************************************************)
EXTENDS Naturals, Sequences, FiniteSetsExt

CONSTANTS
  Participants,
  PointValues  \* what problems have been worth, over time

ASSUME PointsAssumption == PointValues \subseteq Nat

VARIABLE rows

Row(u, p, s, j) == [user |-> u, problem |-> p, score |-> s, judged |-> j]

\* Submission.create, with the defaults of the schema.
Submit(u, p) == rows' = Append(rows, Row(u, p, 0, FALSE))

\* The last save of submitCode, in any order: 0, or the points read before.
Score(i) ==
  /\ ~rows[i].judged
  /\ \E s \in PointValues \cup {0} :
       rows' = [rows EXCEPT ![i] = Row(@.user, @.problem, s, TRUE)]

-----------------------------------------------------------------------------
(* The pipeline, for the problems ids                                      *)

\* $match, and the key of the first $group
Group(u, p) == {i \in DOMAIN rows : rows[i].user = u /\ rows[i].problem = p}
Attempted(u, ids) == {p \in ids : Group(u, p) # {}}
Ranked(ids) == {u \in Participants : Attempted(u, ids) # {}}

\* The latest submission instead of the best.
BeforeLatest(i, j) == i > j

\* $sort: { score: -1, createdAt: 1 }
Before(i, j) ==
  \/ rows[i].score > rows[j].score
  \/ rows[i].score = rows[j].score /\ i < j

\* $first of the first $group
First(u, p) == CHOOSE i \in Group(u, p) : \A j \in Group(u, p) \ {i} : Before(i, j)

\* The second $group
Standing(u, ids) ==
  LET best == {First(u, p) : p \in Attempted(u, ids)} IN
  [totalScore |-> MapThenSumSet(LAMBDA i : rows[i].score, best),
   problemsSolved |-> Cardinality({i \in best : rows[i].score > 0}),
   lastSolvedAt |-> Max(best)]

\* $sort: { totalScore: -1, problemsSolved: -1, lastSolvedAt: 1 }
Above(s, t) ==
  \/ s.totalScore > t.totalScore
  \/ /\ s.totalScore = t.totalScore
     /\ \/ s.problemsSolved > t.problemsSolved
        \/ /\ s.problemsSolved = t.problemsSolved
           /\ s.lastSolvedAt < t.lastSolvedAt

-----------------------------------------------------------------------------
(* The ranking as it is described                                          *)

\* u's score at p counting the submissions made up to time n.
BestUpTo(u, p, n) == Max({0} \cup {rows[i].score : i \in {i \in Group(u, p) : i <= n}})
TotalUpTo(u, ids, n) == MapThenSumSet(LAMBDA p : BestUpTo(u, p, n), ids)
Total(u, ids) == TotalUpTo(u, ids, Len(rows))
Solved(u, ids) == {p \in ids : BestUpTo(u, p, Len(rows)) > 0}
ReachedAt(u, ids) ==
  Min({n \in 0..Len(rows) : TotalUpTo(u, ids, n) = Total(u, ids)})

Better(u, v, ids) ==
  LET nu == Cardinality(Solved(u, ids))
      nv == Cardinality(Solved(v, ids)) IN
  \/ Total(u, ids) > Total(v, ids)
  \/ Total(u, ids) = Total(v, ids) /\ nu > nv
  \/ Total(u, ids) = Total(v, ids) /\ nu = nv /\ ReachedAt(u, ids) < ReachedAt(v, ids)

\* Both have the same score and number of problems, and one has tried a
\* problem in vain: lastSolvedAt then counts the trial too.
TiedAfterFailure(u, v, ids) ==
  /\ Total(u, ids) = Total(v, ids)
  /\ Cardinality(Solved(u, ids)) = Cardinality(Solved(v, ids))
  /\ \E w \in {u, v} : Attempted(w, ids) # Solved(w, ids)

(***************************************************************************)
(* "their best (highest-scoring) submission per problem is taken, then     *)
(* summed ... Ties broken by who solved more problems, then by whoever     *)
(* reached that score earliest" (competitionController.js): whatever the   *)
(* order in which submissions were judged, a participant's total and       *)
(* count are those of the best submissions, so that a retry changes        *)
(* nothing unless it scores more, and of two participants the one the      *)
(* description puts first comes first.  The one exception is a tie with a  *)
(* participant who has also tried a problem in vain.                       *)
(***************************************************************************)
RankedAsDescribed(ids) ==
  \A u, v \in Ranked(ids) :
    /\ Standing(u, ids).totalScore = Total(u, ids)
    /\ Standing(u, ids).problemsSolved = Cardinality(Solved(u, ids))
    /\ \/ Above(Standing(u, ids), Standing(v, ids)) <=> Better(u, v, ids)
       \/ TiedAfterFailure(u, v, ids)
=============================================================================
