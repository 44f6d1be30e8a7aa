----------------------------- MODULE MCContest ------------------------------
(* Requests that share documents, up to four at a time, submissions        *)
(* included: those of a load, and as many submissions as it leaves room    *)
(* for.                                                                    *)
EXTENDS Contest, TLC

CONSTANTS p1, p2, c1, n1, n2, u1, d1, s1, a1, r1, k1, w1, w2, x1, alice, bob, sum, prime

MCOldProblems == {p1, p2}
MCOldContests == {c1}
MCCreates == {n1, n2}
MCUpdates == {u1}
MCDeletes == {d1}
MCSeeds == {s1}
MCAdds == {a1}
MCRemovals == {r1}
MCNewContests == {k1}
MCContestUpdates == {w1, w2}
MCContestDeletes == {x1}
MCTitles == {sum, prime}
MCTimes == 1..3
MCParticipants == {alice, bob}
MCPointValues == {1, 2}

MCLoads == {
  {n1, n2, d1, s1},   \* names
  {n1, u1, d1},       \* an edit, and a new problem of the same name
  {n1, d1, a1, r1},   \* test cases
  {n1, u1, x1},       \* references to a competition
  {w1, w2, k1, x1},   \* windows
  {u1, x1}, {}}

\* The loads treat problems, titles and participants alike.
MCSymmetry ==
  Permutations(MCOldProblems) \cup Permutations(MCTitles) \cup Permutations(MCParticipants)
=============================================================================
