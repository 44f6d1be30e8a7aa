----------------------------- MODULE MCAccounts -----------------------------
(* Two addresses, and two requests to each handler that races with itself. *)
EXTENDS Accounts, TLC

CONSTANTS e1, e2, s1, s2, f1, f2, r1, r2, p1

MCEmails == {e1, e2}
MCSignups == {s1, s2}
MCForgots == {f1, f2}
MCOneForgot == {f1}
MCResets == {r1, r2}
MCProfiles == {p1}
MCNoRequests == {}

\* The requests are interchangeable within their kinds, and the addresses.
MCSymmetry ==
  Permutations(MCEmails) \cup Permutations(MCSignups) \cup Permutations(MCForgots)
    \cup Permutations(MCResets)
=============================================================================
