----------------------------- MODULE MCBrowser ------------------------------
(* An administrator and another user, two problems, two test cases.        *)
EXTENDS Browser, TLC

CONSTANTS admin, ann, sum, prime, t1, t2

MCAccounts == {admin, ann}
MCAdmins == {admin}
MCSlugs == {sum, prime}
MCOldTests == {t1, t2}
MCDrafts == {"old", "new"}

MCSymmetry == Permutations(MCSlugs) \cup Permutations(MCOldTests)
=============================================================================
