------------------------------ MODULE Browser -------------------------------
(***************************************************************************)
(* One tab: the session and the pages that change stored state.  A 401 on  *)
(* any page, or a log-out, takes all of them along.                        *)
(***************************************************************************)
EXTENDS ProblemPage, EditPage

vars == <<sessionVars, page, editVars>>

BrowserInit == Init /\ page = None /\ EditInit

\* A link to a page that is not modelled in detail.
Navigate(p) ==
  /\ p # path
  /\ Route(p, user) = p
  /\ path' = p
  /\ flight' = Left(flight, p)
  /\ UNCHANGED <<stored, user, loading, sends, expired>>

Next ==
  \/ /\ SessionNext \/ \E p \in {"home", "login", "profile"} : Navigate(p)
     /\ PageStays
     /\ FormStays
  \/ PageNext /\ FormStays
  \/ EditNext /\ PageStays

Spec == BrowserInit /\ [][Next]_vars
=============================================================================
