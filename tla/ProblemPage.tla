---------------------------- MODULE ProblemPage -----------------------------
(***************************************************************************)
(* pages/ProblemDetail.jsx: the problem of a slug, and the boxes with the  *)
(* verdict of the last run on the samples and of the last submission.  The *)
(* component lives on when the slug changes under it (the history menu of  *)
(* the browser), and ends when the route does.                             *)
(***************************************************************************)
EXTENDS Session

CONSTANT Slugs

VARIABLE page  \* the state of the component, None while it is not mounted

\* shown is the slug of the problem on display; the results are named by the
\* request they answer, last is history: the last one sent by a button.
Mounted(s) ==
  [slug |-> s, shown |-> None, running |-> FALSE, submitting |-> FALSE,
   runResult |-> None, result |-> None, last |-> None]

\* A link to the problem s, none of which is on this page.
OpenProblem(s) ==
  /\ path # "problem"
  /\ SendFrom("problem", "load", s)
  /\ page' = Mounted(s)

\* The effect runs again, everything else stays.
ChangeSlug(s) ==
  /\ page # None
  /\ s # page.slug
  /\ Send("load", s)
  /\ page' = [page EXCEPT !.slug = s]

\* A public route.  The answer is shown whatever the slug is by now.
LoadAnswered(r) ==
  /\ r.kind = "load"
  /\ Failed(r)
  /\ page' \in {page, IF r.by = "page" THEN [page EXCEPT !.shown = r.for] ELSE page}

Flag(k) == IF k = "run" THEN "running" ELSE "submitting"
Box(k) == IF k = "run" THEN "runResult" ELSE "result"

\* Each button looks at its own flag.
ClickableEither(k) == ~loading /\ ~page[Flag(k)]

\* Both buttons are disabled while either request is under way.
Clickable(k) == ~loading /\ ~page.running /\ ~page.submitting

\* handleRun and handleSubmit.  Without a user only a message is shown.
Click(k) ==
  /\ page # None
  /\ page.shown # None
  /\ Clickable(k)
  /\ user # None
  /\ Send(k, page.slug)
  /\ page' = [page EXCEPT ![Flag(k)] = TRUE, !.runResult = None, !.result = None,
                          !.last = sends + 1]

\* then, catch and finally; an answer that nobody waits for changes no page.
ExecutionAnswered(r) ==
  LET k == r.kind
      idle == [page EXCEPT ![Flag(k)] = FALSE] IN
  /\ k \in {"run", "submit"}
  /\ \/ /\ Accepted(r)
        /\ Failed(r)
        /\ page' = IF r.by = "page" THEN [idle EXCEPT ![Box(k)] = r.n] ELSE page
     \/ Expelled(r) /\ page' = None
     \/ /\ Unauthorized(r) \/ Failed(r)
        /\ page' = IF r.by = "page" THEN idle ELSE page

PageNext ==
  \/ \E s \in Slugs : OpenProblem(s) \/ ChangeSlug(s)
  \/ \E k \in {"run", "submit"} : Click(k)
  \/ \E r \in flight : LoadAnswered(r) \/ ExecutionAnswered(r)

\* Any other step: the component ends with its route.
PageStays == page' = IF path' = "problem" THEN page ELSE None

-----------------------------------------------------------------------------
(* Properties                                                              *)

(***************************************************************************)
(* A verdict on display answers the last click of a button on this page,   *)
(* wherever its slug has gone since and however late earlier answers come; *)
(* no old one stands there while a new one is awaited, and never both.     *)
(***************************************************************************)
VerdictOfLastClick ==
  page # None =>
    /\ {page.runResult, page.result} \subseteq {None, page.last}
    /\ None \in {page.runResult, page.result}
    /\ page.running \/ page.submitting => page.runResult = None /\ page.result = None
=============================================================================
