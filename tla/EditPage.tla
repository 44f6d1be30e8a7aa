------------------------------ MODULE EditPage ------------------------------
(***************************************************************************)
(* pages/AdminEditProblem.jsx for one problem, and what is stored of it.   *)
(* An edit takes effect when the backend handles it (Catalogue has the     *)
(* handlers in detail) and shows on the page when its answer arrives, or   *)
(* not at all when the answer is lost.                                     *)
(***************************************************************************)
EXTENDS Session

CONSTANTS
  OldTests,  \* the test cases there are at the start
  Drafts     \* what may stand in the fields of the form

\* The database gives every test case an id of its own.
ASSUME EditAssumption == None \notin Nat /\ OldTests \cap Nat = {}

VARIABLES
  form,    \* the state of the component, None while it is not mounted
  tests,   \* the test cases that are stored; a new one has its request's number
  fields   \* the stored fields of the problem

editVars == <<form, tests, fields>>

\* saved is history: the draft whose save was last answered 200.  exact too:
\* the page has loaded, nothing was under way then, and no answer was lost.
Opened(e) ==
  [ready |-> FALSE, testCases |-> {}, adding |-> FALSE, saving |-> FALSE,
   deletingId |-> None, saved |-> None, exact |-> e]

Pending == {r \in flight : r.kind \in Edits}

EditInit ==
  /\ form = None
  /\ tests = OldTests
  /\ fields \in Drafts

\* Only an administrator is shown the link.
OpenEdit ==
  /\ path # "edit"
  /\ Route("edit", user) = "edit"
  /\ SendFrom("edit", "open", None)
  /\ form' = Opened(\A r \in Pending : r.reply # None)
  /\ UNCHANGED <<tests, fields>>

ByAdmin(r) == Accepted(r) /\ r.token.owner \in Admins

\* Promise.all of the problem and its test cases, and finally.
OpenAnswered(r) ==
  LET listens == r.by = "page" IN
  /\ r.kind = "open"
  /\ \/ /\ ByAdmin(r)
        /\ Failed(r)
        /\ form' = IF listens THEN [form EXCEPT !.ready = TRUE, !.testCases = tests] ELSE form
     \/ Expelled(r) /\ form' = None
     \/ /\ Unauthorized(r) \/ Failed(r)
        /\ form' = IF listens THEN [form EXCEPT !.ready = TRUE, !.exact = FALSE] ELSE form
  /\ UNCHANGED <<tests, fields>>

Ready == form # None /\ form.ready

AddTestCase ==
  /\ Ready
  /\ ~form.adding
  /\ Send("add", None)
  /\ form' = [form EXCEPT !.adding = TRUE]
  /\ UNCHANGED <<tests, fields>>

\* Only the button of the latest deletion is disabled.
DeleteTestCase(t) ==
  /\ Ready
  /\ t \in form.testCases
  /\ t # form.deletingId
  /\ Send("delete", t)
  /\ form' = [form EXCEPT !.deletingId = t]
  /\ UNCHANGED <<tests, fields>>

Save(d) ==
  /\ Ready
  /\ ~form.saving
  /\ Send("save", d)
  /\ form' = [form EXCEPT !.saving = TRUE]
  /\ UNCHANGED <<tests, fields>>

\* The backend handles an edit and answers.
Handle(r) ==
  LET answer(code) == flight' = (flight \ {r}) \cup
        (IF r.by = "gone" THEN {} ELSE {[r EXCEPT !.reply = code]}) IN
  /\ r \in Pending
  /\ r.reply = None
  /\ \/ /\ ByAdmin(r)
        /\ answer(IF r.kind = "delete" /\ r.for \notin tests THEN 404 ELSE 200)
        /\ tests' = CASE r.kind = "add" -> tests \cup {r.n}
                      [] r.kind = "delete" -> tests \ {r.for}
                      [] OTHER -> tests
        /\ fields' = IF r.kind = "save" THEN r.for ELSE fields
     \/ \E code \in {401, 500} : answer(code) /\ UNCHANGED <<tests, fields>>
  /\ UNCHANGED <<stored, user, loading, path, sends, expired, form>>

\* finally
Idle(r) ==
  CASE r.kind = "add" -> [form EXCEPT !.adding = FALSE]
    [] r.kind = "save" -> [form EXCEPT !.saving = FALSE]
    [] r.kind = "delete" -> [form EXCEPT !.deletingId = None]

Updated(r) ==
  CASE r.kind = "add" -> [Idle(r) EXCEPT !.testCases = @ \cup {r.n}]
    [] r.kind = "save" -> [Idle(r) EXCEPT !.saved = r.for]
    [] r.kind = "delete" -> [Idle(r) EXCEPT !.testCases = @ \ {r.for}]

\* The list is filtered whatever the answer says.
AnswerOptimistic(r, f) ==
  IF r.by = "page" THEN (IF r.kind = "delete" THEN Updated(r) ELSE f) ELSE form

\* What the handler of r makes of the form, if it is still mounted.
Answer(r, f) == IF r.by = "page" THEN f ELSE form

EditAnswered(r) ==
  /\ r \in Pending
  /\ \/ r.reply = 200 /\ Failed(r) /\ form' = Answer(r, Updated(r))
     \/ r.reply = 401 /\ Expelled(r) /\ form' = None
     \/ r.reply = 401 /\ Unauthorized(r) /\ form' = Answer(r, Idle(r))
     \/ r.reply \in {404, 500} /\ Failed(r) /\ form' = Answer(r, Idle(r))
  /\ UNCHANGED <<tests, fields>>

\* The connection fails: the edit may have been handled, or may still be.
EditLost(r) ==
  /\ r \in Pending
  /\ r.by # "gone"
  /\ \/ flight' = flight \ {r}
     \/ r.reply = None /\ flight' = (flight \ {r}) \cup {[r EXCEPT !.by = "gone"]}
  /\ form' = Answer(r, [Idle(r) EXCEPT !.exact = FALSE])
  /\ UNCHANGED <<stored, user, loading, path, sends, expired, tests, fields>>

EditNext ==
  \/ OpenEdit \/ AddTestCase
  \/ \E t \in tests \cup OldTests : DeleteTestCase(t)
  \/ \E d \in Drafts : Save(d)
  \/ \E r \in flight : OpenAnswered(r) \/ Handle(r) \/ EditAnswered(r) \/ EditLost(r)

\* Any other step: the component ends with its route.
FormStays ==
  /\ form' = IF path' = "edit" THEN form ELSE None
  /\ UNCHANGED <<tests, fields>>

-----------------------------------------------------------------------------
(* Properties                                                              *)

(***************************************************************************)
(* Once every edit is answered, the page lists the test cases that are     *)
(* stored, and the fields stored are those of the last save it was told of:*)
(* with additions and deletions overlapping, refused, repeated and         *)
(* answered in any order.  A page that did not load, lost an answer, or    *)
(* opened while an edit of an earlier visit was under way may differ.      *)
(***************************************************************************)
PageShowsStored ==
  Ready /\ form.exact /\ Pending = {} =>
    /\ form.testCases = tests
    /\ form.saved # None => fields = form.saved
=============================================================================
