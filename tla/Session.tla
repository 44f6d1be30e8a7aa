------------------------------ MODULE Session -------------------------------
(***************************************************************************)
(* One tab of the frontend: the token in local storage, AuthContext, the   *)
(* axios client with its two interceptors, and the requests whose answers  *)
(* are still to come, in any order.  A token is named by its account and   *)
(* the request that brought it.  Login stands for signup too, except that  *)
(* a signup is never answered 401.                                         *)
(***************************************************************************)
EXTENDS Naturals

CONSTANTS
  Accounts,
  Admins,
  MaxSends,  \* bound: requests sent in a run
  None

VARIABLES
  stored,   \* localStorage "oj_token"
  user,     \* the account AuthContext shows
  loading,  \* AuthContext still waits for /auth/me
  path,     \* the route
  flight,   \* requests under way
  sends,    \* how many have been sent
  expired   \* tokens the backend no longer accepts

sessionVars == <<stored, user, loading, path, flight, sends, expired>>

Token(a, n) == [owner |-> a, n |-> n]
Edits == {"add", "delete", "save"}

\* for is what the URL and body name; reply is set once the backend has
\* handled an edit.  by: its component is mounted, has been left, or the
\* whole document was reloaded.  The request interceptor adds the token.
Request(k, d) ==
  [n |-> sends + 1, kind |-> k, for |-> d, token |-> stored, reply |-> None, by |-> "page"]

\* The requests under way when the route becomes p.
Left(requests, p) ==
  {[r EXCEPT !.by = IF p # path /\ @ = "page" THEN "left" ELSE @] : r \in requests}

\* And when the document is reloaded: an edit may still take effect.
Reloaded(requests) ==
  {[r EXCEPT !.by = "gone"] : r \in {r \in requests : r.kind \in Edits /\ r.reply = None}}

\* The routes in use here are these and "home", "login" and "problem".
Protected == {"profile", "edit"}
AdminOnly == {"edit"}

\* ProtectedRoute: where u gets who asks for p.
Route(p, u) ==
  IF p \in Protected /\ u = None THEN "login"
  ELSE IF p \in AdminOnly /\ u \notin Admins THEN "home" ELSE p

\* The document has just been opened, or AuthContext has had its answer.
Init ==
  /\ stored \in {Token(a, 0) : a \in Accounts} \cup {None}
  /\ loading \in IF stored = None THEN {FALSE} ELSE BOOLEAN
  /\ user = IF stored = None \/ loading THEN None ELSE stored.owner
  /\ path \in {"home", "login"}
  /\ sends = IF loading THEN 1 ELSE 0
  /\ flight = IF loading THEN {[Request("me", None) EXCEPT !.n = 1]} ELSE {}
  /\ expired = {}

\* The route becomes p, and its component sends a request.
SendFrom(p, k, d) ==
  /\ sends < MaxSends
  /\ sends' = sends + 1
  /\ path' = p
  /\ flight' = Left(flight, p) \cup {Request(k, d)}
  /\ UNCHANGED <<stored, user, loading, expired>>

Send(k, d) == SendFrom(path, k, d)

\* The answer to r has come, or the connection is lost; then the route is p.
Settle(r, p) ==
  /\ r.by # "gone"
  /\ path' = p
  /\ flight' = Left(flight \ {r}, p)
  /\ UNCHANGED <<sends, expired>>

\* requireAuth lets r pass.  When it does not, or its look-up of the user
\* fails, it answers 401.
Accepted(r) == r.token # None /\ r.token \notin expired

\* The response interceptor on a 401, away from /login: every page is lost.
Expelled(r) ==
  /\ r.by # "gone"
  /\ r.token # None
  /\ path # "login"
  /\ stored' = None
  /\ user' = None
  /\ loading' = FALSE
  /\ path' = "login"
  /\ flight' = Reloaded(flight \ {r})
  /\ UNCHANGED <<sends, expired>>

\* The response interceptor otherwise: it drops the token, whichever is stored.
Unauthorized(r) ==
  /\ r.token = None \/ path = "login"
  /\ Settle(r, path)
  /\ stored' = IF r.token = None THEN stored ELSE None
  /\ UNCHANGED <<user, loading>>

\* Any other error.
Failed(r) == Settle(r, path) /\ UNCHANGED <<stored, user, loading>>

\* The start-up effect of AuthContext: then, catch, finally.
MeAnswered(r) ==
  /\ r.kind = "me"
  /\ \/ /\ Accepted(r)
        /\ user' = r.token.owner
        /\ Settle(r, Route(path, user'))
        /\ loading' = FALSE
        /\ UNCHANGED stored
     \/ Expelled(r)
     \/ /\ Settle(r, path)
        /\ stored' = None
        /\ loading' = FALSE
        /\ UNCHANGED user

\* Login.jsx: the button is disabled while its request is under way.
Login(a) ==
  /\ path = "login"
  /\ \A r \in flight : r.kind = "login" => r.by # "page"
  /\ Send("login", a)

\* The token stored, the account left as it was.
LoginAnsweredTokenOnly(r) ==
  /\ r.kind = "login"
  /\ Settle(r, "home")
  /\ stored' = Token(r.for, r.n)
  /\ user' = IF user = None THEN r.for ELSE user
  /\ UNCHANGED loading

\* login, then navigate("/"); or the wrong password, or another error.
LoginAnswered(r) ==
  /\ r.kind = "login"
  /\ \/ /\ Settle(r, "home")
        /\ stored' = Token(r.for, r.n)
        /\ user' = r.for
        /\ UNCHANGED loading
     \/ Expelled(r)
     \/ Unauthorized(r)
     \/ Failed(r)

\* Navbar
Logout ==
  /\ user # None
  /\ stored' = None
  /\ user' = None
  /\ path' = "login"
  /\ flight' = Left(flight, "login")
  /\ UNCHANGED <<loading, sends, expired>>

\* Profile.jsx: its button is disabled while it is saving.
SaveProfile ==
  /\ path = "profile"
  /\ \A r \in flight : r.kind = "profile" => r.by # "page"
  /\ Send("profile", None)

\* updateUser with the account of the token, over whatever is shown by now.
ProfileAnswered(r) ==
  /\ r.kind = "profile"
  /\ \/ /\ Accepted(r)
        /\ user' = r.token.owner
        /\ Settle(r, Route(path, user'))
        /\ UNCHANGED <<stored, loading>>
     \/ Expelled(r)
     \/ Unauthorized(r)
     \/ Failed(r)

\* The document is opened again, by its address.
Refresh(p) ==
  /\ stored # None => sends < MaxSends
  /\ user' = None
  /\ loading' = (stored # None)
  /\ path' = p
  /\ sends' = IF stored # None THEN sends + 1 ELSE sends
  /\ flight' = Reloaded(flight) \cup
       (IF stored # None THEN {Request("me", None)} ELSE {})
  /\ UNCHANGED <<stored, expired>>

\* The stored token reaches its age, or the secret is replaced.
Expire ==
  /\ stored # None
  /\ stored \notin expired
  /\ expired' = expired \cup {stored}
  /\ UNCHANGED <<stored, user, loading, path, flight, sends>>

SessionNext ==
  \/ \E r \in flight : MeAnswered(r) \/ LoginAnswered(r) \/ ProfileAnswered(r)
  \/ \E a \in Accounts : Login(a)
  \/ Logout
  \/ SaveProfile
  \/ \E p \in {"home", "login"} : Refresh(p)
  \/ Expire

-----------------------------------------------------------------------------
(* Properties                                                              *)

\* The page shows an account, and sends the token of another.
Impersonates == user # None /\ stored # None /\ stored.owner # user

(***************************************************************************)
(* What the page shows as its user is the account it acts as.  The one     *)
(* step that can part the two is the answer, to a start-up request or a    *)
(* change of profile, that was sent under an earlier token: no login,      *)
(* logout, reload or 401, in whatever order they meet, does.               *)
(***************************************************************************)
ActsAsShown ==
  [][Impersonates' => Impersonates \/
       \E r \in flight : /\ \A x \in flight' : x.n # r.n
                        /\ r.kind \in {"me", "profile"} /\ r.token # stored]_sessionVars

(***************************************************************************)
(* "a 401 from /auth/login on a wrong password is a normal validation      *)
(* error, not a session expiry, and must not trigger this" (client.js):    *)
(* a login that fails, on its page, leaves the stored token alone.         *)
(***************************************************************************)
LoginErrorsKeepSession ==
  [][\A r \in flight \ flight' :
       r.kind = "login" /\ path = "login" /\ path' = "login" => stored' = stored]_sessionVars
=============================================================================
