------------------------------ MODULE Accounts ------------------------------
(***************************************************************************)
(* controllers/authController.js over the users collection: signup,        *)
(* forgotPassword, resetPassword and updateProfile, cut at their awaits.   *)
(* Mongoose saves the paths a handler has assigned and no others, and the  *)
(* unique index on email rejects a second document; a rejected call has    *)
(* written nothing.  Passwords and reset tokens are named by the request   *)
(* that brought them: a signup or a reset its password, a request for a    *)
(* link its token.                                                         *)
(***************************************************************************)
EXTENDS Naturals, Sequences, Functions

CONSTANTS
  Emails,
  Signups, Forgots, Resets, Profiles,  \* requests to each of the handlers
  Earlier,  \* the password of an account that is older than the requests
  None

Requests == Signups \cup Forgots \cup Resets \cup Profiles
Passwords == Signups \cup Resets \cup {Earlier}
Names == Signups \cup Profiles \cup {Earlier}

ASSUME AccountsAssumption ==
  /\ Signups \cap (Forgots \cup Resets \cup Profiles) = {}
  /\ Forgots \cap (Resets \cup Profiles) = {}
  /\ Resets \cap Profiles = {}
  /\ None \notin Requests \cup Emails \cup {Earlier}
  /\ Earlier \notin Requests

VARIABLES
  users,   \* the document of each address, None when there is none
  at,      \* where each request stands in its handler
  email,   \* the address it signs up, or that of the document it found
  doc,     \* that document as it was read, while the handler runs
  token,   \* the link a reset request presents
  code,    \* the status of its response
  mailed   \* links that have been sent, in order

vars == <<users, at, email, doc, token, code, mailed>>

\* valid: resetTokenExpiry is in the future.
User(p, n, t, v) == [passwordHash |-> p, fullName |-> n, resetToken |-> t, valid |-> v]
Users ==
  [passwordHash : Passwords, fullName : Names, resetToken : Forgots \cup {None}, valid : BOOLEAN]

ASSUME NoneAssumption == None \notin Nat \cup Users

Places == {"start", "hashing", "saving", "done"}

Init ==
  /\ users \in [Emails -> {None, User(Earlier, Earlier, None, FALSE)}]
  /\ at = [q \in Requests |-> "start"]
  /\ email = [q \in Requests |-> None]
  /\ doc = [q \in Requests |-> None]
  /\ token = [q \in Resets |-> None]
  /\ code = [q \in Requests |-> None]
  /\ mailed = << >>

Answer(q, c) ==
  /\ at' = [at EXCEPT ![q] = "done"]
  /\ code' = [code EXCEPT ![q] = c]
  /\ doc' = [doc EXCEPT ![q] = None]

\* The handler goes on to p with address e and document d.
Goto(q, p, e, d) ==
  /\ at' = [at EXCEPT ![q] = p]
  /\ email' = [email EXCEPT ![q] = e]
  /\ doc' = [doc EXCEPT ![q] = d]
  /\ UNCHANGED code

\* Missing or malformed fields.  updateProfile looks at them behind requireAuth.
RejectInput(q) ==
  /\ at[q] = IF q \in Profiles THEN "saving" ELSE "start"
  /\ Answer(q, 400)
  /\ UNCHANGED <<users, email, token, mailed>>

\* A call to MongoDB is rejected.  requireAuth answers for itself.
DbFails(q) ==
  /\ at[q] # "done"
  /\ Answer(q, IF q \in Profiles /\ at[q] = "start" THEN 401 ELSE 500)
  /\ UNCHANGED <<users, email, token, mailed>>

-----------------------------------------------------------------------------
(* signup                                                                  *)

\* findOne({ email: email.toLowerCase() }): the schema also trims, the query
\* does not, so an address typed with blanks around it is not found.
FindExisting(q) ==
  /\ at[q] = "start"
  /\ \E e \in Emails :
       \/ users[e] # None /\ Answer(q, 409) /\ UNCHANGED email
       \/ Goto(q, "hashing", e, None)
  /\ UNCHANGED <<users, token, mailed>>

\* No unique index: the second document takes the place of the first.
CreateUserUnchecked(q) ==
  /\ at[q] = "hashing"
  /\ users' = [users EXCEPT ![email[q]] = User(q, q, None, FALSE)]
  /\ Answer(q, 201)
  /\ UNCHANGED <<email, token, mailed>>

\* The address may be taken: while the password was hashed, or it was not
\* found for its blanks.
CreateUser(q) ==
  /\ at[q] = "hashing"
  /\ \/ /\ users[email[q]] = None
        /\ users' = [users EXCEPT ![email[q]] = User(q, q, None, FALSE)]
        /\ Answer(q, 201)
     \/ users[email[q]] # None /\ Answer(q, 500) /\ UNCHANGED users
  /\ UNCHANGED <<email, token, mailed>>

-----------------------------------------------------------------------------
(* forgotPassword                                                          *)

\* An address that has no account, or was typed with blanks, is answered alike.
FindByEmail(q) ==
  /\ at[q] = "start"
  /\ \/ \E e \in Emails : users[e] # None /\ Goto(q, "saving", e, users[e])
     \/ Answer(q, 200) /\ UNCHANGED email
  /\ UNCHANGED <<users, token, mailed>>

\* The document saved as it was read, with the token in it.
SaveTokenWhole(q) ==
  /\ at[q] = "saving"
  /\ users' = [users EXCEPT ![email[q]] = User(doc[q].passwordHash, doc[q].fullName, q, TRUE)]
  /\ mailed' = Append(mailed, q)
  /\ Answer(q, 200)
  /\ UNCHANGED <<email, token>>

\* The new token replaces any other; then the link goes out.
SaveToken(q) ==
  /\ at[q] = "saving"
  /\ users' = [users EXCEPT ![email[q]] = User(@.passwordHash, @.fullName, q, TRUE)]
  /\ mailed' = Append(mailed, q)
  /\ Answer(q, 200)
  /\ UNCHANGED <<email, token>>

-----------------------------------------------------------------------------
(* resetPassword                                                           *)

Opens(t, e) == users[e] # None /\ users[e].resetToken = t /\ users[e].valid

\* A link that was mailed, or a token nobody has.
FindByToken(q) ==
  /\ at[q] = "start"
  /\ \E t \in Range(mailed) \cup {None} :
       /\ token' = [token EXCEPT ![q] = t]
       /\ \/ \E e \in Emails : t # None /\ Opens(t, e) /\ Goto(q, "hashing", e, users[e])
          \/ /\ t = None \/ \A e \in Emails : ~Opens(t, e)
             /\ Answer(q, 400)
             /\ UNCHANGED email
  /\ UNCHANGED <<users, mailed>>

\* The token left in the document.
SavePasswordOnly(q) ==
  /\ at[q] = "hashing"
  /\ users' = [users EXCEPT ![email[q]] = User(q, @.fullName, @.resetToken, @.valid)]
  /\ Answer(q, 200)
  /\ UNCHANGED <<email, token, mailed>>

\* The hash saved before it is computed.
SavePasswordUnawaited(q) ==
  /\ at[q] = "hashing"
  /\ users' = [users EXCEPT ![email[q]] = User(None, @.fullName, None, FALSE)]
  /\ Answer(q, 200)
  /\ UNCHANGED <<email, token, mailed>>

\* The password is set and the token removed, whichever is there by now.
SavePassword(q) ==
  /\ at[q] = "hashing"
  /\ users' = [users EXCEPT ![email[q]] = User(q, @.fullName, None, FALSE)]
  /\ Answer(q, 200)
  /\ UNCHANGED <<email, token, mailed>>

-----------------------------------------------------------------------------
(* updateProfile, behind requireAuth                                       *)

Authenticate(q) ==
  /\ at[q] = "start"
  /\ \E e \in Emails : users[e] # None /\ Goto(q, "saving", e, users[e])
  /\ UNCHANGED <<users, token, mailed>>

SaveProfile(q) ==
  /\ at[q] = "saving"
  /\ users' = [users EXCEPT ![email[q]] = User(@.passwordHash, q, @.resetToken, @.valid)]
  /\ Answer(q, 200)
  /\ UNCHANGED <<email, token, mailed>>

\* An hour after the link was sent.
Expire(e) ==
  /\ users[e] # None
  /\ users[e].valid
  /\ users' = [users EXCEPT ![e] = User(@.passwordHash, @.fullName, @.resetToken, FALSE)]
  /\ UNCHANGED <<at, email, doc, token, code, mailed>>

Next ==
  \/ \E e \in Emails : Expire(e)
  \/ \E q \in Requests : RejectInput(q) \/ DbFails(q)
  \/ \E q \in Signups : FindExisting(q) \/ CreateUser(q)
  \/ \E q \in Forgots : FindByEmail(q) \/ SaveToken(q)
  \/ \E q \in Resets : FindByToken(q) \/ SavePassword(q)
  \/ \E q \in Profiles : Authenticate(q) \/ SaveProfile(q)

Spec == Init /\ [][Next]_vars

-----------------------------------------------------------------------------
(* Properties                                                              *)

TypeOK ==
  /\ users \in [Emails -> Users \cup {None}]
  /\ at \in [Requests -> Places]
  /\ email \in [Requests -> Emails \cup {None}]
  /\ doc \in [Requests -> Users \cup {None}]
  /\ token \in [Resets -> Forgots \cup {None}]
  /\ code \in [Requests -> {None, 200, 201, 400, 401, 409, 500}]
  /\ mailed \in Seq(Forgots)

(***************************************************************************)
(* Of all the sign-ups for an address at most one is told 201, and the     *)
(* account that exists is the one it made: its password, or one set by a   *)
(* reset since.                                                            *)
(***************************************************************************)
OneSignupWins ==
  \A q \in Signups : code[q] = 201 =>
    /\ users[email[q]] # None
    /\ users[email[q]].passwordHash \in {q} \cup Resets
    /\ \A p \in Signups : code[p] = 201 /\ email[p] = email[q] => p = q

(***************************************************************************)
(* A password is replaced only by a reset that presented a link mailed for *)
(* that very account, in the step in which it is answered: no other        *)
(* handler, writing a document it read before, brings an old one back.     *)
(***************************************************************************)
PasswordsSetByReset ==
  [][\A e \in Emails :
       users[e] # None /\ users'[e].passwordHash # users[e].passwordHash =>
         \E q \in Resets :
           /\ code[q] = None /\ code'[q] = 200
           /\ users'[e].passwordHash = q
           /\ token[q] # None /\ email[token[q]] = e]_vars

LastLink(e) ==
  LET own == {i \in DOMAIN mailed : email[mailed[i]] = e} IN
  mailed[CHOOSE i \in own : \A j \in own : j <= i]

(***************************************************************************)
(* The look-up of a reset succeeds only for the last link mailed for the   *)
(* account, and not once a reset with that link has been answered 200:     *)
(* links of before, and used links, are dead for whoever begins now.       *)
(***************************************************************************)
OnlyLastLinkOpens ==
  [][\A q \in Resets :
       at[q] = "start" /\ at'[q] = "hashing" =>
         /\ token'[q] = LastLink(email'[q])
         /\ \A p \in Resets : token[p] = token'[q] => code[p] # 200]_vars

(***************************************************************************)
(* "password reset (... token validity/expiry, single-use tokens)"          *)
(* (README): no two resets with one link are answered 200.                 *)
(***************************************************************************)
SingleUse ==
  \A p, q \in Resets :
    code[p] = 200 /\ code[q] = 200 /\ token[p] = token[q] => p = q
=============================================================================
