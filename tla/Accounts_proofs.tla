-------------------------- MODULE Accounts_proofs ---------------------------
(***************************************************************************)
(* Proofs about accounts and password resets for any number of addresses   *)
(* and requests.                                                           *)
(***************************************************************************)
EXTENDS Accounts, TLAPS

\* A handler that has not answered; one that writes has a document to write.
HandlerInv ==
  \A q \in Requests :
    /\ at[q] # "done" => code[q] = None
    /\ at[q] \in {"hashing", "saving"} =>
         /\ email[q] \in Emails
         /\ q \notin Signups => users[email[q]] # None

SignupInv ==
  \A q \in Signups : code[q] = 201 =>
    /\ email[q] \in Emails
    /\ users[email[q]] # None
    /\ users[email[q]].passwordHash \in {q} \cup Resets

\* The link of a reset was mailed, and is of the account the reset writes.
ResetInv ==
  \A q \in Resets :
    /\ token[q] # None => at[token[q]] = "done"
    /\ at[q] = "hashing" => token[q] # None /\ email[token[q]] = email[q]

\* Link t is the last that was mailed for e.
Latest(t, e) ==
  \E i \in DOMAIN mailed :
    /\ mailed[i] = t
    /\ \A j \in DOMAIN mailed : email[mailed[j]] = e => j <= i

\* The token in a document is its own, the last one mailed and not yet used.
LinkInv ==
  \A e \in Emails : users[e] # None /\ users[e].resetToken # None =>
    /\ at[users[e].resetToken] = "done"
    /\ email[users[e].resetToken] = e
    /\ Latest(users[e].resetToken, e)
    /\ \A p \in Resets : code[p] = 200 => token[p] # users[e].resetToken

MailedInv == \A i \in DOMAIN mailed : at[mailed[i]] = "done"

IInv == TypeOK /\ HandlerInv /\ SignupInv /\ OneSignupWins /\ ResetInv /\ LinkInv /\ MailedInv

-----------------------------------------------------------------------------
(* Each step preserves the invariant.                                      *)

\* What a document is made of.
LEMMA UserFacts ==
  /\ \A p \in Passwords, n \in Names, t \in Forgots \cup {None}, v \in BOOLEAN :
       /\ User(p, n, t, v) \in Users
       /\ User(p, n, t, v).passwordHash = p
       /\ User(p, n, t, v).resetToken = t
  /\ \A d \in Users :
       /\ d # None
       /\ d.passwordHash \in Passwords
       /\ d.fullName \in Names
       /\ d.resetToken \in Forgots \cup {None}
       /\ d.valid \in BOOLEAN
BY NoneAssumption DEF User, Users

\* The invariant holds at first, when no request has begun.
LEMMA InitIInv == Init => IInv
<1> SUFFICES ASSUME Init PROVE IInv
  OBVIOUS
<1> DEFINE u == User(Earlier, Earlier, None, FALSE)
<1>1. u \in Users /\ u.resetToken = None /\ users \in [Emails -> {None, u}]
  BY DEF Init, User, Users, Passwords, Names
<1> HIDE DEF u
<1>2. \A q \in Requests : at[q] = "start" /\ email[q] = None /\ doc[q] = None /\ code[q] = None
  BY DEF Init
<1>3. users \in [Emails -> Users \cup {None}]
  BY <1>1
<1>4. TypeOK
  BY <1>3 DEF Init, TypeOK, Places
<1>5. HandlerInv
  BY <1>2 DEF HandlerInv
<1>6. SignupInv /\ OneSignupWins
  BY <1>2, NoneAssumption DEF SignupInv, OneSignupWins, Requests
<1>7. ResetInv /\ MailedInv
  BY <1>2 DEF ResetInv, MailedInv, Init, Requests
<1>8. LinkInv
  BY <1>1 DEF LinkInv
<1> QED BY <1>4, <1>5, <1>6, <1>7, <1>8 DEF IInv

\* An answer, and the way on from a look-up, change a handler's own entries.
LEMMA AnswerFacts ==
  ASSUME TypeOK, NEW q \in Requests, NEW c \in {200, 201, 400, 401, 409, 500}, Answer(q, c)
  PROVE  /\ at' \in [Requests -> Places]
         /\ doc' \in [Requests -> Users \cup {None}]
         /\ code' \in [Requests -> {None, 200, 201, 400, 401, 409, 500}]
         /\ at'[q] = "done" /\ code'[q] = c
         /\ \A p \in Requests : p # q => at'[p] = at[p] /\ code'[p] = code[p]
BY DEF Answer, TypeOK, Places

LEMMA GotoFacts ==
  ASSUME TypeOK, NEW q \in Requests, NEW p \in Places,
         NEW e \in Emails, NEW d \in Users \cup {None}, Goto(q, p, e, d)
  PROVE  /\ at' \in [Requests -> Places]
         /\ email' \in [Requests -> Emails \cup {None}]
         /\ doc' \in [Requests -> Users \cup {None}]
         /\ code' = code
         /\ at'[q] = p /\ email'[q] = e
         /\ \A r \in Requests : r # q => at'[r] = at[r] /\ email'[r] = email[r]
BY DEF Goto, TypeOK

\* A handler that writes to an account writes to one that exists, and leaves
\* its password or sets that of a reset.
LEMMA Overwritten ==
  ASSUME IInv, NEW e \in Emails, users[e] # None, NEW d \in Users,
         users' = [users EXCEPT ![e] = d],
         d.passwordHash \in {users[e].passwordHash} \cup Resets,
         email' = email,
         \A q \in Requests :
           /\ code'[q] = 201 => code[q] = 201
           /\ at'[q] \in {"hashing", "saving"} => at'[q] = at[q]
           /\ at'[q] # "done" => code'[q] = None
  PROVE  HandlerInv' /\ SignupInv' /\ OneSignupWins'
<1>1. /\ users'[e] = d /\ d # None
      /\ \A f \in Emails : f # e => users'[f] = users[f]
  BY UserFacts DEF IInv, TypeOK
<1>2. HandlerInv'
  BY <1>1 DEF IInv, HandlerInv
<1>3. SignupInv'
  BY <1>1 DEF IInv, SignupInv, Requests
<1>4. OneSignupWins'
  BY <1>3 DEF IInv, OneSignupWins, SignupInv, Requests
<1> QED BY <1>2, <1>3, <1>4

\* A request that writes nothing and is answered; a reset gets no 200 this way,
\* and has presented a link that was mailed, or none.
LEMMA AnsweredIInv ==
  ASSUME IInv, NEW q \in Requests, at[q] # "done",
         NEW c \in {200, 400, 401, 409, 500}, q \in Resets => c # 200,
         Answer(q, c), UNCHANGED <<users, email, mailed>>,
         token' \in [Resets -> Forgots \cup {None}],
         \A p \in Resets : p # q => token'[p] = token[p],
         q \in Resets /\ token'[q] # None => at[token'[q]] = "done"
  PROVE  IInv'
<1> USE AccountsAssumption, NoneAssumption DEF Requests, IInv
<1>1. /\ at'[q] = "done" /\ code'[q] = c
      /\ \A p \in Requests : p # q => at'[p] = at[p] /\ code'[p] = code[p]
  BY AnswerFacts
<1>2. TypeOK'
  BY AnswerFacts DEF TypeOK
<1>3. HandlerInv'
  BY <1>1 DEF HandlerInv
<1>4. SignupInv' /\ OneSignupWins'
  BY <1>1 DEF SignupInv, OneSignupWins
<1>5. ResetInv'
  BY <1>1 DEF ResetInv, TypeOK
<1>6. MailedInv'
  BY <1>1 DEF MailedInv, TypeOK
<1>7. LinkInv'
  <2>1. \A p \in Resets : code'[p] = 200 => code[p] = 200 /\ token'[p] = token[p]
    BY <1>1
  <2>2. \A e \in Emails : users[e] # None => users[e].resetToken \in Forgots \cup {None}
    BY UserFacts DEF TypeOK
  <2>3. \A t \in Forgots : at[t] = "done" => at'[t] = "done"
    BY <1>1
  <2> QED BY <2>1, <2>2, <2>3 DEF LinkInv, Latest
<1> QED BY <1>2, <1>3, <1>4, <1>5, <1>6, <1>7

\* A request that goes on from its look-up; a reset has found the account of
\* the link it presents.
LEMMA GoneOnIInv ==
  ASSUME IInv, NEW q \in Requests, at[q] = "start",
         NEW p \in {"hashing", "saving"}, NEW e \in Emails, NEW d \in Users \cup {None},
         Goto(q, p, e, d), UNCHANGED <<users, mailed>>,
         q \notin Signups => users[e] # None,
         token' \in [Resets -> Forgots \cup {None}],
         \A r \in Resets : r # q => token'[r] = token[r],
         q \in Resets => token'[q] # None /\ at[token'[q]] = "done" /\ email[token'[q]] = e
  PROVE  IInv'
<1> USE AccountsAssumption, NoneAssumption DEF Requests, IInv
<1>1. /\ code' = code /\ at'[q] = p /\ email'[q] = e
      /\ \A r \in Requests : r # q => at'[r] = at[r] /\ email'[r] = email[r]
  BY GotoFacts DEF Places
<1>2. TypeOK'
  BY GotoFacts DEF TypeOK, Places
<1>3. code[q] = None
  BY DEF HandlerInv
<1>4. HandlerInv'
  BY <1>1, <1>3 DEF HandlerInv
<1>5. SignupInv' /\ OneSignupWins'
  BY <1>1, <1>3 DEF SignupInv, OneSignupWins
<1>6. \A t \in Forgots : at[t] = "done" => at'[t] = "done" /\ email'[t] = email[t]
  BY <1>1
<1>7. ResetInv'
  BY <1>1, <1>6 DEF ResetInv, TypeOK
<1>8. MailedInv'
  BY <1>6 DEF MailedInv, TypeOK
<1>9. LinkInv'
  <2>1. \A r \in Resets : code'[r] = 200 => code[r] = 200 /\ token'[r] = token[r]
    BY <1>1, <1>3
  <2>2. \A f \in Emails : users[f] # None => users[f].resetToken \in Forgots \cup {None}
    BY UserFacts DEF TypeOK
  <2>3. \A i \in DOMAIN mailed : mailed[i] \in Forgots /\ email'[mailed[i]] = email[mailed[i]]
    BY <1>6 DEF MailedInv, TypeOK
  <2> QED BY <1>6, <2>1, <2>2, <2>3 DEF LinkInv, Latest
<1> QED BY <1>2, <1>4, <1>5, <1>7, <1>8, <1>9

\* Nothing is read or written.
LEMMA RejectInputIInv ==
  ASSUME IInv, NEW q \in Requests, RejectInput(q)
  PROVE  IInv'
<1>1. at[q] # "done" /\ Answer(q, 400) /\ UNCHANGED <<users, email, token, mailed>>
  BY DEF RejectInput
<1>2. token \in [Resets -> Forgots \cup {None}] /\ \A p \in Resets : token[p] # None => at[token[p]] = "done"
  BY DEF IInv, TypeOK, ResetInv
<1> QED BY <1>1, <1>2, AnsweredIInv

\* A rejected call has written nothing.
LEMMA DbFailsIInv ==
  ASSUME IInv, NEW q \in Requests, DbFails(q)
  PROVE  IInv'
<1>1. PICK c \in {401, 500} : Answer(q, c)
  BY DEF DbFails
<1>2. at[q] # "done" /\ UNCHANGED <<users, email, token, mailed>>
  BY DEF DbFails
<1>3. token \in [Resets -> Forgots \cup {None}] /\ \A p \in Resets : token[p] # None => at[token[p]] = "done"
  BY DEF IInv, TypeOK, ResetInv
<1> QED BY <1>1, <1>2, <1>3, AnsweredIInv

\* The address is remembered, no document is touched.
LEMMA FindExistingIInv ==
  ASSUME IInv, NEW q \in Signups, FindExisting(q)
  PROVE  IInv'
<1>1. q \in Requests /\ q \notin Resets /\ at[q] = "start" /\ UNCHANGED <<users, token, mailed>>
  BY AccountsAssumption DEF FindExisting, Requests
<1>2. token \in [Resets -> Forgots \cup {None}]
  BY DEF IInv, TypeOK
<1>3. PICK e \in Emails : (Answer(q, 409) /\ UNCHANGED email) \/ Goto(q, "hashing", e, None)
  BY DEF FindExisting
<1>4. CASE Answer(q, 409) /\ UNCHANGED email
  BY <1>1, <1>2, <1>4, AnsweredIInv
<1>5. CASE Goto(q, "hashing", e, None)
  BY <1>1, <1>2, <1>5, GoneOnIInv
<1> QED BY <1>3, <1>4, <1>5

\* The account that is created had none before: no earlier sign-up won it.
LEMMA CreateUserIInv ==
  ASSUME IInv, NEW q \in Signups, CreateUser(q)
  PROVE  IInv'
<1> DEFINE e == email[q]
           d == User(q, q, None, FALSE)
<1>1. /\ q \in Requests /\ q \notin Resets /\ q \notin Forgots
      /\ at[q] = "hashing" /\ e \in Emails /\ UNCHANGED <<email, token, mailed>>
  BY AccountsAssumption DEF CreateUser, IInv, HandlerInv, Requests
<1>2. CASE UNCHANGED users /\ Answer(q, 500)
  BY <1>1, <1>2, AnsweredIInv DEF IInv, TypeOK
<1>3. CASE users[e] = None /\ users' = [users EXCEPT ![e] = d] /\ Answer(q, 201)
  <2> USE AccountsAssumption, NoneAssumption DEF Requests, IInv
  <2>1. d \in Users /\ d # None /\ d.passwordHash = q /\ d.resetToken = None
    <3>1. d \in Users /\ d.passwordHash = q /\ d.resetToken = None
      BY DEF User, Users, Passwords, Names
    <3> HIDE DEF d
    <3> QED BY <3>1
  <2> HIDE DEF d
  <2>2. /\ users' \in [Emails -> Users \cup {None}] /\ users'[e] = d
        /\ \A f \in Emails : f # e => users'[f] = users[f]
    BY <1>1, <1>3, <2>1 DEF TypeOK
  <2>3. /\ at'[q] = "done" /\ code'[q] = 201
        /\ \A p \in Requests : p # q => at'[p] = at[p] /\ code'[p] = code[p]
    BY <1>3, AnswerFacts
  <2>4. TypeOK'
    BY <1>1, <1>3, <2>2, AnswerFacts DEF TypeOK
  <2>5. HandlerInv'
    BY <1>1, <2>1, <2>2, <2>3 DEF HandlerInv
  <2>6. SignupInv'
    BY <1>1, <1>3, <2>1, <2>2, <2>3 DEF SignupInv
  <2>7. \A p \in Signups : code[p] = 201 => email[p] # e
    BY <1>3 DEF SignupInv
  <2>8. OneSignupWins'
    BY <1>1, <2>3, <2>6, <2>7 DEF OneSignupWins, SignupInv
  <2>9. ResetInv'
    BY <1>1, <2>3 DEF ResetInv, TypeOK
  <2>10. MailedInv'
    BY <1>1, <2>3 DEF MailedInv, TypeOK
  <2>11. LinkInv'
    <3> SUFFICES ASSUME NEW f \in Emails, users'[f] # None, users'[f].resetToken # None
                 PROVE  /\ at'[users'[f].resetToken] = "done"
                        /\ email'[users'[f].resetToken] = f
                        /\ Latest(users[f].resetToken, f)'
                        /\ \A p \in Resets : code'[p] = 200 => token'[p] # users'[f].resetToken
      BY DEF LinkInv
    <3>1. PICK t \in Forgots : /\ users[f] # None /\ users[f].resetToken = t
                               /\ users'[f].resetToken = t /\ t # None
      BY <2>1, <2>2, UserFacts DEF TypeOK
    <3>2. at[t] = "done" /\ email[t] = f /\ Latest(t, f) /\ \A p \in Resets : code[p] = 200 => token[p] # t
      BY <3>1 DEF LinkInv
    <3>3. Latest(t, f)'
      BY <3>2, <1>1 DEF Latest
    <3>4. at'[t] = "done" /\ \A p \in Resets : code'[p] = code[p]
      BY <3>2, <2>3, <1>1
    <3> QED BY <3>1, <3>2, <3>3, <3>4, <1>1
  <2> QED BY <2>4, <2>5, <2>6, <2>8, <2>9, <2>10, <2>11
<1> QED BY <1>2, <1>3 DEF CreateUser

\* The document found is there and stays there.
LEMMA FindByEmailIInv ==
  ASSUME IInv, NEW q \in Forgots, FindByEmail(q)
  PROVE  IInv'
<1>1. q \in Requests /\ q \notin Resets /\ at[q] = "start" /\ UNCHANGED <<users, token, mailed>>
  BY AccountsAssumption DEF FindByEmail, Requests
<1>2. token \in [Resets -> Forgots \cup {None}]
  BY DEF IInv, TypeOK
<1>3. CASE Answer(q, 200) /\ UNCHANGED email
  BY <1>1, <1>2, <1>3, AnsweredIInv
<1>4. ASSUME NEW e \in Emails, users[e] # None, Goto(q, "saving", e, users[e])
      PROVE  IInv'
  <2>1. users[e] \in Users \cup {None}
    BY DEF IInv, TypeOK
  <2> QED BY <1>1, <1>2, <1>4, <2>1, GoneOnIInv
<1> QED BY <1>3, <1>4 DEF FindByEmail

\* A token that opens an account was mailed for that account.
LEMMA FindByTokenIInv ==
  ASSUME IInv, NEW q \in Resets, FindByToken(q)
  PROVE  IInv'
<1>1. q \in Requests /\ at[q] = "start" /\ UNCHANGED <<users, mailed>>
  BY DEF FindByToken, Requests
<1>2. PICK t \in Range(mailed) \cup {None} :
        /\ token' = [token EXCEPT ![q] = t]
        /\ \/ \E e \in Emails : t # None /\ Opens(t, e) /\ Goto(q, "hashing", e, users[e])
           \/ Answer(q, 400) /\ UNCHANGED email
  BY DEF FindByToken
<1>3. t # None => t \in Forgots /\ at[t] = "done"
  BY <1>2 DEF IInv, TypeOK, MailedInv, Range
<1>4. /\ token' \in [Resets -> Forgots \cup {None}] /\ token'[q] = t
      /\ \A p \in Resets : p # q => token'[p] = token[p]
  BY <1>2, <1>3 DEF IInv, TypeOK
<1>5. CASE Answer(q, 400) /\ UNCHANGED email
  BY <1>1, <1>3, <1>4, <1>5, AnsweredIInv
<1>6. ASSUME NEW e \in Emails, t # None, Opens(t, e), Goto(q, "hashing", e, users[e])
      PROVE  IInv'
  <2>1. users[e] \in Users \cup {None} /\ users[e] # None /\ email[t] = e
    BY <1>6 DEF Opens, IInv, TypeOK, LinkInv
  <2> QED BY <1>1, <1>3, <1>4, <1>6, <2>1, GoneOnIInv
<1> QED BY <1>2, <1>5, <1>6

\* The user of the request is there and stays there.
LEMMA AuthenticateIInv ==
  ASSUME IInv, NEW q \in Profiles, Authenticate(q)
  PROVE  IInv'
<1>1. q \in Requests /\ q \notin Resets /\ at[q] = "start" /\ UNCHANGED <<users, token, mailed>>
  BY AccountsAssumption DEF Authenticate, Requests
<1>2. PICK e \in Emails : users[e] # None /\ Goto(q, "saving", e, users[e])
  BY DEF Authenticate
<1>3. token \in [Resets -> Forgots \cup {None}] /\ users[e] \in Users \cup {None}
  BY DEF IInv, TypeOK
<1> QED BY <1>1, <1>2, <1>3, GoneOnIInv

\* A link: nobody has used it, and it is now the last of its account.
LEMMA SaveTokenIInv ==
  ASSUME IInv, NEW q \in Forgots, SaveToken(q)
  PROVE  IInv'
<1> DEFINE e == email[q]
           d == User(users[e].passwordHash, users[e].fullName, q, TRUE)
<1> USE AccountsAssumption, NoneAssumption DEF Requests, IInv
<1>1. e \in Emails /\ users[e] # None /\ users[e] \in Users
  BY DEF SaveToken, HandlerInv, TypeOK
<1>2. d \in Users /\ d.passwordHash = users[e].passwordHash /\ d.resetToken = q
  BY <1>1 DEF User, Users
<1>3. users' = [users EXCEPT ![e] = d]
  BY DEF SaveToken
<1> HIDE DEF d
<1>4. /\ users'[e] = d
      /\ \A f \in Emails : f # e => users'[f] = users[f]
  BY <1>1, <1>3 DEF TypeOK
<1>5. /\ at[q] = "saving" /\ at'[q] = "done" /\ \A p \in Requests : p # q => at'[p] = at[p]
      /\ code'[q] = 200 /\ \A p \in Requests : p # q => code'[p] = code[p]
      /\ UNCHANGED <<email, token>>
  BY DEF SaveToken, Answer, TypeOK
<1>6. /\ mailed' \in Seq(Forgots)
      /\ mailed'[Len(mailed) + 1] = q
      /\ DOMAIN mailed = 1 .. Len(mailed) /\ Len(mailed) \in Nat
      /\ DOMAIN mailed' = 1 .. Len(mailed) + 1
      /\ \A i \in DOMAIN mailed : mailed'[i] = mailed[i] /\ mailed[i] \in Forgots
  BY DEF SaveToken, TypeOK
<1>7. TypeOK'
  <2>1. users' \in [Emails -> Users \cup {None}]
    BY <1>1, <1>2, <1>3 DEF TypeOK
  <2>2. Answer(q, 200)
    BY DEF SaveToken
  <2> QED BY <2>1, <2>2, <1>5, <1>6, AnswerFacts DEF TypeOK
<1>8. HandlerInv' /\ SignupInv' /\ OneSignupWins'
  <2>1. \A p \in Requests :
          /\ code'[p] = 201 => code[p] = 201
          /\ at'[p] \in {"hashing", "saving"} => at'[p] = at[p]
          /\ at'[p] # "done" => code'[p] = None
    BY <1>5 DEF HandlerInv
  <2>2. email' = email /\ d.passwordHash \in {users[e].passwordHash} \cup Resets
    BY <1>2, <1>5
  <2> HIDE DEF e, IInv
  <2> QED BY <1>1, <1>2, <1>3, <2>1, <2>2, Overwritten
<1>9. ResetInv'
  BY <1>5 DEF ResetInv, TypeOK
<1>10. MailedInv'
  BY <1>5, <1>6 DEF MailedInv
<1>11. LinkInv'
  <2> SUFFICES ASSUME NEW f \in Emails, users'[f] # None, users'[f].resetToken # None
               PROVE  /\ at'[users'[f].resetToken] = "done"
                      /\ email'[users'[f].resetToken] = f
                      /\ Latest(users[f].resetToken, f)'
                      /\ \A p \in Resets : code'[p] = 200 => token'[p] # users'[f].resetToken
    BY DEF LinkInv
  <2>1. CASE f = e
    <3>1. Latest(q, e)'
      BY <1>6 DEF Latest
    <3>2. \A p \in Resets : token[p] # q
      BY <1>5 DEF ResetInv
    <3> QED BY <2>1, <3>1, <3>2, <1>2, <1>4, <1>5
  <2>2. CASE f # e
    <3>1. PICK t \in Forgots : /\ users[f] # None /\ users[f].resetToken = t
                               /\ users'[f].resetToken = t /\ t # None
      BY <2>2, <1>4, UserFacts DEF TypeOK
    <3>2. at[t] = "done" /\ email[t] = f /\ Latest(t, f) /\ \A p \in Resets : code[p] = 200 => token[p] # t
      BY <3>1 DEF LinkInv
    <3>3. Latest(t, f)'
      BY <3>2, <1>5, <1>6, <2>2 DEF Latest
    <3>4. t # q /\ \A p \in Resets : p # q
      BY <3>2, <1>5
    <3> QED BY <3>1, <3>2, <3>3, <3>4, <1>5
  <2> QED BY <2>1, <2>2
<1> QED BY <1>7, <1>8, <1>9, <1>10, <1>11

\* The token of the account is gone, so that of its link is not left anywhere.
LEMMA SavePasswordIInv ==
  ASSUME IInv, NEW q \in Resets, SavePassword(q)
  PROVE  IInv'
<1> DEFINE e == email[q]
           d == User(q, users[e].fullName, None, FALSE)
<1> USE AccountsAssumption, NoneAssumption DEF Requests, IInv
<1>1. e \in Emails /\ users[e] # None /\ users[e] \in Users
  BY DEF SavePassword, HandlerInv, TypeOK
<1>2. d \in Users /\ d.passwordHash = q /\ d.resetToken = None
  BY <1>1 DEF User, Users, Passwords
<1>3. users' = [users EXCEPT ![e] = d]
  BY DEF SavePassword
<1> HIDE DEF d
<1>4. /\ users'[e] = d
      /\ \A f \in Emails : f # e => users'[f] = users[f]
  BY <1>1, <1>3 DEF TypeOK
<1>5. /\ at[q] = "hashing" /\ at'[q] = "done" /\ \A p \in Requests : p # q => at'[p] = at[p]
      /\ code'[q] = 200 /\ \A p \in Requests : p # q => code'[p] = code[p]
      /\ UNCHANGED <<email, token, mailed>>
  BY DEF SavePassword, Answer, TypeOK
<1>6. TypeOK'
  <2>1. users' \in [Emails -> Users \cup {None}]
    BY <1>1, <1>2, <1>3 DEF TypeOK
  <2>2. Answer(q, 200)
    BY DEF SavePassword
  <2> QED BY <2>1, <2>2, <1>5, AnswerFacts DEF TypeOK
<1>7. HandlerInv' /\ SignupInv' /\ OneSignupWins'
  <2>1. \A p \in Requests :
          /\ code'[p] = 201 => code[p] = 201
          /\ at'[p] \in {"hashing", "saving"} => at'[p] = at[p]
          /\ at'[p] # "done" => code'[p] = None
    BY <1>5 DEF HandlerInv
  <2>2. email' = email /\ d.passwordHash \in {users[e].passwordHash} \cup Resets
    BY <1>2, <1>5
  <2> HIDE DEF e, IInv
  <2> QED BY <1>1, <1>2, <1>3, <2>1, <2>2, Overwritten
<1>8. ResetInv'
  BY <1>5 DEF ResetInv, TypeOK
<1>9. MailedInv'
  BY <1>5 DEF MailedInv, TypeOK
<1>10. LinkInv'
  <2> SUFFICES ASSUME NEW f \in Emails, users'[f] # None, users'[f].resetToken # None
               PROVE  /\ at'[users'[f].resetToken] = "done"
                      /\ email'[users'[f].resetToken] = f
                      /\ Latest(users[f].resetToken, f)'
                      /\ \A p \in Resets : code'[p] = 200 => token'[p] # users'[f].resetToken
    BY DEF LinkInv
  <2>1. f # e
    BY <1>2, <1>4
  <2>2. PICK t \in Forgots : /\ users[f] # None /\ users[f].resetToken = t
                             /\ users'[f].resetToken = t /\ t # None
    BY <2>1, <1>4, UserFacts DEF TypeOK
  <2>3. at[t] = "done" /\ email[t] = f /\ Latest(t, f) /\ \A p \in Resets : code[p] = 200 => token[p] # t
    BY <2>2 DEF LinkInv
  <2>4. Latest(t, f)'
    BY <2>3, <1>5 DEF Latest
  <2>5. token[q] # t
    BY <2>1, <2>3, <1>5 DEF ResetInv
  <2>6. at'[t] = "done"
    BY <2>3, <1>5
  <2> QED BY <2>2, <2>3, <2>4, <2>5, <2>6, <1>5
<1> QED BY <1>6, <1>7, <1>8, <1>9, <1>10

\* Expiry makes a token invalid, and leaves it in place.
LEMMA ExpireIInv ==
  ASSUME IInv, NEW e \in Emails, Expire(e)
  PROVE  IInv'
<1> DEFINE d == User(users[e].passwordHash, users[e].fullName, users[e].resetToken, FALSE)
<1> USE AccountsAssumption, NoneAssumption DEF Requests, IInv
<1>1. users[e] # None /\ users[e] \in Users
  BY DEF Expire, TypeOK
<1>2. d \in Users /\ d.passwordHash = users[e].passwordHash /\ d.resetToken = users[e].resetToken
  BY <1>1 DEF User, Users
<1>3. users' = [users EXCEPT ![e] = d] /\ UNCHANGED <<at, email, doc, token, code, mailed>>
  BY DEF Expire
<1> HIDE DEF d
<1>4. TypeOK'
  BY <1>2, <1>3 DEF TypeOK
<1>5. HandlerInv' /\ SignupInv' /\ OneSignupWins'
  BY <1>1, <1>2, <1>3, Overwritten DEF HandlerInv
<1>6. ResetInv' /\ MailedInv'
  BY <1>3 DEF ResetInv, MailedInv
<1>7. \A f \in Emails : users'[f] # None => users[f] # None /\ users'[f].resetToken = users[f].resetToken
  BY <1>1, <1>2, <1>3 DEF TypeOK
<1>8. LinkInv'
  BY <1>3, <1>7 DEF LinkInv, Latest
<1> QED BY <1>4, <1>5, <1>6, <1>8

\* A name is changed; the password and the token stay.
LEMMA SaveProfileIInv ==
  ASSUME IInv, NEW q \in Profiles, SaveProfile(q)
  PROVE  IInv'
<1> DEFINE e == email[q]
           d == User(users[e].passwordHash, q, users[e].resetToken, users[e].valid)
<1> USE AccountsAssumption, NoneAssumption DEF Requests, IInv
<1>1. e \in Emails /\ users[e] # None /\ users[e] \in Users
  BY DEF SaveProfile, HandlerInv, TypeOK
<1>2. d \in Users /\ d.passwordHash = users[e].passwordHash /\ d.resetToken = users[e].resetToken
  BY <1>1 DEF User, Users, Names
<1>3. users' = [users EXCEPT ![e] = d]
  BY DEF SaveProfile
<1> HIDE DEF d
<1>4. /\ at'[q] = "done" /\ \A p \in Requests : p # q => at'[p] = at[p]
      /\ code'[q] = 200 /\ \A p \in Requests : p # q => code'[p] = code[p]
      /\ UNCHANGED <<email, token, mailed>>
  BY DEF SaveProfile, Answer, TypeOK
<1>5. TypeOK'
  <2>1. users' \in [Emails -> Users \cup {None}]
    BY <1>1, <1>2, <1>3 DEF TypeOK
  <2>2. Answer(q, 200)
    BY DEF SaveProfile
  <2> QED BY <2>1, <2>2, <1>4, AnswerFacts DEF TypeOK
<1>6. HandlerInv' /\ SignupInv' /\ OneSignupWins'
  <2>1. \A p \in Requests :
          /\ code'[p] = 201 => code[p] = 201
          /\ at'[p] \in {"hashing", "saving"} => at'[p] = at[p]
          /\ at'[p] # "done" => code'[p] = None
    BY <1>4 DEF HandlerInv
  <2>2. email' = email /\ d.passwordHash \in {users[e].passwordHash} \cup Resets
    BY <1>2, <1>4
  <2> HIDE DEF e, IInv
  <2> QED BY <1>1, <1>2, <1>3, <2>1, <2>2, Overwritten
<1>7. ResetInv'
  BY <1>4 DEF ResetInv, TypeOK
<1>8. MailedInv'
  BY <1>4 DEF MailedInv, TypeOK
<1>9. \A f \in Emails : users'[f] # None => users[f] # None /\ users'[f].resetToken = users[f].resetToken
  BY <1>1, <1>2, <1>3 DEF TypeOK
<1>10. \A p \in Requests : (at[p] = "done" => at'[p] = "done") /\ (p \in Resets => code'[p] = code[p])
  BY <1>4
<1>11. LinkInv'
  <2> SUFFICES ASSUME NEW f \in Emails, users'[f] # None, users'[f].resetToken # None
               PROVE  /\ at'[users'[f].resetToken] = "done"
                      /\ email'[users'[f].resetToken] = f
                      /\ Latest(users[f].resetToken, f)'
                      /\ \A p \in Resets : code'[p] = 200 => token'[p] # users'[f].resetToken
    BY DEF LinkInv
  <2>1. PICK t \in Forgots : /\ users[f] # None /\ users[f].resetToken = t
                             /\ users'[f].resetToken = t /\ t # None
    BY <1>9, UserFacts DEF TypeOK
  <2>2. at[t] = "done" /\ email[t] = f /\ Latest(t, f) /\ \A p \in Resets : code[p] = 200 => token[p] # t
    BY <2>1 DEF LinkInv
  <2>3. Latest(t, f)'
    BY <2>2, <1>4 DEF Latest
  <2> QED BY <2>1, <2>2, <2>3, <1>4, <1>10
<1> QED BY <1>5, <1>6, <1>7, <1>8, <1>11

\* Every step preserves the invariant.
LEMMA NextIInv == IInv /\ [Next]_vars => IInv'
<1> SUFFICES ASSUME IInv, [Next]_vars PROVE IInv'
  OBVIOUS
<1>1. CASE UNCHANGED vars
  BY <1>1 DEF vars, IInv, TypeOK, HandlerInv, SignupInv, OneSignupWins, ResetInv, LinkInv, Latest, MailedInv
<1>2. ASSUME NEW e \in Emails, Expire(e) PROVE IInv'
  BY <1>2, ExpireIInv
<1>3. ASSUME NEW q \in Requests, RejectInput(q) \/ DbFails(q) PROVE IInv'
  BY <1>3, RejectInputIInv, DbFailsIInv
<1>4. ASSUME NEW q \in Signups, FindExisting(q) \/ CreateUser(q) PROVE IInv'
  BY <1>4, FindExistingIInv, CreateUserIInv
<1>5. ASSUME NEW q \in Forgots, FindByEmail(q) \/ SaveToken(q) PROVE IInv'
  BY <1>5, FindByEmailIInv, SaveTokenIInv
<1>6. ASSUME NEW q \in Resets, FindByToken(q) \/ SavePassword(q) PROVE IInv'
  BY <1>6, FindByTokenIInv, SavePasswordIInv
<1>7. ASSUME NEW q \in Profiles, Authenticate(q) \/ SaveProfile(q) PROVE IInv'
  BY <1>7, AuthenticateIInv, SaveProfileIInv
<1> QED BY <1>1, <1>2, <1>3, <1>4, <1>5, <1>6, <1>7 DEF Next

-----------------------------------------------------------------------------
(* Theorems.                                                               *)

\* The inductive invariant holds in every reachable state.
THEOREM Invariance == Spec => []IInv
  BY InitIInv, NextIInv, PTL DEF Spec

(***************************************************************************)
(* Type correctness: every document always has a password hash.            *)
(***************************************************************************)
THEOREM TypeCorrect == Spec => []TypeOK
<1>1. IInv => TypeOK
  BY DEF IInv
<1> QED BY <1>1, Invariance, PTL

(***************************************************************************)
(* However many sign-ups race for an address, one is told 201 and it is    *)
(* the one whose account exists.                                           *)
(***************************************************************************)
THEOREM SignupUnique == Spec => []OneSignupWins
<1>1. IInv => OneSignupWins
  BY DEF IInv
<1> QED BY <1>1, Invariance, PTL

(***************************************************************************)
(* Only a reset with a link mailed for the account replaces a password.    *)
(***************************************************************************)
THEOREM PasswordsGuarded == Spec => PasswordsSetByReset
<1> DEFINE Replaced(e) == users[e] # None /\ users'[e].passwordHash # users[e].passwordHash
           Reset(q, e) ==
             /\ code[q] = None /\ code'[q] = 200
             /\ users'[e].passwordHash = q
             /\ token[q] # None /\ email[token[q]] = e
           A == \A e \in Emails : Replaced(e) => \E q \in Resets : Reset(q, e)
<1>1. IInv /\ [Next]_vars => A
  <2> SUFFICES ASSUME IInv, [Next]_vars, NEW e \in Emails, Replaced(e)
               PROVE  \E q \in Resets : Reset(q, e)
    OBVIOUS
  <2>1. users' # users
    OBVIOUS
  <2>2. ASSUME NEW f \in Emails, Expire(f) PROVE FALSE
    BY <2>2 DEF Expire, User, IInv, TypeOK
  <2>3. ASSUME NEW q \in Signups, CreateUser(q) PROVE FALSE
    <3>1. email[q] \in Emails
      BY <2>3 DEF CreateUser, IInv, HandlerInv, Requests
    <3>2. users[email[q]] = None /\ users' = [users EXCEPT ![email[q]] = User(q, q, None, FALSE)]
      BY <2>1, <2>3 DEF CreateUser
    <3>3. e # email[q] => users'[e] = users[e]
      BY <3>1, <3>2 DEF IInv, TypeOK
    <3> QED BY <3>2, <3>3
  <2>4. ASSUME NEW q \in Forgots, SaveToken(q) PROVE FALSE
    BY <2>4 DEF SaveToken, User, IInv, TypeOK, HandlerInv, Requests
  <2>5. ASSUME NEW q \in Profiles, SaveProfile(q) PROVE FALSE
    BY <2>5 DEF SaveProfile, User, IInv, TypeOK, HandlerInv, Requests
  <2>6. ASSUME NEW q \in Resets, SavePassword(q) PROVE Reset(q, e)
    <3>1. at[q] = "hashing" /\ email[q] \in Emails /\ code[q] = None
      BY <2>6 DEF SavePassword, IInv, HandlerInv, Requests
    <3>2. token[q] # None /\ email[token[q]] = email[q]
      BY <3>1 DEF IInv, ResetInv
    <3>3. code'[q] = 200
      BY <2>6 DEF SavePassword, Answer, IInv, TypeOK, Requests
    <3>4. users' = [users EXCEPT ![email[q]] = User(q, @.fullName, None, FALSE)]
      BY <2>6 DEF SavePassword
    <3>5. e = email[q]
      <4>1. e # email[q] => users'[e] = users[e]
        BY <3>1, <3>4 DEF IInv, TypeOK
      <4> QED BY <4>1
    <3>6. users'[e].passwordHash = q
      BY <3>4, <3>5 DEF User, IInv, TypeOK
    <3> QED BY <3>1, <3>2, <3>3, <3>5, <3>6
  <2>7. Next
    BY <2>1 DEF vars
  <2>8. \/ \E f \in Emails : Expire(f)
        \/ \E q \in Signups : CreateUser(q)
        \/ \E q \in Forgots : SaveToken(q)
        \/ \E q \in Resets : SavePassword(q)
        \/ \E q \in Profiles : SaveProfile(q)
    BY <2>1, <2>7 DEF Next, RejectInput, DbFails, FindExisting, FindByEmail, FindByToken, Authenticate
  <2> QED BY <2>2, <2>3, <2>4, <2>5, <2>6, <2>8
<1>2. [][A]_vars => PasswordsSetByReset
  BY PTL DEF PasswordsSetByReset
<1> QED BY <1>1, <1>2, Invariance, PTL DEF Spec

(***************************************************************************)
(* A look-up succeeds for the last link mailed, until it has been used.    *)
(***************************************************************************)
THEOREM LinksSuperseded == Spec => OnlyLastLinkOpens
<1> DEFINE A == \A q \in Resets :
                  at[q] = "start" /\ at'[q] = "hashing" =>
                    /\ token'[q] = LastLink(email'[q])
                    /\ \A p \in Resets : token[p] = token'[q] => code[p] # 200
<1>1. ASSUME IInv, NEW q \in Resets, FindByToken(q), at'[q] = "hashing"
      PROVE  /\ token'[q] = LastLink(email'[q])
             /\ \A p \in Resets : token[p] = token'[q] => code[p] # 200
  <2>1. ~ Answer(q, 400)
    BY <1>1 DEF Answer, IInv, TypeOK, Requests
  <2>2. PICK t \in Range(mailed) \cup {None}, e \in Emails :
          token' = [token EXCEPT ![q] = t] /\ t # None /\ Opens(t, e) /\ Goto(q, "hashing", e, users[e])
    BY <1>1, <2>1 DEF FindByToken
  <2>3. token'[q] = t /\ email'[q] = e
    <3>1. users[e] \in Users \cup {None} /\ "hashing" \in Places /\ q \in Requests /\ TypeOK
      BY <1>1 DEF IInv, TypeOK, Places, Requests
    <3>2. email'[q] = e
      BY <2>2, <3>1, GotoFacts
    <3> QED BY <2>2, <3>1, <3>2 DEF TypeOK
  <2>4. email[t] = e /\ Latest(t, e) /\ \A p \in Resets : code[p] = 200 => token[p] # t
    <3>1. users[e] # None /\ users[e].resetToken = t /\ t # None
      BY <2>2 DEF Opens
    <3> QED BY <1>1, <3>1 DEF IInv, LinkInv
  <2>5. t = LastLink(e)
    <3> DEFINE own == {i \in DOMAIN mailed : email[mailed[i]] = e}
    <3>1. PICK i \in own : mailed[i] = t /\ \A j \in own : j <= i
      BY <2>4 DEF Latest
    <3>2. own \subseteq Nat
      <4>1. mailed \in Seq(Forgots)
        BY <1>1 DEF IInv, TypeOK
      <4> QED BY <4>1
    <3> DEFINE k == CHOOSE k \in own : \A j \in own : j <= k
    <3> HIDE DEF own
    <3>3. k \in own /\ \A j \in own : j <= k
      BY <3>1
    <3> HIDE DEF k
    <3>4. k = i
      BY <3>1, <3>2, <3>3
    <3> QED BY <3>1, <3>4 DEF LastLink, k, own
  <2> QED BY <2>3, <2>4, <2>5
<1>2. IInv /\ [Next]_vars => A
  <2> SUFFICES ASSUME IInv, [Next]_vars, NEW q \in Resets, at[q] = "start", at'[q] = "hashing"
               PROVE  /\ token'[q] = LastLink(email'[q])
                      /\ \A p \in Resets : token[p] = token'[q] => code[p] # 200
    OBVIOUS
  <2>1. FindByToken(q)
    <3> USE AccountsAssumption DEF IInv, TypeOK, Requests
    <3>1. ASSUME NEW f \in Emails, Expire(f) PROVE FALSE
      BY <3>1 DEF Expire
    <3>2. ASSUME NEW r \in Requests, RejectInput(r) \/ DbFails(r) PROVE FALSE
      BY <3>2 DEF RejectInput, DbFails, Answer
    <3>3. ASSUME NEW r \in Signups, FindExisting(r) \/ CreateUser(r) PROVE FALSE
      <4>1. r # q /\ r \in Requests
        BY <3>3
      <4>2. PICK p \in Places : at' = [at EXCEPT ![r] = p]
        BY <3>3 DEF FindExisting, CreateUser, Answer, Goto, Places
      <4> QED BY <4>1, <4>2
    <3>4. ASSUME NEW r \in Forgots, FindByEmail(r) \/ SaveToken(r) PROVE FALSE
      <4>1. r # q /\ r \in Requests
        BY <3>4
      <4>2. PICK p \in Places : at' = [at EXCEPT ![r] = p]
        BY <3>4 DEF FindByEmail, SaveToken, Answer, Goto, Places
      <4> QED BY <4>1, <4>2
    <3>5. ASSUME NEW r \in Resets, FindByToken(r), r # q PROVE FALSE
      BY <3>5 DEF FindByToken, Answer, Goto
    <3>6. ASSUME NEW r \in Resets, SavePassword(r) PROVE FALSE
      BY <3>6 DEF SavePassword, Answer
    <3>7. ASSUME NEW r \in Profiles, Authenticate(r) \/ SaveProfile(r) PROVE FALSE
      BY <3>7 DEF Authenticate, SaveProfile, Answer, Goto
    <3>8. Next
      BY DEF vars
    <3> QED BY <3>1, <3>2, <3>3, <3>4, <3>5, <3>6, <3>7, <3>8 DEF Next
  <2> QED BY <2>1, <1>1
<1>3. [][A]_vars => OnlyLastLinkOpens
  BY PTL DEF OnlyLastLinkOpens
<1> QED BY <1>2, <1>3, Invariance, PTL DEF Spec
=============================================================================
