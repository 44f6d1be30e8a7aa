--------------------------- MODULE Browser_proofs ---------------------------
(***************************************************************************)
(* Proofs about a tab of the frontend for any number of requests, accounts,*)
(* problems, test cases and drafts.                                        *)
(***************************************************************************)
EXTENDS Browser, TLAPS

-----------------------------------------------------------------------------
(* The inductive invariant.                                                *)

PageKinds == {"load", "run", "submit"}
EditKinds == Edits \cup {"open"}
Kinds == {"me", "login", "profile"} \cup PageKinds \cup EditKinds

Ids == OldTests \cup Nat

\* Whatever a URL or a body may name.
Names == Accounts \cup Slugs \cup Ids \cup Drafts \cup {None}

Tokens == [owner : Names, n : Nat] \cup {None}

Requests ==
  [n : Nat, kind : Kinds, for : Names, token : Tokens,
   reply : {None, 200, 401, 404, 500}, by : {"page", "left", "gone"}]

Numbered(S) == \A r, q \in S : r.n = q.n => r = q

\* Every request has a number of its own.
FlightOK ==
  /\ sends \in Nat
  /\ stored \in Tokens
  /\ flight \subseteq Requests
  /\ \A r \in flight : r.n <= sends
  /\ Numbered(flight)

Pages ==
  [slug : Names, shown : Names, running : BOOLEAN, submitting : BOOLEAN,
   runResult : Names, result : Names, last : Names]

PageTyped ==
  /\ page # None => path = "problem"
  /\ path = "problem" => page \in Pages

\* The request a mounted page waits for is that of its last click.
PageWaits ==
  \A r \in flight : r.by = "page" /\ r.kind \in PageKinds =>
    /\ path = "problem"
    /\ r.kind # "load" => page[Flag(r.kind)] /\ r.n = page.last

PageShows ==
  path = "problem" =>
    /\ {page.runResult, page.result} \subseteq {None, page.last}
    /\ None \in {page.runResult, page.result}
    /\ page.running \/ page.submitting => page.runResult = None /\ page.result = None
    /\ ~ (page.running /\ page.submitting)

PageInv == PageTyped /\ PageWaits /\ PageShows

Forms ==
  [ready : BOOLEAN, testCases : SUBSET Ids, adding : BOOLEAN, saving : BOOLEAN,
   deletingId : Names, saved : Names, exact : BOOLEAN]

\* A new test case has the number of a request that was sent.
FormTyped ==
  /\ tests \subseteq Ids
  /\ fields \in Drafts
  /\ \A t \in tests \cap Nat : t <= sends
  /\ form # None => path = "edit"
  /\ path = "edit" => form \in Forms /\ \A t \in form.testCases \cap Nat : t <= sends

\* The requests of the form that is mounted.
Listened(k) == {r \in flight : r.by = "page" /\ r.kind = k}

FormWaits ==
  /\ \A r \in flight : r.by = "page" /\ r.kind \in EditKinds => path = "edit"
  /\ \A r \in Listened("open") : ~ form.ready /\ \A q \in Listened("open") : q = r
  /\ \A r \in flight : r.by = "page" /\ r.kind \in Edits => form.ready
  /\ \A r \in Listened("delete") : r.for \in Ids /\ (r.for \in Nat => r.for <= sends)
  /\ \A r \in flight : r.kind = "save" => r.for \in Drafts

\* Of an exact page: every edit of an earlier visit has been handled.
EarlierDone == \A r \in Pending : r.by = "page" \/ r.reply # None

SavesAgree ==
  /\ \A r \in Listened("save") :
       /\ form.saving
       /\ \A q \in Listened("save") : q = r
       /\ r.reply = 200 => fields = r.for
  /\ form.saved # None =>
       fields = form.saved \/ \E r \in Listened("save") : r.reply = 200

\* What the list will have lost and gained once its answers are there.
Removed(t) == \E r \in Listened("delete") : r.reply = 200 /\ r.for = t
Added(t) == \E r \in Listened("add") : r.reply = 200 /\ r.n = t

TestsAgree ==
  /\ \A r \in Listened("add") :
       /\ r.n \notin form.testCases
       /\ r.reply = 200 => r.n \in tests
       /\ \A q \in Listened("delete") : q.for # r.n
  /\ \A r \in Listened("delete") :
       r.reply = 200 =>
         /\ r.for \notin tests
         /\ \A q \in Listened("delete") : q.reply = 200 /\ q.for = r.for => q = r
  /\ \A t \in form.testCases : t \in tests \/ Removed(t)
  /\ \A t \in tests : t \in form.testCases \/ Added(t)

FormShows ==
  path = "edit" /\ form.exact =>
    /\ EarlierDone
    /\ SavesAgree
    /\ form.ready => TestsAgree

FormInv == FormTyped /\ FormWaits /\ FormShows

IInv == FlightOK /\ PageInv /\ FormInv

-----------------------------------------------------------------------------
(* What a step does to the requests under way.                             *)

\* x is r, but for the component that waits for it.
Alike(x, r) ==
  x.n = r.n /\ x.kind = r.kind /\ x.for = r.for /\ x.token = r.token /\ x.reply = r.reply

LEMMA LeftSame ==
  ASSUME NEW S \in SUBSET Requests
  PROVE  Left(S, path) = S
BY DEF Left, Requests

LEMMA LeftIs ==
  ASSUME NEW S \in SUBSET Requests, Numbered(S), NEW p
  PROVE  /\ Left(S, p) \subseteq Requests
         /\ Numbered(Left(S, p))
         /\ \A x \in Left(S, p) : \E r \in S : Alike(x, r)
         /\ p # path => \A x \in Left(S, p) : x.by # "page"
<1>1. ASSUME NEW x \in Left(S, p)
      PROVE  \E r \in S : /\ x = [r EXCEPT !.by = IF p # path /\ @ = "page" THEN "left" ELSE @]
                          /\ Alike(x, r) /\ x \in Requests
                          /\ p # path => x.by # "page"
  <2>1. PICK r \in S : x = [r EXCEPT !.by = IF p # path /\ @ = "page" THEN "left" ELSE @]
    BY DEF Left
  <2>2. r \in Requests
    OBVIOUS
  <2> QED BY <2>1, <2>2 DEF Requests, Alike
<1>2. Numbered(Left(S, p))
  BY <1>1 DEF Numbered, Alike
<1> QED BY <1>1, <1>2

LEMMA ReloadedIs ==
  ASSUME NEW S \in SUBSET Requests, Numbered(S)
  PROVE  /\ Reloaded(S) \subseteq Requests
         /\ Numbered(Reloaded(S))
         /\ \A x \in Reloaded(S) : x.by = "gone" /\ \E r \in S : Alike(x, r)
<1>1. ASSUME NEW x \in Reloaded(S)
      PROVE  \E r \in S : /\ x = [r EXCEPT !.by = "gone"]
                          /\ Alike(x, r) /\ x \in Requests /\ x.by = "gone"
  <2>1. PICK r \in S : x = [r EXCEPT !.by = "gone"]
    BY DEF Reloaded
  <2>2. r \in Requests
    OBVIOUS
  <2> QED BY <2>1, <2>2 DEF Requests, Alike
<1>2. Numbered(Reloaded(S))
  BY <1>1 DEF Numbered, Alike
<1> QED BY <1>1, <1>2

LEMMA RequestIs ==
  ASSUME FlightOK, NEW k \in Kinds, NEW d \in Names
  PROVE  /\ Request(k, d) \in Requests
         /\ Request(k, d).n = sends + 1 /\ Request(k, d).kind = k
         /\ Request(k, d).for = d /\ Request(k, d).reply = None
         /\ Request(k, d).by = "page"
BY DEF Request, Requests, FlightOK

\* Requests that come of those under way keep the numbers in order.
LEMMA FlightKept ==
  ASSUME FlightOK, sends' = sends, stored' \in Tokens,
         flight' \subseteq Requests, Numbered(flight'),
         \A x \in flight' : \E r \in flight : Alike(x, r)
  PROVE  FlightOK'
<1>1. \A x \in flight' : x.n <= sends
  BY DEF FlightOK, Alike
<1> QED BY <1>1 DEF FlightOK, Numbered

LEMMA FlightAdded ==
  ASSUME FlightOK, NEW k \in Kinds, NEW d \in Names, NEW S \in SUBSET Requests,
         Numbered(S), \A x \in S : \E r \in flight : Alike(x, r),
         flight' = S \cup {Request(k, d)}, sends' = sends + 1, stored' = stored
  PROVE  FlightOK'
<1> DEFINE new == Request(k, d)
<1>1. new \in Requests /\ new.n = sends + 1
  BY RequestIs
<1> HIDE DEF new
<1>2. \A x \in S : x.n \in Nat /\ x.n <= sends
  BY DEF FlightOK, Alike, Requests
<1>3. sends \in Nat /\ stored \in Tokens
  BY DEF FlightOK
<1>4. flight' = S \cup {new}
  BY DEF new
<1>5. \A r, q \in flight' : r.n = q.n => r = q
  BY <1>1, <1>2, <1>3, <1>4 DEF Numbered
<1>6. \A r \in flight' : r.n <= sends + 1
  BY <1>1, <1>2, <1>3, <1>4
<1>7. flight' \subseteq Requests
  BY <1>1, <1>4
<1> QED BY <1>3, <1>5, <1>6, <1>7 DEF FlightOK, Numbered

LEMMA SendStep ==
  ASSUME FlightOK, NEW k \in Kinds, NEW d \in Names, NEW p, SendFrom(p, k, d)
  PROVE  /\ FlightOK' /\ sends' = sends + 1 /\ path' = p
         /\ p = path => flight' = flight \cup {Request(k, d)}
         /\ \A x \in flight' : x # Request(k, d) =>
              /\ p # path => x.by # "page"
              /\ \E r \in flight : Alike(x, r)
<1>1. flight \in SUBSET Requests /\ Numbered(flight)
  BY DEF FlightOK
<1>2. flight' = Left(flight, p) \cup {Request(k, d)} /\ sends' = sends + 1 /\ path' = p
      /\ stored' = stored
  BY DEF SendFrom
<1>3. /\ Left(flight, p) \subseteq Requests
      /\ Numbered(Left(flight, p))
      /\ \A x \in Left(flight, p) : \E r \in flight : Alike(x, r)
      /\ p # path => \A x \in Left(flight, p) : x.by # "page"
  BY <1>1, LeftIs
<1>4. FlightOK'
  BY <1>2, <1>3, FlightAdded
<1>5. p = path => Left(flight, p) = flight
  BY <1>1, LeftSame
<1> QED BY <1>2, <1>3, <1>4, <1>5

LEMMA SettleStep ==
  ASSUME FlightOK, NEW r \in flight, NEW p, Settle(r, p), stored' \in Tokens
  PROVE  /\ FlightOK' /\ sends' = sends /\ path' = p
         /\ r \notin flight' /\ \A x \in flight' : x.n # r.n
         /\ p = path => flight' = flight \ {r}
         /\ \A x \in flight' :
              /\ p # path => x.by # "page"
              /\ \E q \in flight : Alike(x, q)
<1> DEFINE S == flight \ {r}
<1>1. S \in SUBSET Requests /\ Numbered(S)
  BY DEF FlightOK, Numbered
<1>2. flight' = Left(S, p) /\ sends' = sends /\ path' = p
  BY DEF Settle
<1>3. \A x \in S : x.n # r.n
  BY DEF FlightOK, Numbered
<1> HIDE DEF S
<1>4. /\ Left(S, p) \subseteq Requests
      /\ Numbered(Left(S, p))
      /\ \A x \in Left(S, p) : \E q \in S : Alike(x, q)
      /\ p # path => \A x \in Left(S, p) : x.by # "page"
  BY <1>1, LeftIs
<1>5. \A x \in flight' : \E q \in flight : Alike(x, q)
  BY <1>2, <1>4 DEF S
<1>6. FlightOK'
  BY <1>2, <1>4, <1>5, FlightKept
<1>7. r \notin flight' /\ \A x \in flight' : x.n # r.n
  BY <1>2, <1>3, <1>4 DEF Alike
<1>8. p = path => flight' = S
  BY <1>1, <1>2, LeftSame
<1> QED BY <1>2, <1>4, <1>5, <1>6, <1>7, <1>8 DEF S

LEMMA ExpelledStep ==
  ASSUME FlightOK, NEW r \in flight, Expelled(r)
  PROVE  /\ FlightOK' /\ sends' = sends /\ path' = "login" /\ path # "login"
         /\ r \notin flight'
         /\ \A x \in flight' : x.by = "gone" /\ \E q \in flight : Alike(x, q)
<1> DEFINE S == flight \ {r}
<1>1. S \in SUBSET Requests /\ Numbered(S)
  BY DEF FlightOK, Numbered
<1>2. /\ flight' = Reloaded(S) /\ sends' = sends /\ path' = "login" /\ path # "login"
      /\ stored' = None
  BY DEF Expelled
<1>3. \A x \in S : x.n # r.n
  BY DEF FlightOK, Numbered
<1> HIDE DEF S
<1>4. /\ Reloaded(S) \subseteq Requests
      /\ Numbered(Reloaded(S))
      /\ \A x \in Reloaded(S) : x.by = "gone" /\ \E q \in S : Alike(x, q)
  BY <1>1, ReloadedIs
<1>5. \A x \in flight' : \E q \in flight : Alike(x, q)
  BY <1>2, <1>4 DEF S
<1>6. FlightOK'
  BY <1>2, <1>4, <1>5, FlightKept DEF Tokens
<1>7. r \notin flight'
  BY <1>2, <1>3, <1>4 DEF Alike
<1> QED BY <1>2, <1>4, <1>5, <1>6, <1>7

\* A step that is none of the page's whose requests are of the kinds K.
Untouched(K) ==
  /\ \A x \in flight' : x.kind \in K => \E r \in flight : Alike(x, r)
  /\ \A x \in flight' : x.kind \in K /\ x.by = "page" => x \in flight /\ path' = path
  /\ path' = path /\ path \in {"problem", "edit"} =>
       \A x \in flight \cup flight' : x.kind \in K => (x \in flight <=> x \in flight')

LEMMA SendUntouched ==
  ASSUME FlightOK, NEW k \in Kinds, NEW d \in Names, NEW p, SendFrom(p, k, d),
         NEW K, k \notin K
  PROVE  Untouched(K)
<1> DEFINE new == Request(k, d)
<1>1. new.kind \notin K
  BY RequestIs
<1>2. /\ path' = p
      /\ p = path => flight' = flight \cup {new}
      /\ \A x \in flight' : x # new =>
           /\ p # path => x.by # "page"
           /\ \E r \in flight : Alike(x, r)
  BY SendStep
<1> HIDE DEF new
<1> QED BY <1>1, <1>2 DEF Untouched

LEMMA SettleUntouched ==
  ASSUME FlightOK, NEW r \in flight, NEW p, Settle(r, p), stored' \in Tokens,
         NEW K, r.kind \notin K
  PROVE  Untouched(K)
<1>1. /\ path' = p
      /\ p = path => flight' = flight \ {r}
      /\ \A x \in flight' :
           /\ p # path => x.by # "page"
           /\ \E q \in flight : Alike(x, q)
  BY SettleStep
<1> QED BY <1>1 DEF Untouched

LEMMA ExpelledUntouched ==
  ASSUME FlightOK, NEW r \in flight, Expelled(r), NEW K
  PROVE  Untouched(K)
BY ExpelledStep DEF Untouched

LEMMA LeftStep ==
  ASSUME FlightOK, flight' = Left(flight, path'), sends' = sends, stored' \in Tokens, NEW K
  PROVE  FlightOK' /\ Untouched(K)
<1> DEFINE p == path'
<1>1. flight \in SUBSET Requests /\ Numbered(flight)
  BY DEF FlightOK
<1>2. flight' = Left(flight, p)
  OBVIOUS
<1>3. p = path => flight' = flight
  BY <1>1, <1>2, LeftSame
<1> HIDE DEF p
<1>4. /\ Left(flight, p) \subseteq Requests
      /\ Numbered(Left(flight, p))
      /\ \A x \in Left(flight, p) : \E r \in flight : Alike(x, r)
      /\ p # path => \A x \in Left(flight, p) : x.by # "page"
  BY <1>1, LeftIs
<1>5. FlightOK'
  BY <1>2, <1>4, FlightKept
<1>6. Untouched(K)
  BY <1>2, <1>3, <1>4 DEF Untouched, p
<1> QED BY <1>5, <1>6

LEMMA RefreshStep ==
  ASSUME FlightOK, NEW p \in {"home", "login"}, Refresh(p), NEW K, "me" \notin K
  PROVE  /\ FlightOK' /\ sends' \in {sends, sends + 1}
         /\ Untouched(K)
<1> DEFINE new == Request("me", None)
           S == Reloaded(flight)
<1>1. flight \in SUBSET Requests /\ Numbered(flight)
  BY DEF FlightOK
<1>2. /\ S \subseteq Requests /\ Numbered(S)
      /\ \A x \in S : x.by = "gone" /\ \E r \in flight : Alike(x, r)
  BY <1>1, ReloadedIs
<1>3. new.kind = "me"
  BY RequestIs DEF Kinds, Names
<1>4. path' = p /\ stored' = stored
  BY DEF Refresh
<1>5. CASE stored = None
  <2>1. flight' = S /\ sends' = sends
    BY <1>5 DEF Refresh
  <2>2. stored' \in Tokens
    BY <1>4 DEF FlightOK
  <2> HIDE DEF S
  <2>3. FlightOK'
    BY <1>2, <2>1, <2>2, FlightKept
  <2> QED BY <1>2, <1>4, <2>1, <2>3 DEF Untouched
<1>6. CASE stored # None
  <2>1. flight' = S \cup {new} /\ sends' = sends + 1
    BY <1>6 DEF Refresh
  <2>2. "me" \in Kinds /\ None \in Names
    BY DEF Kinds, Names
  <2> HIDE DEF S
  <2>3. FlightOK'
    BY <1>2, <1>4, <2>1, <2>2, FlightAdded
  <2> HIDE DEF new
  <2> QED BY <1>2, <1>3, <1>4, <2>1, <2>3 DEF Untouched
<1> QED BY <1>5, <1>6

\* What no step of the session changes: the pages' requests, unless it leaves them.
Elsewhere ==
  /\ FlightOK' /\ sends' \in {sends, sends + 1}
  /\ Untouched(PageKinds) /\ Untouched(EditKinds)
  /\ path' \in {"problem", "edit"} => path' = path

LEMMA KindsApart ==
  /\ "me" \notin PageKinds /\ "login" \notin PageKinds /\ "profile" \notin PageKinds
  /\ "me" \notin EditKinds /\ "login" \notin EditKinds /\ "profile" \notin EditKinds
  /\ PageKinds \cap EditKinds = {}
  /\ {"me", "login", "profile"} \subseteq Kinds
  /\ PageKinds \subseteq Kinds /\ EditKinds \subseteq Kinds
  /\ Edits \subseteq EditKinds
BY DEF PageKinds, EditKinds, Edits, Kinds

\* A request of the session is answered, and the route is p.
LEMMA SettledElsewhere ==
  ASSUME FlightOK, NEW r \in flight, NEW p, Settle(r, p), stored' \in Tokens,
         r.kind \in {"me", "login", "profile"}, p \in {"problem", "edit"} => p = path
  PROVE  Elsewhere
<1>1. FlightOK' /\ sends' = sends /\ path' = p
  BY SettleStep
<1>2. r.kind \notin PageKinds /\ r.kind \notin EditKinds
  BY KindsApart
<1>3. Untouched(PageKinds) /\ Untouched(EditKinds)
  BY <1>2, SettleUntouched
<1> QED BY <1>1, <1>3 DEF Elsewhere

LEMMA ExpelledElsewhere ==
  ASSUME FlightOK, NEW r \in flight, Expelled(r)
  PROVE  Elsewhere
BY ExpelledStep, ExpelledUntouched DEF Elsewhere

LEMMA FailedElsewhere ==
  ASSUME FlightOK, NEW r \in flight, Unauthorized(r) \/ Failed(r),
         r.kind \in {"me", "login", "profile"}
  PROVE  Elsewhere
<1>1. Settle(r, path) /\ stored' \in Tokens
  BY DEF Unauthorized, Failed, FlightOK, Tokens
<1> QED BY <1>1, SettledElsewhere

LEMMA RouteIs ==
  ASSUME NEW p, NEW u, Route(p, u) \in {"problem", "edit"}
  PROVE  Route(p, u) = p
BY DEF Route

LEMMA SentElsewhere ==
  ASSUME FlightOK, NEW k \in {"login", "profile"}, NEW d \in Names, Send(k, d)
  PROVE  Elsewhere
<1>1. k \in Kinds /\ k \notin PageKinds /\ k \notin EditKinds
  BY KindsApart
<1>2. SendFrom(path, k, d)
  BY DEF Send
<1>3. FlightOK' /\ sends' = sends + 1 /\ path' = path
  BY <1>1, <1>2, SendStep
<1>4. Untouched(PageKinds) /\ Untouched(EditKinds)
  BY <1>1, <1>2, SendUntouched
<1> QED BY <1>3, <1>4 DEF Elsewhere

LEMMA SessionStep ==
  ASSUME FlightOK, SessionNext \/ \E p \in {"home", "login", "profile"} : Navigate(p)
  PROVE  Elsewhere
<1>0. stored \in Tokens /\ None \in Tokens
  BY DEF FlightOK, Tokens
<1>1. ASSUME NEW r \in flight, MeAnswered(r)
      PROVE  Elsewhere
  <2>0. r.kind \in {"me", "login", "profile"}
    BY <1>1 DEF MeAnswered
  <2>1. CASE Settle(r, Route(path, user')) /\ UNCHANGED stored
    BY <1>0, <2>0, <2>1, RouteIs, SettledElsewhere
  <2>2. CASE Settle(r, path) /\ stored' = None
    BY <1>0, <2>0, <2>2, SettledElsewhere
  <2> QED BY <1>1, <2>1, <2>2, ExpelledElsewhere DEF MeAnswered
<1>2. ASSUME NEW r \in flight, LoginAnswered(r)
      PROVE  Elsewhere
  <2>0. r.kind \in {"me", "login", "profile"}
    BY <1>2 DEF LoginAnswered
  <2>1. CASE Settle(r, "home") /\ stored' = Token(r.for, r.n)
    <3>1. r \in Requests
      BY DEF FlightOK
    <3>2. stored' \in Tokens
      BY <2>1, <3>1 DEF Requests, Token, Tokens
    <3> QED BY <2>0, <2>1, <3>2, SettledElsewhere
  <2> QED BY <1>2, <2>0, <2>1, ExpelledElsewhere, FailedElsewhere DEF LoginAnswered
<1>3. ASSUME NEW r \in flight, ProfileAnswered(r)
      PROVE  Elsewhere
  <2>0. r.kind \in {"me", "login", "profile"}
    BY <1>3 DEF ProfileAnswered
  <2>1. CASE Settle(r, Route(path, user')) /\ UNCHANGED stored
    BY <1>0, <2>0, <2>1, RouteIs, SettledElsewhere
  <2> QED BY <1>3, <2>0, <2>1, ExpelledElsewhere, FailedElsewhere DEF ProfileAnswered
<1>4. ASSUME NEW a \in Accounts, Login(a)
      PROVE  Elsewhere
  BY <1>4, SentElsewhere DEF Login, Names
<1>5. CASE Logout
  <2>1. /\ flight' = Left(flight, path') /\ sends' = sends /\ stored' \in Tokens
        /\ path' = "login"
    BY <1>0, <1>5 DEF Logout
  <2> QED BY <2>1, LeftStep DEF Elsewhere
<1>6. CASE SaveProfile
  BY <1>6, SentElsewhere DEF SaveProfile, Names
<1>7. ASSUME NEW p \in {"home", "login"}, Refresh(p)
      PROVE  Elsewhere
  <2>1. path' = p
    BY <1>7 DEF Refresh
  <2>2. /\ FlightOK' /\ sends' \in {sends, sends + 1}
        /\ Untouched(PageKinds) /\ Untouched(EditKinds)
    BY <1>7, KindsApart, RefreshStep
  <2> QED BY <2>1, <2>2 DEF Elsewhere
<1>8. CASE Expire
  <2>1. UNCHANGED <<stored, path, flight, sends>>
    BY <1>8 DEF Expire
  <2>2. FlightOK'
    BY <2>1 DEF FlightOK, Numbered
  <2> QED BY <2>1, <2>2 DEF Elsewhere, Untouched, Alike
<1>9. ASSUME NEW p \in {"home", "login", "profile"}, Navigate(p)
      PROVE  Elsewhere
  <2>1. /\ flight' = Left(flight, path') /\ sends' = sends /\ stored' \in Tokens
        /\ path' = p
    BY <1>0, <1>9 DEF Navigate
  <2> QED BY <2>1, LeftStep DEF Elsewhere
<1> QED BY <1>1, <1>2, <1>3, <1>4, <1>5, <1>6, <1>7, <1>8, <1>9 DEF SessionNext

-----------------------------------------------------------------------------
(* The page of a problem.                                                  *)

LEMMA PageKept ==
  ASSUME PageInv, Untouched(PageKinds), PageStays, path' = "problem" => path' = path
  PROVE  PageInv'
<1>1. CASE path' = "problem"
  <2>1. page' = page /\ path' = path
    BY <1>1 DEF PageStays
  <2>2. \A x \in flight' : x.kind \in PageKinds /\ x.by = "page" => x \in flight
    BY DEF Untouched
  <2> QED BY <2>1, <2>2 DEF PageInv, PageTyped, PageWaits, PageShows, Flag
<1>2. CASE path' # "problem"
  <2>1. page' = None
    BY <1>2 DEF PageStays
  <2>2. \A x \in flight' : ~ (x.kind \in PageKinds /\ x.by = "page")
    <3> SUFFICES ASSUME NEW x \in flight', x.kind \in PageKinds, x.by = "page"
                 PROVE  FALSE
      OBVIOUS
    <3>1. x \in flight /\ path' = path
      BY DEF Untouched
    <3> QED BY <1>2, <3>1 DEF PageInv, PageWaits
  <2> QED BY <1>2, <2>1, <2>2 DEF PageInv, PageTyped, PageWaits, PageShows
<1> QED BY <1>1, <1>2

LEMMA OpenProblemStep ==
  ASSUME FlightOK, NEW s \in Slugs, OpenProblem(s)
  PROVE  /\ FlightOK' /\ sends' = sends + 1 /\ path' = "problem"
         /\ Untouched(EditKinds)
         /\ PageInv'
<1>1. /\ path # "problem" /\ SendFrom("problem", "load", s) /\ page' = Mounted(s)
      /\ s \in Names /\ None \in Names
  BY DEF OpenProblem, Names
<1>2. "load" \in Kinds /\ "load" \notin EditKinds
  BY DEF EditKinds, Kinds, PageKinds, Edits
<1>3. /\ FlightOK' /\ sends' = sends + 1 /\ path' = "problem"
      /\ \A x \in flight' : x # Request("load", s) => x.by # "page"
  BY <1>1, <1>2, SendStep
<1>4. Untouched(EditKinds)
  BY <1>1, <1>2, SendUntouched
<1>5. Request("load", s).kind = "load"
  BY <1>1, <1>2, RequestIs
<1>6. PageWaits'
  BY <1>3, <1>5 DEF PageWaits
<1>7. PageTyped' /\ PageShows'
  BY <1>1, <1>3 DEF PageTyped, PageShows, Mounted, Pages
<1> QED BY <1>3, <1>4, <1>6, <1>7 DEF PageInv

LEMMA ChangeSlugStep ==
  ASSUME FlightOK, PageInv, NEW s \in Slugs, ChangeSlug(s)
  PROVE  /\ FlightOK' /\ sends' = sends + 1 /\ path' = path
         /\ Untouched(EditKinds)
         /\ PageInv'
<1>1. /\ page # None /\ SendFrom(path, "load", s) /\ page' = [page EXCEPT !.slug = s]
      /\ s \in Names
  BY DEF ChangeSlug, Send, Names
<1>2. "load" \in Kinds /\ "load" \notin EditKinds
  BY DEF EditKinds, Kinds, PageKinds, Edits
<1>3. /\ FlightOK' /\ sends' = sends + 1 /\ path' = path
      /\ flight' = flight \cup {Request("load", s)}
  BY <1>1, <1>2, SendStep
<1>4. Untouched(EditKinds)
  BY <1>1, <1>2, SendUntouched
<1>5. Request("load", s).kind = "load"
  BY <1>1, <1>2, RequestIs
<1>6. path = "problem" /\ page \in Pages
  BY <1>1 DEF PageInv, PageTyped
<1>7. /\ page' \in Pages
      /\ page'.running = page.running /\ page'.submitting = page.submitting
      /\ page'.runResult = page.runResult /\ page'.result = page.result
      /\ page'.last = page.last
  BY <1>1, <1>6 DEF Pages
<1>8. PageWaits'
  BY <1>3, <1>5, <1>6, <1>7 DEF PageInv, PageWaits, Flag
<1>9. PageTyped' /\ PageShows'
  BY <1>3, <1>6, <1>7 DEF PageInv, PageTyped, PageShows
<1> QED BY <1>3, <1>4, <1>8, <1>9 DEF PageInv

LEMMA LoadAnsweredStep ==
  ASSUME FlightOK, PageInv, NEW r \in flight, LoadAnswered(r)
  PROVE  /\ FlightOK' /\ sends' = sends /\ path' = path
         /\ Untouched(EditKinds)
         /\ PageInv'
<1>1. /\ r.kind = "load" /\ Settle(r, path) /\ stored' = stored
      /\ page' \in {page, IF r.by = "page" THEN [page EXCEPT !.shown = r.for] ELSE page}
  BY DEF LoadAnswered, Failed
<1>2. r.kind \in PageKinds /\ r.kind \notin EditKinds
  BY <1>1 DEF EditKinds, PageKinds, Edits
<1>3. stored' \in Tokens /\ r.for \in Names
  BY <1>1 DEF FlightOK, Requests
<1>4. FlightOK' /\ sends' = sends /\ path' = path /\ flight' = flight \ {r}
  BY <1>1, <1>3, SettleStep
<1>5. Untouched(EditKinds)
  BY <1>1, <1>2, <1>3, SettleUntouched
<1>6. ASSUME page' = page
      PROVE  PageInv'
  BY <1>4, <1>6 DEF PageInv, PageTyped, PageWaits, PageShows, Flag
<1>7. ASSUME r.by = "page", page' = [page EXCEPT !.shown = r.for]
      PROVE  PageInv'
  <2>1. path = "problem" /\ page \in Pages
    BY <1>2, <1>7 DEF PageInv, PageWaits, PageTyped
  <2>2. /\ page' \in Pages
        /\ page'.running = page.running /\ page'.submitting = page.submitting
        /\ page'.runResult = page.runResult /\ page'.result = page.result
        /\ page'.last = page.last
    BY <1>3, <1>7, <2>1 DEF Pages
  <2>3. PageWaits'
    BY <1>4, <2>1, <2>2 DEF PageInv, PageWaits, Flag
  <2>4. PageTyped' /\ PageShows'
    BY <1>4, <2>1, <2>2 DEF PageInv, PageTyped, PageShows
  <2> QED BY <2>3, <2>4 DEF PageInv
<1>8. PageInv'
  BY <1>1, <1>6, <1>7
<1> QED BY <1>4, <1>5, <1>8

LEMMA ClickStep ==
  ASSUME FlightOK, PageInv, NEW k \in {"run", "submit"}, Click(k)
  PROVE  /\ FlightOK' /\ sends' = sends + 1 /\ path' = path
         /\ Untouched(EditKinds)
         /\ PageInv'
<1> DEFINE d == page.slug
<1>1. /\ page # None /\ SendFrom(path, k, d)
      /\ ~ page.running /\ ~ page.submitting
      /\ page' = [page EXCEPT ![Flag(k)] = TRUE, !.runResult = None, !.result = None,
                              !.last = sends + 1]
  BY DEF Click, Clickable, Send
<1>2. path = "problem" /\ page \in Pages
  BY <1>1 DEF PageInv, PageTyped
<1>3. k \in Kinds /\ k \notin EditKinds /\ k \in PageKinds
  BY DEF EditKinds, Kinds, PageKinds, Edits
<1>4. d \in Names /\ sends + 1 \in Names /\ None \in Names
  BY <1>2 DEF Pages, FlightOK, Names, Ids
<1> HIDE DEF d
<1>5. /\ FlightOK' /\ sends' = sends + 1 /\ path' = path
      /\ flight' = flight \cup {Request(k, d)}
  BY <1>1, <1>3, <1>4, SendStep
<1>6. Untouched(EditKinds)
  BY <1>1, <1>3, <1>4, SendUntouched
<1>7. Request(k, d).kind = k /\ Request(k, d).n = sends + 1
  BY <1>3, <1>4, RequestIs
<1>8. /\ page' \in Pages /\ page'[Flag(k)]
      /\ page'.runResult = None /\ page'.result = None
      /\ page'.last = sends + 1
      /\ ~ (page'.running /\ page'.submitting)
  BY <1>1, <1>2, <1>4 DEF Pages, Flag
<1>9. \A x \in flight : x.by = "page" /\ x.kind \in PageKinds => x.kind = "load"
  BY <1>1 DEF PageInv, PageWaits, Flag, PageKinds
<1>10. PageWaits'
  BY <1>2, <1>5, <1>7, <1>8, <1>9 DEF PageWaits
<1>11. PageTyped' /\ PageShows'
  BY <1>2, <1>5, <1>8 DEF PageTyped, PageShows
<1> QED BY <1>5, <1>6, <1>10, <1>11 DEF PageInv

\* The answer that the page waits for: its flag falls, and its box may be filled.
LEMMA ExecutionShown ==
  ASSUME FlightOK, PageInv, NEW r \in flight, r.kind \in {"run", "submit"}, r.by = "page",
         flight' = flight \ {r}, path' = path,
         \/ page' = [page EXCEPT ![Flag(r.kind)] = FALSE]
         \/ page' = [[page EXCEPT ![Flag(r.kind)] = FALSE] EXCEPT ![Box(r.kind)] = r.n]
  PROVE  PageInv'
<1>1. r.kind \in PageKinds /\ r.kind # "load"
  BY DEF PageKinds
<1>2. /\ path = "problem" /\ page \in Pages
      /\ page[Flag(r.kind)] /\ r.n = page.last
  BY <1>1 DEF PageInv, PageWaits, PageTyped
<1>3. /\ page.running \/ page.submitting
      /\ ~ (page.running /\ page.submitting)
      /\ page.runResult = None /\ page.result = None
  BY <1>2 DEF PageInv, PageShows, Flag, Pages
<1>4. r.n \in Names
  BY DEF FlightOK, Requests, Names, Ids
<1>5. /\ page' \in Pages
      /\ ~ page'.running /\ ~ page'.submitting
      /\ page'.last = page.last
      /\ {page'.runResult, page'.result} \subseteq {None, r.n}
      /\ None \in {page'.runResult, page'.result}
  <2>1. CASE r.kind = "run"
    BY <1>2, <1>3, <1>4, <2>1 DEF Pages, Flag, Box
  <2>2. CASE r.kind = "submit"
    BY <1>2, <1>3, <1>4, <2>2 DEF Pages, Flag, Box
  <2> QED BY <2>1, <2>2
<1>6. ASSUME NEW x \in flight', x.by = "page", x.kind \in PageKinds
      PROVE  x.kind = "load"
  <2>1. x \in flight /\ x # r
    OBVIOUS
  <2>2. x.kind # "load" => x.n = page.last
    BY <1>6, <2>1 DEF PageInv, PageWaits
  <2> QED BY <1>2, <2>1, <2>2 DEF FlightOK, Numbered
<1>7. PageWaits'
  BY <1>2, <1>6 DEF PageWaits
<1>8. PageTyped' /\ PageShows'
  BY <1>2, <1>5 DEF PageTyped, PageShows
<1> QED BY <1>7, <1>8 DEF PageInv

\* An answer that nobody waits for.
LEMMA ExecutionIgnored ==
  ASSUME PageInv, NEW r \in flight, flight' = flight \ {r}, UNCHANGED <<path, page>>
  PROVE  PageInv'
BY DEF PageInv, PageTyped, PageWaits, PageShows, Flag

LEMMA ExecutionAnsweredStep ==
  ASSUME FlightOK, PageInv, NEW r \in flight, ExecutionAnswered(r)
  PROVE  /\ FlightOK' /\ sends' = sends /\ path' \in {path, "login"}
         /\ Untouched(EditKinds)
         /\ PageInv'
<1> DEFINE idle == [page EXCEPT ![Flag(r.kind)] = FALSE]
<1>1. r.kind \in {"run", "submit"}
  BY DEF ExecutionAnswered
<1>2. r.kind \notin EditKinds
  BY <1>1 DEF EditKinds, Edits
<1>3. CASE Expelled(r) /\ page' = None
  <2>1. /\ FlightOK' /\ sends' = sends /\ path' = "login"
        /\ \A x \in flight' : x.by = "gone"
    BY <1>3, ExpelledStep
  <2>2. Untouched(EditKinds)
    BY <1>3, ExpelledUntouched
  <2>3. PageInv'
    BY <1>3, <2>1 DEF PageInv, PageTyped, PageWaits, PageShows
  <2> QED BY <2>1, <2>2, <2>3
<1>4. CASE /\ Settle(r, path) /\ stored' \in Tokens
           /\ page' \in {IF r.by = "page" THEN idle ELSE page,
                         IF r.by = "page" THEN [idle EXCEPT ![Box(r.kind)] = r.n] ELSE page}
  <2>1. FlightOK' /\ sends' = sends /\ path' = path /\ flight' = flight \ {r}
    BY <1>4, SettleStep
  <2>2. Untouched(EditKinds)
    BY <1>2, <1>4, SettleUntouched
  <2>3. r.by = "page" => PageInv'
    BY <1>1, <1>4, <2>1, ExecutionShown
  <2>4. r.by # "page" => PageInv'
    BY <1>4, <2>1, ExecutionIgnored
  <2> QED BY <2>1, <2>2, <2>3, <2>4
<1>5. Failed(r) \/ Unauthorized(r) => Settle(r, path) /\ stored' \in Tokens
  BY DEF Failed, Unauthorized, FlightOK, Tokens
<1>6. \/ Expelled(r) /\ page' = None
      \/ /\ Failed(r) \/ Unauthorized(r)
         /\ page' \in {IF r.by = "page" THEN idle ELSE page,
                       IF r.by = "page" THEN [idle EXCEPT ![Box(r.kind)] = r.n] ELSE page}
  BY DEF ExecutionAnswered
<1> QED BY <1>3, <1>4, <1>5, <1>6

LEMMA PageStep ==
  ASSUME FlightOK, PageInv, PageNext
  PROVE  /\ FlightOK' /\ sends' \in {sends, sends + 1}
         /\ Untouched(EditKinds)
         /\ path' = "edit" => path' = path
         /\ PageInv'
BY OpenProblemStep, ChangeSlugStep, ClickStep, LoadAnsweredStep, ExecutionAnsweredStep
   DEF PageNext

-----------------------------------------------------------------------------
(* The page of an administrator, and what is stored.                       *)

\* A save names a draft, whoever still waits for it.
LEMMA SavesCarried ==
  ASSUME FormWaits, \A x \in flight' : x.kind \in EditKinds => \E r \in flight : Alike(x, r)
  PROVE  \A x \in flight' : x.kind = "save" => x.for \in Drafts
BY DEF FormWaits, Alike, EditKinds, Edits

\* The component has ended with its route.
LEMMA FormGone ==
  ASSUME FlightOK, FormInv, path' # "edit", form' = None, UNCHANGED <<tests, fields>>,
         sends' \in {sends, sends + 1},
         \A x \in flight' : x.kind \in EditKinds => x.by # "page" /\ \E r \in flight : Alike(x, r)
  PROVE  FormInv'
<1>1. sends \in Nat /\ sends' \in Nat /\ sends <= sends'
  BY DEF FlightOK
<1>2. FormTyped'
  BY <1>1 DEF FormInv, FormTyped
<1>3. \A x \in flight' : x.kind = "save" => x.for \in Drafts
  BY SavesCarried DEF FormInv
<1>4. Edits \subseteq EditKinds /\ "open" \in EditKinds /\ "delete" \in EditKinds
  BY DEF EditKinds, Edits
<1>5. FormWaits'
  BY <1>3, <1>4 DEF FormWaits, Listened
<1> QED BY <1>2, <1>5 DEF FormInv, FormShows

\* Nothing that the form waits for or shows has changed.
LEMMA FormFrame ==
  ASSUME FlightOK, FormInv, UNCHANGED <<form, tests, fields, path>>,
         sends' \in {sends, sends + 1},
         \A x \in flight \cup flight' : x.by = "page" /\ x.kind \in EditKinds =>
           (x \in flight <=> x \in flight'),
         path = "edit" /\ form.exact /\ EarlierDone => EarlierDone',
         \A x \in flight' : x.kind = "save" => x.for \in Drafts
  PROVE  FormInv'
<1>1. sends \in Nat /\ sends' \in Nat /\ sends <= sends'
  BY DEF FlightOK
<1>2. FormTyped'
  BY <1>1 DEF FormInv, FormTyped
<1>3. /\ Listened("open")' = Listened("open") /\ Listened("add")' = Listened("add")
      /\ Listened("delete")' = Listened("delete") /\ Listened("save")' = Listened("save")
  BY DEF Listened, EditKinds, Edits
<1>4. FormWaits'
  <2>1. \A r \in Listened("delete") : r.for \in Nat => r.for <= sends'
    <3>1. \A r \in Listened("delete") : r.for \in Nat => r.for <= sends
      BY DEF FormInv, FormWaits
    <3> QED BY <1>1, <3>1
  <2>2. Edits \subseteq EditKinds
    BY DEF EditKinds
  <2> QED BY <1>3, <2>1, <2>2 DEF FormInv, FormWaits
<1>5. SavesAgree => SavesAgree'
  BY <1>3 DEF SavesAgree
<1>6. TestsAgree => TestsAgree'
  BY <1>3 DEF TestsAgree, Removed, Added
<1>7. FormShows'
  BY <1>5, <1>6 DEF FormInv, FormShows
<1> QED BY <1>2, <1>4, <1>7 DEF FormInv

LEMMA FormKept ==
  ASSUME FlightOK, FormInv, Untouched(EditKinds), FormStays, sends' \in {sends, sends + 1},
         path' = "edit" => path' = path
  PROVE  FormInv'
<1>1. UNCHANGED <<tests, fields>>
  BY DEF FormStays
<1>2. CASE path' = "edit"
  <2>1. path' = path /\ path = "edit" /\ form' = form
    BY <1>2 DEF FormStays
  <2>2. \A x \in flight \cup flight' : x.kind \in EditKinds => (x \in flight <=> x \in flight')
    BY <2>1 DEF Untouched
  <2>3. EarlierDone => EarlierDone'
    BY <2>2 DEF EarlierDone, Pending, EditKinds
  <2>4. \A x \in flight' : x.kind = "save" => x.for \in Drafts
    BY SavesCarried DEF FormInv, Untouched
  <2> QED BY <1>1, <2>1, <2>2, <2>3, <2>4, FormFrame
<1>3. CASE path' # "edit"
  <2>1. form' = None
    BY <1>3 DEF FormStays
  <2>2. ASSUME NEW x \in flight', x.kind \in EditKinds
        PROVE  x.by # "page" /\ \E r \in flight : Alike(x, r)
    <3>1. x.by = "page" => x \in flight /\ path' = path
      BY <2>2 DEF Untouched
    <3>2. x \in flight /\ x.by = "page" => path = "edit"
      BY <2>2 DEF FormInv, FormWaits
    <3> QED BY <1>3, <2>2, <3>1, <3>2 DEF Untouched
  <2> QED BY <1>1, <1>3, <2>1, <2>2, FormGone
<1> QED BY <1>2, <1>3

LEMMA OpenEditStep ==
  ASSUME FlightOK, FormInv, OpenEdit
  PROVE  /\ FlightOK' /\ sends' \in {sends, sends + 1} /\ path' = "edit"
         /\ Untouched(PageKinds)
         /\ FormInv'
<1> DEFINE new == Request("open", None)
           e == \A r \in Pending : r.reply # None
<1>1. /\ path # "edit" /\ SendFrom("edit", "open", None) /\ form' = Opened(e)
      /\ UNCHANGED <<tests, fields>>
  BY DEF OpenEdit
<1>2. "open" \in Kinds /\ "open" \notin PageKinds /\ "open" \notin Edits /\ None \in Names
  BY DEF EditKinds, Kinds, PageKinds, Edits, Names
<1>3. /\ FlightOK' /\ sends' = sends + 1 /\ path' = "edit"
      /\ \A x \in flight' : x # new =>
           x.by # "page" /\ \E r \in flight : Alike(x, r)
  BY <1>1, <1>2, SendStep
<1>4. Untouched(PageKinds)
  BY <1>1, <1>2, SendUntouched
<1>5. new.kind = "open"
  BY <1>2, RequestIs
<1> HIDE DEF new
<1>6. e \in BOOLEAN /\ sends \in Nat
  BY DEF FlightOK
<1>7. e => EarlierDone'
  BY <1>2, <1>3, <1>5 DEF EarlierDone, Pending, Alike
<1> HIDE DEF e
<1>8. /\ form' \in Forms /\ form'.testCases = {} /\ form'.exact = e /\ ~ form'.ready
      /\ form'.saved = None
  BY <1>1, <1>2, <1>6 DEF Opened, Forms
<1>9. FormTyped'
  BY <1>1, <1>3, <1>6, <1>8 DEF FormInv, FormTyped
<1>10. \A x \in flight' : x.by = "page" => x = new
  BY <1>3
<1>11. \A x \in flight' : x.kind = "save" => x.for \in Drafts
  BY <1>3, <1>5 DEF FormInv, FormWaits, Alike
<1>12. /\ \A k \in Edits : Listened(k)' = {}
       /\ "delete" \in Edits /\ "save" \in Edits
  BY <1>2, <1>5, <1>10 DEF Listened, Edits
<1>13. FormWaits'
  BY <1>2, <1>3, <1>5, <1>8, <1>10, <1>11, <1>12 DEF FormWaits, Listened
<1>14. SavesAgree'
  BY <1>8, <1>12 DEF SavesAgree
<1>15. FormShows'
  BY <1>7, <1>8, <1>14 DEF FormShows
<1> QED BY <1>3, <1>4, <1>9, <1>13, <1>15 DEF FormInv

\* An answer that the form does not wait for.
LEMMA FormIgnores ==
  ASSUME FlightOK, FormInv, NEW r \in flight, r.by # "page", flight' = flight \ {r},
         sends' = sends, UNCHANGED <<form, tests, fields, path>>
  PROVE  FormInv'
<1>1. \A x \in flight \cup flight' : x.by = "page" => (x \in flight <=> x \in flight')
  OBVIOUS
<1>2. EarlierDone => EarlierDone'
  BY DEF EarlierDone, Pending
<1>3. \A x \in flight' : x.kind = "save" => x.for \in Drafts
  BY DEF FormInv, FormWaits
<1> QED BY <1>1, <1>2, <1>3, FormFrame

\* The list is there, or the page shows that it failed to load.
LEMMA FormLoads ==
  ASSUME FlightOK, FormInv, NEW r \in flight, r.by = "page", r.kind = "open",
         flight' = flight \ {r}, UNCHANGED <<sends, path, tests, fields>>,
         \/ form' = [form EXCEPT !.ready = TRUE, !.testCases = tests]
         \/ form' = [form EXCEPT !.ready = TRUE, !.exact = FALSE]
  PROVE  FormInv'
<1>1. r \in Listened("open") /\ "open" \in EditKinds /\ "open" \notin Edits
      /\ Edits \subseteq EditKinds /\ Edits = {"add", "delete", "save"}
  BY DEF Listened, EditKinds, Edits
<1>2. path = "edit" /\ form \in Forms /\ ~ form.ready
  BY <1>1 DEF FormInv, FormWaits, FormTyped
<1>3. \A x \in flight : x.by = "page" => x.kind \notin Edits
  BY <1>2 DEF FormInv, FormWaits
<1>4. Listened("open")' = {}
  BY <1>1 DEF FormInv, FormWaits, Listened
<1>5. /\ Listened("add") = {} /\ Listened("delete") = {} /\ Listened("save") = {}
      /\ Listened("add")' = {} /\ Listened("delete")' = {} /\ Listened("save")' = {}
  BY <1>1, <1>3 DEF Listened
<1>6. /\ form' \in Forms /\ form'.ready /\ form'.saved = form.saved
      /\ form'.exact => form.exact /\ form'.testCases = tests
      /\ form'.testCases = tests \/ form'.testCases = form.testCases
  BY <1>2 DEF Forms, FormInv, FormTyped
<1>7. FormTyped'
  BY <1>2, <1>6 DEF FormInv, FormTyped
<1>8. FormWaits'
  BY <1>2, <1>4, <1>5, <1>6 DEF FormInv, FormWaits
<1>9. EarlierDone => EarlierDone'
  BY DEF EarlierDone, Pending
<1>10. SavesAgree => SavesAgree'
  BY <1>5, <1>6 DEF SavesAgree
<1>11. form'.exact => TestsAgree'
  BY <1>5, <1>6 DEF TestsAgree
<1>12. FormShows'
  BY <1>2, <1>6, <1>9, <1>10, <1>11 DEF FormInv, FormShows
<1> QED BY <1>7, <1>8, <1>12 DEF FormInv

\* A 401 takes the page along.
LEMMA FormExpelled ==
  ASSUME FlightOK, FormInv, NEW r \in flight, Expelled(r), form' = None,
         UNCHANGED <<tests, fields>>
  PROVE  /\ FlightOK' /\ sends' \in {sends, sends + 1} /\ path' = "login"
         /\ Untouched(PageKinds)
         /\ FormInv'
<1>1. /\ FlightOK' /\ sends' = sends /\ path' = "login"
      /\ \A x \in flight' : x.by = "gone" /\ \E q \in flight : Alike(x, q)
  BY ExpelledStep
<1>2. FormInv'
  BY <1>1, FormGone
<1> QED BY <1>1, <1>2, ExpelledUntouched

LEMMA OpenAnsweredStep ==
  ASSUME FlightOK, FormInv, NEW r \in flight, OpenAnswered(r)
  PROVE  /\ FlightOK' /\ sends' \in {sends, sends + 1} /\ path' \in {path, "login"}
         /\ Untouched(PageKinds)
         /\ FormInv'
<1>1. r.kind = "open" /\ UNCHANGED <<tests, fields>>
  BY DEF OpenAnswered
<1>2. r.kind \notin PageKinds
  BY <1>1 DEF PageKinds
<1>3. CASE Expelled(r) /\ form' = None
  BY <1>1, <1>3, FormExpelled
<1>4. CASE /\ Settle(r, path) /\ stored' \in Tokens
           /\ form' \in {IF r.by = "page"
                         THEN [form EXCEPT !.ready = TRUE, !.testCases = tests] ELSE form,
                         IF r.by = "page"
                         THEN [form EXCEPT !.ready = TRUE, !.exact = FALSE] ELSE form}
  <2>1. FlightOK' /\ sends' = sends /\ path' = path /\ flight' = flight \ {r}
    BY <1>4, SettleStep
  <2>2. Untouched(PageKinds)
    BY <1>2, <1>4, SettleUntouched
  <2>3. r.by = "page" => FormInv'
    BY <1>1, <1>4, <2>1, FormLoads
  <2>4. r.by # "page" => FormInv'
    BY <1>1, <1>4, <2>1, FormIgnores
  <2> QED BY <2>1, <2>2, <2>3, <2>4
<1>5. Failed(r) \/ Unauthorized(r) => Settle(r, path) /\ stored' \in Tokens
  BY DEF Failed, Unauthorized, FlightOK, Tokens
<1> QED BY <1>3, <1>4, <1>5 DEF OpenAnswered

\* A request of a form that is ready.
LEMMA FormSends ==
  ASSUME FlightOK, FormInv, Ready, NEW k \in Edits, NEW d \in Names, Send(k, d)
  PROVE  LET new == Request(k, d) IN
         /\ FlightOK' /\ sends' = sends + 1 /\ path' = path /\ path = "edit"
         /\ sends \in Nat /\ form \in Forms
         /\ Untouched(PageKinds)
         /\ flight' = flight \cup {new}
         /\ new.n = sends + 1 /\ new.kind = k /\ new.for = d
         /\ new.reply = None /\ new.by = "page" /\ new \notin flight
         /\ None # 200
         /\ Listened(k)' = Listened(k) \cup {new}
         /\ \A j \in EditKinds \ {k} : Listened(j)' = Listened(j)
         /\ EarlierDone => EarlierDone'
<1> DEFINE new == Request(k, d)
<1>1. k \in Kinds /\ k \notin PageKinds /\ SendFrom(path, k, d)
  BY DEF Kinds, PageKinds, EditKinds, Edits, Send
<1>2. FlightOK' /\ sends' = sends + 1 /\ path' = path /\ flight' = flight \cup {new}
  BY <1>1, SendStep
<1>3. Untouched(PageKinds)
  BY <1>1, SendUntouched
<1>4. /\ new.n = sends + 1 /\ new.kind = k /\ new.for = d
      /\ new.reply = None /\ new.by = "page"
  BY <1>1, RequestIs
<1> HIDE DEF new
<1>5. sends \in Nat /\ path = "edit" /\ form \in Forms
  BY DEF FlightOK, Ready, FormInv, FormTyped
<1>6. new \notin flight
  BY <1>4, <1>5 DEF FlightOK
<1>7. Listened(k)' = Listened(k) \cup {new}
  BY <1>2, <1>4 DEF Listened
<1>8. \A j \in EditKinds \ {k} : Listened(j)' = Listened(j)
  BY <1>2, <1>4 DEF Listened
<1>9. EarlierDone => EarlierDone'
  BY <1>2, <1>4 DEF EarlierDone, Pending
<1>10. None # 200
  BY EditAssumption
<1> QED BY <1>2, <1>3, <1>4, <1>5, <1>6, <1>7, <1>8, <1>9, <1>10 DEF new

\* What FormWaits asks of one request more.
LEMMA FormWaitsMore ==
  ASSUME FormWaits, sends \in Nat, sends' = sends + 1, UNCHANGED path, path = "edit",
         form.ready, form'.ready, NEW new, flight' = flight \cup {new},
         new.kind \in Edits,
         new.kind = "delete" => new.for \in Ids /\ (new.for \in Nat => new.for <= sends),
         new.kind = "save" => new.for \in Drafts
  PROVE  FormWaits'
<1>1. "open" \notin Edits
  BY DEF Edits
<1>2. Listened("open")' = Listened("open")
  BY <1>1 DEF Listened
<1>3. \A r \in Listened("delete")' :
        r.for \in Ids /\ (r.for \in Nat => r.for <= sends')
  <2> SUFFICES ASSUME NEW r \in Listened("delete")'
               PROVE  r.for \in Ids /\ (r.for \in Nat => r.for <= sends')
    OBVIOUS
  <2>1. r.for \in Ids /\ (r.for \in Nat => r.for <= sends)
    BY DEF FormWaits, Listened
  <2> QED BY <2>1
<1>4. \A r \in flight' : r.kind = "save" => r.for \in Drafts
  BY DEF FormWaits
<1> QED BY <1>2, <1>3, <1>4 DEF FormWaits

LEMMA AddTestCaseStep ==
  ASSUME FlightOK, FormInv, AddTestCase
  PROVE  /\ FlightOK' /\ sends' \in {sends, sends + 1} /\ path' = path
         /\ Untouched(PageKinds)
         /\ FormInv'
<1> DEFINE new == Request("add", None)
<1>1. /\ Ready /\ form.ready /\ Send("add", None) /\ form' = [form EXCEPT !.adding = TRUE]
      /\ UNCHANGED <<tests, fields>>
  BY DEF AddTestCase, Ready
<1>2. "add" \in Edits /\ None \in Names
  BY DEF Edits, Names
<1>3. /\ FlightOK' /\ sends' = sends + 1 /\ path' = path /\ path = "edit"
      /\ sends \in Nat /\ form \in Forms
      /\ Untouched(PageKinds)
      /\ flight' = flight \cup {new}
      /\ new.n = sends + 1 /\ new.kind = "add" /\ new.reply # 200
      /\ Listened("add")' = Listened("add") \cup {new}
      /\ \A j \in EditKinds \ {"add"} : Listened(j)' = Listened(j)
      /\ EarlierDone => EarlierDone'
  BY <1>1, <1>2, FormSends
<1> HIDE DEF new
<1>4. Listened("delete")' = Listened("delete") /\ Listened("save")' = Listened("save")
  BY <1>3 DEF EditKinds, Edits
<1>5. /\ form' \in Forms /\ form'.ready = form.ready /\ form'.testCases = form.testCases
      /\ form'.saving = form.saving /\ form'.saved = form.saved /\ form'.exact = form.exact
  BY <1>1, <1>3 DEF Forms
<1>6. \A t \in (form.testCases \cup tests) \cap Nat : t <= sends
  BY <1>3 DEF FormInv, FormTyped
<1>7. FormTyped'
  BY <1>1, <1>3, <1>5, <1>6 DEF FormInv, FormTyped
<1>8. FormWaits'
  BY <1>1, <1>2, <1>3, <1>5, FormWaitsMore DEF FormInv
<1>9. SavesAgree => SavesAgree'
  BY <1>1, <1>4, <1>5 DEF SavesAgree
<1>10. new.n \notin form.testCases
  BY <1>3, <1>6
<1>11. \A q \in Listened("delete") : q.for # new.n
  <2>1. \A q \in Listened("delete") : q.for \in Nat => q.for <= sends
    BY DEF FormInv, FormWaits
  <2> QED BY <1>3, <2>1
<1>12. TestsAgree => TestsAgree'
  <2> SUFFICES ASSUME TestsAgree PROVE TestsAgree'
    OBVIOUS
  <2>1. /\ \A t : Removed(t) => Removed(t)'
        /\ \A t : Added(t) => Added(t)'
    BY <1>3, <1>4 DEF Removed, Added
  <2>2. \A r \in Listened("add")' :
          /\ r.n \notin form'.testCases
          /\ r.reply = 200 => r.n \in tests'
          /\ \A q \in Listened("delete")' : q.for # r.n
    BY <1>1, <1>3, <1>4, <1>5, <1>10, <1>11 DEF TestsAgree
  <2> QED BY <1>1, <1>4, <1>5, <2>1, <2>2 DEF TestsAgree
<1>13. FormShows'
  BY <1>1, <1>3, <1>5, <1>9, <1>12 DEF FormInv, FormShows
<1> QED BY <1>3, <1>7, <1>8, <1>13 DEF FormInv

LEMMA DeleteTestCaseStep ==
  ASSUME FlightOK, FormInv, NEW t, DeleteTestCase(t)
  PROVE  /\ FlightOK' /\ sends' \in {sends, sends + 1} /\ path' = path
         /\ Untouched(PageKinds)
         /\ FormInv'
<1> DEFINE new == Request("delete", t)
<1>1. /\ Ready /\ form.ready /\ Send("delete", t) /\ form' = [form EXCEPT !.deletingId = t]
      /\ UNCHANGED <<tests, fields>> /\ t \in form.testCases
  BY DEF DeleteTestCase, Ready
<1>2. path = "edit" /\ form \in Forms
  BY <1>1 DEF FormInv, FormTyped, Ready
<1>3. "delete" \in Edits /\ t \in Ids /\ t \in Names
  BY <1>1, <1>2 DEF Edits, Names, Forms
<1>4. /\ FlightOK' /\ sends' = sends + 1 /\ path' = path
      /\ sends \in Nat
      /\ Untouched(PageKinds)
      /\ flight' = flight \cup {new}
      /\ new.kind = "delete" /\ new.for = t /\ new.reply # 200
      /\ Listened("delete")' = Listened("delete") \cup {new}
      /\ \A j \in EditKinds \ {"delete"} : Listened(j)' = Listened(j)
      /\ EarlierDone => EarlierDone'
  BY <1>1, <1>3, FormSends
<1> HIDE DEF new
<1>5. Listened("add")' = Listened("add") /\ Listened("save")' = Listened("save")
  BY <1>4 DEF EditKinds, Edits
<1>6. /\ form' \in Forms /\ form'.ready = form.ready /\ form'.testCases = form.testCases
      /\ form'.saving = form.saving /\ form'.saved = form.saved /\ form'.exact = form.exact
  BY <1>1, <1>2, <1>3 DEF Forms
<1>7. \A u \in (form.testCases \cup tests) \cap Nat : u <= sends
  BY <1>2 DEF FormInv, FormTyped
<1>8. FormTyped'
  BY <1>1, <1>2, <1>4, <1>6, <1>7 DEF FormInv, FormTyped
<1>9. FormWaits'
  BY <1>1, <1>2, <1>3, <1>4, <1>6, <1>7, FormWaitsMore DEF FormInv
<1>10. SavesAgree => SavesAgree'
  BY <1>1, <1>5, <1>6 DEF SavesAgree
<1>11. TestsAgree => TestsAgree'
  <2> SUFFICES ASSUME TestsAgree PROVE TestsAgree'
    OBVIOUS
  <2>1. /\ \A u : Removed(u) => Removed(u)'
        /\ \A u : Added(u) => Added(u)'
    BY <1>4, <1>5 DEF Removed, Added
  <2>2. \A r \in Listened("add")' :
          /\ r.n \notin form'.testCases
          /\ r.reply = 200 => r.n \in tests'
          /\ \A q \in Listened("delete")' : q.for # r.n
    BY <1>1, <1>4, <1>5, <1>6 DEF TestsAgree
  <2>3. \A r \in Listened("delete")' :
          r.reply = 200 =>
            /\ r.for \notin tests'
            /\ \A q \in Listened("delete")' : q.reply = 200 /\ q.for = r.for => q = r
    BY <1>1, <1>4 DEF TestsAgree
  <2> QED BY <1>1, <1>6, <2>1, <2>2, <2>3 DEF TestsAgree
<1>12. FormShows'
  BY <1>1, <1>2, <1>4, <1>6, <1>10, <1>11 DEF FormInv, FormShows
<1> QED BY <1>4, <1>8, <1>9, <1>12 DEF FormInv

LEMMA SaveStep ==
  ASSUME FlightOK, FormInv, NEW d \in Drafts, Save(d)
  PROVE  /\ FlightOK' /\ sends' \in {sends, sends + 1} /\ path' = path
         /\ Untouched(PageKinds)
         /\ FormInv'
<1> DEFINE new == Request("save", d)
<1>1. /\ Ready /\ form.ready /\ ~ form.saving /\ Send("save", d)
      /\ form' = [form EXCEPT !.saving = TRUE]
      /\ UNCHANGED <<tests, fields>>
  BY DEF Save, Ready
<1>2. "save" \in Edits /\ d \in Names
  BY DEF Edits, Names
<1>3. /\ FlightOK' /\ sends' = sends + 1 /\ path' = path /\ path = "edit"
      /\ sends \in Nat /\ form \in Forms
      /\ Untouched(PageKinds)
      /\ flight' = flight \cup {new}
      /\ new.kind = "save" /\ new.for = d /\ new.reply # 200
      /\ Listened("save")' = Listened("save") \cup {new}
      /\ \A j \in EditKinds \ {"save"} : Listened(j)' = Listened(j)
      /\ EarlierDone => EarlierDone'
  BY <1>1, <1>2, FormSends
<1> HIDE DEF new
<1>4. Listened("add")' = Listened("add") /\ Listened("delete")' = Listened("delete")
  BY <1>3 DEF EditKinds, Edits
<1>5. /\ form' \in Forms /\ form'.ready = form.ready /\ form'.testCases = form.testCases
      /\ form'.saving /\ form'.saved = form.saved /\ form'.exact = form.exact
  BY <1>1, <1>3 DEF Forms
<1>6. \A u \in (form.testCases \cup tests) \cap Nat : u <= sends
  BY <1>3 DEF FormInv, FormTyped
<1>7. FormTyped'
  BY <1>1, <1>3, <1>5, <1>6 DEF FormInv, FormTyped
<1>8. FormWaits'
  BY <1>1, <1>2, <1>3, <1>5, FormWaitsMore DEF FormInv
<1>9. SavesAgree => SavesAgree'
  <2> SUFFICES ASSUME SavesAgree PROVE SavesAgree'
    OBVIOUS
  <2>1. Listened("save") = {}
    BY <1>1 DEF SavesAgree
  <2> QED BY <1>1, <1>3, <1>5, <2>1 DEF SavesAgree
<1>10. TestsAgree => TestsAgree'
  BY <1>1, <1>4, <1>5 DEF TestsAgree, Removed, Added
<1>11. FormShows'
  BY <1>1, <1>3, <1>5, <1>9, <1>10 DEF FormInv, FormShows
<1> QED BY <1>3, <1>7, <1>8, <1>11 DEF FormInv

\* An edit that is handled: h is r with its reply.
LEMMA HandleFlight ==
  ASSUME FlightOK, NEW r \in flight, r.kind \in Edits, NEW code \in {200, 401, 404, 500},
         flight' = (flight \ {r}) \cup
           (IF r.by = "gone" THEN {} ELSE {[r EXCEPT !.reply = code]}),
         UNCHANGED <<stored, path, sends>>
  PROVE  LET h == [r EXCEPT !.reply = code] IN
         /\ FlightOK'
         /\ Untouched(PageKinds)
         /\ h.n = r.n /\ h.kind = r.kind /\ h.for = r.for /\ h.by = r.by /\ h.reply = code
         /\ flight' \subseteq (flight \ {r}) \cup {h}
         /\ r.by = "page" => flight' = (flight \ {r}) \cup {h}
<1> DEFINE h == [r EXCEPT !.reply = code]
<1>1. r \in Requests
  BY DEF FlightOK
<1>2. /\ h.n = r.n /\ h.kind = r.kind /\ h.for = r.for /\ h.by = r.by /\ h.reply = code
      /\ h \in Requests
  BY <1>1 DEF Requests
<1>3. flight' = (flight \ {r}) \cup (IF r.by = "gone" THEN {} ELSE {h})
  OBVIOUS
<1> HIDE DEF h
<1>4. FlightOK'
  BY <1>2, <1>3 DEF FlightOK, Numbered
<1>5. r.kind \notin PageKinds
  BY DEF PageKinds, Edits
<1>6. Untouched(PageKinds)
  BY <1>2, <1>3, <1>5 DEF Untouched, Alike
<1> QED BY <1>2, <1>3, <1>4, <1>6 DEF h

LEMMA HandledSaves ==
  ASSUME SavesAgree, NEW r, NEW h, NEW code, r.reply # 200, h.reply = code, h.for = r.for,
         r.kind # "save" => Listened("save")' = Listened("save") /\ fields' = fields,
         r.kind = "save" =>
           /\ r \in Listened("save")
           /\ Listened("save")' = (Listened("save") \ {r}) \cup {h}
           /\ fields' = IF code = 200 THEN r.for ELSE fields,
         form' = form
  PROVE  SavesAgree'
<1>1. CASE r.kind # "save"
  BY <1>1 DEF SavesAgree
<1>2. CASE r.kind = "save"
  <2>1. Listened("save") = {r} /\ Listened("save")' = {h} /\ form.saving
    BY <1>2 DEF SavesAgree
  <2>2. form.saved # None => fields = form.saved
    BY <2>1 DEF SavesAgree
  <2> QED BY <1>2, <2>1, <2>2 DEF SavesAgree
<1> QED BY <1>1, <1>2

LEMMA HandledAdd ==
  ASSUME TestsAgree, NEW r, NEW h, NEW code, r.reply # 200, h.reply = code, h.n = r.n,
         r \in Listened("add"), Listened("add")' = (Listened("add") \ {r}) \cup {h},
         Listened("delete")' = Listened("delete"), form' = form,
         tests' = IF code = 200 THEN tests \cup {r.n} ELSE tests
  PROVE  TestsAgree'
<1>1. \A q \in Listened("delete") : q.for # r.n
  BY DEF TestsAgree
<1>2. \A q \in Listened("add")' :
        /\ q.n \notin form'.testCases
        /\ q.reply = 200 => q.n \in tests'
        /\ \A d \in Listened("delete")' : d.for # q.n
  BY DEF TestsAgree
<1>3. \A q \in Listened("delete")' :
        q.reply = 200 =>
          /\ q.for \notin tests'
          /\ \A d \in Listened("delete")' : d.reply = 200 /\ d.for = q.for => d = q
  BY <1>1 DEF TestsAgree
<1>4. /\ \A t : Removed(t) => Removed(t)'
      /\ \A t : Added(t) => Added(t)'
      /\ code = 200 => Added(r.n)'
  BY DEF Removed, Added
<1> QED BY <1>2, <1>3, <1>4 DEF TestsAgree

LEMMA HandledDelete ==
  ASSUME TestsAgree, NEW r, NEW h, NEW code, r.reply # 200, h.reply = code, h.for = r.for,
         r \in Listened("delete"), Listened("delete")' = (Listened("delete") \ {r}) \cup {h},
         Listened("add")' = Listened("add"), form' = form,
         \/ code = 200 /\ r.for \in tests /\ tests' = tests \ {r.for}
         \/ code # 200 /\ tests' = tests
  PROVE  TestsAgree'
<1>1. \A q \in Listened("add") : q.n # r.for
  BY DEF TestsAgree
<1>2. \A q \in Listened("add")' :
        /\ q.n \notin form'.testCases
        /\ q.reply = 200 => q.n \in tests'
        /\ \A d \in Listened("delete")' : d.for # q.n
  BY <1>1 DEF TestsAgree
<1>3. \A q \in Listened("delete") : q.reply = 200 => q.for \notin tests
  BY DEF TestsAgree
<1>4. \A q \in Listened("delete")' :
        q.reply = 200 =>
          /\ q.for \notin tests'
          /\ \A d \in Listened("delete")' : d.reply = 200 /\ d.for = q.for => d = q
  BY <1>3 DEF TestsAgree
<1>5. /\ \A t : Removed(t) => Removed(t)'
      /\ \A t : Added(t) => Added(t)'
      /\ code = 200 => Removed(r.for)'
  BY DEF Removed, Added
<1> QED BY <1>2, <1>4, <1>5 DEF TestsAgree

LEMMA FormHandles ==
  ASSUME FlightOK, FormInv, NEW r \in flight, r.kind \in Edits, r.reply = None,
         NEW code \in {200, 401, 404, 500},
         flight' = (flight \ {r}) \cup
           (IF r.by = "gone" THEN {} ELSE {[r EXCEPT !.reply = code]}),
         UNCHANGED <<stored, path, sends, form>>,
         tests' = CASE r.kind = "add" /\ code = 200 -> tests \cup {r.n}
                    [] r.kind = "delete" /\ code = 200 -> tests \ {r.for}
                    [] OTHER -> tests,
         r.kind = "delete" /\ code = 200 => r.for \in tests,
         fields' = IF r.kind = "save" /\ code = 200 THEN r.for ELSE fields
  PROVE  FormInv'
<1> DEFINE h == [r EXCEPT !.reply = code]
<1>1. /\ FlightOK'
      /\ h.n = r.n /\ h.kind = r.kind /\ h.for = r.for /\ h.by = r.by /\ h.reply = code
      /\ flight' \subseteq (flight \ {r}) \cup {h}
      /\ r.by = "page" => flight' = (flight \ {r}) \cup {h}
  BY HandleFlight
<1> HIDE DEF h
<1>2. r \in Requests /\ r.n \in Nat /\ r.n <= sends /\ sends \in Nat
  BY DEF FlightOK, Requests
<1>3. /\ "open" \notin Edits /\ Edits \subseteq EditKinds
      /\ Edits = {"add", "delete", "save"}
  BY DEF EditKinds, Edits
<1>4. FormTyped'
  <2>1. tests' \subseteq Ids /\ \A t \in tests' \cap Nat : t <= sends
    BY <1>2 DEF FormInv, FormTyped, Ids
  <2>2. fields' \in Drafts
    BY DEF FormInv, FormTyped, FormWaits
  <2> QED BY <2>1, <2>2 DEF FormInv, FormTyped
<1>5. FormWaits'
  <2>1. \A x \in flight' : \E q \in flight :
          x.kind = q.kind /\ x.by = q.by /\ x.for = q.for /\ (x.kind = "open" => x = q)
    BY <1>1, <1>3
  <2>2. Listened("open")' \subseteq Listened("open")
    BY <1>1, <1>3 DEF Listened
  <2>3. \A x \in Listened("delete")' : \E q \in Listened("delete") : x.for = q.for
    BY <2>1 DEF Listened
  <2>4. \A x \in Listened("delete")' : x.for \in Ids /\ (x.for \in Nat => x.for <= sends')
    BY <2>3 DEF FormInv, FormWaits
  <2> QED BY <2>1, <2>2, <2>4 DEF FormInv, FormWaits
<1>6. ASSUME path = "edit", form.exact, EarlierDone, SavesAgree,
             form.ready => TestsAgree
      PROVE  EarlierDone' /\ SavesAgree' /\ (form.ready => TestsAgree')
  <2>1. r.by = "page"
    BY <1>6 DEF EarlierDone, Pending
  <2>2. flight' = (flight \ {r}) \cup {h} /\ r.reply # 200
    BY <1>1, <2>1, EditAssumption
  <2>3. EarlierDone'
    BY <1>1, <1>6, <2>1, <2>2 DEF EarlierDone, Pending
  <2>4. \A k \in Edits :
          Listened(k)' = IF k = r.kind THEN (Listened(k) \ {r}) \cup {h} ELSE Listened(k)
    BY <1>1, <2>1, <2>2 DEF Listened
  <2>5. r \in Listened(r.kind)
    BY <2>1 DEF Listened
  <2>6. /\ Listened("add")' =
             IF r.kind = "add" THEN (Listened("add") \ {r}) \cup {h} ELSE Listened("add")
        /\ Listened("delete")' =
             IF r.kind = "delete" THEN (Listened("delete") \ {r}) \cup {h} ELSE Listened("delete")
        /\ Listened("save")' =
             IF r.kind = "save" THEN (Listened("save") \ {r}) \cup {h} ELSE Listened("save")
    BY <1>3, <2>4
  <2>7. SavesAgree'
    BY <1>1, <1>6, <2>2, <2>5, <2>6, HandledSaves
  <2>8. ASSUME form.ready PROVE TestsAgree'
    <3>1. CASE r.kind = "add"
      BY <1>1, <1>6, <2>2, <2>5, <2>6, <2>8, <3>1, HandledAdd
    <3>2. CASE r.kind = "delete"
      BY <1>1, <1>6, <2>2, <2>5, <2>6, <2>8, <3>2, HandledDelete
    <3>3. CASE r.kind = "save"
      BY <1>6, <2>6, <2>8, <3>3 DEF TestsAgree, Removed, Added
    <3> QED BY <1>3, <3>1, <3>2, <3>3
  <2> QED BY <2>3, <2>7, <2>8
<1>7. FormShows'
  BY <1>6 DEF FormInv, FormShows
<1> QED BY <1>4, <1>5, <1>7 DEF FormInv

LEMMA HandleStep ==
  ASSUME FlightOK, FormInv, NEW r \in flight, Handle(r)
  PROVE  /\ FlightOK' /\ sends' \in {sends, sends + 1} /\ path' = path
         /\ Untouched(PageKinds)
         /\ FormInv'
<1> DEFINE Becomes(code) ==
             flight' = (flight \ {r}) \cup
               (IF r.by = "gone" THEN {} ELSE {[r EXCEPT !.reply = code]})
<1>1. r.kind \in Edits /\ r.reply = None /\ UNCHANGED <<stored, path, sends, form>>
  BY DEF Handle, Pending
<1>2. PICK code \in {200, 401, 404, 500} :
        /\ Becomes(code)
        /\ tests' = CASE r.kind = "add" /\ code = 200 -> tests \cup {r.n}
                      [] r.kind = "delete" /\ code = 200 -> tests \ {r.for}
                      [] OTHER -> tests
        /\ r.kind = "delete" /\ code = 200 => r.for \in tests
        /\ fields' = IF r.kind = "save" /\ code = 200 THEN r.for ELSE fields
  <2>1. CASE /\ Becomes(IF r.kind = "delete" /\ r.for \notin tests THEN 404 ELSE 200)
             /\ tests' = CASE r.kind = "add" -> tests \cup {r.n}
                           [] r.kind = "delete" -> tests \ {r.for}
                           [] OTHER -> tests
             /\ fields' = IF r.kind = "save" THEN r.for ELSE fields
    <3>1. CASE r.kind = "delete" /\ r.for \notin tests
      BY <2>1, <3>1
    <3>2. CASE ~ (r.kind = "delete" /\ r.for \notin tests)
      BY <2>1, <3>2
    <3> QED BY <3>1, <3>2
  <2>2. CASE \E code \in {401, 500} : Becomes(code) /\ UNCHANGED <<tests, fields>>
    BY <2>2
  <2> QED BY <2>1, <2>2 DEF Handle
<1>3. FlightOK' /\ Untouched(PageKinds)
  BY <1>1, <1>2, HandleFlight
<1>4. FormInv'
  BY <1>1, <1>2, FormHandles
<1> QED BY <1>1, <1>3, <1>4

\* What a handler makes of the form.
LEMMA IdleIs ==
  ASSUME form \in Forms, NEW r, r.kind \in Edits
  PROVE  /\ Idle(r) \in Forms
         /\ Idle(r).ready = form.ready /\ Idle(r).testCases = form.testCases
         /\ Idle(r).saved = form.saved /\ Idle(r).exact = form.exact
         /\ r.kind # "save" => Idle(r).saving = form.saving
<1>1. None \in Names
  BY DEF Names
<1>2. CASE r.kind = "add"
  BY <1>2 DEF Idle, Forms
<1>3. CASE r.kind = "save"
  BY <1>3 DEF Idle, Forms
<1>4. CASE r.kind = "delete"
  BY <1>1, <1>4 DEF Idle, Forms
<1> QED BY <1>2, <1>3, <1>4 DEF Edits

LEMMA UpdatedIs ==
  ASSUME form \in Forms, NEW r, r.kind \in Edits, r.n \in Nat, r.for \in Names
  PROVE  /\ Updated(r) \in Forms
         /\ Updated(r).ready = form.ready /\ Updated(r).exact = form.exact
         /\ Updated(r).testCases =
              CASE r.kind = "add" -> form.testCases \cup {r.n}
                [] r.kind = "delete" -> form.testCases \ {r.for}
                [] OTHER -> form.testCases
         /\ Updated(r).saved = IF r.kind = "save" THEN r.for ELSE form.saved
         /\ r.kind # "save" => Updated(r).saving = form.saving
<1> DEFINE i == Idle(r)
<1>1. /\ i \in Forms
      /\ i.ready = form.ready /\ i.testCases = form.testCases
      /\ i.saved = form.saved /\ i.exact = form.exact
      /\ r.kind # "save" => i.saving = form.saving
  BY IdleIs
<1>2. /\ r.kind = "add" => Updated(r) = [i EXCEPT !.testCases = @ \cup {r.n}]
      /\ r.kind = "save" => Updated(r) = [i EXCEPT !.saved = r.for]
      /\ r.kind = "delete" => Updated(r) = [i EXCEPT !.testCases = @ \ {r.for}]
  BY DEF Updated
<1> HIDE DEF i
<1>3. CASE r.kind = "add"
  BY <1>1, <1>2, <1>3 DEF Forms, Ids
<1>4. CASE r.kind = "save"
  BY <1>1, <1>2, <1>4 DEF Forms
<1>5. CASE r.kind = "delete"
  BY <1>1, <1>2, <1>5 DEF Forms
<1> QED BY <1>3, <1>4, <1>5 DEF Edits

\* The answer that the form waits for, or the error instead of it.
LEMMA FormWaitsLess ==
  ASSUME FormInv, NEW r \in flight, r.by = "page", r.kind \in Edits,
         flight' \subseteq (flight \ {r}) \cup {[r EXCEPT !.by = "gone"]}, r \in Requests,
         UNCHANGED <<path, sends>>, form'.ready = form.ready
  PROVE  FormWaits'
<1> DEFINE g == [r EXCEPT !.by = "gone"]
<1>1. g.by # "page" /\ g.kind = r.kind /\ g.for = r.for
  BY DEF Requests
<1>2. flight' \subseteq (flight \ {r}) \cup {g}
  OBVIOUS
<1> HIDE DEF g
<1>3. \A k : Listened(k)' \subseteq Listened(k)
  BY <1>1, <1>2 DEF Listened
<1>4. \A x \in flight' : x.by = "page" => x \in flight
  BY <1>1, <1>2
<1>5. \A x \in flight' : x.kind = "save" => x.for \in Drafts
  BY <1>1, <1>2 DEF FormInv, FormWaits
<1> QED BY <1>3, <1>4, <1>5 DEF FormInv, FormWaits

LEMMA AnsweredAdd ==
  ASSUME FlightOK, TestsAgree, NEW r \in Listened("add"),
         Listened("add")' = Listened("add") \ {r},
         Listened("delete")' = Listened("delete"), tests' = tests,
         form'.testCases = IF r.reply = 200 THEN form.testCases \cup {r.n} ELSE form.testCases
  PROVE  TestsAgree'
<1>1. \A q \in Listened("add")' : q.n # r.n
  BY DEF FlightOK, Numbered, Listened
<1>2. \A q \in Listened("add")' :
        /\ q.n \notin form'.testCases
        /\ q.reply = 200 => q.n \in tests'
        /\ \A d \in Listened("delete")' : d.for # q.n
  BY <1>1 DEF TestsAgree
<1>3. /\ \A t : Removed(t) => Removed(t)'
      /\ \A t : Added(t) => Added(t)' \/ (r.reply = 200 /\ t = r.n)
  BY DEF Removed, Added
<1> QED BY <1>2, <1>3 DEF TestsAgree

LEMMA AnsweredDelete ==
  ASSUME TestsAgree, NEW r \in Listened("delete"),
         Listened("delete")' = Listened("delete") \ {r},
         Listened("add")' = Listened("add"), tests' = tests,
         form'.testCases = IF r.reply = 200 THEN form.testCases \ {r.for} ELSE form.testCases
  PROVE  TestsAgree'
<1>1. r.reply = 200 => r.for \notin tests
  BY DEF TestsAgree
<1>2. \A q \in Listened("add")' :
        /\ q.n \notin form'.testCases
        /\ q.reply = 200 => q.n \in tests'
        /\ \A d \in Listened("delete")' : d.for # q.n
  BY DEF TestsAgree
<1>3. /\ \A t : Removed(t) => Removed(t)' \/ (r.reply = 200 /\ t = r.for)
      /\ \A t : Added(t) => Added(t)'
  BY DEF Removed, Added
<1> QED BY <1>1, <1>2, <1>3 DEF TestsAgree

LEMMA FormAnswers ==
  ASSUME FlightOK, FormInv, NEW r \in flight, r.by = "page", r.kind \in Edits,
         flight' = flight \ {r}, UNCHANGED <<path, sends, tests, fields>>,
         form' = IF r.reply = 200 THEN Updated(r) ELSE Idle(r)
  PROVE  FormInv'
<1>1. r \in Requests /\ r.n \in Nat /\ r.for \in Names /\ r.n <= sends /\ sends \in Nat
  BY DEF FlightOK, Requests
<1>2. path = "edit" /\ form \in Forms /\ form.ready
  BY DEF FormInv, FormTyped, FormWaits, EditKinds
<1>3. /\ form' \in Forms /\ form'.ready = form.ready /\ form'.exact = form.exact
      /\ form'.testCases =
           CASE r.kind = "add" /\ r.reply = 200 -> form.testCases \cup {r.n}
             [] r.kind = "delete" /\ r.reply = 200 -> form.testCases \ {r.for}
             [] OTHER -> form.testCases
      /\ form'.saved = IF r.kind = "save" /\ r.reply = 200 THEN r.for ELSE form.saved
      /\ r.kind # "save" => form'.saving = form.saving
  <2>1. CASE r.reply = 200
    BY <1>1, <1>2, <2>1, UpdatedIs
  <2>2. CASE r.reply # 200
    BY <1>2, <2>2, IdleIs
  <2> QED BY <2>1, <2>2
<1>4. FormTyped'
  <2>1. \A t \in form'.testCases \cap Nat : t <= sends
    BY <1>1, <1>2, <1>3 DEF FormInv, FormTyped
  <2> QED BY <1>2, <1>3, <2>1 DEF FormInv, FormTyped
<1>5. FormWaits'
  BY <1>1, <1>3, FormWaitsLess
<1>6. /\ r \in Listened(r.kind)
      /\ \A k : Listened(k)' = Listened(k) \ {r}
      /\ \A k : k # r.kind => r \notin Listened(k)
  BY DEF Listened
<1>7. EarlierDone => EarlierDone'
  BY DEF EarlierDone, Pending
<1>8. ASSUME SavesAgree PROVE SavesAgree'
  <2>1. CASE r.kind = "save"
    <3>1. Listened("save") = {r} /\ Listened("save")' = {}
      BY <1>6, <1>8, <2>1 DEF SavesAgree
    <3> QED BY <1>3, <1>8, <2>1, <3>1 DEF SavesAgree
  <2>2. CASE r.kind # "save"
    <3>1. Listened("save")' = Listened("save")
      BY <1>6, <2>2
    <3> QED BY <1>3, <1>8, <2>2, <3>1 DEF SavesAgree
  <2> QED BY <2>1, <2>2
<1>9. ASSUME TestsAgree PROVE TestsAgree'
  <2>1. CASE r.kind = "add"
    BY <1>3, <1>6, <1>9, <2>1, AnsweredAdd
  <2>2. CASE r.kind = "delete"
    BY <1>3, <1>6, <1>9, <2>2, AnsweredDelete
  <2>3. CASE r.kind = "save"
    <3>1. Listened("add")' = Listened("add") /\ Listened("delete")' = Listened("delete")
      BY <1>6, <2>3
    <3> QED BY <1>3, <1>9, <2>3, <3>1 DEF TestsAgree, Removed, Added
  <2> QED BY <2>1, <2>2, <2>3 DEF Edits
<1>10. FormShows'
  BY <1>2, <1>3, <1>7, <1>8, <1>9 DEF FormInv, FormShows
<1> QED BY <1>4, <1>5, <1>10 DEF FormInv

LEMMA EditAnsweredStep ==
  ASSUME FlightOK, FormInv, NEW r \in flight, EditAnswered(r)
  PROVE  /\ FlightOK' /\ sends' \in {sends, sends + 1} /\ path' \in {path, "login"}
         /\ Untouched(PageKinds)
         /\ FormInv'
<1>1. r.kind \in Edits /\ UNCHANGED <<tests, fields>>
  BY DEF EditAnswered, Pending
<1>2. r.kind \notin PageKinds
  BY <1>1 DEF PageKinds, Edits
<1>3. CASE Expelled(r) /\ form' = None
  BY <1>1, <1>3, FormExpelled
<1>4. CASE /\ Settle(r, path) /\ stored' \in Tokens
           /\ form' = Answer(r, IF r.reply = 200 THEN Updated(r) ELSE Idle(r))
  <2>1. FlightOK' /\ sends' = sends /\ path' = path /\ flight' = flight \ {r}
    BY <1>4, SettleStep
  <2>2. Untouched(PageKinds)
    BY <1>2, <1>4, SettleUntouched
  <2>3. r.by = "page" => FormInv'
    BY <1>1, <1>4, <2>1, FormAnswers DEF Answer
  <2>4. r.by # "page" => FormInv'
    BY <1>1, <1>4, <2>1, FormIgnores DEF Answer
  <2> QED BY <2>1, <2>2, <2>3, <2>4
<1>5. Failed(r) \/ Unauthorized(r) => Settle(r, path) /\ stored' \in Tokens
  BY DEF Failed, Unauthorized, FlightOK, Tokens
<1>6. \/ r.reply = 200 /\ Failed(r) /\ form' = Answer(r, Updated(r))
      \/ Expelled(r) /\ form' = None
      \/ r.reply # 200 /\ (Failed(r) \/ Unauthorized(r)) /\ form' = Answer(r, Idle(r))
  BY DEF EditAnswered
<1> QED BY <1>3, <1>4, <1>5, <1>6

LEMMA EditLostStep ==
  ASSUME FlightOK, FormInv, NEW r \in flight, EditLost(r)
  PROVE  /\ FlightOK' /\ sends' \in {sends, sends + 1} /\ path' = path
         /\ Untouched(PageKinds)
         /\ FormInv'
<1> DEFINE g == [r EXCEPT !.by = "gone"]
<1>1. /\ r.kind \in Edits /\ UNCHANGED <<stored, path, sends, tests, fields>>
      /\ \/ flight' = flight \ {r}
         \/ r.reply = None /\ flight' = (flight \ {r}) \cup {g}
      /\ form' = Answer(r, [Idle(r) EXCEPT !.exact = FALSE])
  BY DEF EditLost, Pending
<1>2. r \in Requests
  BY DEF FlightOK
<1>3. g \in Requests /\ Alike(g, r) /\ g.by # "page"
  BY <1>2 DEF Requests, Alike
<1>4. flight' \subseteq (flight \ {r}) \cup {g}
  BY <1>1
<1> HIDE DEF g
<1>5. FlightOK'
  BY <1>1, <1>3, <1>4 DEF FlightOK, Numbered, Alike
<1>6. r.kind \notin PageKinds
  BY <1>1 DEF PageKinds, Edits
<1>7. Untouched(PageKinds)
  BY <1>1, <1>3, <1>6 DEF Untouched, Alike
<1>8. ASSUME r.by = "page" PROVE FormInv'
  <2>1. path = "edit" /\ form \in Forms
    BY <1>1, <1>8 DEF FormInv, FormTyped, FormWaits, EditKinds
  <2>2. form' = [Idle(r) EXCEPT !.exact = FALSE]
    BY <1>1, <1>8 DEF Answer
  <2>3. /\ Idle(r) \in Forms
        /\ Idle(r).ready = form.ready /\ Idle(r).testCases = form.testCases
    BY <1>1, <2>1, IdleIs
  <2>4. /\ form' \in Forms /\ form'.ready = form.ready
        /\ form'.testCases = form.testCases /\ ~ form'.exact
    BY <2>2, <2>3 DEF Forms
  <2>5. FormTyped'
    BY <1>1, <2>1, <2>4 DEF FormInv, FormTyped
  <2>6. FormWaits'
    BY <1>1, <1>2, <1>4, <1>8, <2>4, FormWaitsLess DEF g
  <2> QED BY <2>4, <2>5, <2>6 DEF FormInv, FormShows
<1>9. ASSUME r.by # "page" PROVE FormInv'
  <2>1. form' = form
    BY <1>1, <1>9 DEF Answer
  <2>2. \A x \in flight \cup flight' : x.by = "page" => (x \in flight <=> x \in flight')
    BY <1>1, <1>3, <1>9
  <2>3. EarlierDone => EarlierDone'
    BY <1>1, <1>9 DEF EarlierDone, Pending
  <2>4. \A x \in flight' : x.kind = "save" => x.for \in Drafts
    BY <1>3, <1>4 DEF FormInv, FormWaits, Alike
  <2> QED BY <1>1, <2>1, <2>2, <2>3, <2>4, FormFrame
<1> QED BY <1>1, <1>5, <1>7, <1>8, <1>9

LEMMA EditStep ==
  ASSUME FlightOK, FormInv, EditNext
  PROVE  /\ FlightOK'
         /\ path' = "problem" => path' = path
         /\ Untouched(PageKinds)
         /\ FormInv'
<1>1. ASSUME NEW r \in flight, OpenAnswered(r) \/ Handle(r) \/ EditAnswered(r) \/ EditLost(r)
      PROVE  /\ FlightOK' /\ path' \in {path, "login"}
             /\ Untouched(PageKinds)
             /\ FormInv'
  BY <1>1, OpenAnsweredStep, HandleStep, EditAnsweredStep, EditLostStep
<1> QED BY <1>1, OpenEditStep, AddTestCaseStep, DeleteTestCaseStep, SaveStep DEF EditNext

-----------------------------------------------------------------------------
(* The invariant.                                                          *)

LEMMA InitIInv == BrowserInit => IInv
<1> SUFFICES ASSUME BrowserInit PROVE IInv
  OBVIOUS
<1>1. Init /\ page = None /\ EditInit /\ path \in {"home", "login"}
  BY DEF BrowserInit, Init
<1>2. sends \in Nat /\ stored \in Tokens
  BY <1>1 DEF Init, Token, Tokens, Names
<1>3. \A r \in flight : /\ r \in Requests /\ r.n = 1 /\ sends = 1
                        /\ r.kind = "me" /\ flight = {r}
  <2>1. CASE ~ loading
    BY <1>1, <2>1 DEF Init
  <2>2. CASE loading
    <3> DEFINE new == Request("me", None)
    <3>1. sends = 1 /\ flight = {[new EXCEPT !.n = 1]}
      BY <1>1, <2>2 DEF Init
    <3>2. new = [n |-> sends + 1, kind |-> "me", for |-> None, token |-> stored,
                 reply |-> None, by |-> "page"]
      BY DEF Request
    <3>3. [new EXCEPT !.n = 1] =
            [n |-> 1, kind |-> "me", for |-> None, token |-> stored, reply |-> None,
             by |-> "page"]
      BY <3>2
    <3>4. [new EXCEPT !.n = 1] \in Requests /\ [new EXCEPT !.n = 1].kind = "me"
          /\ [new EXCEPT !.n = 1].n = 1
      BY <1>2, <3>3 DEF Requests, Kinds, Names
    <3> QED BY <3>1, <3>4
  <2> QED BY <1>1, <2>1, <2>2 DEF Init
<1>4. FlightOK
  BY <1>2, <1>3 DEF FlightOK, Numbered
<1>5. PageInv
  BY <1>1, <1>3, KindsApart DEF PageInv, PageTyped, PageWaits, PageShows
<1>6. FormTyped
  BY <1>1, EditAssumption DEF EditInit, FormTyped, Ids
<1>7. FormWaits
  BY <1>3, KindsApart DEF FormWaits, Listened, EditKinds, Edits
<1> QED BY <1>1, <1>4, <1>5, <1>6, <1>7 DEF IInv, FormInv, FormShows

LEMMA NextIInv == IInv /\ [Next]_vars => IInv'
<1> SUFFICES ASSUME IInv, [Next]_vars PROVE IInv'
  OBVIOUS
<1>1. FlightOK /\ PageInv /\ FormInv
  BY DEF IInv
<1>2. CASE /\ SessionNext \/ \E p \in {"home", "login", "profile"} : Navigate(p)
           /\ PageStays
           /\ FormStays
  <2>1. Elsewhere
    BY <1>1, <1>2, SessionStep
  <2>2. PageInv'
    BY <1>1, <1>2, <2>1, PageKept DEF Elsewhere
  <2>3. FormInv'
    BY <1>1, <1>2, <2>1, FormKept DEF Elsewhere
  <2> QED BY <2>1, <2>2, <2>3 DEF Elsewhere, IInv
<1>3. CASE PageNext /\ FormStays
  <2>1. /\ FlightOK' /\ sends' \in {sends, sends + 1}
        /\ Untouched(EditKinds)
        /\ path' = "edit" => path' = path
        /\ PageInv'
    BY <1>1, <1>3, PageStep
  <2>2. FormInv'
    BY <1>1, <1>3, <2>1, FormKept
  <2> QED BY <2>1, <2>2 DEF IInv
<1>4. CASE EditNext /\ PageStays
  <2>1. /\ FlightOK'
        /\ path' = "problem" => path' = path
        /\ Untouched(PageKinds)
        /\ FormInv'
    BY <1>1, <1>4, EditStep
  <2>2. PageInv'
    BY <1>1, <1>4, <2>1, PageKept
  <2> QED BY <2>1, <2>2 DEF IInv
<1>5. CASE UNCHANGED vars
  <2>1. UNCHANGED <<stored, path, flight, sends, page, form, tests, fields>>
    BY <1>5 DEF vars, sessionVars, editVars
  <2>2. FlightOK'
    BY <1>1, <2>1 DEF FlightOK, Numbered
  <2>3. PageInv'
    BY <1>1, <2>1 DEF PageInv, PageTyped, PageWaits, PageShows, Flag
  <2>4. FormInv'
    <3>1. EarlierDone => EarlierDone'
      BY <2>1 DEF EarlierDone, Pending
    <3>2. \A x \in flight' : x.kind = "save" => x.for \in Drafts
      BY <1>1, <2>1 DEF FormInv, FormWaits
    <3> QED BY <1>1, <2>1, <3>1, <3>2, FormFrame
  <2> QED BY <2>2, <2>3, <2>4 DEF IInv
<1> QED BY <1>2, <1>3, <1>4, <1>5 DEF Next

\* However the answers of a tab are delayed, reordered and lost, it keeps the
\* inductive invariant: requests are told apart by their numbers, each page waits
\* for those of its own last clicks, and the form differs from what is stored by
\* the answers that are still to come (client.js, ProblemDetail, AdminEditProblem).
THEOREM Invariance == Spec => []IInv
<1>1. BrowserInit => IInv
  BY InitIInv
<1>2. IInv /\ [Next]_vars => IInv'
  BY NextIInv
<1> QED BY <1>1, <1>2, PTL DEF Spec

\* ProblemDetail: a verdict on display is that of the last click on this page, and
\* no old one stands there while a new one is awaited.
THEOREM VerdictIsLatest == Spec => []VerdictOfLastClick
<1>1. IInv => VerdictOfLastClick
  BY DEF IInv, PageInv, PageTyped, PageShows, VerdictOfLastClick
<1> QED BY <1>1, Invariance, PTL

\* AdminEditProblem: once every edit is answered, the list and the fields saved are
\* those that are stored, with any number of additions, deletions and saves
\* overlapping in any order.
THEOREM EditsConverge == Spec => []PageShowsStored
<1>1. ASSUME IInv, Ready, form.exact, Pending = {}
      PROVE  form.testCases = tests /\ (form.saved # None => fields = form.saved)
  <2>1. path = "edit" /\ form \in Forms /\ SavesAgree /\ TestsAgree
    BY <1>1 DEF IInv, FormInv, FormTyped, FormShows, Ready
  <2>2. \A k \in Edits : Listened(k) = {}
    BY <1>1 DEF Listened, Pending
  <2>3. Listened("add") = {} /\ Listened("delete") = {} /\ Listened("save") = {}
    BY <2>2 DEF Edits
  <2>4. \A t : t \in form.testCases <=> t \in tests
    BY <2>1, <2>3 DEF TestsAgree, Removed, Added
  <2>5. form.saved # None => fields = form.saved
    BY <2>1, <2>3 DEF SavesAgree
  <2> QED BY <2>1, <2>4, <2>5 DEF Forms, FormTyped
<1>2. IInv => PageShowsStored
  BY <1>1 DEF PageShowsStored
<1> QED BY <1>2, Invariance, PTL

-----------------------------------------------------------------------------
(* The user shown and the token sent.                                      *)

\* A step that cannot part them.
Harmless == UNCHANGED <<user, stored>> \/ user' = None \/ stored' = None

\* The answer that can.
Late(r) ==
  (\A x \in flight' : x.n # r.n) /\ r.kind \in {"me", "profile"} /\ r.token # stored

LEMMA FailureHarmless ==
  ASSUME NEW r, Expelled(r) \/ Unauthorized(r) \/ Failed(r)
  PROVE  Harmless
BY DEF Expelled, Unauthorized, Failed, Harmless

\* requireAuth let r pass, and updateUser or the start-up effect shows its account.
LEMMA OwnerShown ==
  ASSUME FlightOK, NEW r \in flight, r.kind \in {"me", "profile"}, NEW p, Settle(r, p),
         user' = r.token.owner, stored' = stored, Impersonates'
  PROVE  Late(r)
<1>1. \A x \in flight' : x.n # r.n
  BY SettleStep DEF FlightOK
<1>2. r.token # stored
  BY DEF Impersonates
<1> QED BY <1>1, <1>2 DEF Late

LEMMA SessionActs ==
  ASSUME FlightOK, SessionNext, Impersonates'
  PROVE  Harmless \/ \E r \in flight : Late(r)
<1>1. ASSUME NEW r \in flight, MeAnswered(r)
      PROVE  Harmless \/ Late(r)
  <2>1. r.kind \in {"me", "profile"}
    BY <1>1 DEF MeAnswered
  <2>2. CASE /\ user' = r.token.owner
             /\ Settle(r, Route(path, user'))
             /\ stored' = stored
    BY <2>1, <2>2, OwnerShown
  <2>3. CASE stored' = None
    BY <2>3 DEF Harmless
  <2> QED BY <1>1, <2>2, <2>3, FailureHarmless DEF MeAnswered
<1>2. ASSUME NEW r \in flight, LoginAnswered(r)
      PROVE  Harmless
  <2>1. CASE stored' = Token(r.for, r.n) /\ user' = r.for
    BY <2>1 DEF Impersonates, Token
  <2> QED BY <1>2, <2>1, FailureHarmless DEF LoginAnswered
<1>3. ASSUME NEW r \in flight, ProfileAnswered(r)
      PROVE  Harmless \/ Late(r)
  <2>1. r.kind \in {"me", "profile"}
    BY <1>3 DEF ProfileAnswered
  <2>2. CASE /\ user' = r.token.owner
             /\ Settle(r, Route(path, user'))
             /\ stored' = stored
    BY <2>1, <2>2, OwnerShown
  <2> QED BY <1>3, <2>2, FailureHarmless DEF ProfileAnswered
<1>4. CASE SaveProfile \/ \E a \in Accounts : Login(a)
  BY <1>4 DEF SaveProfile, Login, Send, SendFrom, Harmless
<1>5. CASE Logout \/ Expire \/ \E p \in {"home", "login"} : Refresh(p)
  BY <1>5 DEF Logout, Expire, Refresh, Harmless
<1> QED BY <1>1, <1>2, <1>3, <1>4, <1>5 DEF SessionNext

LEMMA PageActs == PageNext => Harmless
<1>1. ASSUME NEW r \in flight, LoadAnswered(r) \/ ExecutionAnswered(r)
      PROVE  Harmless
  BY <1>1, FailureHarmless DEF LoadAnswered, ExecutionAnswered
<1>2. ASSUME NEW s, OpenProblem(s) \/ ChangeSlug(s) \/ Click(s)
      PROVE  Harmless
  BY <1>2 DEF OpenProblem, ChangeSlug, Click, Send, SendFrom, Harmless
<1> QED BY <1>1, <1>2 DEF PageNext

LEMMA EditActs == EditNext => Harmless
<1>1. ASSUME NEW r \in flight, OpenAnswered(r) \/ EditAnswered(r)
      PROVE  Harmless
  BY <1>1, FailureHarmless DEF OpenAnswered, EditAnswered
<1>2. ASSUME NEW r \in flight, Handle(r) \/ EditLost(r)
      PROVE  Harmless
  BY <1>2 DEF Handle, EditLost, Harmless
<1>3. ASSUME NEW t, DeleteTestCase(t) \/ Save(t)
      PROVE  Harmless
  BY <1>3 DEF DeleteTestCase, Save, Send, SendFrom, Harmless
<1>4. CASE OpenEdit \/ AddTestCase
  BY <1>4 DEF OpenEdit, AddTestCase, Send, SendFrom, Harmless
<1> QED BY <1>1, <1>2, <1>3, <1>4 DEF EditNext

\* AuthContext and client.js: only the late answer to a start-up request or a change
\* of profile, sent under an earlier token, makes the page show one account and act
\* as another, whatever else happens in the tab.
THEOREM UserFollowsToken == Spec => ActsAsShown
<1> DEFINE Acts ==
      Impersonates' => Impersonates \/
        \E r \in flight : /\ \A x \in flight' : x.n # r.n
                         /\ r.kind \in {"me", "profile"} /\ r.token # stored
<1>1. ASSUME IInv, Next PROVE Acts
  <2> SUFFICES ASSUME Impersonates' PROVE Impersonates \/ \E r \in flight : Late(r)
    BY DEF Late
  <2>1. FlightOK
    BY <1>1 DEF IInv
  <2>2. ASSUME NEW p, Navigate(p) PROVE Harmless
    BY <2>2 DEF Navigate, Harmless
  <2>3. Harmless \/ \E r \in flight : Late(r)
    BY <1>1, <2>1, <2>2, SessionActs, PageActs, EditActs DEF Next
  <2>4. Harmless => Impersonates
    BY DEF Harmless, Impersonates
  <2> QED BY <2>3, <2>4
<1>2. IInv /\ [Next]_vars => [Acts]_sessionVars
  BY <1>1 DEF vars
<1> QED BY <1>2, Invariance, PTL DEF Spec, ActsAsShown

-----------------------------------------------------------------------------
(* Nothing on a page waits for an answer that will not come.               *)

\* A request of kind k whose answer a mounted component handles.
Awaited(k) == \E r \in flight : r.by = "page" /\ r.kind = k

(***************************************************************************)
(* Whatever the tab shows as under way (the start-up, a run, a submission, *)
(* the form that loads or an edit of it) has its request in flight: no     *)
(* answer, 401, change of route or reload, in whatever order, leaves a     *)
(* spinner or a disabled button behind.                                    *)
(***************************************************************************)
NoSpinnerLeft ==
  /\ loading => \E r \in flight : r.kind = "me" /\ r.by # "gone"
  /\ page # None => /\ page.running => Awaited("run")
                    /\ page.submitting => Awaited("submit")
  /\ form # None => /\ ~form.ready => Awaited("open")
                    /\ form.adding => Awaited("add")
                    /\ form.saving => Awaited("save")
                    /\ form.deletingId # None =>
                         \E r \in Listened("delete") : r.for = form.deletingId

\* AuthContext: the answer to /auth/me is still to come.
Starting == \E r \in flight : r.kind = "me" /\ r.by # "gone"

LEMMA LeftKeeps ==
  ASSUME NEW S \in SUBSET Requests, NEW r \in S, r.by # "gone", NEW p
  PROVE  \E x \in Left(S, p) : x.kind = r.kind /\ x.by # "gone"
<1> DEFINE x == [r EXCEPT !.by = IF p # path /\ @ = "page" THEN "left" ELSE @]
<1>1. x \in Left(S, p)
  BY DEF Left
<1>2. r \in Requests
  OBVIOUS
<1>3. x.kind = r.kind /\ x.by # "gone"
  BY <1>2 DEF Requests
<1> QED BY <1>1, <1>3

\* The start-up request survives all but its answer and the end of the page.
LEMMA StartingKept ==
  ASSUME FlightOK, Starting, NEW S \in SUBSET flight, NEW p, Left(S, p) \subseteq flight',
         \A r \in flight : r.kind = "me" => r \in S
  PROVE  Starting'
<1>1. PICK r \in flight : r.kind = "me" /\ r.by # "gone"
  BY DEF Starting
<1>2. S \in SUBSET Requests /\ r \in S
  BY <1>1 DEF FlightOK
<1>3. \E x \in Left(S, p) : x.kind = "me" /\ x.by # "gone"
  BY <1>1, <1>2, LeftKeeps
<1> QED BY <1>3 DEF Starting

LEMMA StartingAfter ==
  ASSUME FlightOK, loading => Starting, loading' = loading,
         \/ \E p, k, d : SendFrom(p, k, d)
         \/ \E p : flight' = Left(flight, p)
         \/ \E r \in flight : r.kind # "me" /\ \E p : Settle(r, p)
  PROVE  loading' => Starting'
<1> SUFFICES ASSUME Starting PROVE Starting'
  OBVIOUS
<1>1. ASSUME NEW p, Left(flight, p) \subseteq flight'
      PROVE  Starting'
  BY <1>1, StartingKept
<1>2. ASSUME NEW r \in flight, NEW p, r.kind # "me", Settle(r, p)
      PROVE  Starting'
  <2>1. Left(flight \ {r}, p) \subseteq flight'
    BY <1>2 DEF Settle
  <2> QED BY <1>2, <2>1, StartingKept
<1> QED BY <1>1, <1>2 DEF SendFrom

\* An answer that leaves AuthContext as it is.
LEMMA FailureStarting ==
  ASSUME FlightOK, loading => Starting, NEW r \in flight, r.kind # "me",
         Expelled(r) \/ Unauthorized(r) \/ Failed(r)
  PROVE  loading' => Starting'
<1>1. CASE Expelled(r)
  BY <1>1 DEF Expelled
<1>2. CASE Unauthorized(r) \/ Failed(r)
  <2>1. loading' = loading /\ Settle(r, path)
    BY <1>2 DEF Unauthorized, Failed
  <2> QED BY <2>1, StartingAfter
<1> QED BY <1>1, <1>2

LEMMA SessionStarting ==
  ASSUME FlightOK, loading => Starting, SessionNext
  PROVE  loading' => Starting'
<1>1. ASSUME NEW r \in flight, MeAnswered(r)
      PROVE  ~loading'
  BY <1>1 DEF MeAnswered, Expelled
<1>2. ASSUME NEW r \in flight, LoginAnswered(r)
      PROVE  loading' => Starting'
  <2>1. r.kind # "me"
    BY <1>2 DEF LoginAnswered
  <2>2. CASE Settle(r, "home") /\ loading' = loading
    BY <2>1, <2>2, StartingAfter
  <2> QED BY <1>2, <2>1, <2>2, FailureStarting DEF LoginAnswered
<1>3. ASSUME NEW r \in flight, ProfileAnswered(r)
      PROVE  loading' => Starting'
  <2>1. r.kind # "me"
    BY <1>3 DEF ProfileAnswered
  <2>2. CASE Settle(r, Route(path, user')) /\ loading' = loading
    BY <2>1, <2>2, StartingAfter
  <2> QED BY <1>3, <2>1, <2>2, FailureStarting DEF ProfileAnswered
<1>4. CASE SaveProfile \/ \E a \in Accounts : Login(a)
  <2>1. loading' = loading /\ \E p, k, d : SendFrom(p, k, d)
    BY <1>4 DEF SaveProfile, Login, Send, SendFrom
  <2> QED BY <2>1, StartingAfter
<1>5. CASE Logout
  <2>1. loading' = loading /\ flight' = Left(flight, "login")
    BY <1>5 DEF Logout
  <2> QED BY <2>1, StartingAfter
<1>6. CASE Expire
  BY <1>6 DEF Expire, Starting
<1>7. ASSUME NEW p, Refresh(p), loading'
      PROVE  Starting'
  <2>1. Request("me", None) \in flight'
    BY <1>7 DEF Refresh
  <2>2. Request("me", None).kind = "me" /\ Request("me", None).by = "page"
    BY DEF Request
  <2> QED BY <2>1, <2>2 DEF Starting
<1> QED BY <1>1, <1>2, <1>3, <1>4, <1>5, <1>6, <1>7 DEF SessionNext

LEMMA PageStarting ==
  ASSUME FlightOK, loading => Starting, PageNext
  PROVE  loading' => Starting'
<1>1. ASSUME NEW r \in flight, LoadAnswered(r) \/ ExecutionAnswered(r)
      PROVE  loading' => Starting'
  BY <1>1, FailureStarting DEF LoadAnswered, ExecutionAnswered
<1>2. ASSUME NEW s, OpenProblem(s) \/ ChangeSlug(s) \/ Click(s)
      PROVE  loading' => Starting'
  <2>1. loading' = loading /\ \E p, k, d : SendFrom(p, k, d)
    BY <1>2 DEF OpenProblem, ChangeSlug, Click, Send, SendFrom
  <2> QED BY <2>1, StartingAfter
<1> QED BY <1>1, <1>2 DEF PageNext

LEMMA EditStarting ==
  ASSUME FlightOK, loading => Starting, EditNext
  PROVE  loading' => Starting'
<1>1. ASSUME NEW r \in flight, OpenAnswered(r) \/ EditAnswered(r)
      PROVE  loading' => Starting'
  <2>1. r.kind # "me"
    BY <1>1 DEF OpenAnswered, EditAnswered, Pending, Edits
  <2> QED BY <1>1, <2>1, FailureStarting DEF OpenAnswered, EditAnswered
<1>2. ASSUME NEW r \in flight, Handle(r) \/ EditLost(r)
      PROVE  loading' => Starting'
  <2>1. loading' = loading /\ \A x \in flight : x.kind = "me" => x \in flight'
    BY <1>2 DEF Handle, EditLost, Pending, Edits
  <2> QED BY <2>1 DEF Starting
<1>3. ASSUME NEW t, DeleteTestCase(t) \/ Save(t) \/ OpenEdit \/ AddTestCase
      PROVE  loading' => Starting'
  <2>1. loading' = loading /\ \E p, k, d : SendFrom(p, k, d)
    BY <1>3 DEF DeleteTestCase, Save, OpenEdit, AddTestCase, Send, SendFrom
  <2> QED BY <2>1, StartingAfter
<1> QED BY <1>1, <1>2, <1>3 DEF EditNext

LEMMA StartingStep ==
  ASSUME FlightOK, loading => Starting, Next
  PROVE  loading' => Starting'
<1>1. ASSUME NEW p, Navigate(p)
      PROVE  loading' => Starting'
  <2>1. loading' = loading /\ flight' = Left(flight, p)
    BY <1>1 DEF Navigate
  <2> QED BY <2>1, StartingAfter
<1> QED BY <1>1, SessionStarting, PageStarting, EditStarting DEF Next

\* ProblemDetail: a button that is disabled has its request under way.
PageBusy ==
  path = "problem" => /\ page.running => Awaited("run")
                      /\ page.submitting => Awaited("submit")

LEMMA PageBusyKept ==
  ASSUME PageBusy, Untouched(PageKinds), PageStays, path' = "problem" => path' = path
  PROVE  PageBusy'
<1> SUFFICES ASSUME path' = "problem" PROVE PageBusy'
  BY DEF PageBusy
<1>1. path' = "problem" /\ path' = path /\ page' = page
  BY DEF PageStays
<1>2. \A x \in flight : x.kind \in PageKinds => x \in flight'
  BY <1>1 DEF Untouched
<1>3. \A k \in PageKinds : Awaited(k) => Awaited(k)'
  BY <1>2 DEF Awaited
<1>4. "run" \in PageKinds /\ "submit" \in PageKinds
  BY DEF PageKinds
<1> QED BY <1>1, <1>3, <1>4 DEF PageBusy

LEMMA PageBusySent ==
  ASSUME FlightOK, PageInv, PageBusy, NEW s, OpenProblem(s) \/ ChangeSlug(s)
  PROVE  PageBusy'
<1>1. CASE OpenProblem(s)
  <2>1. ~page'.running /\ ~page'.submitting
    BY <1>1 DEF OpenProblem, Mounted
  <2> QED BY <2>1 DEF PageBusy
<1>2. CASE ChangeSlug(s)
  <2>1. SendFrom(path, "load", s) /\ page # None /\ page' = [page EXCEPT !.slug = s]
    BY <1>2 DEF ChangeSlug, Send
  <2>2. flight \in SUBSET Requests
    BY DEF FlightOK
  <2>3. path' = path /\ flight \subseteq flight'
    BY <2>1, <2>2, LeftSame DEF SendFrom
  <2>4. page'.running = page.running /\ page'.submitting = page.submitting
    BY <2>1 DEF PageInv, PageTyped, Pages
  <2> QED BY <2>1, <2>3, <2>4 DEF PageBusy, Awaited
<1> QED BY <1>1, <1>2

LEMMA PageBusyClicked ==
  ASSUME FlightOK, PageInv, NEW k \in {"run", "submit"}, Click(k)
  PROVE  PageBusy'
<1> DEFINE new == Request(k, page.slug)
<1>1. /\ page # None /\ SendFrom(path, k, page.slug) /\ ~page.running /\ ~page.submitting
      /\ page' = [page EXCEPT ![Flag(k)] = TRUE, !.runResult = None, !.result = None,
                              !.last = sends + 1]
  BY DEF Click, Send, Clickable
<1>2. new \in flight'
  BY <1>1 DEF SendFrom
<1>3. new.kind = k /\ new.by = "page"
  BY DEF Request
<1> HIDE DEF new
<1>4. Awaited(k)'
  BY <1>2, <1>3 DEF Awaited
<1>5. (page'.running => k = "run") /\ (page'.submitting => k = "submit")
  BY <1>1 DEF PageInv, PageTyped, Pages, Flag
<1> QED BY <1>4, <1>5 DEF PageBusy

\* Any answer but the one that takes the page along.
LEMMA PageBusyAnswered ==
  ASSUME FlightOK, PageInv, PageBusy, NEW r \in flight, r.kind \in PageKinds,
         Failed(r) \/ Unauthorized(r),
         \/ page' = page /\ (r.by # "page" \/ r.kind = "load")
         \/ r.by = "page" /\ r.kind = "load" /\ page' = [page EXCEPT !.shown = r.for]
         \/ r.by = "page" /\ r.kind # "load" /\ page' = [page EXCEPT ![Flag(r.kind)] = FALSE]
         \/ r.by = "page" /\ r.kind # "load" /\
            page' = [[page EXCEPT ![Flag(r.kind)] = FALSE] EXCEPT ![Box(r.kind)] = r.n]
  PROVE  PageBusy'
<1>1. Settle(r, path) /\ stored' \in Tokens
  BY DEF Failed, Unauthorized, FlightOK, Tokens
<1>2. flight' = flight \ {r}
  BY <1>1, SettleStep
<1>3. CASE page' = page /\ (r.by # "page" \/ r.kind = "load")
  BY <1>1, <1>2, <1>3 DEF PageBusy, Awaited, Settle
<1>4. CASE /\ r.by = "page"
           /\ \/ r.kind = "load" /\ page' = [page EXCEPT !.shown = r.for]
              \/ r.kind # "load" /\ page' = [page EXCEPT ![Flag(r.kind)] = FALSE]
              \/ /\ r.kind # "load"
                 /\ page' = [[page EXCEPT ![Flag(r.kind)] = FALSE] EXCEPT ![Box(r.kind)] = r.n]
  <2>1. path = "problem" /\ page \in Pages
    BY <1>4 DEF PageInv, PageWaits, PageTyped
  <2>2. CASE r.kind = "load"
    <3>1. page'.running = page.running /\ page'.submitting = page.submitting
      BY <1>4, <2>1, <2>2 DEF Pages
    <3> QED BY <1>1, <1>2, <2>1, <2>2, <3>1 DEF PageBusy, Awaited, Settle
  <2>3. CASE r.kind # "load"
    <3>1. ~page'.running /\ ~page'.submitting
      BY <1>4, <2>1, <2>3 DEF PageInv, PageWaits, PageShows, PageKinds, Pages, Flag, Box
    <3> QED BY <3>1 DEF PageBusy
  <2> QED BY <2>2, <2>3
<1> QED BY <1>3, <1>4

LEMMA PageBusyStep ==
  ASSUME FlightOK, PageInv, PageBusy, PageNext
  PROVE  PageBusy'
<1>1. ASSUME NEW r \in flight, LoadAnswered(r)
      PROVE  PageBusy'
  <2> DEFINE shown == [page EXCEPT !.shown = r.for]
  <2>1. r.kind = "load" /\ Failed(r)
        /\ page' \in {page, IF r.by = "page" THEN shown ELSE page}
    BY <1>1 DEF LoadAnswered
  <2>2. r.kind \in PageKinds
    BY <2>1 DEF PageKinds
  <2> QED BY <2>1, <2>2, PageBusyAnswered
<1>2. ASSUME NEW r \in flight, ExecutionAnswered(r)
      PROVE  PageBusy'
  <2>1. r.kind \in PageKinds /\ r.kind # "load"
    BY <1>2 DEF ExecutionAnswered, PageKinds
  <2>2. CASE Expelled(r)
    <3>1. path' = "login"
      BY <2>2 DEF Expelled
    <3> QED BY <3>1 DEF PageBusy
  <2>3. CASE r.by = "page" /\ (Failed(r) \/ Unauthorized(r)) /\ ~Expelled(r)
    <3>1. \/ page' = [page EXCEPT ![Flag(r.kind)] = FALSE]
          \/ page' = [[page EXCEPT ![Flag(r.kind)] = FALSE] EXCEPT ![Box(r.kind)] = r.n]
      BY <1>2, <2>3 DEF ExecutionAnswered
    <3> QED BY <2>1, <2>3, <3>1, PageBusyAnswered
  <2>4. CASE r.by # "page" /\ (Failed(r) \/ Unauthorized(r)) /\ ~Expelled(r)
    <3>1. page' = page
      BY <1>2, <2>4 DEF ExecutionAnswered
    <3> QED BY <2>1, <2>4, <3>1, PageBusyAnswered
  <2> QED BY <1>2, <2>2, <2>3, <2>4 DEF ExecutionAnswered
<1> QED BY <1>1, <1>2, PageBusySent, PageBusyClicked DEF PageNext

\* AdminEditProblem: so has the page that loads, and each button that is disabled.
AwaitedFor(t) == \E r \in flight : r.by = "page" /\ r.kind = "delete" /\ r.for = t

FormBusy ==
  path = "edit" => /\ ~form.ready => Awaited("open")
                   /\ form.adding => Awaited("add")
                   /\ form.saving => Awaited("save")
                   /\ form.deletingId # None => AwaitedFor(form.deletingId)

\* No flag is set that was not, and k's is cleared, the only kind whose requests go.
FormBusyLess(k) ==
  /\ path' = path
  /\ \A x \in flight : x.by = "page" /\ x.kind # k =>
       \E y \in flight' : y.by = "page" /\ y.kind = x.kind /\ y.for = x.for
  /\ path = "edit" =>
       /\ ~form'.ready => ~form.ready /\ k # "open"
       /\ form'.adding => form.adding /\ k # "add"
       /\ form'.saving => form.saving /\ k # "save"
       /\ form'.deletingId # None => form'.deletingId = form.deletingId /\ k # "delete"

LEMMA FormBusyFewer ==
  ASSUME FormBusy, NEW k, FormBusyLess(k)
  PROVE  FormBusy'
<1>1. \A j : j # k /\ Awaited(j) => Awaited(j)'
  BY DEF Awaited, FormBusyLess
<1>2. k # "delete" => \A t : AwaitedFor(t) => AwaitedFor(t)'
  BY DEF AwaitedFor, FormBusyLess
<1> QED BY <1>1, <1>2 DEF FormBusy, FormBusyLess, AwaitedFor

\* A button is clicked: its flag is set, and its request under way.
LEMMA FormBusyMore ==
  ASSUME FormBusy, path' = path, NEW new \in flight', flight \subseteq flight',
         new.by = "page", form'.ready = form.ready,
         form'.adding => form.adding \/ new.kind = "add",
         form'.saving => form.saving \/ new.kind = "save",
         \/ form'.deletingId = form.deletingId
         \/ new.kind = "delete" /\ form'.deletingId = new.for
  PROVE  FormBusy'
<1>1. \A k : Awaited(k) \/ new.kind = k => Awaited(k)'
  BY DEF Awaited
<1>2. new.kind = "delete" => AwaitedFor(new.for)'
  BY DEF AwaitedFor
<1>3. \A t : AwaitedFor(t) => AwaitedFor(t)'
  BY DEF AwaitedFor
<1> QED BY <1>1, <1>2, <1>3 DEF FormBusy, AwaitedFor

LEMMA FormBusyKept ==
  ASSUME FormBusy, Untouched(EditKinds), FormStays, path' = "edit" => path' = path
  PROVE  FormBusy'
<1> SUFFICES ASSUME path' = "edit" PROVE FormBusy'
  BY DEF FormBusy
<1>1. path' = path /\ form' = form
  BY DEF FormStays
<1>2. \A x \in flight : x.kind \in EditKinds => x \in flight'
  BY <1>1 DEF Untouched
<1>3. \A k \in EditKinds : Awaited(k) => Awaited(k)'
  BY <1>2 DEF Awaited
<1>4. {"open", "add", "save", "delete"} \subseteq EditKinds
  BY DEF EditKinds, Edits
<1>5. \A t : AwaitedFor(t) => AwaitedFor(t)'
  BY <1>2, <1>4 DEF AwaitedFor
<1> QED BY <1>1, <1>3, <1>4, <1>5 DEF FormBusy, AwaitedFor

LEMMA FormBusySent ==
  ASSUME FlightOK, FormInv, FormBusy, NEW k \in Edits, NEW d \in Names, Ready, Send(k, d),
         \/ k = "add" /\ form' = [form EXCEPT !.adding = TRUE]
         \/ k = "save" /\ form' = [form EXCEPT !.saving = TRUE]
         \/ k = "delete" /\ form' = [form EXCEPT !.deletingId = d]
  PROVE  FormBusy'
<1> DEFINE new == Request(k, d)
<1>1. /\ path' = path /\ form \in Forms /\ flight' = flight \cup {new}
      /\ new.kind = k /\ new.for = d /\ new.by = "page"
  BY FormSends
<1> HIDE DEF new
<1>2. /\ form'.ready = form.ready
      /\ form'.adding => form.adding \/ k = "add"
      /\ form'.saving => form.saving \/ k = "save"
      /\ form'.deletingId = form.deletingId \/ (k = "delete" /\ form'.deletingId = d)
  BY <1>1 DEF Forms
<1>3. new \in flight' /\ flight \subseteq flight'
  BY <1>1
<1> QED BY <1>1, <1>2, <1>3, FormBusyMore

LEMMA IdleClears ==
  ASSUME form \in Forms, NEW r, r.kind \in Edits, r.n \in Nat, r.for \in Names,
         NEW f \in {Idle(r), Updated(r), [Idle(r) EXCEPT !.exact = FALSE]}
  PROVE  /\ f.ready = form.ready
         /\ f.adding => form.adding /\ r.kind # "add"
         /\ f.saving => form.saving /\ r.kind # "save"
         /\ f.deletingId # None => f.deletingId = form.deletingId /\ r.kind # "delete"
<1> DEFINE i == Idle(r)
<1>1. /\ i \in Forms
      /\ i.ready = form.ready
      /\ i.adding => form.adding /\ r.kind # "add"
      /\ i.saving => form.saving /\ r.kind # "save"
      /\ i.deletingId # None => i.deletingId = form.deletingId /\ r.kind # "delete"
  <2>1. i \in Forms
    BY IdleIs
  <2>2. CASE r.kind = "add"
    BY <2>1, <2>2 DEF Idle, Forms
  <2>3. CASE r.kind = "save"
    BY <2>1, <2>3 DEF Idle, Forms
  <2>4. CASE r.kind = "delete"
    BY <2>1, <2>4 DEF Idle, Forms
  <2> QED BY <2>2, <2>3, <2>4 DEF Edits
<1>2. \/ f = i
      \/ f = [i EXCEPT !.testCases = @ \cup {r.n}]
      \/ f = [i EXCEPT !.saved = r.for]
      \/ f = [i EXCEPT !.testCases = @ \ {r.for}]
      \/ f = [i EXCEPT !.exact = FALSE]
  BY DEF Updated, Edits
<1> HIDE DEF i
<1>3. /\ f.ready = i.ready /\ f.adding = i.adding /\ f.saving = i.saving
      /\ f.deletingId = i.deletingId
  BY <1>1, <1>2 DEF Forms
<1> QED BY <1>1, <1>3

\* An answer to r, or the loss of it, which the form hears of only if it is its own.
LEMMA FormBusyAnswered ==
  ASSUME FlightOK, FormInv, FormBusy, NEW r \in flight, r.kind \in EditKinds,
         path' = path, flight \ {r} \subseteq flight', NEW f, form' = Answer(r, f),
         r.by = "page" /\ form \in Forms =>
           /\ ~f.ready => ~form.ready /\ r.kind # "open"
           /\ f.adding => form.adding /\ r.kind # "add"
           /\ f.saving => form.saving /\ r.kind # "save"
           /\ f.deletingId # None => f.deletingId = form.deletingId /\ r.kind # "delete"
  PROVE  FormBusy'
<1>1. path = "edit" => form \in Forms
  BY DEF FormInv, FormTyped
<1>2. CASE r.by = "page"
  <2>1. FormBusyLess(r.kind)
    BY <1>1, <1>2 DEF FormBusyLess, Answer
  <2> QED BY <2>1, FormBusyFewer
<1>3. CASE r.by # "page"
  <2>1. FormBusyLess("none")
    BY <1>3 DEF FormBusyLess, Answer
  <2> QED BY <2>1, FormBusyFewer
<1> QED BY <1>2, <1>3

LEMMA FormBusyLoaded ==
  ASSUME FlightOK, FormInv, FormBusy, NEW r \in flight, OpenAnswered(r)
  PROVE  FormBusy'
<1> DEFINE f1 == [form EXCEPT !.ready = TRUE, !.testCases = tests]
           f2 == [form EXCEPT !.ready = TRUE, !.exact = FALSE]
<1>1. r.kind = "open" /\ r.kind \in EditKinds
  BY DEF OpenAnswered, EditKinds
<1>2. CASE Expelled(r)
  <2>1. path' = "login"
    BY <1>2 DEF Expelled
  <2> QED BY <2>1 DEF FormBusy
<1>3. ASSUME NEW f \in {f1, f2}, form' = Answer(r, f), Failed(r) \/ Unauthorized(r)
      PROVE  FormBusy'
  <2>1. Settle(r, path) /\ stored' \in Tokens
    BY <1>3 DEF Failed, Unauthorized, FlightOK, Tokens
  <2>2. path' = path /\ flight' = flight \ {r}
    BY <2>1, SettleStep
  <2>3. form \in Forms =>
          /\ f.ready /\ f.adding = form.adding /\ f.saving = form.saving
          /\ f.deletingId = form.deletingId
    BY DEF Forms
  <2> HIDE DEF f1, f2
  <2> QED BY <1>1, <1>3, <2>2, <2>3, FormBusyAnswered
<1>4. \/ Expelled(r)
      \/ /\ Failed(r) \/ Unauthorized(r)
         /\ form' = Answer(r, f1) \/ form' = Answer(r, f2)
  BY DEF OpenAnswered, Answer
<1> QED BY <1>2, <1>3, <1>4

LEMMA FormBusyEdited ==
  ASSUME FlightOK, FormInv, FormBusy, NEW r \in flight, EditAnswered(r) \/ EditLost(r)
  PROVE  FormBusy'
<1>1. /\ r.kind \in Edits /\ r.kind \in EditKinds /\ r.kind # "open"
      /\ r.n \in Nat /\ r.for \in Names
  BY DEF EditAnswered, EditLost, Pending, EditKinds, Edits, FlightOK, Requests
<1>2. CASE Expelled(r) /\ form' = None
  <2>1. path' = "login"
    BY <1>2 DEF Expelled
  <2> QED BY <2>1 DEF FormBusy
<1>3. ASSUME path' = path, flight \ {r} \subseteq flight',
             NEW f \in {Idle(r), Updated(r), [Idle(r) EXCEPT !.exact = FALSE]},
             form' = Answer(r, f)
      PROVE  FormBusy'
  <2>1. form \in Forms =>
          /\ f.ready = form.ready
          /\ f.adding => form.adding /\ r.kind # "add"
          /\ f.saving => form.saving /\ r.kind # "save"
          /\ f.deletingId # None => f.deletingId = form.deletingId /\ r.kind # "delete"
    BY <1>1, IdleClears
  <2> QED BY <1>1, <1>3, <2>1, FormBusyAnswered
<1>4. CASE EditAnswered(r)
  <2>1. Failed(r) \/ Unauthorized(r) => path' = path /\ flight' = flight \ {r}
    <3>1. Failed(r) \/ Unauthorized(r) => Settle(r, path) /\ stored' \in Tokens
      BY DEF Failed, Unauthorized, FlightOK, Tokens
    <3> QED BY <3>1, SettleStep
  <2>2. \/ Expelled(r) /\ form' = None
        \/ /\ Failed(r) \/ Unauthorized(r)
           /\ form' = Answer(r, Updated(r)) \/ form' = Answer(r, Idle(r))
    BY <1>4 DEF EditAnswered
  <2> QED BY <1>2, <1>3, <2>1, <2>2
<1>5. CASE EditLost(r)
  <2>1. path' = path /\ flight \ {r} \subseteq flight'
        /\ form' = Answer(r, [Idle(r) EXCEPT !.exact = FALSE])
    BY <1>5 DEF EditLost
  <2> QED BY <1>3, <2>1
<1> QED BY <1>4, <1>5

LEMMA FormBusyHandled ==
  ASSUME FlightOK, FormBusy, NEW r \in flight, Handle(r)
  PROVE  FormBusy'
<1>1. PICK code \in {200, 401, 404, 500} :
        flight' = (flight \ {r}) \cup (IF r.by = "gone" THEN {} ELSE {[r EXCEPT !.reply = code]})
  BY DEF Handle
<1> DEFINE h == [r EXCEPT !.reply = code]
<1>2. h.kind = r.kind /\ h.for = r.for /\ h.by = r.by
  BY DEF FlightOK, Requests
<1>3. r.by = "page" => h \in flight'
  BY <1>1
<1> HIDE DEF h
<1>4. \A x \in flight : x.by = "page" =>
        \E y \in flight' : y.by = "page" /\ y.kind = x.kind /\ y.for = x.for
  BY <1>1, <1>2, <1>3
<1>5. path' = path /\ form' = form
  BY DEF Handle
<1>6. FormBusyLess("none")
  BY <1>4, <1>5 DEF FormBusyLess
<1> QED BY <1>6, FormBusyFewer

LEMMA FormBusyStep ==
  ASSUME FlightOK, FormInv, FormBusy, EditNext
  PROVE  FormBusy'
<1>1. CASE OpenEdit
  <2> DEFINE new == Request("open", None)
  <2>1. new \in flight'
    BY <1>1 DEF OpenEdit, SendFrom
  <2>2. new.kind = "open" /\ new.by = "page"
    BY DEF Request
  <2> HIDE DEF new
  <2>3. Awaited("open")'
    BY <2>1, <2>2 DEF Awaited
  <2>4. ~form'.adding /\ ~form'.saving /\ form'.deletingId = None
    BY <1>1 DEF OpenEdit, Opened
  <2> QED BY <2>3, <2>4 DEF FormBusy
<1>2. CASE AddTestCase
  <2>1. "add" \in Edits /\ None \in Names
    BY DEF Edits, Names
  <2> QED BY <1>2, <2>1, FormBusySent DEF AddTestCase
<1>3. ASSUME NEW t, DeleteTestCase(t)
      PROVE  FormBusy'
  <2>1. "delete" \in Edits /\ t \in Names
    BY <1>3 DEF DeleteTestCase, Ready, FormInv, FormTyped, Forms, Edits, Names
  <2> QED BY <1>3, <2>1, FormBusySent DEF DeleteTestCase
<1>4. ASSUME NEW d \in Drafts, Save(d)
      PROVE  FormBusy'
  <2>1. "save" \in Edits /\ d \in Names
    BY DEF Edits, Names
  <2> QED BY <1>4, <2>1, FormBusySent DEF Save
<1> QED BY <1>1, <1>2, <1>3, <1>4, FormBusyLoaded, FormBusyEdited, FormBusyHandled
        DEF EditNext

BusyInv == (loading => Starting) /\ PageBusy /\ FormBusy

LEMMA InitBusy == BrowserInit => BusyInv
<1> SUFFICES ASSUME BrowserInit PROVE BusyInv
  OBVIOUS
<1>1. path \in {"home", "login"}
  BY DEF BrowserInit, Init
<1>2. CASE loading
  <2> DEFINE me == [Request("me", None) EXCEPT !.n = 1]
  <2>1. me \in flight
    BY <1>2 DEF BrowserInit, Init
  <2>2. me.kind = "me" /\ me.by = "page"
    BY DEF Request
  <2> HIDE DEF me
  <2> QED BY <1>1, <2>1, <2>2 DEF BusyInv, Starting, PageBusy, FormBusy
<1> QED BY <1>1, <1>2 DEF BusyInv, PageBusy, FormBusy

LEMMA NextBusy == IInv /\ BusyInv /\ [Next]_vars => BusyInv'
<1> SUFFICES ASSUME IInv, BusyInv, [Next]_vars PROVE BusyInv'
  OBVIOUS
<1>1. FlightOK /\ PageInv /\ FormInv /\ (loading => Starting) /\ PageBusy /\ FormBusy
  BY DEF IInv, BusyInv
<1>2. CASE Next
  <2>1. loading' => Starting'
    BY <1>1, <1>2, StartingStep
  <2>2. CASE /\ SessionNext \/ \E p \in {"home", "login", "profile"} : Navigate(p)
             /\ PageStays
             /\ FormStays
    <3>1. Elsewhere
      BY <1>1, <2>2, SessionStep
    <3>2. PageBusy' /\ FormBusy'
      BY <1>1, <2>2, <3>1, PageBusyKept, FormBusyKept DEF Elsewhere
    <3> QED BY <2>1, <3>2 DEF BusyInv
  <2>3. CASE PageNext /\ FormStays
    <3>1. Untouched(EditKinds) /\ (path' = "edit" => path' = path)
      BY <1>1, <2>3, PageStep
    <3>2. PageBusy' /\ FormBusy'
      BY <1>1, <2>3, <3>1, PageBusyStep, FormBusyKept
    <3> QED BY <2>1, <3>2 DEF BusyInv
  <2>4. CASE EditNext /\ PageStays
    <3>1. Untouched(PageKinds) /\ (path' = "problem" => path' = path)
      BY <1>1, <2>4, EditStep
    <3>2. PageBusy' /\ FormBusy'
      BY <1>1, <2>4, <3>1, PageBusyKept, FormBusyStep
    <3> QED BY <2>1, <3>2 DEF BusyInv
  <2> QED BY <1>2, <2>2, <2>3, <2>4 DEF Next
<1>3. CASE UNCHANGED vars
  <2>1. UNCHANGED <<loading, path, flight, page, form>>
    BY <1>3 DEF vars, sessionVars, editVars
  <2> QED BY <1>1, <2>1 DEF BusyInv, Starting, PageBusy, FormBusy, Awaited, AwaitedFor
<1> QED BY <1>2, <1>3

\* ProblemDetail, AdminEditProblem and AuthContext: whatever shows as under way has
\* its request in flight, through any 401, change of route, reload or lost answer.
THEOREM SpinnersEnd == Spec => []NoSpinnerLeft
<1>1. BrowserInit => BusyInv
  BY InitBusy
<1>2. IInv /\ BusyInv /\ [Next]_vars => BusyInv'
  BY NextBusy
<1>3. IInv /\ BusyInv => NoSpinnerLeft
  <2> SUFFICES ASSUME IInv, BusyInv PROVE NoSpinnerLeft
    OBVIOUS
  <2>1. (page # None => path = "problem") /\ (form # None => path = "edit")
    BY DEF IInv, PageInv, PageTyped, FormInv, FormTyped
  <2>2. \A t : AwaitedFor(t) => \E r \in Listened("delete") : r.for = t
    BY DEF AwaitedFor, Listened
  <2> QED BY <2>1, <2>2 DEF BusyInv, Starting, PageBusy, FormBusy, NoSpinnerLeft
<1> QED BY <1>1, <1>2, <1>3, Invariance, PTL DEF Spec
=============================================================================
