----------------------------- MODULE AuthProofs -----------------------------
(***************************************************************************)
(* Proofs about Auth, for any clients, addresses and passwords.            *)
(***************************************************************************)
EXTENDS Auth, TLAPS

\* What a request knows of its user.  The row a sign-in read was verified, with
\* its password, while the request was there; a request in order ever since
\* read the row it asked for, and is in order now.
Issues(c) ==
  LET r == request[c] IN
  r.at = "issue" =>
    /\ r.row.is_verified => <<r.user, r.row.password>> \in since[c]
    /\ entitled[c] => r.row.is_verified /\ r.row.password = r.password
Admits(c) ==
  request[c].at = "admitted" =>
    /\ Shown(c, request[c].current_user)
    /\ Lower[request[c].current_user] = Lower[request[c].email]
Ordered(c) == entitled[c] => request[c].at # "answered" /\ InOrder(users, request[c])
Held(c) == Issues(c) /\ Admits(c) /\ Ordered(c)

IInv == TypeOK /\ \A c \in Clients : Held(c)

-----------------------------------------------------------------------------
(* Requests and rows.                                                      *)

LEMMA RequestFields ==
  ASSUME NEW r \in Requests
  PROVE  /\ r.at \in {"insert", "find", "issue"} =>
              r.email \in Normalized /\ r.password \in Passwords
         /\ r.at = "issue" => r.user \in Emails /\ r.row \in Rows
         /\ r.at = "authorize" => r.email \in Emails /\ r.password = NoPassword
         /\ r.at = "admitted" => r.email \in Emails /\ r.current_user \in Emails
BY DEF Requests, Answered, Authorizing, Admitted

LEMMA NormalizedAreEmails == Normalized \subseteq Emails
BY AuthAssumption DEF Normalized

LEMMA MadeRequests ==
  /\ \A how \in {"ok", "refused", "error"} :
       Answered(how) \in Requests /\ Answered(how).at = "answered"
  /\ \A e \in Normalized, p \in Passwords :
       /\ Inserting(e, p) \in Requests /\ Inserting(e, p).at = "insert"
       /\ Finding(e, p) \in Requests /\ Finding(e, p).at = "find"
  /\ \A e \in Emails : Authorizing(e) \in Requests /\ Authorizing(e).at = "authorize"
  /\ \A e, u \in Emails : Admitted(e, u) \in Requests /\ Admitted(e, u).at = "admitted"
<1>1. \A how \in {"ok", "refused", "error"} :
        Answered(how) \in Requests /\ Answered(how).at = "answered"
  BY DEF Requests, Answered
<1>2. \A e \in Normalized, p \in Passwords :
        Inserting(e, p) \in Requests /\ Inserting(e, p).at = "insert"
  BY DEF Requests, Inserting
<1>3. \A e \in Normalized, p \in Passwords :
        Finding(e, p) \in Requests /\ Finding(e, p).at = "find"
  BY DEF Requests, Finding
<1>4. \A e \in Emails : Authorizing(e) \in Requests /\ Authorizing(e).at = "authorize"
  BY DEF Requests, Authorizing
<1>5. \A e, u \in Emails : Admitted(e, u) \in Requests /\ Admitted(e, u).at = "admitted"
  BY DEF Requests, Admitted
<1>. QED
  BY <1>1, <1>2, <1>3, <1>4, <1>5

LEMMA NormalizedIsTyped == \A e \in Emails : Normalize[e] \in Normalized
BY DEF Normalized

\* A request in order has one match, which is verified and has its password.
LEMMA OrderedMatch ==
  ASSUME NEW r, InOrder(users, r), NEW v \in Matches(users, r.email)
  PROVE  /\ v \in Verified(users)
         /\ Matches(users, r.email) = {v}
         /\ r.password \in {NoPassword, users[v].password}
BY DEF InOrder

-----------------------------------------------------------------------------
(* What the history variables remember.                                    *)

LEMMA RememberTypes ==
  ASSUME TypeOK, Remember, users' \in [Emails -> Rows \cup {NoUser}]
  PROVE  /\ since' \in [Clients -> SUBSET (Emails \X Passwords)]
         /\ entitled' \in [Clients -> BOOLEAN]
<1>1. \A u \in Verified(users') : u \in Emails /\ users'[u].password \in Passwords
  BY DEF Verified, Rows
<1>2. { <<u, users'[u].password>> : u \in Verified(users') } \subseteq Emails \X Passwords
  BY <1>1
<1>3. \A c \in Clients :
        (IF request'[c].at = "answered" THEN {}
         ELSE { <<u, users'[u].password>> : u \in Verified(users') } \cup since[c])
          \in SUBSET (Emails \X Passwords)
  BY <1>2 DEF TypeOK
<1>4. since' \in [Clients -> SUBSET (Emails \X Passwords)]
  BY <1>3 DEF Remember
<1>5. entitled' \in [Clients -> BOOLEAN]
  <2>1. \A c \in Clients : ( /\ request'[c].at # "answered"
                             /\ request[c].at = "answered" \/ entitled[c]
                             /\ InOrder(users', request'[c])) \in BOOLEAN
    BY DEF TypeOK, InOrder
  <2>. QED
    BY <2>1 DEF Remember
<1>. QED
  BY <1>4, <1>5

\* While a request is there, what was seen stays, and who is verified now is seen.
LEMMA Seen ==
  ASSUME TypeOK, Remember, NEW c \in Clients, request'[c].at # "answered"
  PROVE  /\ since[c] \subseteq since'[c]
         /\ \A u \in Verified(users') : <<u, users'[u].password>> \in since'[c]
BY DEF Remember

LEMMA StillEntitled ==
  ASSUME TypeOK, Remember, NEW c \in Clients, entitled'[c]
  PROVE  /\ request'[c].at # "answered" /\ InOrder(users', request'[c])
         /\ request[c].at # "answered" => entitled[c]
BY DEF Remember

LEMMA OrderedNext ==
  ASSUME TypeOK, Remember, NEW c \in Clients
  PROVE  Ordered(c)'
BY StillEntitled DEF Ordered

\* A request that does not move.
LEMMA Stays ==
  ASSUME TypeOK, Remember, NEW c \in Clients, Held(c), request'[c] = request[c]
  PROVE  Held(c)'
<1>1. Ordered(c)'
  BY OrderedNext
<1>2. Issues(c)'
  <2>1. CASE request[c].at = "issue"
    BY <2>1, Seen, StillEntitled DEF Held, Issues
  <2>. QED
    BY <2>1 DEF Issues
<1>3. Admits(c)'
  <2>1. CASE request[c].at = "admitted"
    <3>1. since[c] \subseteq since'[c]
      BY <2>1, Seen
    <3>. QED
      BY <2>1, <3>1 DEF Held, Admits, Shown
  <2>. QED
    BY <2>1 DEF Admits
<1>. QED
  BY <1>1, <1>2, <1>3 DEF Held

\* A request that moves, up to what it then holds.
LEMMA Moves ==
  ASSUME IInv, Remember, NEW c \in Clients, NEW r \in Requests,
         request' = [request EXCEPT ![c] = r],
         users' \in [Emails -> Rows \cup {NoUser}], tokens' \subseteq Emails,
         Issues(c)', Admits(c)'
  PROVE  IInv'
<1>1. TypeOK'
  BY RememberTypes DEF IInv, TypeOK
<1>2. \A d \in Clients : Held(d)'
  <2>1. Held(c)'
    BY OrderedNext DEF IInv, Held
  <2>2. ASSUME NEW d \in Clients, d # c PROVE Held(d)'
    <3>1. request'[d] = request[d]
      BY <2>2 DEF IInv, TypeOK
    <3>. QED
      BY <3>1, Stays DEF IInv
  <2>. QED
    BY <2>1, <2>2
<1>. QED
  BY <1>1, <1>2 DEF IInv

\* A request that moves to where it holds nothing.
LEMMA MovesOn ==
  ASSUME IInv, Remember, NEW c \in Clients, NEW r \in Requests,
         r.at \notin {"issue", "admitted"},
         request' = [request EXCEPT ![c] = r],
         users' \in [Emails -> Rows \cup {NoUser}], tokens' \subseteq Emails
  PROVE  IInv'
<1>1. request'[c] = r
  BY DEF IInv, TypeOK
<1>2. Issues(c)' /\ Admits(c)'
  BY <1>1 DEF Issues, Admits
<1>. QED
  BY <1>2, Moves

-----------------------------------------------------------------------------
(* One lemma for each action.                                              *)

LEMMA BeginStep ==
  ASSUME IInv, Remember, NEW c \in Clients, NEW r \in Requests,
         r.at \notin {"issue", "admitted"}, Begin(c, r)
  PROVE  IInv'
BY MovesOn DEF Begin, IInv, TypeOK

LEMMA AnswerStep ==
  ASSUME IInv, Remember, NEW c \in Clients,
         NEW how \in {"ok", "refused", "error"}, Answer(c, how),
         users' \in [Emails -> Rows \cup {NoUser}], tokens' \subseteq Emails
  PROVE  IInv'
BY MovesOn, MadeRequests DEF Answer

LEMMA ContinueAnswered ==
  ASSUME IInv, Remember, NEW c \in Clients,
         NEW how \in {"ok", "refused", "error"}, Continue(c, Answered(how))
  PROVE  IInv'
BY AnswerStep DEF Continue, Answer, IInv, TypeOK

LEMMA RegisteredIsTable ==
  ASSUME TypeOK, NEW c \in Clients, request[c].at = "insert"
  PROVE  Registered(request[c]) \in [Emails -> Rows \cup {NoUser}]
<1>1. request[c].email \in Normalized /\ request[c].password \in Passwords
  BY RequestFields DEF TypeOK
<1>2. [password |-> request[c].password, is_verified |-> FALSE] \in Rows
  BY <1>1 DEF Rows
<1>. QED
  BY <1>2 DEF Registered, TypeOK

LEMMA FindStep ==
  ASSUME IInv, Remember, NEW c \in Clients, Find(c)
  PROVE  IInv'
<1>. DEFINE r == request[c]
<1>1. PICK u \in Matches(users, r.email) : Continue(c, Issuing(r.email, r.password, u))
  BY DEF Find
<1>2. r.at = "find" /\ r.email \in Normalized /\ r.password \in Passwords
  BY RequestFields DEF Find, IInv, TypeOK
<1>3. u \in Emails /\ users[u] \in Rows
  BY DEF Matches, IInv, TypeOK
<1>. DEFINE s == Issuing(r.email, r.password, u)
<1>4. /\ s \in Requests /\ s.at = "issue" /\ s.user = u /\ s.row = users[u]
      /\ s.password = r.password /\ s.email = r.email
  BY <1>2, <1>3 DEF Issuing, Requests
<1>5. request' = [request EXCEPT ![c] = s] /\ users' = users /\ tokens' = tokens
  BY <1>1 DEF Continue
<1>6. request'[c] = s
  BY <1>5 DEF IInv, TypeOK
<1>. HIDE DEF s
<1>7. Issues(c)'
  <2>1. users[u].is_verified => <<u, users[u].password>> \in since'[c]
    <3>1. users[u].is_verified => u \in Verified(users')
      BY <1>3, <1>5, NoUserAssumption DEF Verified
    <3>. QED
      BY <3>1, <1>4, <1>5, <1>6, Seen DEF IInv
  <2>2. entitled'[c] => users[u].is_verified /\ users[u].password = r.password
    <3>. SUFFICES ASSUME entitled'[c]
         PROVE users[u].is_verified /\ users[u].password = r.password
      OBVIOUS
    <3>1. InOrder(users, s)
      BY <1>5, <1>6, StillEntitled DEF IInv
    <3>2. u \in Verified(users) /\ s.password \in {NoPassword, users[u].password}
      BY <3>1, <1>4, OrderedMatch
    <3>. QED
      BY <3>2, <1>2, <1>4, AuthAssumption DEF Verified
  <2>. QED
    BY <2>1, <2>2, <1>4, <1>6 DEF Issues
<1>8. Admits(c)'
  BY <1>4, <1>6 DEF Admits
<1>. QED
  BY <1>4, <1>5, <1>7, <1>8, Moves DEF IInv, TypeOK

LEMMA AuthorizeStep ==
  ASSUME IInv, Remember, NEW c \in Clients, Authorize(c)
  PROVE  IInv'
<1>. DEFINE r == request[c]
<1>1. PICK u \in Matches(users, r.email) \cap Verified(users) : Continue(c, Admitted(r.email, u))
  BY DEF Authorize
<1>2. r.at = "authorize" /\ r.email \in Emails
  BY RequestFields DEF Authorize, IInv, TypeOK
<1>3. u \in Emails /\ Lower[u] = Lower[r.email] /\ users[u].password \in Passwords
  BY DEF Matches, Verified, IInv, TypeOK, Rows
<1>. DEFINE s == Admitted(r.email, u)
<1>4. s \in Requests /\ s.at = "admitted" /\ s.current_user = u /\ s.email = r.email
  BY <1>2, <1>3, MadeRequests DEF Admitted
<1>5. request' = [request EXCEPT ![c] = s] /\ users' = users /\ tokens' = tokens
  BY <1>1 DEF Continue
<1>6. request'[c] = s
  BY <1>5 DEF IInv, TypeOK
<1>. HIDE DEF s
<1>7. Admits(c)'
  <2>1. <<u, users[u].password>> \in since'[c]
    BY <1>1, <1>4, <1>5, <1>6, Seen DEF IInv
  <2>. QED
    BY <2>1, <1>3, <1>4, <1>6 DEF Admits, Shown
<1>8. Issues(c)'
  BY <1>4, <1>6 DEF Issues
<1>. QED
  BY <1>4, <1>5, <1>7, <1>8, Moves DEF IInv, TypeOK

LEMMA IssueStep ==
  ASSUME IInv, Remember, NEW c \in Clients, Issue(c)
  PROVE  IInv'
<1>1. request[c].user \in Emails
  BY RequestFields DEF Issue, IInv, TypeOK
<1>. QED
  BY <1>1, AnswerStep DEF Issue, IInv, TypeOK

LEMMA FailStep ==
  ASSUME IInv, Remember, NEW c \in Clients, Fail(c)
  PROVE  IInv'
<1>1. users' \in [Emails -> Rows \cup {NoUser}]
  BY RegisteredIsTable DEF Fail, IInv, TypeOK
<1>. QED
  BY <1>1, AnswerStep DEF Fail, IInv, TypeOK

LEMMA ClientStep ==
  ASSUME IInv, Remember, NEW c \in Clients, Step(c)
  PROVE  IInv'
<1>1. ASSUME NEW e \in Emails, NEW p \in Passwords, Register(c, e, p) PROVE IInv'
  BY <1>1, BeginStep, MadeRequests, NormalizedIsTyped DEF Register
<1>2. ASSUME NEW e \in Emails, NEW p \in Passwords, SignIn(c, e, p) PROVE IInv'
  BY <1>2, BeginStep, MadeRequests, NormalizedIsTyped DEF SignIn
<1>3. ASSUME NEW t \in tokens, Present(c, t) PROVE IInv'
  <2>1. t \in Emails
    BY DEF IInv, TypeOK
  <2>. QED
    BY <1>3, <2>1, BeginStep, MadeRequests DEF Present
<1>4. CASE Insert(c)
  <2>1. users' \in [Emails -> Rows \cup {NoUser}]
    BY <1>4, RegisteredIsTable DEF Insert, IInv
  <2>. QED
    BY <1>4, <2>1, AnswerStep DEF Insert, IInv, TypeOK
<1>5. CASE Conflict(c)
  BY <1>5, ContinueAnswered DEF Conflict
<1>6. CASE Find(c)
  BY <1>6, FindStep
<1>7. CASE FindNone(c)
  BY <1>7, ContinueAnswered DEF FindNone
<1>8. CASE Issue(c)
  BY <1>8, IssueStep
<1>9. CASE Refuse(c)
  BY <1>9, ContinueAnswered DEF Refuse
<1>10. CASE Authorize(c)
  BY <1>10, AuthorizeStep
<1>11. CASE TurnAway(c)
  BY <1>11, ContinueAnswered DEF TurnAway
<1>12. CASE Serve(c)
  BY <1>12, ContinueAnswered DEF Serve
<1>13. CASE Fail(c)
  BY <1>13, FailStep
<1>. QED
  BY <1>1, <1>2, <1>3, <1>4, <1>5, <1>6, <1>7, <1>8, <1>9, <1>10, <1>11, <1>12, <1>13
     DEF Step

LEMMA AdministerStep ==
  ASSUME IInv, Remember, NEW e \in Emails, Administer(e)
  PROVE  IInv'
<1>1. users' \in [Emails -> Rows \cup {NoUser}]
  BY DEF Administer, IInv, TypeOK
<1>2. TypeOK'
  BY <1>1, RememberTypes DEF Administer, IInv, TypeOK
<1>3. \A c \in Clients : Held(c)'
  BY Stays DEF Administer, IInv
<1>. QED
  BY <1>2, <1>3 DEF IInv

LEMMA StutterStep ==
  ASSUME IInv, UNCHANGED vars
  PROVE  IInv'
BY DEF IInv, TypeOK, Held, Issues, Admits, Ordered, InOrder, Shown, vars, history

\* A request a client has not yet made is answered, and no history is kept of it.
LEMMA InitInv == Init => IInv
<1>. SUFFICES ASSUME Init PROVE IInv
  OBVIOUS
<1>1. TypeOK
  BY MadeRequests DEF Init, TypeOK
<1>2. \A c \in Clients : request[c].at = "answered" /\ ~entitled[c]
  BY MadeRequests DEF Init
<1>. QED
  BY <1>1, <1>2 DEF IInv, Held, Issues, Admits, Ordered

LEMMA NextInv == IInv /\ [Next]_vars => IInv'
BY ClientStep, AdministerStep, StutterStep DEF Next

-----------------------------------------------------------------------------
(* The theorems.                                                           *)

\* IInv is an invariant.
LEMMA Invariance == Spec => []IInv
BY InitInv, NextInv, PTL DEF Spec

\* TypeOK is an invariant: registered addresses are normalised, and a token
\* names an address some row had.
THEOREM TypeCorrect == Spec => []TypeOK
<1>1. IInv => TypeOK
  BY DEF IInv
<1>. QED
  BY <1>1, Invariance, PTL

\* AdmittedIsVerified is an invariant: behind the middleware runs only a request
\* whose user was verified since it came, whatever the administrator did since
\* the token was issued.
THEOREM Admission == Spec => []AdmittedIsVerified
<1>1. IInv => AdmittedIsVerified
  BY DEF IInv, Held, Admits, AdmittedIsVerified
<1>. QED
  BY <1>1, Invariance, PTL

\* Only Issue hands out a token, and the row it holds was its user's.
LEMMA IssuingStep ==
  ASSUME IInv, Next
  PROVE  \A u \in tokens' \ tokens : \E c \in Clients :
           request[c].at = "issue" /\ <<u, request[c].password>> \in since[c]
<1>1. ASSUME NEW e \in Emails, Administer(e) PROVE tokens' = tokens
  BY <1>1 DEF Administer
<1>2. ASSUME NEW c \in Clients, Step(c)
      PROVE  tokens' = tokens \/ Issue(c)
  BY <1>2 DEF Step, Register, SignIn, Present, Begin, Insert, Conflict, Find, FindNone,
              Refuse, Authorize, TurnAway, Serve, Fail, Continue
<1>3. ASSUME NEW c \in Clients, Issue(c)
      PROVE  /\ tokens' = tokens \cup {request[c].user} /\ request[c].at = "issue"
             /\ <<request[c].user, request[c].password>> \in since[c]
  BY <1>3 DEF Issue, IInv, Held, Issues
<1>. QED
  BY <1>1, <1>2, <1>3 DEF Next

\* IssuedToItsUser: a new token names a user who was verified, with the password
\* of the sign-in, while it was there.
THEOREM Issuance == Spec => IssuedToItsUser
<1>1. IInv /\ [Next]_vars =>
        [\A u \in tokens' \ tokens : \E c \in Clients :
           request[c].at = "issue" /\ <<u, request[c].password>> \in since[c]]_vars
  BY IssuingStep
<1>. QED
  BY <1>1, Invariance, PTL DEF Spec, IssuedToItsUser

\* Who may be refused, at which step.
LEMMA RefusingStep ==
  ASSUME IInv, Next
  PROVE  \A c \in Clients : request'[c] = Answered("refused") /\ entitled[c] =>
           request[c].at = "insert"
<1>. SUFFICES ASSUME NEW c \in Clients, request'[c] = Answered("refused"), entitled[c]
     PROVE  request[c].at = "insert"
  OBVIOUS
<1>1. request[c].at # "answered" /\ InOrder(users, request[c]) /\ request'[c].at = "answered"
  BY MadeRequests DEF IInv, Held, Ordered
<1>2. \E u \in Verified(users) : Matches(users, request[c].email) = {u}
  BY <1>1 DEF InOrder
<1>3. request'[c] # request[c]
  BY <1>1
<1>4. PICK d \in Clients : Step(d)
  BY <1>3 DEF Next, Administer
<1>5. c = d
  <2>1. \E r : request' = [request EXCEPT ![d] = r]
    BY <1>4 DEF Step, Register, SignIn, Present, Begin, Insert, Conflict, Find, FindNone,
                Issue, Refuse, Authorize, TurnAway, Serve, Fail, Continue, Answer
  <2>. QED
    BY <2>1, <1>3 DEF IInv, TypeOK
<1>6. ~FindNone(c) /\ ~TurnAway(c)
  BY <1>2 DEF FindNone, TurnAway
<1>7. ~Refuse(c)
  BY DEF Refuse, IInv, Held, Issues
<1>8. \A e \in Emails, p \in Passwords : ~Register(c, e, p) /\ ~SignIn(c, e, p)
  BY <1>1 DEF Register, SignIn, Begin
<1>9. \A t \in tokens : ~Present(c, t)
  BY <1>1 DEF Present, Begin
<1>10. ~Insert(c) /\ ~Issue(c) /\ ~Serve(c) /\ ~Fail(c)
  <2>1. \A how \in {"ok", "error"} : request' # [request EXCEPT ![c] = Answered(how)]
    BY DEF Answered, IInv, TypeOK
  <2>. QED
    BY <2>1 DEF Insert, Issue, Serve, Fail, Continue, Answer
<1>11. ~Find(c) /\ ~Authorize(c)
  <2>1. \A r : r.at # "answered" => request' # [request EXCEPT ![c] = r]
    BY <1>1 DEF IInv, TypeOK
  <2>. QED
    BY <2>1 DEF Find, Authorize, Continue, Issuing, Admitted
<1>12. Conflict(c)
  BY <1>4, <1>5, <1>6, <1>7, <1>8, <1>9, <1>10, <1>11 DEF Step
<1>. QED
  BY <1>12 DEF Conflict

\* NotTurnedAway: a request that was in order from when it came is not refused.
THEOREM Service == Spec => NotTurnedAway
<1>1. IInv /\ [Next]_vars =>
        [\A c \in Clients : request'[c] = Answered("refused") /\ entitled[c] =>
           request[c].at = "insert"]_vars
  BY RefusingStep
<1>. QED
  BY <1>1, Invariance, PTL DEF Spec, NotTurnedAway

\* RegistrationOnlyAdds: whatever clients do, no user is changed or removed.
THEOREM Registration == Spec => RegistrationOnlyAdds
<1>1. ASSUME TypeOK, NEW c \in Clients, Step(c), NEW e \in Emails, users[e] # NoUser
      PROVE  users'[e] = users[e]
  <2>1. \/ users' = users
        \/ users[request[c].email] = NoUser /\ users' = Registered(request[c])
    BY <1>1 DEF Step, Register, SignIn, Present, Begin, Insert, Conflict, Find, FindNone,
                Issue, Refuse, Authorize, TurnAway, Serve, Fail, Continue
  <2>. QED
    BY <1>1, <2>1 DEF Registered, TypeOK
<1>2. TypeOK /\ [Next]_vars =>
        [\/ \E e \in Emails : Administer(e)
         \/ \A e \in Emails : users[e] # NoUser => users'[e] = users[e]]_vars
  BY <1>1 DEF Next
<1>. QED
  BY <1>2, TypeCorrect, PTL DEF Spec, RegistrationOnlyAdds
=============================================================================
