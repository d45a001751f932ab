-------------------------------- MODULE Auth --------------------------------
(***************************************************************************)
(* Authentication (src/src/auth): registration, sign-in and the middleware *)
(* before the protected routes, over PostgreSQL's table users, and an      *)
(* administrator who edits it.  Time is left out: a token handed out may   *)
(* be accepted, or have expired, whenever it is presented.                 *)
(*                                                                         *)
(* Every handler awaits the database once, and what it does next it does   *)
(* with the row, or the decoded token, it holds by then.  Users are unique *)
(* by email as stored, and looked up by LOWER(email): rows that differ in  *)
(* case only (twins) can both be there, and a lookup returns either.       *)
(***************************************************************************)
EXTENDS Integers, FiniteSets

CONSTANTS
  Clients,    \* connections; each makes one request at a time
  Emails,     \* addresses as clients spell them or rows store them
  Normalize,  \* normalize_email: trimmed, ASCII letters in lower case
  Lower,      \* PostgreSQL's LOWER
  Passwords,
  NoUser, NoPassword

ASSUME AuthAssumption ==
  /\ Normalize \in [Emails -> Emails] /\ Lower \in [Emails -> Emails]
  /\ NoPassword \notin Passwords

\* DbUser; a hash is identified with the password it was made of.
Rows == [password : Passwords, is_verified : BOOLEAN]
ASSUME NoUserAssumption == NoUser \notin Rows

VARIABLES
  users,     \* the table: email -> row, or NoUser
  tokens,    \* the emails tokens were handed out for
  request,   \* what each client's request is waiting for, or how it was answered
  since,     \* history: users, with password, verified since the request came
  entitled   \* history: the request was in order ever since it came

history == <<since, entitled>>
vars == <<users, tokens, request, history>>

Verified(us) == { u \in Emails : us[u] # NoUser /\ us[u].is_verified }

\* The rows a lookup may return.
Matches(us, e) == { u \in Emails : us[u] # NoUser /\ Lower[u] = Lower[e] }

\* Answered requests, and those at the INSERT, at the lookup of a sign-in and
\* after it, at the lookup of the middleware, and in the handler behind it.
Answered(how) == [at |-> "answered", how |-> how]
Inserting(e, p) == [at |-> "insert", email |-> e, password |-> p]
Finding(e, p) == [at |-> "find", email |-> e, password |-> p]
Issuing(e, p, u) == [at |-> "issue", email |-> e, password |-> p, user |-> u, row |-> users[u]]
Authorizing(e) == [at |-> "authorize", email |-> e, password |-> NoPassword]
Admitted(e, u) == [at |-> "admitted", email |-> e, password |-> NoPassword, current_user |-> u]

\* A verified user without a twin, and the right password where one is needed.
InOrder(us, r) ==
  \E u \in Verified(us) : /\ Matches(us, r.email) = {u}
                          /\ r.password \in {NoPassword, us[u].password}

-----------------------------------------------------------------------------

Init ==
  /\ users = [e \in Emails |-> NoUser]
  /\ tokens = {}
  /\ request = [c \in Clients |-> Answered("ok")]
  /\ since = [c \in Clients |-> {}]
  /\ entitled = [c \in Clients |-> FALSE]

\* A request gets as far as its first await; one answered before that changes
\* nothing and is left out.
Begin(c, r) ==
  /\ request[c].at = "answered"
  /\ request' = [request EXCEPT ![c] = r]
  /\ UNCHANGED <<users, tokens>>

\* It gets on, or is answered, without touching anything else.
Continue(c, r) ==
  /\ request' = [request EXCEPT ![c] = r]
  /\ UNCHANGED <<users, tokens>>

Answer(c, how) == request' = [request EXCEPT ![c] = Answered(how)]

(* user_register_handler: the input is valid and the password hashed.      *)

\* Variant: the address is stored as it was given.
RegisterAsGiven(c, e, p) == Begin(c, Inserting(e, p))

Register(c, e, p) == Begin(c, Inserting(Normalize[e], p))

Registered(r) == [users EXCEPT ![r.email] = [password |-> r.password, is_verified |-> FALSE]]

\* Variant: the INSERT has ON CONFLICT DO UPDATE.
InsertOver(c) ==
  /\ request[c].at = "insert"
  /\ users' = Registered(request[c])
  /\ Answer(c, "ok")
  /\ UNCHANGED tokens

Insert(c) ==
  /\ request[c].at = "insert" /\ users[request[c].email] = NoUser
  /\ users' = Registered(request[c])
  /\ Answer(c, "ok")
  /\ UNCHANGED tokens

\* users_email_key is violated.
Conflict(c) ==
  /\ request[c].at = "insert" /\ users[request[c].email] # NoUser
  /\ Continue(c, Answered("refused"))

(* sign_in_handler                                                         *)

SignIn(c, e, p) == Begin(c, Finding(Normalize[e], p))

Find(c) ==
  LET r == request[c] IN
  /\ r.at = "find"
  /\ \E u \in Matches(users, r.email) : Continue(c, Issuing(r.email, r.password, u))

\* Variant: emails are compared as they are stored.
FindNoneExactly(c) ==
  LET r == request[c] IN
  /\ r.at = "find" /\ users[r.email] = NoUser
  /\ Continue(c, Answered("refused"))

FindNone(c) ==
  LET r == request[c] IN
  /\ r.at = "find" /\ Matches(users, r.email) = {}
  /\ Continue(c, Answered("refused"))

\* Variant: the token names the address given, not the user found.
IssueToAddress(c) ==
  LET r == request[c] IN
  /\ r.at = "issue"
  /\ r.row.is_verified /\ r.row.password = r.password
  /\ tokens' = tokens \cup {r.email}
  /\ Answer(c, "ok")
  /\ UNCHANGED users

\* The row was verified and the password is its own when the row was read.
Issue(c) ==
  LET r == request[c] IN
  /\ r.at = "issue"
  /\ r.row.is_verified /\ r.row.password = r.password
  /\ tokens' = tokens \cup {r.user}
  /\ Answer(c, "ok")
  /\ UNCHANGED users

\* Not verified, or the wrong password.
Refuse(c) ==
  LET r == request[c] IN
  /\ r.at = "issue" /\ (~r.row.is_verified \/ r.row.password # r.password)
  /\ Continue(c, Answered("refused"))

(* auth_middleware, and the handler of a protected route behind it.        *)

\* decode_jwt accepts the token.
Present(c, t) == t \in tokens /\ Begin(c, Authorizing(t))

\* Variant: the claims are believed.
AuthorizeByToken(c) ==
  LET r == request[c] IN
  /\ r.at = "authorize"
  /\ Continue(c, Admitted(r.email, r.email))

Authorize(c) ==
  LET r == request[c] IN
  /\ r.at = "authorize"
  /\ \E u \in Matches(users, r.email) \cap Verified(users) :
       Continue(c, Admitted(r.email, u))

\* The user found is not verified, or there is none.
TurnAway(c) ==
  LET r == request[c] IN
  /\ r.at = "authorize"
  /\ \/ Matches(users, r.email) = {}
     \/ \E u \in Matches(users, r.email) : u \notin Verified(users)
  /\ Continue(c, Answered("refused"))

\* next.run(req) returns.
Serve(c) ==
  /\ request[c].at = "admitted"
  /\ Continue(c, Answered("ok"))

(* The rest of the world.                                                  *)

\* The database fails, the hash cannot be read, or the client hangs up; an
\* INSERT may have been made all the same.
Fail(c) ==
  /\ request[c].at \notin {"answered", "admitted"}
  /\ users' \in {users} \cup
       IF request[c].at = "insert" /\ users[request[c].email] = NoUser
       THEN {Registered(request[c])} ELSE {}
  /\ Answer(c, "error")
  /\ UNCHANGED tokens

\* An administrator verifies, changes, removes or imports a user.
Administer(e) ==
  /\ \E r \in Rows \cup {NoUser} : users' = [users EXCEPT ![e] = r]
  /\ UNCHANGED <<tokens, request>>

\* The history variables.
Remember ==
  /\ since' = [c \in Clients |->
                 IF request'[c].at = "answered" THEN {}
                 ELSE { <<u, users'[u].password>> : u \in Verified(users') }
                        \cup since[c]]
  /\ entitled' = [c \in Clients |->
                    /\ request'[c].at # "answered"
                    /\ request[c].at = "answered" \/ entitled[c]
                    /\ InOrder(users', request'[c])]

Step(c) ==
  \/ \E e \in Emails, p \in Passwords : Register(c, e, p) \/ SignIn(c, e, p)
  \/ \E t \in tokens : Present(c, t)
  \/ Insert(c) \/ Conflict(c)
  \/ Find(c) \/ FindNone(c) \/ Issue(c) \/ Refuse(c)
  \/ Authorize(c) \/ TurnAway(c) \/ Serve(c)
  \/ Fail(c)

Next ==
  /\ \/ \E c \in Clients : Step(c)
     \/ \E e \in Emails : Administer(e)
  /\ Remember

Spec == Init /\ [][Next]_vars

-----------------------------------------------------------------------------
(* Properties.                                                             *)

Normalized == { Normalize[e] : e \in Emails }
Requests ==
  { Answered(how) : how \in {"ok", "refused", "error"} }
    \cup [at : {"insert"}, email : Normalized, password : Passwords]
    \cup [at : {"find"}, email : Normalized, password : Passwords]
    \cup [at : {"issue"}, email : Normalized, password : Passwords, user : Emails, row : Rows]
    \cup { Authorizing(e) : e \in Emails }
    \cup { Admitted(e, u) : e \in Emails, u \in Emails }

TypeOK ==
  /\ users \in [Emails -> Rows \cup {NoUser}]
  /\ tokens \subseteq Emails
  /\ request \in [Clients -> Requests]
  /\ since \in [Clients -> SUBSET (Emails \X Passwords)]
  /\ entitled \in [Clients -> BOOLEAN]

Shown(c, u) == \E p \in Passwords : <<u, p>> \in since[c]

\* A token does not outlive the right to use it: behind the middleware runs
\* only a request whose user was verified at some moment since it came, whatever
\* the administrator did after the token was issued; and that user has the
\* address the token names.
AdmittedIsVerified ==
  \A c \in Clients : request[c].at = "admitted" =>
    /\ Shown(c, request[c].current_user)
    /\ Lower[request[c].current_user] = Lower[request[c].email]

\* A new token names a user who, at some moment since the sign-in came, was
\* verified and had the password it came with, even where the address given has
\* a twin.
IssuedToItsUser ==
  [][\A u \in tokens' \ tokens : \E c \in Clients :
       request[c].at = "issue" /\ <<u, request[c].password>> \in since[c]]_vars

\* A user is not turned away, at sign-in or with a token, whose request was in
\* order from when it came: verified, the right password, and no other row with
\* the address in another spelling.  A sign-in is in order only if its user has
\* a row that the normalised address finds; one imported with a space around it
\* has not.
NotTurnedAway ==
  [][\A c \in Clients : request'[c] = Answered("refused") /\ entitled[c] =>
       request[c].at = "insert"]_vars

\* Only the administrator changes or removes a user; a registration adds one,
\* whatever other registrations of the address are under way.
RegistrationOnlyAdds ==
  [][\/ \E e \in Emails : Administer(e)
     \/ \A e \in Emails : users[e] # NoUser => users'[e] = users[e]]_vars
=============================================================================
