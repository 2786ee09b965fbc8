----------------------------- MODULE AdminSetup -----------------------------
(***************************************************************************)
(* First-run setup, login and tokens: POST /api/auth/setup, /login and     *)
(* /refresh (handler/auth_handler.go), the check of a token before an API  *)
(* request or a dashboard connection (middleware/auth.go, websocket/       *)
(* handler.go), the users table (repository/user_repo.go) and the tokens   *)
(* (service/auth_service.go).  A setup request looks at the table twice,   *)
(* hashes a password, inserts, and logs in; a refresh checks its token     *)
(* before it reads the user; requests run concurrently and no transaction  *)
(* spans two of their steps.  Handlers reject an empty name, password or   *)
(* token, so none occurs here.                                             *)
(***************************************************************************)
EXTENDS Naturals, FiniteSets

CONSTANTS
  Requests,     \* requests, each served once
  Names,        \* usernames
  Passwords,
  None,         \* no name, no password
  MaxDbFaults   \* bound: queries that fail in a run

ASSUME NoneAssumption == None \notin Names \cup Passwords
ASSUME FaultBoundAssumption == MaxDbFaults \in Nat

VARIABLES
  users,     \* the users table: username -> password, None if there is no row
  pc,        \* where a request is
  kind,      \* the route of a request
  name,      \* the username in its body, or the user in its token's claims
  password,  \* the password in its body
  shown,     \* the type in its token's claims
  tokens,    \* the users and types for which a token is signed and not expired
  resp,      \* what it was answered
  dbFaults   \* queries that failed so far

bodyVars == <<kind, name, password, shown>>
vars == <<users, pc, bodyVars, tokens, resp, dbFaults>>

Users == {n \in Names : users[n] # None}

States == {"idle", "checking", "seeding", "creating", "login", "parsing", "renewing",
           "authorizing", "done"}

Answers == {"none", "tokens", "served", "created", "bad request", "unauthorized",
            "internal error"}

Token == [user : Names, type : {"access", "refresh"}]

TypeOK ==
  /\ users \in [Names -> Passwords \cup {None}]
  /\ pc \in [Requests -> States]
  /\ kind \in [Requests -> {"none", "setup", "login", "refresh", "api"}]
  /\ name \in [Requests -> Names \cup {None}]
  /\ password \in [Requests -> Passwords \cup {None}]
  /\ shown \in [Requests -> {"none", "access", "refresh"}]
  /\ \A q \in Requests :
       /\ pc[q] # "idle" => name[q] \in Names
       /\ kind[q] \in {"setup", "login"} => password[q] \in Passwords
       /\ pc[q] \in {"checking", "seeding", "creating", "login"} => kind[q] \in {"setup", "login"}
       /\ pc[q] \in {"parsing", "renewing"} => kind[q] = "refresh"
  /\ tokens \subseteq Token
  /\ resp \in [Requests -> Answers]
  /\ dbFaults \in 0..MaxDbFaults

Init ==
  /\ users = [n \in Names |-> None]
  /\ pc = [q \in Requests |-> "idle"]
  /\ kind = [q \in Requests |-> "none"]
  /\ name = [q \in Requests |-> None]
  /\ password = [q \in Requests |-> None]
  /\ shown = [q \in Requests |-> "none"]
  /\ tokens = {}
  /\ resp = [q \in Requests |-> "none"]
  /\ dbFaults = 0

-----------------------------------------------------------------------------
\* mutant: the body of the request is not parsed
ArriveUnparsed(q, route, n, p) ==
  /\ pc[q] = "idle"
  /\ pc' = [pc EXCEPT ![q] = IF route = "setup" THEN "checking" ELSE "login"]
  /\ kind' = [kind EXCEPT ![q] = route]
  /\ UNCHANGED <<users, name, password, shown, tokens, resp, dbFaults>>

Arrive(q, route, n, p) ==
  /\ pc[q] = "idle"
  /\ pc' = [pc EXCEPT ![q] = IF route = "setup" THEN "checking" ELSE "login"]
  /\ kind' = [kind EXCEPT ![q] = route]
  /\ name' = [name EXCEPT ![q] = n]
  /\ password' = [password EXCEPT ![q] = p]
  /\ UNCHANGED <<users, shown, tokens, resp, dbFaults>>

\* a refresh, an API request or a dashboard shows a token, good or not
Present(q, route, n, type) ==
  /\ pc[q] = "idle"
  /\ pc' = [pc EXCEPT ![q] = IF route = "refresh" THEN "parsing" ELSE "authorizing"]
  /\ kind' = [kind EXCEPT ![q] = route]
  /\ name' = [name EXCEPT ![q] = n]
  /\ shown' = [shown EXCEPT ![q] = type]
  /\ UNCHANGED <<users, password, tokens, resp, dbFaults>>

GoTo(q, from, to) == /\ pc[q] = from
                     /\ pc' = [pc EXCEPT ![q] = to]
                     /\ UNCHANGED <<resp, dbFaults>>

Finish(q, from, answer) == /\ pc[q] = from
                           /\ pc' = [pc EXCEPT ![q] = "done"]
                           /\ resp' = [resp EXCEPT ![q] = answer]
                           /\ UNCHANGED dbFaults

Faulty(q, from, answer) == /\ dbFaults < MaxDbFaults
                           /\ dbFaults' = dbFaults + 1
                           /\ pc[q] = from
                           /\ pc' = [pc EXCEPT ![q] = "done"]
                           /\ resp' = [resp EXCEPT ![q] = answer]

\* Setup, first look: no user yet, or 400
RequiresSetup(q) ==
  /\ \/ Users = {} /\ GoTo(q, "checking", "seeding")
     \/ Users # {} /\ Finish(q, "checking", "bad request")
     \/ Faulty(q, "checking", "internal error")
  /\ UNCHANGED <<users, bodyVars, tokens>>

\* mutant: SeedAdmin trusts the first look
SeedAdminBlindly(q) ==
  /\ GoTo(q, "seeding", "creating") \/ Faulty(q, "seeding", "internal error")
  /\ UNCHANGED <<users, bodyVars, tokens>>

\* SeedAdmin, second look: where a user exists by now it returns nil
SeedAdmin(q) ==
  /\ \/ Users = {} /\ GoTo(q, "seeding", "creating")
     \/ Users # {} /\ GoTo(q, "seeding", "login")
     \/ Faulty(q, "seeding", "internal error")
  /\ UNCHANGED <<users, bodyVars, tokens>>

\* INSERT INTO users, with username UNIQUE
CreateUser(q) ==
  /\ pc[q] = "creating"
  /\ \/ /\ users[name[q]] = None
        /\ users' = [users EXCEPT ![name[q]] = password[q]]
        /\ GoTo(q, "creating", "login")
     \/ /\ users[name[q]] # None
        /\ Finish(q, "creating", "internal error")
        /\ UNCHANGED users
     \/ Faulty(q, "creating", "internal error") /\ UNCHANGED users
  /\ UNCHANGED <<bodyVars, tokens>>

\* a setup answers that its user was created when the login that follows fails
LoginFailure(q) == IF kind[q] = "setup" THEN "created" ELSE "unauthorized"

\* generateTokens, for the answer to a request
Issue(q, from) ==
  /\ Finish(q, from, "tokens")
  /\ tokens' = tokens \cup {[user |-> name[q], type |-> t] : t \in {"access", "refresh"}}

\* mutant: the password is not compared
LoginByName(q) ==
  /\ pc[q] = "login"
  /\ \/ users[name[q]] # None /\ Issue(q, "login")
     \/ users[name[q]] = None /\ Finish(q, "login", LoginFailure(q)) /\ UNCHANGED tokens
  /\ UNCHANGED <<users, bodyVars>>

Login(q) ==
  /\ pc[q] = "login"
  /\ \/ users[name[q]] = password[q] /\ Issue(q, "login")
     \/ /\ \/ users[name[q]] # password[q] /\ Finish(q, "login", LoginFailure(q))
           \/ Faulty(q, "login", LoginFailure(q))
        /\ UNCHANGED tokens
  /\ UNCHANGED <<users, bodyVars>>

\* the token a request shows is signed, not expired, and of this type
Holds(q, type) == shown[q] = type /\ [user |-> name[q], type |-> type] \in tokens

\* mutant: a token that does not parse, or has expired, goes through
RefreshUnparsed(q) ==
  /\ \/ shown[q] = "refresh" /\ GoTo(q, "parsing", "renewing")
     \/ shown[q] # "refresh" /\ Finish(q, "parsing", "unauthorized")
  /\ UNCHANGED <<users, bodyVars, tokens>>

\* RefreshAccessToken, up to the read of the user
RefreshParse(q) ==
  /\ \/ Holds(q, "refresh") /\ GoTo(q, "parsing", "renewing")
     \/ ~Holds(q, "refresh") /\ Finish(q, "parsing", "unauthorized")
  /\ UNCHANGED <<users, bodyVars, tokens>>

\* and from there on, also if the token expires in between
Renew(q) ==
  /\ pc[q] = "renewing"
  /\ \/ users[name[q]] # None /\ Issue(q, "renewing")
     \/ /\ \/ users[name[q]] = None /\ Finish(q, "renewing", "unauthorized")
           \/ Faulty(q, "renewing", "unauthorized")
        /\ UNCHANGED tokens
  /\ UNCHANGED <<users, bodyVars>>

\* ValidateToken before a protected route; the users table is not read
Authorize(q) ==
  /\ \/ Holds(q, "access") /\ Finish(q, "authorizing", "served")
     \/ ~Holds(q, "access") /\ Finish(q, "authorizing", "unauthorized")
  /\ UNCHANGED <<users, bodyVars, tokens>>

\* the last token of a user and type expires: an access token lives 15 minutes, a
\* refresh token of the same pair seven days
Expire(n, type) ==
  /\ [user |-> n, type |-> type] \in tokens
  /\ type = "refresh" => [user |-> n, type |-> "access"] \notin tokens
  /\ tokens' = tokens \ {[user |-> n, type |-> type]}
  /\ UNCHANGED <<users, pc, bodyVars, resp, dbFaults>>

\* the process dies: requests in flight get no answer; tokens stay good, for the
\* secret that signs them comes from the environment
Crash ==
  /\ \E q \in Requests : pc[q] \notin {"idle", "done"}
  /\ pc' = [q \in Requests |-> IF pc[q] = "idle" THEN "idle" ELSE "done"]
  /\ UNCHANGED <<users, bodyVars, tokens, resp, dbFaults>>

Serve(q) ==
  \/ RequiresSetup(q)
  \/ SeedAdmin(q)
  \/ CreateUser(q)
  \/ Login(q)
  \/ RefreshParse(q)
  \/ Renew(q)
  \/ Authorize(q)

Next ==
  \/ \E q \in Requests :
       \/ \E r \in {"setup", "login"}, n \in Names, p \in Passwords : Arrive(q, r, n, p)
       \/ \E r \in {"refresh", "api"}, t \in Token : Present(q, r, t.user, t.type)
       \/ Serve(q)
  \/ \E t \in Token : Expire(t.user, t.type)
  \/ Crash

Spec == Init /\ [][Next]_vars

-----------------------------------------------------------------------------
(* Properties *)

\* Once a user exists and no setup is past its second look, the table never
\* changes again: however many setups still run, they find it taken.
SetupCloses ==
  [][Users # {} /\ (\A q \in Requests : pc[q] # "creating") =>
       users' = users /\ \A q \in Requests : pc'[q] # "creating"]_vars

\* Tokens are answered to a setup or login only for the name and password of a
\* user, also to a setup that lost the race for the first user; and whoever holds
\* a token, or was served with one, is in the table, which ValidateToken never
\* reads.
TokensForUsers ==
  /\ \A t \in tokens : t.user \in Users
  /\ \A q \in Requests :
       /\ resp[q] = "tokens" /\ kind[q] # "refresh" => users[name[q]] = password[q]
       /\ resp[q] \in {"tokens", "served"} => name[q] \in Users

\* A setup answered with success leaves the server set up, whosever user it is.
SuccessMeansSetUp ==
  \A q \in Requests : kind[q] = "setup" /\ resp[q] \in {"tokens", "created"} => Users # {}

\* a refresh of n is past the check of its token
BeingRenewed(n) == \E q \in Requests : pc[q] = "renewing" /\ name[q] = n

LoggedOut(n) == (\A t \in tokens : t.user # n) /\ ~BeingRenewed(n)

\* A user all of whose tokens have expired, and for whom no refresh got past the
\* check before that, is logged out until a request brings the password: no
\* refresh, setup or API request renews the session.
LoggedOutStaysOut ==
  [][\A n \in Names : LoggedOut(n) /\ ~LoggedOut(n)' =>
       \E q \in Requests : /\ pc[q] = "login" /\ resp'[q] = "tokens"
                           /\ name[q] = n /\ password[q] = users[n]]_vars

=============================================================================
