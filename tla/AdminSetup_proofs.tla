-------------------------- MODULE AdminSetup_proofs --------------------------
(***************************************************************************)
(* Proofs about AdminSetup, for every number of requests, names and        *)
(* passwords.                                                              *)
(***************************************************************************)
EXTENDS AdminSetup, TLAPS

\* Counting one more failed query stays within the bound.
LEMMA FaultCount ==
  ASSUME NEW n \in 0..MaxDbFaults, n < MaxDbFaults PROVE n + 1 \in 0..MaxDbFaults
  BY FaultBoundAssumption

\* How a served request moves keeps the types of what it changes.
LEMMA MoveType ==
  ASSUME TypeOK, NEW q \in Requests, NEW from, NEW to \in States, NEW answer \in Answers,
         pc[q] # "idle", to # "idle",
         \/ GoTo(q, from, to) \/ Finish(q, from, answer) \/ Faulty(q, from, answer)
  PROVE  /\ pc' \in [Requests -> States]
         /\ \A x \in Requests : pc'[x] = pc[x] \/ (x = q /\ pc[q] = from /\ pc'[x] \in {to, "done"})
         /\ resp' \in [Requests -> Answers]
         /\ dbFaults' \in 0..MaxDbFaults
<1> USE DEF States, Answers
<1>1. CASE GoTo(q, from, to)
  BY <1>1 DEF TypeOK, GoTo
<1>2. CASE Finish(q, from, answer)
  BY <1>2 DEF TypeOK, Finish
<1>3. CASE Faulty(q, from, answer)
  <2>1. dbFaults' \in 0..MaxDbFaults
    <3>1. dbFaults \in 0..MaxDbFaults /\ dbFaults < MaxDbFaults /\ dbFaults' = dbFaults + 1
      BY <1>3 DEF TypeOK, Faulty
    <3>2. dbFaults + 1 \in 0..MaxDbFaults
      BY <3>1, FaultCount
    <3> QED
      BY <3>1, <3>2
  <2> QED
    BY <1>3, <2>1 DEF TypeOK, Faulty
<1> QED
  BY <1>1, <1>2, <1>3

\* What a step of a served request does, said once for all of them: only the
\* request itself moves, its body stays, and it is not back at its arrival.
LEMMA ServeMoves ==
  ASSUME TypeOK, NEW q \in Requests, Serve(q)
  PROVE  /\ pc[q] # "idle" /\ UNCHANGED <<kind, name, password, shown>>
         /\ pc' \in [Requests -> States] /\ resp' \in [Requests -> Answers]
         /\ dbFaults' \in 0..MaxDbFaults
         /\ \A x \in Requests : x # q => pc'[x] = pc[x] /\ resp'[x] = resp[x]
         /\ pc'[q] \in {"seeding", "creating", "login"} => kind[q] \in {"setup", "login"}
         /\ pc'[q] = "renewing" => kind[q] = "refresh" /\ Holds(q, "refresh")
         /\ pc'[q] \notin {"idle", "checking", "parsing", "authorizing"}
<1>1. pc[q] # "idle" /\ UNCHANGED <<kind, name, password, shown>>
  BY DEF Serve, RequiresSetup, SeedAdmin, CreateUser, Login, RefreshParse, Renew, Authorize, Issue,
         GoTo, Finish, Faulty, bodyVars
<1>2. PICK from \in States, to \in States, answer \in Answers :
         /\ to # "idle"
         /\ GoTo(q, from, to) \/ Finish(q, from, answer) \/ Faulty(q, from, answer)
  <2> USE DEF States, Answers
  <2>1. CASE RequiresSetup(q)
    BY <2>1 DEF RequiresSetup
  <2>2. CASE SeedAdmin(q)
    BY <2>2 DEF SeedAdmin
  <2>3. CASE CreateUser(q)
    BY <2>3 DEF CreateUser
  <2>4. CASE Login(q)
    BY <2>4 DEF Login, Issue, LoginFailure
  <2>5. CASE RefreshParse(q)
    BY <2>5 DEF RefreshParse
  <2>6. CASE Renew(q)
    BY <2>6 DEF Renew, Issue
  <2>7. CASE Authorize(q)
    BY <2>7 DEF Authorize
  <2> QED
    BY <2>1, <2>2, <2>3, <2>4, <2>5, <2>6, <2>7 DEF Serve
<1>3. /\ pc' \in [Requests -> States] /\ resp' \in [Requests -> Answers]
      /\ dbFaults' \in 0..MaxDbFaults
  BY <1>1, <1>2, MoveType
<1>4. \A x \in Requests : x # q => pc'[x] = pc[x] /\ resp'[x] = resp[x]
  BY <1>2 DEF TypeOK, GoTo, Finish, Faulty
<1>5. /\ pc'[q] \in {"seeding", "creating", "login"} => kind[q] \in {"setup", "login"}
      /\ pc'[q] = "renewing" => kind[q] = "refresh" /\ Holds(q, "refresh")
      /\ pc'[q] \notin {"idle", "checking", "parsing", "authorizing"}
  <2>1. CASE RequiresSetup(q) \/ SeedAdmin(q) \/ CreateUser(q)
    BY <2>1 DEF TypeOK, RequiresSetup, SeedAdmin, CreateUser, GoTo, Finish, Faulty
  <2>2. CASE Login(q) \/ RefreshParse(q) \/ Renew(q) \/ Authorize(q)
    BY <2>2 DEF TypeOK, Login, RefreshParse, Renew, Authorize, Issue, GoTo, Finish, Faulty
  <2> QED
    BY <2>1, <2>2 DEF Serve
<1> QED
  BY <1>1, <1>3, <1>4, <1>5

\* A step of a served request on the users and the tokens: a row may be added, and
\* tokens are issued to a user of the table.
LEMMA ServeIssues ==
  ASSUME TypeOK, NEW q \in Requests, Serve(q)
  PROVE  /\ \/ UNCHANGED users
            \/ /\ pc[q] = "creating" /\ users[name[q]] = None
               /\ users' = [users EXCEPT ![name[q]] = password[q]]
         /\ tokens \subseteq tokens'
         /\ tokens' \subseteq Token
         /\ \A t \in tokens' \ tokens : t.user = name[q]
         /\ tokens' # tokens =>
              /\ users[name[q]] # None /\ UNCHANGED users
              /\ \/ pc[q] = "renewing"
                 \/ pc[q] = "login" /\ resp'[q] = "tokens" /\ users[name[q]] = password[q]
<1>1. name[q] \in Names
  BY ServeMoves DEF TypeOK
<1> USE <1>1 DEF TypeOK, Token
<1>2. CASE RequiresSetup(q) \/ SeedAdmin(q) \/ RefreshParse(q) \/ Authorize(q)
  BY <1>2 DEF RequiresSetup, SeedAdmin, RefreshParse, Authorize
<1>3. CASE CreateUser(q)
  BY <1>3 DEF CreateUser
<1>4. CASE Login(q)
  <2>1. UNCHANGED users /\ pc[q] = "login" /\ password[q] \in Passwords
    BY <1>4 DEF Login
  <2>2. CASE UNCHANGED tokens
    BY <2>1, <2>2
  <2>3. CASE users[name[q]] = password[q] /\ Issue(q, "login")
    <3>1. resp'[q] = "tokens"
      BY <2>3 DEF Issue, Finish
    <3>2. tokens' = tokens \cup {[user |-> name[q], type |-> t] : t \in {"access", "refresh"}}
      BY <2>3 DEF Issue
    <3> QED
      BY <2>1, <2>3, <3>1, <3>2, NoneAssumption
  <2> QED
    BY <1>4, <2>2, <2>3 DEF Login
<1>5. CASE Renew(q)
  BY <1>5 DEF Renew, Issue
<1> QED
  BY <1>2, <1>3, <1>4, <1>5 DEF Serve

\* Every step keeps the variables in their types.
LEMMA TypeStep == ASSUME TypeOK, [Next]_vars PROVE TypeOK'
<1> USE FaultBoundAssumption, NoneAssumption DEF bodyVars
<1>1. ASSUME NEW q \in Requests, NEW r \in {"setup", "login"}, NEW n \in Names,
             NEW p \in Passwords, Arrive(q, r, n, p)
      PROVE  TypeOK'
  BY <1>1 DEF TypeOK, Arrive, States
<1>2. ASSUME NEW q \in Requests, NEW r \in {"refresh", "api"}, NEW t \in Token,
             Present(q, r, t.user, t.type)
      PROVE  TypeOK'
  BY <1>2 DEF TypeOK, Present, States, Token
<1>3. ASSUME NEW q \in Requests, Serve(q) PROVE TypeOK'
  <2>1. users' \in [Names -> Passwords \cup {None}]
    BY <1>3, ServeIssues DEF TypeOK
  <2>2. tokens' \subseteq Token
    BY <1>3, ServeIssues
  <2>3. /\ UNCHANGED <<kind, name, password, shown>> /\ pc[q] # "idle"
        /\ pc' \in [Requests -> States] /\ resp' \in [Requests -> Answers]
        /\ dbFaults' \in 0..MaxDbFaults
    BY <1>3, ServeMoves
  <2>4. \A x \in Requests :
          /\ pc'[x] # "idle" => name'[x] \in Names
          /\ kind'[x] \in {"setup", "login"} => password'[x] \in Passwords
          /\ pc'[x] \in {"checking", "seeding", "creating", "login"}
               => kind'[x] \in {"setup", "login"}
          /\ pc'[x] \in {"parsing", "renewing"} => kind'[x] = "refresh"
    BY <1>3, <2>3, ServeMoves DEF TypeOK
  <2> QED
    BY <2>1, <2>2, <2>3, <2>4 DEF TypeOK
<1>4. ASSUME NEW t \in Token, Expire(t.user, t.type) PROVE TypeOK'
  BY <1>4 DEF TypeOK, Expire
<1>5. ASSUME Crash PROVE TypeOK'
  BY <1>5 DEF TypeOK, Crash, States
<1>6. ASSUME UNCHANGED vars PROVE TypeOK'
  BY <1>6 DEF TypeOK, vars
<1> QED
  BY <1>1, <1>2, <1>3, <1>4, <1>5, <1>6 DEF Next

\* The type invariant of the users table and the requests on it.
THEOREM TypeCorrect == Spec => []TypeOK
<1>1. Init => TypeOK
  BY FaultBoundAssumption DEF Init, TypeOK, States, Answers, Token
<1> QED
  BY <1>1, TypeStep, PTL DEF Spec

-----------------------------------------------------------------------------
\* A user, once in the table, stays with its password.
LEMMA UsersKept ==
  ASSUME TypeOK, [Next]_vars, NEW n \in Names, users[n] # None
  PROVE  users'[n] = users[n]
<1>1. ASSUME NEW q \in Requests, Serve(q) PROVE users'[n] = users[n]
  BY <1>1, ServeIssues DEF TypeOK
<1>2. CASE UNCHANGED users
  BY <1>2
<1> QED
  BY <1>1, <1>2 DEF Next, Arrive, Present, Expire, Crash, vars

\* What a setup that reaches its login, or was answered with success, has shown:
\* the table is not empty.
SetUpInv ==
  \A q \in Requests :
    kind[q] = "setup" /\ (pc[q] = "login" \/ resp[q] \in {"tokens", "created"}) => Users # {}

\* A request that is not done has no answer yet; a refresh past its check is for a
\* user of the table.
ServedInv ==
  \A q \in Requests : /\ pc[q] # "done" => resp[q] = "none"
                      /\ pc[q] = "renewing" => name[q] \in Users

AnswerInv == SetUpInv /\ ServedInv /\ TokensForUsers

\* Every step keeps the answers and the tokens true of the table.
LEMMA AnswerStep ==
  ASSUME TypeOK, AnswerInv, [Next]_vars
  PROVE  AnswerInv'
<1>1. Users \subseteq Users'
  BY UsersKept DEF Users
<1>2. TypeOK'
  BY TypeStep
<1> USE NoneAssumption DEF AnswerInv, SetUpInv, ServedInv, TokensForUsers, bodyVars
<1>3. ASSUME NEW q \in Requests,
             \/ \E r \in {"setup", "login"}, n \in Names, p \in Passwords : Arrive(q, r, n, p)
             \/ \E r \in {"refresh", "api"}, t \in Token : Present(q, r, t.user, t.type)
      PROVE  AnswerInv'
  <2>1. /\ pc[q] = "idle" /\ resp[q] = "none" /\ UNCHANGED <<users, tokens, resp, Users>>
        /\ pc'[q] = "login" => kind'[q] = "login"
        /\ pc'[q] \notin {"renewing", "done"}
        /\ \A x \in Requests : x # q => /\ pc'[x] = pc[x] /\ kind'[x] = kind[x]
                                        /\ name'[x] = name[x] /\ password'[x] = password[x]
    BY <1>3 DEF Arrive, Present, TypeOK, Users
  <2>2. SetUpInv'
    BY <1>1, <2>1
  <2>3. ServedInv'
    BY <1>1, <2>1
  <2>4. TokensForUsers'
    BY <1>1, <2>1
  <2> QED
    BY <2>2, <2>3, <2>4
<1>4. ASSUME NEW q \in Requests, Serve(q) PROVE AnswerInv'
  <2>1. /\ UNCHANGED <<kind, name, password, shown>>
        /\ \A x \in Requests : x # q => pc'[x] = pc[x] /\ resp'[x] = resp[x]
        /\ pc'[q] = "renewing" => Holds(q, "refresh")
    BY <1>4, ServeMoves
  <2>2. \A n \in Names : users[n] # None => users'[n] = users[n]
    BY UsersKept
  <2>3. /\ pc'[q] # "done" => resp'[q] = "none"
        /\ pc'[q] = "login" \/ resp'[q] \in {"tokens", "created"} => Users' # {} \/ kind[q] # "setup"
        /\ resp'[q] \in {"tokens", "served"} => name[q] \in Users
        /\ resp'[q] = "tokens" /\ kind[q] # "refresh" => users[name[q]] = password[q]
    <3> USE DEF GoTo, Finish, Faulty, Issue, TypeOK
    <3>1. CASE RequiresSetup(q)
      BY <1>4, <3>1, ServeMoves DEF RequiresSetup
    <3>2. CASE SeedAdmin(q)
      BY <1>1, <3>2 DEF SeedAdmin
    <3>3. CASE CreateUser(q)
      <4>1. name[q] \in Names /\ password[q] \in Passwords
        BY <3>3 DEF CreateUser
      <4>2. pc'[q] = "login" => users'[name[q]] = password[q]
        BY <3>3, <4>1 DEF CreateUser
      <4>3. pc'[q] = "login" => Users' # {}
        BY <4>1, <4>2 DEF Users
      <4> QED
        BY <3>3, <4>3 DEF CreateUser
    <3>4. CASE Login(q)
      <4>1. name[q] \in Names /\ password[q] \in Passwords
        BY <3>4 DEF Login
      <4>2. resp'[q] = "tokens" => users[name[q]] = password[q]
        BY <3>4, <4>1 DEF Login, LoginFailure
      <4>3. kind[q] = "setup" => Users # {}
        BY <3>4 DEF Login
      <4>4. pc'[q] = "done" /\ resp'[q] # "served"
        BY <3>4 DEF Login, LoginFailure
      <4> QED
        BY <1>1, <4>1, <4>2, <4>3, <4>4 DEF Users
    <3>5. CASE RefreshParse(q)
      BY <3>5 DEF RefreshParse
    <3>6. CASE Renew(q)
      BY <3>6 DEF Renew, Users
    <3>7. CASE Authorize(q)
      BY <3>7 DEF Authorize, Holds
    <3> QED
      BY <1>4, <3>1, <3>2, <3>3, <3>4, <3>5, <3>6, <3>7 DEF Serve
  <2>4. SetUpInv'
    BY <1>1, <2>1, <2>3
  <2>5. ServedInv'
    <3>1. pc'[q] = "renewing" => name[q] \in Users
      BY <2>1 DEF Holds
    <3> QED
      BY <1>1, <2>1, <2>3, <3>1
  <2>6. TokensForUsers'
    <3>1. \A t \in tokens' : t.user \in Users'
      BY <1>1, <1>4, ServeIssues, ServeMoves DEF TypeOK, Users
    <3>2. ASSUME NEW x \in Requests, resp'[x] = "tokens", kind'[x] # "refresh"
          PROVE  users'[name'[x]] = password'[x]
      <4>1. users[name[x]] = password[x] /\ name[x] \in Users
        BY <2>1, <2>3, <3>2
      <4> QED
        BY <2>1, <2>2, <4>1 DEF Users
    <3>3. \A x \in Requests : resp'[x] \in {"tokens", "served"} => name'[x] \in Users'
      BY <1>1, <2>1, <2>3
    <3> QED
      BY <3>1, <3>2, <3>3
  <2> QED
    BY <2>4, <2>5, <2>6
<1>5. ASSUME NEW t \in Token, Expire(t.user, t.type) PROVE AnswerInv'
  BY <1>5 DEF Expire, Users
<1>6. ASSUME Crash PROVE AnswerInv'
  <2>1. UNCHANGED <<users, kind, name, password, tokens, resp>> /\ UNCHANGED Users
    BY <1>6 DEF Crash, Users
  <2>2. \A q \in Requests : pc'[q] \in {"idle", "done"} /\ (pc'[q] = "idle" => pc[q] = "idle")
    BY <1>6 DEF Crash
  <2> QED
    BY <2>1, <2>2
<1>7. ASSUME UNCHANGED vars PROVE AnswerInv'
  BY <1>7 DEF vars, Users
<1> QED
  BY <1>3, <1>4, <1>5, <1>6, <1>7 DEF Next

\* The answers given are true of the table in every reachable state.
LEMMA AnswersCorrect == Spec => [](TypeOK /\ AnswerInv)
<1>1. Init => AnswerInv
  BY DEF Init, AnswerInv, SetUpInv, ServedInv, TokensForUsers
<1> QED
  BY <1>1, TypeCorrect, AnswerStep, PTL DEF Spec

\* Tokens go only to credentials that are in the table, and name users of it.
THEOREM TokensSound == Spec => []TokensForUsers
  BY AnswersCorrect, PTL DEF AnswerInv

\* After a setup that was answered with success there is a user.
THEOREM SuccessSound == Spec => []SuccessMeansSetUp
<1>1. AnswerInv => SuccessMeansSetUp
  BY DEF AnswerInv, SetUpInv, SuccessMeansSetUp
<1> QED
  BY <1>1, AnswersCorrect, PTL

\* With a user in the table and no insert pending, the table is closed for good.
THEOREM SetupClosed == Spec => SetupCloses
<1>1. ASSUME TypeOK, [Next]_vars, Users # {}, \A q \in Requests : pc[q] # "creating"
      PROVE  users' = users /\ \A q \in Requests : pc'[q] # "creating"
  <2>1. ASSUME NEW q \in Requests, Serve(q)
        PROVE  users' = users /\ \A x \in Requests : pc'[x] # "creating"
    <3>1. users' = users /\ \A x \in Requests : x # q => pc'[x] = pc[x]
      BY <1>1, <2>1, ServeMoves, ServeIssues
    <3>2. pc'[q] # "creating"
      BY <1>1, <2>1
      DEF Serve, RequiresSetup, SeedAdmin, CreateUser, Login, RefreshParse, Renew, Authorize,
          Issue, GoTo, Finish, Faulty, TypeOK
    <3> QED
      BY <1>1, <3>1, <3>2
  <2>2. ASSUME NEW q \in Requests,
               \/ \E r \in {"setup", "login"}, n \in Names, p \in Passwords : Arrive(q, r, n, p)
               \/ \E r \in {"refresh", "api"}, t \in Token : Present(q, r, t.user, t.type)
        PROVE  users' = users /\ \A x \in Requests : pc'[x] # "creating"
    BY <1>1, <2>2 DEF Arrive, Present, TypeOK
  <2>3. CASE Crash
    BY <1>1, <2>3 DEF Crash
  <2>4. CASE UNCHANGED vars \/ \E t \in Token : Expire(t.user, t.type)
    BY <1>1, <2>4 DEF vars, Expire
  <2> QED
    BY <1>1, <2>1, <2>2, <2>3, <2>4 DEF Next
<1>2. TypeOK /\ [Next]_vars =>
        [Users # {} /\ (\A q \in Requests : pc[q] # "creating") =>
           users' = users /\ \A q \in Requests : pc'[q] # "creating"]_vars
  BY <1>1
<1> QED
  BY <1>2, TypeCorrect, PTL DEF Spec, SetupCloses

-----------------------------------------------------------------------------
\* A user with no token left, and no refresh past its check, gets tokens again only
\* by a login with the password.
THEOREM SessionsExpire == Spec => LoggedOutStaysOut
<1> DEFINE LoginOf(n) == \E q \in Requests : /\ pc[q] = "login" /\ resp'[q] = "tokens"
                                             /\ name[q] = n /\ password[q] = users[n]
<1>1. ASSUME TypeOK, [Next]_vars, NEW n \in Names, LoggedOut(n), ~LoggedOut(n)'
      PROVE  LoginOf(n)
  <2>1. (\A t \in tokens : t.user # n) /\ (\A x \in Requests : pc[x] = "renewing" => name[x] # n)
    BY <1>1 DEF LoggedOut, BeingRenewed
  <2>2. \/ \E t \in tokens' : t.user = n
        \/ \E x \in Requests : pc'[x] = "renewing" /\ name'[x] = n
    BY <1>1 DEF LoggedOut, BeingRenewed
  <2>3. ASSUME NEW q \in Requests, Serve(q) PROVE LoginOf(n)
    <3>1. /\ UNCHANGED name
          /\ \A x \in Requests : x # q => pc'[x] = pc[x]
          /\ pc'[q] = "renewing" => Holds(q, "refresh")
      BY <1>1, <2>3, ServeMoves
    <3>2. \A x \in Requests : ~(pc'[x] = "renewing" /\ name'[x] = n)
      BY <2>1, <3>1 DEF Holds
    <3>3. PICK t \in tokens' : t.user = n
      BY <2>2, <3>2
    <3>4. t \in tokens' \ tokens /\ name[q] = n
      BY <1>1, <2>1, <2>3, <3>3, ServeIssues
    <3>5. pc[q] = "login" /\ resp'[q] = "tokens" /\ users[name[q]] = password[q]
      BY <1>1, <2>1, <2>3, <3>4, ServeIssues
    <3> QED
      BY <3>4, <3>5
  <2>4. CASE \E t \in Token : Expire(t.user, t.type)
    BY <2>1, <2>2, <2>4 DEF Expire, bodyVars
  <2>5. CASE \E q \in Requests :
               \/ \E r \in {"setup", "login"}, m \in Names, p \in Passwords : Arrive(q, r, m, p)
               \/ \E r \in {"refresh", "api"}, t \in Token : Present(q, r, t.user, t.type)
    BY <1>1, <2>1, <2>2, <2>5 DEF Arrive, Present, TypeOK
  <2>6. CASE Crash
    BY <2>1, <2>2, <2>6 DEF Crash, bodyVars
  <2>7. CASE UNCHANGED vars
    BY <2>1, <2>2, <2>7 DEF vars, bodyVars
  <2> QED
    BY <1>1, <2>3, <2>4, <2>5, <2>6, <2>7 DEF Next
<1>2. TypeOK /\ [Next]_vars =>
        [\A n \in Names : LoggedOut(n) /\ ~LoggedOut(n)' => LoginOf(n)]_vars
  BY <1>1
<1> QED
  BY <1>2, TypeCorrect, PTL DEF Spec, LoggedOutStaysOut

=============================================================================
