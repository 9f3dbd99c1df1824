-------------------------------- MODULE Accounts --------------------------------
(* Accounts and sessions of the hub on PostgreSQL: log in, second factor,
   refresh, change and reset of a password, registration, and what an
   administrator does to an account.

   A request goes through a read ("read": the SELECT that the handler starts
   with), a decision on what it read ("decide") and its list of awaited
   statements ("run").  Between two of these steps any other request may run, an
   answer of the database may be late, and the process may die.  The cache of
   users, which every request with a token is checked against, is filled by the
   wrapped store, by the handlers that have just read a row, and by a reload
   every five seconds.                                                        *)
EXTENDS AccountStore, TLC

CONSTANTS
  Reqs,             \* the requests that the hub has in flight at a time
  MaxCodes,         \* bound: how many codes are sent
  MaxCodeAttempts,  \* MAX_CODE_ATTEMPTS
  MaxFails,         \* the wrong log-ins that one address may make
  Scenarios,        \* what the clients do: a set of operations, and as bounds how
                    \* many, how often the hub dies, whether a reload of the
                    \* cache falls between their steps
  InitUsers,        \* the rows of the table users at the start
  InitJwts          \* the signed tokens that clients hold at the start

\* Signed tokens: their kind, whose they are and the ver of the account then.
Jwts == [k : {"access", "access2", "pending", "trusted", "admin"}, u : Users, ver : Nat]

ASSUME AccountsAssumption ==
  /\ IsFiniteSet(Reqs) /\ Reqs # {} /\ MaxCodes \in Nat
  /\ {MaxCodeAttempts, MaxFails} \subseteq Nat \ {0}
  /\ InitUsers \in [Users -> UserRows] /\ InitJwts \subseteq Jwts
  /\ \A u \in Users : /\ InitUsers[u].st = "none" => InitUsers[u] = NoUser
                      /\ InitUsers[u].fails < LockThreshold

VARIABLES
  users,      \* table users
  refresh,    \* table refresh_tokens
  codes,      \* tables email_codes and sms_codes: channel and purpose -> last code
  cache,      \* the cache of users of the process
  reload,     \* the rows that the running reload has read, or << >>
  jwts,       \* the signed tokens that clients hold
  req,        \* the requests in flight
  ip,         \* the login limiter of the clients' address
  use,        \* the scenario
  calls, crashes, sent,   \* counters of the bounds
  lockedTries             \* history: passwords compared while the account was locked

accountsVars == <<users, refresh, codes, cache, reload, jwts, req, ip, use, calls, crashes, sent, lockedTries>>
tables  == <<users, refresh, codes>>
bounds  == <<use, calls, crashes, sent>>

\* The tries count from the moment an account is locked until it is not.
LockHistory == lockedTries' = [u \in Users |-> IF users'[u].locked THEN lockedTries[u] ELSE 0]

Nobody == CHOOSE u \in Users : TRUE
Idle == [op |-> "idle", u |-> Nobody, x |-> "", n |-> 0, at |-> "idle", row |-> NoUser, todo |-> <<>>,
         ids |-> {}, who |-> {}]
Purposes == {"verify", "reset"}

\* ---------------------------------------------------------------------------
\* Signed tokens: access ("access2" when it carries totpVerifiedAt), "pending"
\* (the password was right, the second factor is due), "trusted", "admin".
Jwt(k, row, u) == [k |-> k, u |-> u, ver |-> row.ver]
Verifies(j) == cache[j.u].st # "none" /\ cache[j.u].ver = j.ver
Authenticated(j) == j.k \in {"access", "access2"} /\ Verifies(j) /\ cache[j.u].st = "active"
AdminRoles == {"readonly", "operator", "admin"}
\* verifyAdminAccess looks at the role and not at the status.
AdminAuthenticated(j) == j.k = "admin" /\ Verifies(j) /\ cache[j.u].role \in AdminRoles
Rank(j) == CASE cache[j.u].role = "readonly" -> 1 [] cache[j.u].role = "operator" -> 2
             [] cache[j.u].role = "admin" -> 3 [] OTHER -> 0

\* ---------------------------------------------------------------------------
\* Requests.
Called(r, op) == req[r].at = "idle" /\ calls < use.calls /\ op \in use.ops /\ calls' = calls + 1

Arrive(r, op, u, x, n) ==
  /\ Called(r, op)
  /\ req' = [req EXCEPT ![r] = [Idle EXCEPT !.op = op, !.u = u, !.x = x, !.n = n, !.at = "read"]]
  /\ UNCHANGED <<tables, cache, reload, jwts, ip, use, crashes, sent, lockedTries>>

\* A handler that starts with a write.
ArriveRunning(r, op, todo) ==
  /\ Called(r, op)
  /\ req' = [req EXCEPT ![r] = [Idle EXCEPT !.op = op, !.u = Head(todo).u, !.at = "run", !.todo = todo]]
  /\ UNCHANGED <<tables, cache, reload, jwts, ip, use, crashes, sent, lockedTries>>

Deciding(r, op) == req[r].at = "decide" /\ req[r].op = op
Running(r, do) == req[r].at = "run" /\ Head(req[r].todo).do = do
Stmt(r) == Head(req[r].todo)

Continue(r, todo) ==
  req' = [req EXCEPT ![r] = IF todo = <<>> THEN Idle ELSE [@ EXCEPT !.at = "run", !.todo = todo]]

\* The head of the list is done; "pre" comes before the rest of it.
Done(r, pre) == Continue(r, pre \o Tail(req[r].todo))

\* Whom an e-mail address or a phone number stands for: the user of that name,
\* else the one who has it bound; a reset looks at the bound ones only.
ByIdentity == {"register", "resend", "verify", "resetRequest", "resetConfirm"}
Owner(op, c) == IF op \in {"resetRequest", "resetConfirm"} \/ Holder(users, NameOf(c)) = {}
                THEN Holder(users, c) ELSE Holder(users, NameOf(c))

\* The SELECT that a handler starts with.
ReadRow(r) ==
  /\ req[r].at = "read"
  /\ LET who == IF req[r].op \in ByIdentity THEN Owner(req[r].op, req[r].x) ELSE {req[r].u}
     IN req' = [req EXCEPT ![r] = IF who = {} THEN [@ EXCEPT !.at = "decide", !.row = NoUser]
                                  ELSE LET u == CHOOSE u \in who : TRUE
                                       IN [@ EXCEPT !.at = "decide", !.u = u, !.row = users[u]]]
  /\ UNCHANGED <<tables, cache, reload, jwts, ip, bounds, lockedTries>>

\* The row that was read goes into the cache (syncUser).
Sync(r) == cache' = [cache EXCEPT ![req[r].u] = IF req[r].row.st = "none" THEN @ ELSE req[r].row]

OnUser(do, u) == [do |-> do, u |-> u]
OnRow(do, u, x) == [do |-> do, u |-> u, x |-> x]
OnIds(do, u, ids) == [do |-> do, u |-> u, ids |-> ids]
OnToken(do, t) == [do |-> do, u |-> refresh[t].u, n |-> t]
OnTotp(u, on) == [do |-> "setTotp", u |-> u, on |-> on]
ToCache(u, row) == [do |-> "cache", u |-> u, row |-> row]
Session(u, row, k) == [do |-> "session", u |-> u, x |-> k, row |-> row]

\* ---------------------------------------------------------------------------
\* The statements.
WriteRow(r) ==
  /\ req[r].at = "run" /\ Stmt(r).do \in RowStatements \ {"incFails"}
  /\ LET s == Stmt(r)
     IN IF s.do = "setIds" /\ Taken(users, s.u, s.ids)
        THEN Continue(r, <<>>) /\ UNCHANGED users      \* a UNIQUE index: 500
        ELSE /\ users' = [users EXCEPT ![s.u] = IF @.st = "none" THEN @ ELSE Updated(@, s)]
             /\ Done(r, IF s.do \in Mutators THEN <<OnUser("reread", s.u)>> ELSE <<>>)
  /\ LockHistory
  /\ UNCHANGED <<refresh, codes, cache, reload, jwts, ip, bounds>>

\* The wrapped store reads the row that it has written; the answer reaches the
\* cache in a later step.
Reread(r) ==
  /\ Running(r, "reread")
  /\ Done(r, <<ToCache(Stmt(r).u, users[Stmt(r).u])>>)
  /\ UNCHANGED <<tables, cache, reload, jwts, ip, bounds, lockedTries>>

SetCache(r) ==
  /\ Running(r, "cache")
  /\ cache' = [cache EXCEPT ![Stmt(r).u] = Stmt(r).row]
  /\ Done(r, <<>>)
  /\ UNCHANGED <<tables, reload, jwts, ip, bounds, lockedTries>>

\* incrementFailedAttempts returns the count, and the count decides on the lock.
\* (The limiter of the address is in memory: it changes with the answer.)
Limiters == {"login", "app-sdk", "apple"}
Limiter(op) == IF op \in Limiters THEN op ELSE "login"
Unlimited == [fails |-> 0, locked |-> FALSE]
FailedOnce(l) == IF l.fails + 1 >= MaxFails THEN [fails |-> 0, locked |-> TRUE] ELSE [l EXCEPT !.fails = @ + 1]
LimiterFails(k) == ip' = [ip EXCEPT ![k] = FailedOnce(@)]
LimiterClears(k) == ip' = [ip EXCEPT ![k] = Unlimited]

CountFail(r) ==
  /\ Running(r, "incFails")
  /\ LET u == Stmt(r).u
         fails == users[u].fails + 1
     IN /\ users' = [users EXCEPT ![u] = IF @.st = "none" THEN @ ELSE Updated(@, Stmt(r))]
        /\ IF fails >= LockThreshold /\ users[u].st # "none"
           THEN Done(r, <<OnUser("lock", u)>>) /\ LimiterClears("login")
           ELSE Done(r, <<>>) /\ LimiterFails("login")
  /\ UNCHANGED <<refresh, codes, cache, reload, jwts, bounds, lockedTries>>

\* issueTokens: the access token is signed from the row that was read, the
\* refresh token is a new row of its table.
CreateSession(r) ==
  /\ Running(r, "session")
  /\ LET s == Stmt(r)
         t == CHOOSE t \in Tokens : ~refresh[t].used /\ \A v \in Tokens : v < t => refresh[v].used
     IN IF users[s.u].st = "none"
        THEN Continue(r, <<>>) /\ UNCHANGED <<refresh, jwts>>     \* foreign key: 500
        ELSE /\ refresh' = [refresh EXCEPT ![t] = [u |-> s.u, live |-> TRUE, used |-> TRUE, ver |-> s.row.ver,
                                                   late |-> s.row.ver < users[s.u].pwAt]]
             /\ jwts' = jwts \cup {Jwt(s.x, s.row, s.u)}
             /\ Done(r, <<>>)
  /\ UNCHANGED <<users, codes, cache, reload, ip, bounds, lockedTries>>

\* signTrustedDevice takes the ver of the cached row.
Trust(u) == OnUser("trust", u)

SignTrusted(r) ==
  /\ Running(r, "trust")
  /\ jwts' = IF cache[Stmt(r).u].st = "none" THEN jwts ELSE jwts \cup {Jwt("trusted", cache[Stmt(r).u], Stmt(r).u)}
  /\ Done(r, <<>>)
  /\ UNCHANGED <<tables, cache, reload, ip, bounds, lockedTries>>

RevokeRefresh(r) ==
  /\ Running(r, "revoke")
  /\ refresh' = [refresh EXCEPT ![Stmt(r).n].live = FALSE]
  /\ Done(r, <<>>)
  /\ UNCHANGED <<users, codes, cache, reload, jwts, ip, bounds, lockedTries>>

RevokeAllRefresh(r) ==
  /\ Running(r, "revokeAll")
  /\ refresh' = WithoutTokens(refresh, Stmt(r).u)
  /\ Done(r, <<>>)
  /\ UNCHANGED <<users, codes, cache, reload, jwts, ip, bounds, lockedTries>>

\* issueSession reads the account again and answers 403 when it is not active.
IssueSession(r) ==
  /\ Running(r, "issue")
  /\ LET u == Stmt(r).u
     IN IF users[u].st # "active" THEN Continue(r, <<>>)
        ELSE Done(r, <<ToCache(u, users[u]), Session(u, users[u], "access")>>)
  /\ UNCHANGED <<tables, cache, reload, jwts, ip, bounds, lockedTries>>

\* The codes: a try is counted on the id that was read, whatever it is now.
TriedOnce(code, id) == IF code.id = id THEN [code EXCEPT !.tries = @ + 1] ELSE code

CountTry(r) ==
  /\ Running(r, "countTry")
  /\ codes' = [codes EXCEPT ![Stmt(r).c] = TriedOnce(@, Stmt(r).n)]
  /\ Done(r, <<>>)
  /\ UNCHANGED <<users, refresh, cache, reload, jwts, ip, bounds, lockedTries>>

\* deleteEmailCodes and deleteSmsCodes: the codes of every purpose.
DeleteCodes(r) ==
  /\ Running(r, "deleteCodes")
  /\ codes' = [k \in DOMAIN codes |-> IF k[1] = Stmt(r).x THEN NoCode ELSE codes[k]]
  /\ Done(r, <<>>)
  /\ UNCHANGED <<users, refresh, cache, reload, jwts, ip, bounds, lockedTries>>

\* sendEmailCode and sendSmsCode: nothing is sent when the resend window, a
\* limiter or the mail server says so; else the new code replaces the last one.
SendCode(r) ==
  /\ Running(r, "sendCode")
  /\ \/ Done(r, <<>>) /\ UNCHANGED <<codes, sent>>
     \/ /\ sent < MaxCodes
        /\ sent' = sent + 1
        /\ codes' = [codes EXCEPT ![Stmt(r).c] = [id |-> sent + 1, tries |-> 0, u |-> Stmt(r).u]]
        /\ Done(r, <<>>)
  /\ UNCHANGED <<users, refresh, cache, reload, jwts, ip, use, calls, crashes, lockedTries>>

\* createUser: a row with the next id, active until the next statement.  The
\* store is not wrapped for it: the cache learns of it with the next write.
FreeUsers == {u \in Users : users[u].st = "none"}

CreateUser(r) ==
  /\ Running(r, "createUser")
  /\ LET s == Stmt(r)
     IN \/ /\ \E v \in Users : users[v].ids \cap s.ids # {}
           /\ Continue(r, <<>>) /\ UNCHANGED users               \* a UNIQUE index: 500
        \/ /\ \A v \in Users : users[v].ids \cap s.ids = {}
           /\ FreeUsers = {} /\ Continue(r, <<>>) /\ UNCHANGED users   \* registrationMaxUsers
        \/ /\ \A v \in Users : users[v].ids \cap s.ids = {}
           /\ \E u \in FreeUsers :
                /\ u = CHOOSE v \in FreeUsers : TRUE
                /\ users' = [users EXCEPT ![u] = NewUser(s.pw, s.ids)]
                /\ Done(r, [i \in 1..Len(s.then) |-> [s.then[i] EXCEPT !.u = u]])
  /\ UNCHANGED <<refresh, codes, cache, reload, jwts, ip, bounds, lockedTries>>

\* deleteAccount and removeUser are transactions.
DeleteRows(r) ==
  /\ Running(r, "deleteAccount")
  /\ LET u == Stmt(r).u
     IN /\ users' = [users EXCEPT ![u] = IF @.st = "none" THEN @ ELSE Tombstone(@)]
        /\ refresh' = WithoutTokens(refresh, u)
        /\ codes' = [k \in DOMAIN codes |-> IF codes[k].u = u THEN NoCode ELSE codes[k]]
        /\ Done(r, <<OnUser("reread", u)>>)
  /\ UNCHANGED <<cache, reload, jwts, ip, bounds, lockedTries>>

\* verifyEmailCode and verifySmsCode.  The attempts are compared on the row that
\* was read; the try is counted before the code is compared.
CheckCode(r) ==
  /\ Running(r, "checkCode")
  /\ LET code == codes[Stmt(r).c]
         count == [do |-> "countTry", u |-> Stmt(r).u, c |-> Stmt(r).c, n |-> code.id]
     IN IF code.id = 0 \/ code.tries >= MaxCodeAttempts THEN Continue(r, <<>>)
        ELSE IF Stmt(r).n # code.id THEN Continue(r, <<count>>)
        ELSE Done(r, <<count, OnRow("deleteCodes", Stmt(r).u, Stmt(r).c[1])>>)
  /\ UNCHANGED <<tables, cache, reload, jwts, ip, bounds, lockedTries>>

\* ---------------------------------------------------------------------------
\* Log in (handleLogin and HubAuth.login).
LoginArrives(r) == ~ip["login"].locked /\ \E u \in Users, pw \in Passwords : Arrive(r, "login", u, pw, 0)

ClearIp(k) == OnRow("clearIp", Nobody, k)

Login(r) ==
  /\ Deciding(r, "login")
  /\ LET u == req[r].u
         row == req[r].row
         right == row.pw = req[r].x
     IN /\ Sync(r)
        /\ \/ row.st # "active" /\ Continue(r, <<>>) /\ LimiterFails("login") /\ UNCHANGED lockedTries
           \/ row.st = "active" /\ row.locked /\ Continue(r, <<>>) /\ LimiterClears("login") /\ UNCHANGED lockedTries
           \/ /\ row.st = "active" /\ ~row.locked /\ UNCHANGED ip
              /\ lockedTries' = [lockedTries EXCEPT ![u] = IF users[u].locked /\ ~right THEN @ + 1 ELSE @]
              /\ Continue(r, IF ~right THEN <<OnUser("incFails", u)>>
                             ELSE IF row.totp
                             THEN <<OnUser("clearFails", u), [do |-> "second", u |-> u, row |-> row]>>
                             ELSE <<OnUser("clearFails", u), Session(u, row, "access"), ClearIp("login")>>)
  /\ UNCHANGED <<tables, reload, jwts, bounds>>

\* With a second factor, a device that is trusted gets its session at once, from
\* a fresh row; any other gets a token that is good for the second step only.
SecondFactor(r) ==
  /\ Running(r, "second")
  /\ LET u == Stmt(r).u
     IN \/ /\ \E j \in jwts : j.k = "trusted" /\ j.u = u /\ Verifies(j)
           /\ LimiterClears("login")
           /\ Done(r, <<Session(u, users[u], "access2"), Trust(u)>>)
           /\ UNCHANGED jwts
        \/ /\ jwts' = jwts \cup {Jwt("pending", Stmt(r).row, u)}
           /\ Done(r, <<>>) /\ UNCHANGED ip
  /\ UNCHANGED <<tables, cache, reload, bounds, lockedTries>>

LimiterCleared(r) ==
  /\ Running(r, "clearIp") /\ LimiterClears(Stmt(r).x) /\ Done(r, <<>>)
  /\ UNCHANGED <<tables, cache, reload, jwts, bounds, lockedTries>>

TotpArrives(r) == \E j \in jwts : j.k = "pending" /\ Arrive(r, "totp", j.u, "", j.ver)

\* verifyTotpLogin: ver and the second factor are checked, the status is not.
TotpLogin(r) ==
  /\ Deciding(r, "totp")
  /\ LET u == req[r].u
         row == req[r].row
     IN \/ (row.st = "none" \/ row.ver # req[r].n \/ ~row.totp) /\ Continue(r, <<>>) /\ UNCHANGED cache
        \/ /\ row.st # "none" /\ row.ver = req[r].n /\ row.totp
           /\ Sync(r)
           /\ \E right, trust \in BOOLEAN :
                Continue(r, IF ~right THEN <<>>
                           ELSE <<Session(u, row, "access2")>>
                                \o (IF trust THEN <<Trust(u)>> ELSE <<>>))
  /\ UNCHANGED <<tables, reload, jwts, ip, bounds, lockedTries>>

\* Refresh and log out start with the row of the token.
RefreshArrives(r) ==
  \E op \in {"refresh", "logout"}, t \in {t \in Tokens : refresh[t].used} :
    ArriveRunning(r, op, <<OnToken("find", t)>>)

FindRefresh(r) ==
  /\ Running(r, "find")
  /\ LET t == Stmt(r).n
         revoke == OnToken("revoke", t)
     IN Continue(r, IF req[r].op = "logout" THEN <<revoke>>
                    ELSE IF refresh[t].live THEN <<OnUser("holder", Stmt(r).u), revoke>>
                    ELSE <<>>)
  /\ UNCHANGED <<tables, cache, reload, jwts, ip, bounds, lockedTries>>

RefreshHolder(r) ==
  /\ Running(r, "holder")
  /\ LET u == Stmt(r).u
         row == users[u]
     IN IF row.st # "active" THEN Continue(r, <<>>)
        ELSE Continue(r, <<ToCache(u, row)>> \o Tail(req[r].todo)
                         \o <<Session(u, row, "access")>>)
  /\ UNCHANGED <<tables, cache, reload, jwts, ip, bounds, lockedTries>>

\* ---------------------------------------------------------------------------
\* Passwords.
\* (a form that leaves the refresh tokens to the change of ver)
NewPasswordOnly(u, pw) == <<OnRow("setPassword", u, pw)>>

\* setPassword and then revokeAllRefreshForUser, one after the other.
NewPassword(u, pw) == <<OnRow("setPassword", u, pw), OnUser("revokeAll", u)>>

WithSession(r, op, x) == \E j \in jwts : Authenticated(j) /\ Arrive(r, op, j.u, x, 0)

PasswordArrives(r) == \E old \in Passwords : WithSession(r, "password", old)

ChangePassword(r) ==
  /\ Deciding(r, "password")
  /\ Continue(r, IF req[r].row.pw # req[r].x THEN <<>>
                 ELSE NewPassword(req[r].u, CHOOSE pw \in Passwords : pw # req[r].x))
  /\ UNCHANGED <<tables, cache, reload, jwts, ip, bounds, lockedTries>>

Check(u, c, purpose, guess) == [do |-> "checkCode", u |-> u, c |-> <<c, purpose>>, n |-> guess]
Send(u, c, purpose) == [do |-> "sendCode", u |-> u, c |-> <<c, purpose>>]

ResetRequest(r) ==
  /\ Deciding(r, "resetRequest")
  /\ LET c == req[r].x
     IN Continue(r, IF req[r].row.st # "none" /\ c \in req[r].row.ok THEN <<Send(req[r].u, c, "reset")>> ELSE <<>>)
  /\ UNCHANGED <<tables, cache, reload, jwts, ip, bounds, lockedTries>>

ResetConfirm(r) ==
  /\ Deciding(r, "resetConfirm")
  /\ Continue(r, IF req[r].row.st = "none" THEN <<>>
                 ELSE <<Check(req[r].u, req[r].x, "reset", req[r].n)>> \o NewPassword(req[r].u, "q"))
  /\ UNCHANGED <<tables, cache, reload, jwts, ip, bounds, lockedTries>>

\* ---------------------------------------------------------------------------
\* Registration.  A client knows a code that was sent, or guesses (0).
CodeOps == {"verify", "resetConfirm"}
GuestArrives(r) ==
  \E op \in ByIdentity, c \in Channels, guess \in 0 .. sent :
    /\ op \notin CodeOps => guess = 0
    /\ Arrive(r, op, Nobody, c, guess)

Insert(pw, ids, then) == [do |-> "createUser", u |-> Nobody, pw |-> pw, ids |-> ids, then |-> then]

Register(r) ==
  /\ Deciding(r, "register")
  /\ LET c == req[r].x
         row == req[r].row
     IN Continue(r, IF row.st = "active" THEN <<>>
                    ELSE IF row.st # "none" THEN <<Send(req[r].u, c, "verify")>>
                    ELSE <<Insert("p", {NameOf(c)}, <<OnRow("setStatus", Nobody, "pending"),
                                                      OnIds("setIds", Nobody, {c}), Send(Nobody, c, "verify")>>)>>)
  /\ UNCHANGED <<tables, cache, reload, jwts, ip, bounds, lockedTries>>

Resend(r) ==
  /\ Deciding(r, "resend")
  /\ Continue(r, IF req[r].row.st \in {"none", "active"} THEN <<>> ELSE <<Send(req[r].u, req[r].x, "verify")>>)
  /\ UNCHANGED <<tables, cache, reload, jwts, ip, bounds, lockedTries>>

\* The right code makes the account that was read as pending active, and logs in.
Verify(r) ==
  /\ Deciding(r, "verify")
  /\ LET u == req[r].u
         c == req[r].x
         row == req[r].row
     IN Continue(r, IF row.st = "none" THEN <<>>
                    ELSE <<Check(u, c, "verify", req[r].n)>>
                         \o (IF row.st = "pending"
                             THEN <<OnRow("setStatus", u, "active"), OnIds("setVerified", u, {c})>> ELSE <<>>)
                         \o <<OnUser("issue", u)>>)
  /\ UNCHANGED <<tables, cache, reload, jwts, ip, bounds, lockedTries>>

\* ---------------------------------------------------------------------------
\* The second factor.
ActivateTotp(r) ==
  \E j \in jwts : Authenticated(j) /\ ArriveRunning(r, "totpOn", <<OnTotp(j.u, TRUE)>>)

DisableArrives(r) == WithSession(r, "totpOff", "")

DisableTotp(r) ==
  /\ Deciding(r, "totpOff")
  /\ \E right \in BOOLEAN :
       Continue(r, IF ~right \/ ~req[r].row.totp THEN <<>>
                   ELSE <<OnTotp(req[r].u, FALSE), OnUser("bumpVersion", req[r].u)>>)
  /\ UNCHANGED <<tables, cache, reload, jwts, ip, bounds, lockedTries>>

\* The administrator's session: a role, a second factor that is on, and a code, a
\* trusted device or a log-in with the second factor (of the last half hour).
AdminLogin(r) ==
  /\ Called(r, "adminLogin")
  /\ \E j \in jwts, right \in BOOLEAN :
       /\ Authenticated(j)
       /\ cache[j.u].role \in AdminRoles /\ cache[j.u].totp
       /\ right \/ j.k = "access2" \/ \E d \in jwts : d.k = "trusted" /\ d.u = j.u /\ Verifies(d)
       /\ jwts' = jwts \cup {Jwt("admin", cache[j.u], j.u)}
  /\ UNCHANGED <<tables, cache, reload, req, ip, use, crashes, sent, lockedTries>>

DeleteArrives(r) == \E pw \in Passwords : WithSession(r, "delete", pw)

DeleteAccount(r) ==
  /\ Deciding(r, "delete")
  /\ Continue(r, IF req[r].row.pw # req[r].x THEN <<>> ELSE <<OnUser("deleteAccount", req[r].u)>>)
  /\ UNCHANGED <<tables, cache, reload, jwts, ip, bounds, lockedTries>>

\* ---------------------------------------------------------------------------
\* What an administrator does to an account: the rank that it needs, and the
\* statements.  Each reads the row first and answers 404 without one.
AccessPlan(op, u) ==
  CASE op = "ban"       -> <<OnRow("setStatus", u, "banned"), OnUser("revokeAll", u)>>
    [] op = "unban"     -> <<OnRow("setStatus", u, "active")>>
    [] op = "resetPw"   -> NewPassword(u, "q")

SupportPlan(op, u) ==
  CASE op = "unlock"    -> <<OnUser("unlock", u)>>
    [] op = "reset2fa"  -> <<OnTotp(u, FALSE), OnUser("bumpVersion", u), OnUser("revokeAll", u)>>

StaffPlan(op, u) ==
  CASE op = "setRole"   -> <<OnRow("setRole", u, "operator")>>
    [] op = "dropAdmin" -> <<OnRow("setRole", u, "user")>>
    [] op = "remove"    -> <<OnUser("deleteAccount", u)>>

AccessOps == {"ban", "unban", "resetPw"}
OperatorOps == AccessOps \cup {"unlock", "reset2fa"}
AdminOps == {"setRole", "dropAdmin", "remove"}

AdminPlan(op, u) == IF op \in AccessOps THEN AccessPlan(op, u)
                    ELSE IF op \in OperatorOps THEN SupportPlan(op, u) ELSE StaffPlan(op, u)

AdminArrives(r) ==
  \E j \in jwts, op \in OperatorOps \cup AdminOps, u \in Users :
    /\ AdminAuthenticated(j)
    /\ Rank(j) >= IF op \in AdminOps THEN 3 ELSE 2
    /\ op \in AdminOps => u # j.u
    /\ Arrive(r, op, u, "", 0)

AdminAct(r) ==
  /\ req[r].at = "decide" /\ req[r].op \in OperatorOps \cup AdminOps
  /\ Continue(r, IF req[r].row.st = "none" THEN <<>> ELSE AdminPlan(req[r].op, req[r].u))
  /\ UNCHANGED <<tables, cache, reload, jwts, ip, bounds, lockedTries>>

\* createUser of the console: the role it was asked for is checked and audited,
\* and never written.
AdminCreate(r) ==
  \E j \in jwts, c \in Channels :
    /\ AdminAuthenticated(j) /\ Rank(j) >= 2
    /\ Holder(users, c) = {} /\ Holder(users, NameOf(c)) = {}
    /\ ArriveRunning(r, "create", <<Insert("p", {NameOf(c)}, <<OnIds("setIds", Nobody, {c})>>)>>)

\* The command line opens the database from a process of its own: its
\* statements pass the cache by.
CliPlan(op, row) ==
  CASE op = "cliPasswd"   -> Updated(row, OnRow("setPassword", Nobody, "q"))
    [] op = "cliUnlock"   -> Updated(row, OnUser("unlock", Nobody))
    [] op = "cliReset2fa" -> Updated(Updated(row, OnTotp(Nobody, FALSE)), OnUser("bumpVersion", Nobody))
    [] op = "cliBan"      -> Updated(row, OnRow("setStatus", Nobody, "banned"))
    [] op = "cliUnban"    -> Updated(row, OnRow("setStatus", Nobody, "active"))
    [] op = "cliRemove"   -> NoUser

CliOps == {"cliPasswd", "cliUnlock", "cliReset2fa", "cliBan", "cliUnban", "cliRemove"}

CommandLine ==
  \E op \in CliOps, u \in Users :
    /\ op \in use.ops /\ calls < use.calls /\ calls' = calls + 1
    /\ users[u].st # "none"
    /\ users' = [users EXCEPT ![u] = CliPlan(op, @)]
    /\ refresh' = IF op = "cliRemove" THEN WithoutTokens(refresh, u) ELSE refresh
    /\ codes' = [k \in DOMAIN codes |-> IF op = "cliRemove" /\ codes[k].u = u THEN NoCode ELSE codes[k]]
    /\ LockHistory
    /\ UNCHANGED <<cache, reload, jwts, req, ip, use, crashes, sent>>

\* ---------------------------------------------------------------------------
\* The reload of the cache: it sets the rows that it read and deletes none.
ReloadReads ==
  /\ use.reload /\ reload = <<>> /\ reload' = users
  /\ UNCHANGED <<tables, cache, jwts, req, ip, bounds, lockedTries>>

\* (a form that only adds the rows that are new)
ReloadAdds ==
  /\ reload # <<>> /\ reload' = <<>>
  /\ cache' = [u \in Users |-> IF cache[u].st = "none" THEN reload[u] ELSE cache[u]]
  /\ UNCHANGED <<tables, jwts, req, ip, bounds, lockedTries>>

ReloadSets ==
  /\ reload # <<>> /\ reload' = <<>>
  /\ cache' = [u \in Users |-> IF reload[u].st = "none" THEN cache[u] ELSE reload[u]]
  /\ UNCHANGED <<tables, jwts, req, ip, bounds, lockedTries>>

\* Time: a lock, the lock of an address, a code.
Expire ==
  /\ \/ \E u \in Users : /\ users[u].locked
                         /\ users' = [users EXCEPT ![u].locked = FALSE]
                         /\ LockHistory /\ UNCHANGED <<ip, codes>>
     \/ \E k \in Limiters : ip[k].locked /\ LimiterClears(k) /\ UNCHANGED <<users, codes, lockedTries>>
     \/ \E k \in DOMAIN codes : codes[k].id # 0 /\ codes' = [codes EXCEPT ![k] = NoCode]
                               /\ UNCHANGED <<users, ip, lockedTries>>
  /\ UNCHANGED <<refresh, cache, reload, jwts, req, bounds>>

\* The hub dies with its requests and starts again with a full cache.
Crash ==
  /\ crashes < use.crashes /\ crashes' = crashes + 1
  /\ req' = [r \in Reqs |-> Idle]
  /\ cache' = users /\ reload' = <<>> /\ ip' = [k \in Limiters |-> Unlimited]
  /\ UNCHANGED <<tables, jwts, use, calls, sent, lockedTries>>

\* ---------------------------------------------------------------------------
AccountsInit ==
  /\ users = InitUsers
  /\ refresh = [t \in Tokens |-> NoToken]
  /\ codes = [k \in Channels \X Purposes |-> NoCode]
  /\ cache = users /\ reload = <<>>
  /\ jwts = InitJwts /\ req = [r \in Reqs |-> Idle] /\ ip = [k \in Limiters |-> Unlimited]
  /\ use \in Scenarios
  /\ calls = 0 /\ crashes = 0 /\ sent = 0
  /\ lockedTries = [u \in Users |-> 0]

RequestStep(r) ==
  \/ ReadRow(r) \/ WriteRow(r) \/ Reread(r) \/ SetCache(r) \/ CountFail(r) \/ CreateSession(r)
  \/ SignTrusted(r) \/ RevokeRefresh(r) \/ RevokeAllRefresh(r) \/ IssueSession(r) \/ CountTry(r)
  \/ DeleteCodes(r) \/ SendCode(r) \/ CreateUser(r) \/ DeleteRows(r) \/ CheckCode(r)
  \/ Login(r) \/ SecondFactor(r) \/ LimiterCleared(r) \/ TotpLogin(r) \/ FindRefresh(r) \/ RefreshHolder(r)
  \/ ChangePassword(r) \/ ResetRequest(r) \/ ResetConfirm(r) \/ Register(r) \/ Resend(r) \/ Verify(r)
  \/ DisableTotp(r) \/ DeleteAccount(r) \/ AdminAct(r)

Arrival(r) ==
  \/ LoginArrives(r) \/ TotpArrives(r) \/ RefreshArrives(r) \/ PasswordArrives(r) \/ GuestArrives(r)
  \/ ActivateTotp(r) \/ DisableArrives(r) \/ AdminLogin(r) \/ DeleteArrives(r) \/ AdminArrives(r)
  \/ AdminCreate(r)

Environment == CommandLine \/ ReloadReads \/ ReloadSets \/ Expire \/ Crash

AccountsNext == Environment \/ \E r \in Reqs : RequestStep(r) \/ Arrival(r)

\* The database answers, and the timer of the reload runs, while the process lives.
AccountsFairness == /\ \A r \in Reqs : WF_accountsVars(RequestStep(r))
                    /\ WF_accountsVars(ReloadReads) /\ WF_accountsVars(ReloadSets)

AccountsSpec == AccountsInit /\ [][AccountsNext]_accountsVars /\ AccountsFairness

\* ---------------------------------------------------------------------------
Pending(u, do) == \E r \in Reqs : \E i \in DOMAIN req[r].todo : req[r].todo[i].do = do /\ req[r].todo[i].u = u

\* Whatever order the writes, the late answers of re-reads and the reloads come
\* in, the cache that every token is checked against ends up equal to the table
\* (a row that the command line has removed is the exception: see README).
CacheConverges == use.reload => <>[](\A u \in Users : users[u].st # "none" => cache[u] = users[u])

\* A change or reset of the password ends the sessions that the account had: a
\* refresh token from before is dead once the handler that changed it has come to
\* its end.  (Except one whose request had read the account before the change and
\* created it after, and unless the hub died between the two statements.  The command
\* line changes a password and leaves the tokens: see README.)
OldSessionsEnd ==
  "cliPasswd" \notin use.ops =>
    \A t \in Tokens : refresh[t].live /\ refresh[t].ver < users[refresh[t].u].pwAt =>
      refresh[t].late \/ Pending(refresh[t].u, "revokeAll") \/ crashes > 0

\* Guessing is bounded although every check reads before it counts: requests that
\* are in flight together get one try more each, and no other.  (The hub can die
\* between the count that reaches the threshold and the lock.)
GuessesBounded ==
  /\ \A k \in DOMAIN codes : codes[k].tries <= MaxCodeAttempts + Cardinality(Reqs) - 1
  /\ \A u \in Users : /\ lockedTries[u] <= Cardinality(Reqs) - 1
                       /\ users[u].fails <= LockThreshold - 1 + Cardinality(Reqs) * (1 + crashes)

\* An account that an administrator banned is active again only by an
\* administrator, or by a code whose handler had read it as pending before the ban.
BanHeld ==
  [][\A u \in Users : users[u].st \in {"banned", "deleted"} /\ users'[u].st = "active" =>
       \/ \E op \in {"unban", "cliUnban"} : op \in use.ops
       \/ \E r \in Reqs : req[r].op = "verify" /\ req[r].u = u /\ req[r].row.st = "pending"]_accountsVars

\* An old secret opens nothing and a secret is not found by trying, although
\* every handler reads, checks and writes in statements of their own.
SecretsHold == OldSessionsEnd /\ GuessesBounded
=================================================================================
