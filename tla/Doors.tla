--------------------------------- MODULE Doors ---------------------------------
(***************************************************************************)
(* How a gateway lets visitors in (gateway/src/server.ts, auth.ts,          *)
(* session.ts, gate.ts, the gate in join.ts).  In password mode the users   *)
(* are in host.json, the commands `rdsh user` and `rdsh gate set` rewrite   *)
(* that file, and the gateway, another process, watches it for the version  *)
(* that its session cookies are bound to.  Wrong answers are limited by     *)
(* one of three counters, of which a behaviour has one:                     *)
(*   "login"  POST /login: asked before two awaits, counted after them      *)
(*   "gate"   the access code at a listener: asked and counted in one step  *)
(*   "join"   the access code at the end of a tunnel: likewise, and the     *)
(*            count is not cleared when its lock expires                    *)
(*                                                                         *)
(* Where the code is known to let an old password in, `flaw` says why:      *)
(*   "lost"    a command has written a configuration read before another    *)
(*             one's change, or lost its temporary file to it               *)
(*   "order"   the reads of two reloads have ended in the other order       *)
(*   "late"    a login has compared a password that was changed meanwhile   *)
(*             and gets a cookie of the new version                         *)
(*   "again"   a user was removed and added again: neither changes the      *)
(*             version, and the old cookies speak for the new user          *)
(*   "start"   the file was changed between serve()'s loadConfig and the    *)
(*             watch that startGateway sets up after dsh has started        *)
(***************************************************************************)
EXTENDS Naturals, FiniteSets

CONSTANTS People, Secrets,   \* user names, passwords (and access codes)
          Nobody,            \* no such user
          Visits,            \* logins that can be under way together
          Admins,            \* commands that can be under way together
          MaxFails,          \* MAX_LOGIN_FAILS, maxFails
          MaxChanges,        \* bound: commands
          MaxLogins          \* bound: answers of visitors

ASSUME DoorsAssumption == /\ Nobody \notin Secrets /\ IsFiniteSet(Visits)
                          /\ {MaxFails, MaxChanges, MaxLogins} \subseteq Nat \ {0}

VARIABLES conf,      \* host.json: [users, version]
          draft,     \* host.json.tmp: the same, or {} when there is none
          seen,      \* currentVersion of the gateway
          stirred,   \* the directory has changed and no reload was started since
          reading,   \* versions read by reloads that have not ended
          cookies,   \* valid signatures handed out: [who, secret, version]
          visit,     \* slot -> the login under way
          admin,     \* slot -> the command under way
          limiter,   \* [kind, fails, locked] for one address
          wrong,     \* wrong answers since it was last free
          flaw,
          changes, logins

onDisk == <<conf, draft>>
inGateway == <<seen, reading, visit>>
limiting == <<limiter, wrong>>
doors == <<onDisk, inGateway, limiting, stirred, cookies, admin, flaw, changes, logins>>

Users == [People -> Secrets \cup {Nobody}]
Confs == [users : Users, version : 1..(MaxChanges + 1)]
Away == [at |-> "idle", who |-> CHOOSE p \in People : TRUE, secret |-> Nobody, hash |-> Nobody]
NoCommand(c) == [at |-> "idle", op |-> "gate", who |-> CHOOSE p \in People : TRUE,
                 secret |-> Nobody, cfg |-> c, fresh |-> TRUE]

DoorsTypeOK ==
    /\ conf \in Confs /\ (draft = {} \/ draft \in {{c} : c \in Confs})
    /\ seen \in 0..(MaxChanges + 1) /\ reading \subseteq 1..(MaxChanges + 1)
    /\ stirred \in BOOLEAN
    /\ cookies \subseteq [who : People, secret : Secrets, version : 1..(MaxChanges + 1)]
    /\ \A v \in Visits : visit[v].at \in {"idle", "body", "scrypt"}
    /\ \A a \in Admins : admin[a].at \in {"idle", "prompt", "write", "rename"}
    /\ limiter \in [kind : {"login", "gate", "join"}, fails : 0..MaxFails, locked : BOOLEAN]
    /\ wrong \in 0..MaxLogins
    /\ flaw \subseteq {"lost", "order", "late", "again", "start"}

DoorsInit ==
    /\ \E s \in Secrets, p \in People :
          conf = [users |-> [q \in People |-> IF q = p THEN s ELSE Nobody], version |-> 1]
    /\ draft = {} /\ seen = 1 /\ stirred = FALSE /\ reading = {} /\ cookies = {}
    /\ visit = [v \in Visits |-> Away]
    /\ admin = [a \in Admins |-> NoCommand(conf)]
    /\ limiter \in [kind : {"login", "gate", "join"}, fails : {0}, locked : {FALSE}]
    /\ wrong = 0 /\ flaw = {} /\ changes = 0 /\ logins = 0

Flawed(why, if) == flaw' = IF if THEN flaw \cup {why} ELSE flaw
Password == limiter.kind = "login"

-----------------------------------------------------------------------------
(* The commands: read, ask or hash, write, rename.                          *)

\* `rdsh gate set` asks for the code after it has read the file.
Command(a) ==
    /\ Password
    /\ admin[a].at = "idle" /\ changes < MaxChanges /\ changes' = changes + 1
    /\ \E op \in {"add", "passwd", "rm", "gate"}, p \in People, s \in Secrets :
          /\ op = "add" => conf.users[p] = Nobody
          /\ op \in {"passwd", "rm"} => conf.users[p] # Nobody
          /\ admin' = [admin EXCEPT ![a] = [at |-> "write", op |-> op, who |-> p,
                                            secret |-> s, cfg |-> conf, fresh |-> TRUE]]
    /\ UNCHANGED <<onDisk, inGateway, limiting, stirred, cookies, flaw, logins>>

\* passwd without its new version.
SameVersion(op, n) == n
NewVersion(op, n) == IF op = "passwd" THEN n + 1 ELSE n

Changed(m) ==
    [users |-> CASE m.op \in {"add", "passwd"} -> [m.cfg.users EXCEPT ![m.who] = m.secret]
                 [] m.op = "rm" -> [m.cfg.users EXCEPT ![m.who] = Nobody]
                 [] OTHER -> m.cfg.users,
     version |-> NewVersion(m.op, m.cfg.version)]

WriteDraft(a) ==
    /\ admin[a].at = "write"
    /\ draft' = {Changed(admin[a])}
    /\ admin' = [admin EXCEPT ![a].at = "rename"]
    /\ UNCHANGED <<conf, inGateway, limiting, stirred, cookies, flaw, changes, logins>>

\* The directory is watched, not the file, which is another one from now on.
DirectoryWatch == stirred' = TRUE

RenameDraft(a) ==
    /\ admin[a].at = "rename"
    /\ IF draft = {} THEN /\ UNCHANGED <<onDisk, stirred>>
                          /\ admin' = [admin EXCEPT ![a] = NoCommand(conf)]
       ELSE /\ conf' \in draft /\ draft' = {}
            /\ DirectoryWatch
            /\ admin' = [b \in Admins |->
                           IF b = a THEN NoCommand(conf')
                           ELSE IF admin[b].at = "idle" THEN NoCommand(conf')
                           ELSE [admin[b] EXCEPT !.fresh = FALSE]]
    /\ flaw' = flaw
         \cup (IF admin[a].fresh /\ draft = {Changed(admin[a])} THEN {} ELSE {"lost"})
         \cup (IF admin[a].op = "add" /\ \E c \in cookies : c.who = admin[a].who
               THEN {"again"} ELSE {})
    /\ UNCHANGED <<inGateway, limiting, cookies, changes, logins>>

-----------------------------------------------------------------------------
(* The gateway: reloads, restarts.                                          *)

Reload ==
    /\ seen # 0 /\ stirred /\ stirred' = FALSE
    /\ reading' = reading \cup {conf.version}
    /\ UNCHANGED <<onDisk, seen, visit, limiting, cookies, admin, flaw, changes, logins>>

Reloaded ==
    /\ seen # 0
    /\ \E n \in reading :
          /\ reading' = reading \ {n}
          /\ seen' = n
          /\ Flawed("order", n < seen)
    /\ UNCHANGED <<onDisk, visit, limiting, stirred, cookies, admin, changes, logins>>

\* The process ends and starts again, with --reset or without: it has read the
\* file (0 stands for a gateway that is not up yet) ...
RestartGateway ==
    /\ Password /\ seen # 0 /\ seen' = 0
    /\ reading' = {conf.version} /\ stirred' = FALSE
    /\ visit' = [v \in Visits |-> Away]
    /\ limiter' = [limiter EXCEPT !.fails = 0, !.locked = FALSE] /\ wrong' = 0
    /\ \E reset \in BOOLEAN : cookies' = IF reset THEN {} ELSE cookies
    /\ UNCHANGED <<onDisk, admin, flaw, changes, logins>>

\* ... and listens, and watches, once dsh is up.
GatewayUp ==
    /\ seen = 0 /\ seen' \in reading /\ reading' = {} /\ stirred' = FALSE
    /\ Flawed("start", seen' # conf.version)
    /\ UNCHANGED <<onDisk, visit, limiting, cookies, admin, changes, logins>>

-----------------------------------------------------------------------------
(* The visitors.                                                            *)

\* allow, blocked, gateBlocked
Refused == limiter.locked

\* gate.ts and server.ts start a new count with the lock, join.ts goes on with
\* the old one.
Fail ==
    /\ wrong' = wrong + 1
    /\ limiter' = IF limiter.fails + 1 >= MaxFails
                  THEN [limiter EXCEPT !.locked = TRUE,
                                       !.fails = IF limiter.kind = "join" THEN MaxFails ELSE 0]
                  ELSE [limiter EXCEPT !.fails = @ + 1]

\* clear; on a tunnel gateFailures.count = 0.
Clear == /\ limiter' = [limiter EXCEPT !.fails = 0, !.locked = (limiter.kind = "join" /\ @)]
         /\ wrong' = 0

\* The lock expires.
Unlock ==
    /\ limiter.locked
    /\ limiter' = [limiter EXCEPT !.locked = FALSE]
    /\ wrong' = 0
    /\ UNCHANGED <<onDisk, inGateway, stirred, cookies, admin, flaw, changes, logins>>

\* handleLoginPost up to its first await: the body.
Visit(v) ==
    /\ Password /\ seen # 0 /\ visit[v].at = "idle" /\ ~Refused
    /\ logins < MaxLogins /\ logins' = logins + 1
    /\ \E p \in People, s \in Secrets :
          visit' = [visit EXCEPT ![v] = [at |-> "body", who |-> p, secret |-> s, hash |-> Nobody]]
    /\ UNCHANGED <<onDisk, seen, reading, limiting, stirred, cookies, admin, flaw, changes>>

\* userManager.verify: the file is read, the password hashed.
Lookup(v) ==
    /\ visit[v].at = "body"
    /\ visit' = [visit EXCEPT ![v].at = "scrypt", ![v].hash = conf.users[visit[v].who]]
    /\ UNCHANGED <<onDisk, seen, reading, limiting, stirred, cookies, admin, flaw, changes, logins>>

\* The cookie has the version of the moment at which it is signed.
Answer(v) ==
    /\ visit[v].at = "scrypt"
    /\ visit' = [visit EXCEPT ![v] = Away]
    /\ IF visit[v].hash = visit[v].secret
       THEN /\ cookies' = cookies \cup {[who |-> visit[v].who, secret |-> visit[v].secret,
                                         version |-> seen]}
            /\ Clear
            /\ Flawed("late", conf.users[visit[v].who] # visit[v].hash)
       ELSE Fail /\ UNCHANGED <<cookies, flaw>>
    /\ UNCHANGED <<onDisk, seen, reading, stirred, admin, changes, logins>>

\* handleGateHttp, handleGateSubmit: the body has been read.
EnterCode ==
    /\ ~Password /\ ~Refused /\ logins < MaxLogins /\ logins' = logins + 1
    /\ Clear \/ Fail
    /\ UNCHANGED <<onDisk, inGateway, stirred, cookies, admin, flaw, changes>>

\* JoinHandle.setAccessCode
SetGate ==
    /\ limiter.kind = "join" /\ changes < MaxChanges /\ changes' = changes + 1
    /\ limiter' = [limiter EXCEPT !.fails = 0, !.locked = FALSE] /\ wrong' = 0
    /\ UNCHANGED <<onDisk, inGateway, stirred, cookies, admin, flaw, logins>>

DoorsNext ==
    \/ \E a \in Admins : Command(a) \/ WriteDraft(a) \/ RenameDraft(a)
    \/ \E v \in Visits : Visit(v) \/ Lookup(v) \/ Answer(v)
    \/ Reload \/ Reloaded \/ RestartGateway \/ GatewayUp \/ Unlock \/ EnterCode \/ SetGate

DoorsSpec == DoorsInit /\ [][DoorsNext]_doors

-----------------------------------------------------------------------------
\* "(all existing sessions revoked)": once the gateway has caught up with the
\* file, no cookie it accepts was given for a password that has been replaced
\* since, across two processes, reloads, restarts and logins under way.
OldPasswordOut ==
    seen # 0 /\ ~stirred /\ reading = {} /\ flaw = {}
        => \A c \in cookies :
              c.version = seen => conf.users[c.who] \in {c.secret, Nobody}

\* Between two moments at which an address is let off, it gets at most so many
\* wrong answers evaluated as the limit says; a login, which is counted only
\* after the password was hashed, as many more as were under way with it.
GuessesLimited ==
    wrong <= MaxFails + (IF Password THEN Cardinality(Visits) - 1 ELSE 0)

\* The doors hold: against old passwords and against guesses.
DoorsHold == OldPasswordOut /\ GuessesLimited
=============================================================================
