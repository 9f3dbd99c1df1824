----------------------------- MODULE AccountsProofs -----------------------------
(***************************************************************************)
(* Proofs about accounts and the ways into them, for any number of         *)
(* accounts, requests, codes, tickets and crashes: what the requests and   *)
(* tables are made of, that an old secret opens nothing and a secret is    *)
(* not found by trying, and that what requests do beside each other        *)
(* neither lifts a ban nor takes the last way in.                          *)
(*                                                                         *)
(* A handler is a list of statements, and any request may run between two  *)
(* of them.  The invariant says what can be in these lists, and what a     *)
(* list that is not finished owes to the tables.                           *)
(***************************************************************************)
EXTENDS Identities, FiniteSetTheorems, SequenceTheorems, TLAPS

\* ---------------------------------------------------------------------------
\* Types.  A request is what it was called with, what it has read, and the list
\* of statements that it has before it.

RequestSeats == {"idle", "read", "exchange", "lookup", "decide", "run"}
Exchanges == Redirects \cup {"app-sdk", "apple", "app-sdk-bind", "apple-bind"}
CodeKeys == Channels \X Purposes

\* The statements, by what they carry.
UserStatements ==
  [do : {"incFails", "clearFails", "lock", "unlock", "bumpVersion", "revokeAll", "reread", "trust", "issue",
         "holder", "deleteAccount"}, u : Users]
PasswordStatements == [do : {"setPassword"}, u : Users, x : Passwords]
StatusStatements   == [do : {"setStatus"}, u : Users, x : {"pending", "active", "banned"}]
RoleStatements     == [do : {"setRole"}, u : Users, x : Roles]
LimiterStatements  == [do : {"clearIp"}, u : Users, x : Limiters]
DeleteStatements   == [do : {"deleteCodes"}, u : Users, x : Channels]
IdStatements       == [do : {"setIds", "setVerified", "clearIds"}, u : Users, ids : SUBSET Identifiers]
TokenStatements    == [do : {"find", "revoke"}, u : Users, n : Tokens]
TotpStatements     == [do : {"setTotp"}, u : Users, on : BOOLEAN]
CacheStatements    == [do : {"cache"}, u : Users, row : UserRows]
SessionStatements  == [do : {"session"}, u : Users, x : {"access", "access2"}, row : UserRows]
SecondStatements   == [do : {"second"}, u : Users, row : UserRows]
CheckStatements    == [do : {"checkCode"}, u : Users, c : CodeKeys, n : Nat]
SendStatements     == [do : {"sendCode"}, u : Users, c : CodeKeys]
BindStatements     == [do : {"bindIds"}, u : Users, x : {"wxweb", "wxapp", "apple"}, ids : SUBSET Identifiers]
MintStatements     == [do : {"mint"}, u : Users, x : {"pending", "pendingApp", "handoff"}, ids : SUBSET Identifiers]
CountStatements    == [do : {"countTry"}, u : Users, c : CodeKeys, n : Nat]

\* What may follow the creation of an account.
FollowUps == UserStatements \cup {s \in StatusStatements : s.x = "pending"}
             \cup {s \in IdStatements : s.do # "clearIds"} \cup SendStatements \cup LimiterStatements
InsertStatements ==
  [do : {"createUser"}, u : Users, pw : Passwords \cup {"unusable"}, ids : SUBSET Identifiers, then : Seq(FollowUps)]

Statements == FollowUps \cup PasswordStatements \cup StatusStatements \cup RoleStatements \cup IdStatements
              \cup DeleteStatements \cup TokenStatements
              \cup TotpStatements \cup CacheStatements \cup SessionStatements \cup SecondStatements
              \cup CheckStatements \cup BindStatements \cup MintStatements \cup InsertStatements

Operations == {"idle", "login", "totp", "refresh", "logout", "password", "totpOn", "totpOff", "delete", "create",
               "handoff", "confirm", "app-confirm", "bindSend", "bindVerify", "unbind"}
              \cup ByIdentity \cup Exchanges \cup OperatorOps \cup AdminOps
Arguments == {"", "wechat", "apple"} \cup Passwords \cup Channels

Requests == [op : Operations, u : Users, x : Arguments, n : Nat, at : RequestSeats, row : UserRows,
             todo : Seq(Statements \cup CountStatements), ids : SUBSET Identifiers, who : SUBSET Users]

Tickets == [n : Nat, k : Redirects \cup {"bindToken", "pending", "pendingApp", "handoff"}, u : Users,
            ids : SUBSET Identifiers]

TableTypes ==
  /\ users \in [Users -> UserRows]
  /\ refresh \in [Tokens -> [u : Users, live : BOOLEAN, used : BOOLEAN, ver : Nat, late : BOOLEAN]]
  /\ codes \in [CodeKeys -> [id : Nat, tries : Nat, u : Users]]
  /\ req \in [Reqs -> Requests]
  /\ crashes \in Nat /\ lockedTries \in [Users -> Nat]

MemoryTypes ==
  /\ cache \in [Users -> UserRows] /\ reload \in {<<>>} \cup [Users -> UserRows]
  /\ jwts \subseteq Jwts
  /\ ip \in [Limiters -> [fails : Nat, locked : BOOLEAN]]
  /\ calls \in Nat /\ sent \in Nat
  /\ tickets \subseteq Tickets /\ minted \in Nat

\* ---------------------------------------------------------------------------
\* The lists of statements that handlers make.  A new password is followed by the
\* end of the sessions of that account.
Paired(todo) ==
  \A i \in DOMAIN todo : todo[i].do = "setPassword" =>
    /\ i + 1 \in DOMAIN todo
    /\ todo[i + 1].do = "revokeAll" /\ todo[i + 1].u = todo[i].u

\* Why a request may make an account active, or take a way in.
Warranted(q, s) ==
  /\ s.do = "setStatus" /\ s.x = "active" =>
       q.op = "unban" \/ (q.op = "verify" /\ q.row.st = "pending" /\ s.u = q.u)
  /\ s.do = "clearIds" =>
       /\ s.u = q.u
       /\ q.row.st = "none" \/ Methods(q.row) \ {q.x} # {}
       /\ \/ q.x \in Channels \cup {"apple"} /\ s.ids = {q.x}
          \/ q.x = "wechat" /\ s.ids = WechatIds
  /\ s.do = "bindIds" => s.x \in s.ids /\ s.ids \subseteq {s.x, "union"}

\* What a request that runs has before it: only the first may count a try.
Plan(q, todo) == /\ todo \in Seq(Statements) /\ Paired(todo)
                 /\ \A i \in DOMAIN todo : Warranted(q, todo[i])

RequestFits(q) ==
  /\ q.at = "run" => /\ q.todo # <<>>
                     /\ \/ Plan(q, q.todo)
                        \/ Head(q.todo) \in CountStatements /\ Plan(q, Tail(q.todo))
  /\ q.at # "run" => q.todo = <<>>
  /\ q.at # "idle" => q.op \in use.ops
  /\ q.row.st = "none" => q.row = NoUser
  /\ q.op \in ByIdentity => q.x \in Channels
  /\ q.op \in Exchanges => q.at # "read"
  /\ q.at \in {"exchange", "lookup"} => q.op # "login"
  /\ q.op \in Exchanges /\ q.at \in {"lookup", "decide"} => Side(q.op) \in q.ids /\ q.ids \subseteq {Side(q.op), "union"}

\* ---------------------------------------------------------------------------
\* The rows.
RowsWhole == \A u \in Users : users[u].st = "none" => users[u] = NoUser
TokensOwned == \A t \in Tokens : refresh[t].live => refresh[t].used /\ users[refresh[t].u].st # "none"

\* A request that has nothing but the cache to see to before it ends the
\* sessions of u.
Ends(q, u) == \E i \in DOMAIN q.todo :
                /\ q.todo[i].do = "revokeAll" /\ q.todo[i].u = u
                /\ \A j \in 1 .. i - 1 : q.todo[j].do \in {"reread", "cache"}
SessionsEnding ==
  "cliPasswd" \notin use.ops =>
    \A t \in Tokens : refresh[t].live /\ refresh[t].ver < users[refresh[t].u].pwAt =>
      refresh[t].late \/ crashes > 0 \/ \E r \in Reqs : Ends(req[r], refresh[t].u)

\* Tries that will be counted, passwords that will be compared although the
\* account is locked, locks that will follow a count.
Begins(q, do) == q.at = "run" /\ q.todo[1].do = do
Counting(k) == {r \in Reqs : Begins(req[r], "countTry") /\ req[r].todo[1].c = k /\ req[r].todo[1].n = codes[k].id}
Unaware(u) == {r \in Reqs : /\ req[r].at = "decide" /\ req[r].op = "login" /\ req[r].u = u
                            /\ ~req[r].row.locked}
Locking(u) == {r \in Reqs : Begins(req[r], "lock") /\ req[r].todo[1].u = u}

TriesCounted ==
  \A k \in CodeKeys : codes[k].tries + Cardinality(Counting(k)) <= MaxCodeAttempts - 1 + Cardinality(Reqs)
TriesLocked ==
  \A u \in Users : IF users[u].locked THEN lockedTries[u] + Cardinality(Unaware(u)) <= Cardinality(Reqs) - 1
                   ELSE lockedTries[u] = 0
FailsCounted ==
  \A u \in Users : users[u].fails <= LockThreshold - 1 + Cardinality(Reqs) * crashes + Cardinality(Locking(u))

TableInv ==
  /\ TableTypes /\ \A r \in Reqs : RequestFits(req[r])
  /\ RowsWhole /\ TokensOwned /\ SessionsEnding
  /\ TriesCounted /\ TriesLocked /\ FailsCounted

\* ---------------------------------------------------------------------------
\* The lists of statements.

LEMMA PlanEmpty == ASSUME NEW q PROVE Plan(q, <<>>)
BY DEF Plan, Paired

LEMMA PlanOne ==
    ASSUME NEW q, NEW s \in Statements, s.do # "setPassword", Warranted(q, s)
    PROVE  Plan(q, <<s>>)
BY DEF Plan, Paired

LEMMA PlanJoin ==
    ASSUME NEW q, NEW a, NEW b, Plan(q, a), Plan(q, b)
    PROVE  Plan(q, a \o b)
<1> DEFINE c == a \o b
<1>1. /\ a \in Seq(Statements) /\ b \in Seq(Statements) /\ c \in Seq(Statements)
      /\ Len(a) \in Nat /\ Len(b) \in Nat /\ Len(c) = Len(a) + Len(b)
      /\ DOMAIN a = 1 .. Len(a) /\ DOMAIN b = 1 .. Len(b) /\ DOMAIN c = 1 .. Len(c)
      /\ \A i \in 1 .. Len(c) : c[i] = IF i <= Len(a) THEN a[i] ELSE b[i - Len(a)]
  BY ConcatProperties DEF Plan
<1> HIDE DEF c
<1>2. \A i \in DOMAIN c : Warranted(q, c[i])
  BY <1>1 DEF Plan
<1>3. Paired(c)
  <2> SUFFICES ASSUME NEW i \in DOMAIN c, c[i].do = "setPassword"
               PROVE  i + 1 \in DOMAIN c /\ c[i + 1].do = "revokeAll" /\ c[i + 1].u = c[i].u
    BY DEF Paired
  <2>1. CASE i <= Len(a)
    <3>1. i \in DOMAIN a /\ a[i].do = "setPassword"
      BY <1>1, <2>1
    <3>2. i + 1 \in DOMAIN a /\ a[i + 1].do = "revokeAll" /\ a[i + 1].u = a[i].u
      BY <3>1 DEF Plan, Paired
    <3> QED BY <1>1, <2>1, <3>2
  <2>2. CASE ~(i <= Len(a))
    <3>1. i - Len(a) \in DOMAIN b /\ b[i - Len(a)].do = "setPassword"
      BY <1>1, <2>2
    <3>2. i - Len(a) + 1 \in DOMAIN b /\ b[i - Len(a) + 1].do = "revokeAll"
          /\ b[i - Len(a) + 1].u = b[i - Len(a)].u
      BY <3>1 DEF Plan, Paired
    <3> QED BY <1>1, <2>2, <3>2, SMTT(30)
  <2> QED BY <2>1, <2>2
<1> QED BY <1>1, <1>2, <1>3 DEF Plan, c

LEMMA TailOf ==
    ASSUME NEW S, NEW p \in Seq(S), p # <<>>
    PROVE  /\ Tail(p) \in Seq(S) /\ Head(p) = p[1] /\ p[1] \in S
           /\ Len(p) \in Nat \ {0} /\ DOMAIN p = 1 .. Len(p)
           /\ DOMAIN Tail(p) = 1 .. Len(p) - 1 /\ Len(Tail(p)) = Len(p) - 1
           /\ \A i \in 1 .. Len(p) - 1 : Tail(p)[i] = p[i + 1]
BY HeadTailProperties, EmptySeq

LEMMA PlanTail ==
    ASSUME NEW q, NEW p, Plan(q, p), p # <<>>
    PROVE  /\ Plan(q, Tail(p)) /\ p[1] \in Statements /\ Warranted(q, p[1])
           /\ p[1].do = "setPassword" =>
                 /\ Tail(p) # <<>> /\ Tail(p)[1].do = "revokeAll" /\ Tail(p)[1].u = p[1].u
<1> DEFINE t == Tail(p)
<1>1. /\ t \in Seq(Statements) /\ p[1] \in Statements
      /\ Len(p) \in Nat \ {0} /\ DOMAIN p = 1 .. Len(p) /\ DOMAIN t = 1 .. Len(p) - 1
      /\ \A i \in 1 .. Len(p) - 1 : t[i] = p[i + 1]
  BY TailOf DEF Plan
<1> HIDE DEF t
<1>2. \A i \in DOMAIN t : i \in 1 .. Len(p) - 1 /\ i + 1 \in DOMAIN p /\ t[i] = p[i + 1]
  BY <1>1
<1>3. Paired(t)
  <2> SUFFICES ASSUME NEW i \in DOMAIN t, t[i].do = "setPassword"
               PROVE  i + 1 \in DOMAIN t /\ t[i + 1].do = "revokeAll" /\ t[i + 1].u = t[i].u
    BY DEF Paired
  <2>1. i + 1 \in DOMAIN p /\ p[i + 1].do = "setPassword" /\ t[i] = p[i + 1] /\ i \in Nat
    BY <1>1, <1>2
  <2>2. (i + 1) + 1 \in DOMAIN p /\ p[(i + 1) + 1].do = "revokeAll" /\ p[(i + 1) + 1].u = p[i + 1].u
    BY <2>1 DEF Plan, Paired
  <2> QED BY <1>1, <2>1, <2>2
<1>4. \A i \in DOMAIN t : Warranted(q, t[i])
  BY <1>2 DEF Plan
<1>5. 1 \in DOMAIN p
  BY <1>1
<1>6. ASSUME p[1].do = "setPassword"
      PROVE  t # <<>> /\ t[1].do = "revokeAll" /\ t[1].u = p[1].u
  <2>1. 2 \in DOMAIN p /\ p[2].do = "revokeAll" /\ p[2].u = p[1].u
    BY <1>5, <1>6 DEF Plan, Paired
  <2>2. 1 \in DOMAIN t
    BY <1>1, <2>1
  <2> QED BY <1>2, <2>1, <2>2
<1> QED BY <1>1, <1>3, <1>4, <1>5, <1>6 DEF Plan, t

\* A password is changed together with the sessions.
LEMMA PlanPassword ==
    ASSUME NEW q, NEW u \in Users, NEW pw \in Passwords
    PROVE  Plan(q, NewPassword(u, pw))
<1> DEFINE a == OnRow("setPassword", u, pw)
           b == OnUser("revokeAll", u)
<1>1. a \in PasswordStatements /\ b \in UserStatements /\ a.do = "setPassword" /\ b.do = "revokeAll" /\ a.u = b.u
  BY DEF OnRow, OnUser, PasswordStatements, UserStatements
<1>2. a \in Statements /\ b \in Statements
  BY <1>1 DEF Statements, FollowUps
<1>3. NewPassword(u, pw) = <<a, b>>
  BY DEF NewPassword
<1> HIDE DEF a, b
<1>4. Warranted(q, a) /\ Warranted(q, b)
  BY <1>1 DEF Warranted
<1> QED BY <1>1, <1>2, <1>3, <1>4 DEF Plan, Paired

\* The reason of a statement lies in what the request is and has read.
LEMMA PlanSame ==
    ASSUME NEW q, NEW w, NEW p, Plan(q, p),
           w.op = q.op /\ w.u = q.u /\ w.x = q.x /\ w.row = q.row
    PROVE  Plan(w, p)
BY DEF Plan, Warranted

\* ---------------------------------------------------------------------------
\* How many requests there are of a kind.

LEMMA Fewer ==
    ASSUME NEW S \in SUBSET Reqs, NEW T \in SUBSET Reqs, S \subseteq T
    PROVE  /\ Cardinality(S) \in Nat /\ Cardinality(T) \in Nat /\ Cardinality(Reqs) \in Nat \ {0}
           /\ Cardinality(S) <= Cardinality(T) /\ Cardinality(T) <= Cardinality(Reqs)
<1>1. IsFiniteSet(Reqs) /\ Reqs # {}
  BY AccountsAssumption
<1>2. IsFiniteSet(T) /\ Cardinality(T) <= Cardinality(Reqs)
  BY <1>1, FS_Subset
<1>3. IsFiniteSet(S) /\ Cardinality(S) <= Cardinality(T)
  BY <1>2, FS_Subset
<1>4. Cardinality(Reqs) \in Nat /\ Cardinality(Reqs) # 0
  BY <1>1, FS_CardinalityType, FS_EmptySet
<1> QED BY <1>2, <1>3, <1>4, FS_CardinalityType

LEMMA OneLess ==
    ASSUME NEW S \in SUBSET Reqs, NEW T \in SUBSET Reqs, NEW r \in T, S \subseteq T \ {r}
    PROVE  /\ Cardinality(S) \in Nat /\ Cardinality(T) \in Nat
           /\ Cardinality(S) + 1 <= Cardinality(T)
<1>1. IsFiniteSet(T) /\ Cardinality(T) \in Nat
  BY AccountsAssumption, FS_Subset, FS_CardinalityType
<1>2. Cardinality(T \ {r}) = Cardinality(T) - 1
  BY <1>1, FS_RemoveElement
<1> QED BY <1>1, <1>2, Fewer

\* ---------------------------------------------------------------------------
\* A request goes on as q, and each part of the invariant in turn.

Turn(r, q) == q \in Requests /\ RequestFits(q) /\ req' = [req EXCEPT ![r] = q] /\ use' = use

LEMMA TurnIs ==
    ASSUME TableTypes, NEW r \in Reqs, NEW q, Turn(r, q)
    PROVE  /\ q \in Requests /\ req' \in [Reqs -> Requests]
           /\ \A o \in Reqs : req'[o] = IF o = r THEN q ELSE req[o]
BY DEF TableTypes, Turn

LEMMA FitsKept ==
    ASSUME TableTypes, NEW r \in Reqs, NEW q, Turn(r, q), \A o \in Reqs : RequestFits(req[o])
    PROVE  \A o \in Reqs : RequestFits(req[o])'
<1>1. use' = use /\ RequestFits(q)
  BY DEF Turn
<1> SUFFICES ASSUME NEW o \in Reqs PROVE RequestFits(req[o])'
  OBVIOUS
<1>2. RequestFits(req'[o])
  BY <1>1, TurnIs
<1> QED BY <1>1, <1>2 DEF RequestFits

LEMMA TriesKept ==
    ASSUME TableTypes, TriesCounted, NEW r \in Reqs, NEW q, Turn(r, q), ~Begins(q, "countTry"),
           \A k \in CodeKeys : codes'[k] = codes[k] \/ codes'[k].tries = 0
    PROVE  TriesCounted'
<1> SUFFICES ASSUME NEW k \in CodeKeys
             PROVE  (codes[k].tries + Cardinality(Counting(k)) <= MaxCodeAttempts - 1 + Cardinality(Reqs))'
  BY DEF TriesCounted
<1>1. Counting(k) \in SUBSET Reqs /\ Counting(k)' \in SUBSET Reqs
  BY DEF Counting
<1>2. MaxCodeAttempts \in Nat \ {0} /\ codes[k].tries \in Nat
  BY AccountsAssumption DEF TableTypes
<1>3. CASE codes'[k] = codes[k]
  <2>1. Counting(k)' \subseteq Counting(k)
    BY <1>3, TurnIs DEF Counting, Begins
  <2> QED BY <1>1, <1>2, <1>3, <2>1, Fewer DEF TriesCounted
<1>4. CASE codes'[k].tries = 0
  <2>1. Cardinality(Counting(k)') \in Nat /\ Cardinality(Reqs) \in Nat /\ Cardinality(Counting(k)') <= Cardinality(Reqs)
    BY <1>1, Fewer
  <2> QED BY <1>2, <1>4, <2>1
<1> QED BY <1>3, <1>4

LEMMA LocksKept ==
    ASSUME TableTypes, TriesLocked, NEW r \in Reqs, NEW q, Turn(r, q),
           q.at = "decide" /\ q.op = "login" /\ ~q.row.locked => ~users[q.u].locked,
           \A u \in Users : IF users'[u].locked THEN users[u].locked /\ lockedTries'[u] = lockedTries[u]
                            ELSE lockedTries'[u] = 0
    PROVE  TriesLocked'
<1> SUFFICES ASSUME NEW u \in Users, users'[u].locked
             PROVE  (lockedTries[u] + Cardinality(Unaware(u)) <= Cardinality(Reqs) - 1)'
  BY DEF TriesLocked
<1>1. Unaware(u) \in SUBSET Reqs /\ Unaware(u)' \in SUBSET Reqs
  BY DEF Unaware
<1>2. Unaware(u)' \subseteq Unaware(u)
  BY TurnIs DEF Unaware
<1>3. lockedTries[u] \in Nat
  BY DEF TableTypes
<1> QED BY <1>1, <1>2, <1>3, Fewer DEF TriesLocked

LEMMA FailsKept ==
    ASSUME TableTypes, FailsCounted, NEW r \in Reqs, NEW q, Turn(r, q), crashes' = crashes,
           \A u \in Users : \/ users'[u].fails = 0
                            \/ users'[u].fails = users[u].fails /\ (r \in Locking(u) => r \in Locking(u)')
    PROVE  FailsCounted'
<1> SUFFICES ASSUME NEW u \in Users
             PROVE  (users[u].fails <= LockThreshold - 1 + Cardinality(Reqs) * crashes + Cardinality(Locking(u)))'
  BY DEF FailsCounted
<1>1. Locking(u) \in SUBSET Reqs /\ Locking(u)' \in SUBSET Reqs
  BY DEF Locking
<1>2. LockThreshold \in Nat \ {0} /\ crashes \in Nat /\ users[u].fails \in Nat
  BY StoreAssumption DEF TableTypes, UserRows
<1>3. Cardinality(Reqs) \in Nat
  BY <1>1, Fewer
<1> PICK n \in Nat : n = Cardinality(Reqs) * crashes
  BY <1>2, <1>3
<1>4. CASE users'[u].fails = 0
  <2>1. Cardinality(Locking(u)') \in Nat
    BY <1>1, Fewer
  <2> QED BY <1>2, <1>4, <2>1
<1>5. CASE users'[u].fails = users[u].fails /\ (r \in Locking(u) => r \in Locking(u)')
  <2>1. Locking(u) \subseteq Locking(u)'
    BY <1>5, TurnIs DEF Locking, Begins
  <2>2. Cardinality(Locking(u)) \in Nat /\ Cardinality(Locking(u)') \in Nat
        /\ Cardinality(Locking(u)) <= Cardinality(Locking(u)')
    BY <1>1, <2>1, Fewer
  <2> QED BY <1>2, <1>5, <2>2 DEF FailsCounted
<1> QED BY <1>4, <1>5

\* A token that ought to be dead was so before, and is still being revoked.
Outlived(t) == /\ refresh[t].live /\ refresh[t].ver < users[refresh[t].u].pwAt /\ ~refresh[t].late

LEMMA EndingKept ==
    ASSUME TableTypes, SessionsEnding, NEW r \in Reqs, NEW q, Turn(r, q), crashes' = crashes,
           \A t \in Tokens : Outlived(t)' =>
             \/ Ends(q, refresh'[t].u)
             \/ /\ Outlived(t) /\ refresh'[t].u = refresh[t].u
                /\ Ends(req[r], refresh[t].u) => Ends(q, refresh[t].u)
    PROVE  SessionsEnding'
<1> SUFFICES ASSUME "cliPasswd" \notin use.ops, NEW t \in Tokens, Outlived(t)'
             PROVE  crashes' > 0 \/ \E o \in Reqs : Ends(req'[o], refresh'[t].u)
  BY DEF SessionsEnding, Outlived, Turn, Ends
<1>1. CASE Ends(q, refresh'[t].u)
  BY <1>1, TurnIs
<1>2. CASE /\ Outlived(t) /\ refresh'[t].u = refresh[t].u
           /\ Ends(req[r], refresh[t].u) => Ends(q, refresh[t].u)
  <2>1. crashes > 0 \/ \E o \in Reqs : Ends(req[o], refresh[t].u)
    BY <1>2 DEF SessionsEnding, Outlived
  <2>2. ASSUME NEW o \in Reqs, Ends(req[o], refresh[t].u)
        PROVE  Ends(req'[o], refresh'[t].u)
    BY <1>2, <2>2, TurnIs
  <2> QED BY <2>1, <2>2
<1> QED BY <1>1, <1>2

\* What is in a list by its kind.
LEMMA Kinds ==
    ASSUME NEW s \in Statements
    PROVE  /\ s.u \in Users /\ s.do # "countTry"
           /\ s.do = "setPassword" => s \in PasswordStatements
           /\ s.do = "setStatus" => s \in StatusStatements
           /\ s.do = "setRole" => s \in RoleStatements
           /\ s.do = "clearIp" => s \in LimiterStatements
           /\ s.do = "deleteCodes" => s \in DeleteStatements
           /\ s.do \in {"setIds", "setVerified", "clearIds"} => s \in IdStatements
           /\ s.do \in {"find", "revoke"} => s \in TokenStatements
           /\ s.do = "setTotp" => s \in TotpStatements
           /\ s.do = "cache" => s \in CacheStatements
           /\ s.do = "session" => s \in SessionStatements
           /\ s.do = "second" => s \in SecondStatements
           /\ s.do = "checkCode" => s \in CheckStatements
           /\ s.do = "sendCode" => s \in SendStatements
           /\ s.do = "bindIds" => s \in BindStatements
           /\ s.do = "mint" => s \in MintStatements
           /\ s.do = "createUser" => s \in InsertStatements
<1>1. CASE s \in FollowUps
  BY <1>1 DEF FollowUps, UserStatements, StatusStatements, IdStatements, SendStatements, LimiterStatements
<1>2. CASE s \in PasswordStatements \cup StatusStatements \cup RoleStatements \cup IdStatements
               \cup DeleteStatements \cup TokenStatements
               \cup TotpStatements \cup CacheStatements \cup SessionStatements
  BY <1>2 DEF PasswordStatements, StatusStatements, RoleStatements, IdStatements, DeleteStatements, TokenStatements,
              TotpStatements, CacheStatements, SessionStatements
<1>3. CASE s \in SecondStatements \cup CheckStatements \cup BindStatements \cup MintStatements \cup InsertStatements
  BY <1>3 DEF SecondStatements, CheckStatements, BindStatements, MintStatements, InsertStatements
<1> QED BY <1>1, <1>2, <1>3 DEF Statements

LEMMA NotEnding ==
    ASSUME NEW q \in Requests, RequestFits(q), NEW u, Ends(q, u)
    PROVE  /\ q.at = "run" /\ q.todo # <<>>
           /\ q.todo[1].do \in {"reread", "cache", "revokeAll"}
<1>1. PICK i \in DOMAIN q.todo : /\ q.todo[i].do = "revokeAll"
                                 /\ \A j \in 1 .. i - 1 : q.todo[j].do \in {"reread", "cache"}
  BY DEF Ends
<1>2. q.todo # <<>>
  BY <1>1
<1>3. q.at = "run"
  BY <1>2 DEF RequestFits
<1>4. i \in Nat \ {0}
  BY <1>1 DEF Requests
<1>5. CASE i = 1
  BY <1>1, <1>2, <1>3, <1>5
<1>6. CASE i # 1
  <2>1. 1 \in 1 .. i - 1
    BY <1>4, <1>6
  <2> QED BY <1>1, <1>2, <1>3, <2>1
<1> QED BY <1>5, <1>6

\* Most steps change nothing but their request (and what is in memory), and one the
\* count of passwords that are compared.
LEMMA TurnOfOne ==
    ASSUME TableInv, NEW r \in Reqs, NEW q, Turn(r, q),
           UNCHANGED <<users, refresh, codes, crashes>>, ~Begins(q, "countTry"),
           lockedTries' \in [Users -> Nat], TriesLocked',
           \A u : Ends(req[r], u) => Ends(q, u), ~Begins(req[r], "lock")
    PROVE  TableInv'
<1>1. TableTypes /\ (\A o \in Reqs : RequestFits(req[o])) /\ req[r] \in Requests
  BY DEF TableInv, TableTypes
<1>2. TableTypes'
  BY <1>1, TurnIs DEF TableTypes
<1>3. (\A o \in Reqs : RequestFits(req[o]))'
  BY <1>1, FitsKept
<1>4. RowsWhole' /\ TokensOwned'
  BY DEF TableInv, RowsWhole, TokensOwned
<1>6. SessionsEnding'
  <2>1. \A t \in Tokens : Outlived(t)' => Outlived(t) /\ refresh'[t].u = refresh[t].u
    BY DEF Outlived
  <2> QED BY <1>1, <2>1, EndingKept DEF TableInv
<1>7. TriesCounted'
  BY <1>1, TriesKept DEF TableInv
<1>8. FailsCounted'
  <2>1. \A u : r \notin Locking(u)
    BY DEF Locking
  <2> QED BY <1>1, <2>1, FailsKept DEF TableInv
<1> QED BY <1>2, <1>3, <1>4, <1>6, <1>7, <1>8 DEF TableInv

LEMMA QuietTurn ==
    ASSUME TableInv, NEW r \in Reqs, NEW q, Turn(r, q),
           UNCHANGED <<users, refresh, codes, crashes, lockedTries>>, ~Begins(q, "countTry"),
           q.at = "decide" /\ q.op = "login" /\ ~q.row.locked => ~users[q.u].locked,
           req[r].at # "run" \/ req[r].todo[1].do \notin {"reread", "cache", "revokeAll", "lock"}
    PROVE  TableInv'
<1>1. \A u \in Users : IF users'[u].locked THEN users[u].locked /\ lockedTries'[u] = lockedTries[u]
                       ELSE lockedTries'[u] = 0
  BY DEF TableInv, TriesLocked
<1>2. TriesLocked'
  BY <1>1, LocksKept DEF TableInv
<1>3. lockedTries' \in [Users -> Nat]
  BY DEF TableInv, TableTypes
<1>4. \A u : ~Ends(req[r], u)
  BY NotEnding DEF TableInv, TableTypes
<1>5. ~Begins(req[r], "lock")
  BY DEF Begins
<1> QED BY <1>2, <1>3, <1>4, <1>5, TurnOfOne

\* ---------------------------------------------------------------------------
\* The list of statements moves on.

LEMMA NobodyIs == Nobody \in Users /\ NoUser \in UserRows
BY StoreAssumption DEF Nobody, NoUser, UserRows, Statuses, Roles

LEMMA IdleFits ==
  /\ Idle \in Requests /\ RequestFits(Idle)
  /\ Idle.at = "idle" /\ Idle.todo = <<>> /\ Idle.u = Nobody /\ Idle.row = NoUser
<1>1. <<>> \in Seq(Statements \cup CountStatements)
  OBVIOUS
<1>2. "idle" \in Operations /\ "" \in Arguments
  BY DEF Operations, Arguments
<1>3. Idle \in Requests
  <2> HIDE DEF Statements, CountStatements
  <2> QED BY <1>1, <1>2, NobodyIs DEF Idle, Requests, RequestSeats
<1>4. RequestFits(Idle)
  BY DEF RequestFits, Idle, ByIdentity
<1> QED BY <1>3, <1>4 DEF Idle

LEMMA Continues ==
    ASSUME TableInv, NEW r \in Reqs, req[r].at # "idle", NEW todo, Plan(req[r], todo),
           Continue(r, todo), use' = use
    PROVE  \E q \in Requests :
             /\ Turn(r, q) /\ q.at \in {"idle", "run"} /\ q.todo = todo /\ ~Begins(q, "countTry")
             /\ q.at = "run" => /\ todo # <<>>
                                /\ q.op = req[r].op /\ q.u = req[r].u /\ q.x = req[r].x /\ q.row = req[r].row
<1>1. req[r] \in Requests /\ RequestFits(req[r])
  BY DEF TableInv, TableTypes
<1>2. CASE todo = <<>>
  <2>1. req' = [req EXCEPT ![r] = Idle]
    BY <1>2 DEF Continue
  <2> QED BY <1>2, <2>1, IdleFits DEF Turn, Begins
<1>3. CASE todo # <<>>
  <2> PICK q : q = [req[r] EXCEPT !.at = "run", !.todo = todo]
    OBVIOUS
  <2>1. req' = [req EXCEPT ![r] = q]
    BY <1>3 DEF Continue, TableInv, TableTypes
  <2>2. todo \in Seq(Statements \cup CountStatements)
    BY DEF Plan
  <2>3. /\ q \in Requests /\ q.at = "run" /\ q.todo = todo
        /\ q.op = req[r].op /\ q.u = req[r].u /\ q.x = req[r].x /\ q.row = req[r].row
    BY <1>1, <2>2 DEF Requests, RequestSeats
  <2>4. Plan(q, todo)
    BY <2>3, PlanSame
  <2>5. RequestFits(q)
    BY <1>1, <1>3, <2>3, <2>4 DEF RequestFits
  <2>6. todo[1].do # "countTry"
    <3>1. todo[1] \in Statements
      BY <1>3, <2>4, PlanTail
    <3> QED BY <3>1, Kinds
  <2> QED BY <1>3, <2>1, <2>3, <2>5, <2>6 DEF Turn, Begins
<1> QED BY <1>2, <1>3

LEMMA QuietContinue ==
    ASSUME TableInv, NEW r \in Reqs, req[r].at # "idle", NEW todo, Plan(req[r], todo), Continue(r, todo),
           UNCHANGED <<users, refresh, codes, use, crashes, lockedTries>>,
           req[r].at # "run" \/ req[r].todo[1].do \notin {"reread", "cache", "revokeAll", "lock"}
    PROVE  TableInv'
<1>1. PICK q \in Requests : /\ Turn(r, q) /\ q.at \in {"idle", "run"} /\ ~Begins(q, "countTry")
  BY Continues
<1> QED BY <1>1, QuietTurn

LEMMA RunningIs ==
    ASSUME TableInv, NEW r \in Reqs, req[r].at = "run"
    PROVE  /\ Stmt(r) = req[r].todo[1] /\ req[r].todo # <<>> /\ Plan(req[r], Tail(req[r].todo))
           /\ req[r].todo \in Seq(Statements \cup CountStatements)
           /\ Stmt(r).do = "countTry" => Stmt(r) \in CountStatements
           /\ Stmt(r).do # "countTry" =>
                 /\ Stmt(r) \in Statements /\ Warranted(req[r], Stmt(r))
                 /\ Stmt(r).do = "setPassword" =>
                       /\ Tail(req[r].todo) # <<>> /\ Tail(req[r].todo)[1].do = "revokeAll"
                       /\ Tail(req[r].todo)[1].u = Stmt(r).u
<1> DEFINE p == req[r].todo
<1>1. req[r] \in Requests /\ RequestFits(req[r])
  BY DEF TableInv, TableTypes
<1>2. /\ p # <<>> /\ p \in Seq(Statements \cup CountStatements)
      /\ Plan(req[r], p) \/ (Head(p) \in CountStatements /\ Plan(req[r], Tail(p)))
  BY <1>1 DEF RequestFits, Requests
<1>3. Stmt(r) = p[1] /\ Head(p) = p[1]
  <2> HIDE DEF p
  <2>1. Head(p) = p[1]
    BY <1>2, TailOf
  <2> QED BY <2>1 DEF Stmt, p
<1>4. CASE Plan(req[r], p)
  BY <1>2, <1>3, <1>4, PlanTail, Kinds, ZenonT(30)
<1>5. CASE Head(p) \in CountStatements /\ Plan(req[r], Tail(p))
  BY <1>2, <1>3, <1>5 DEF CountStatements
<1> QED BY <1>2, <1>4, <1>5

LEMMA QuietDone ==
    ASSUME TableInv, NEW r \in Reqs, req[r].at = "run", NEW pre, Plan(req[r], pre), Done(r, pre),
           UNCHANGED <<users, refresh, codes, use, crashes, lockedTries>>,
           Stmt(r).do \notin {"reread", "cache", "revokeAll", "lock"}
    PROVE  TableInv'
<1>1. Plan(req[r], pre \o Tail(req[r].todo))
  BY RunningIs, PlanJoin
<1>2. req[r].todo[1].do \notin {"reread", "cache", "revokeAll", "lock"}
  BY RunningIs
<1> QED BY <1>1, <1>2, QuietContinue DEF Done

\* ---------------------------------------------------------------------------
\* Statements that need no reason.

Free(s) == s \in Statements /\ s.do \notin {"setPassword", "setStatus", "clearIds", "bindIds"}

LEMMA FreeIsWarranted == ASSUME NEW q, NEW s, Free(s) PROVE Plan(q, <<s>>)
BY PlanOne DEF Free, Warranted

LEMMA FreePlans ==
    ASSUME NEW q, NEW a, NEW b, NEW c, Free(a), Free(b), Free(c)
    PROVE  Plan(q, <<a, b>>) /\ Plan(q, <<a, b, c>>)
<1>1. Warranted(q, a) /\ Warranted(q, b) /\ Warranted(q, c)
  BY DEF Free, Warranted
<1>2. Plan(q, <<a, b>>)
  BY <1>1 DEF Plan, Paired, Free
<1>3. Plan(q, <<a, b, c>>)
  BY <1>1 DEF Plan, Paired, Free
<1> QED BY <1>2, <1>3

UserDos == {"incFails", "clearFails", "lock", "unlock", "bumpVersion", "revokeAll", "reread", "trust", "issue",
            "holder", "deleteAccount"}

LEMMA MadeUser ==
    ASSUME NEW u \in Users, NEW d \in UserDos
    PROVE  Free(OnUser(d, u)) /\ OnUser(d, u) \in FollowUps
<1>1. OnUser(d, u) \in UserStatements /\ OnUser(d, u).do = d
  BY DEF OnUser, UserStatements, UserDos
<1> QED BY <1>1 DEF Free, Statements, FollowUps, UserDos

LEMMA MadeRow ==
    ASSUME NEW u \in Users
    PROVE  /\ \A x \in Roles : Free(OnRow("setRole", u, x))
           /\ \A x \in Limiters : Free(OnRow("clearIp", u, x)) /\ OnRow("clearIp", u, x) \in FollowUps
           /\ \A x \in Channels : Free(OnRow("deleteCodes", u, x))
           /\ \A x \in {"pending", "active", "banned"} :
                 /\ OnRow("setStatus", u, x) \in Statements /\ (x = "pending" => OnRow("setStatus", u, x) \in FollowUps)
                 /\ OnRow("setStatus", u, x).do = "setStatus"
                 /\ OnRow("setStatus", u, x).x = x /\ OnRow("setStatus", u, x).u = u
<1>1. \A x \in Roles : OnRow("setRole", u, x) \in RoleStatements /\ OnRow("setRole", u, x).do = "setRole"
  BY DEF OnRow, RoleStatements
<1>2. \A x \in Limiters : OnRow("clearIp", u, x) \in LimiterStatements /\ OnRow("clearIp", u, x).do = "clearIp"
  BY DEF OnRow, LimiterStatements
<1>3. \A x \in Channels : OnRow("deleteCodes", u, x) \in DeleteStatements
                          /\ OnRow("deleteCodes", u, x).do = "deleteCodes"
  BY DEF OnRow, DeleteStatements
<1>4. \A x \in {"pending", "active", "banned"} :
         /\ OnRow("setStatus", u, x) \in StatusStatements /\ OnRow("setStatus", u, x).do = "setStatus"
         /\ OnRow("setStatus", u, x).x = x /\ OnRow("setStatus", u, x).u = u
  BY DEF OnRow, StatusStatements
<1> QED BY <1>1, <1>2, <1>3, <1>4 DEF Free, Statements, FollowUps

LEMMA MadeIds ==
    ASSUME NEW u \in Users, NEW ids \in SUBSET Identifiers
    PROVE  /\ \A d \in {"setIds", "setVerified"} : Free(OnIds(d, u, ids)) /\ OnIds(d, u, ids) \in FollowUps
           /\ OnIds("clearIds", u, ids) \in Statements /\ OnIds("clearIds", u, ids).do = "clearIds"
           /\ OnIds("clearIds", u, ids).u = u /\ OnIds("clearIds", u, ids).ids = ids
           /\ \A k \in {"pending", "pendingApp", "handoff"} : Free(Ticket(k, u, ids))
           /\ \A x \in {"wxweb", "wxapp", "apple"} :
                 /\ Bind(u, x, ids) \in Statements /\ Bind(u, x, ids).do = "bindIds"
                 /\ Bind(u, x, ids).x = x /\ Bind(u, x, ids).ids = ids
           /\ \A pw \in Passwords \cup {"unusable"}, then \in Seq(FollowUps) : Free(Insert(pw, ids, then))
<1>1. \A d \in {"setIds", "setVerified", "clearIds"} :
         /\ OnIds(d, u, ids) \in IdStatements /\ OnIds(d, u, ids).do = d
         /\ OnIds(d, u, ids).u = u /\ OnIds(d, u, ids).ids = ids
  BY DEF OnIds, IdStatements
<1>2. \A k \in {"pending", "pendingApp", "handoff"} : Ticket(k, u, ids) \in MintStatements /\ Ticket(k, u, ids).do = "mint"
  BY DEF Ticket, MintStatements
<1>3. \A x \in {"wxweb", "wxapp", "apple"} :
         /\ Bind(u, x, ids) \in BindStatements /\ Bind(u, x, ids).do = "bindIds"
         /\ Bind(u, x, ids).x = x /\ Bind(u, x, ids).ids = ids
  BY DEF Bind, BindStatements
<1>4. \A pw \in Passwords \cup {"unusable"}, then \in Seq(FollowUps) :
         Insert(pw, ids, then) \in InsertStatements /\ Insert(pw, ids, then).do = "createUser"
  BY StoreAssumption DEF Insert, InsertStatements, Nobody
<1>5. /\ \A d \in {"setIds", "setVerified"} : Free(OnIds(d, u, ids)) /\ OnIds(d, u, ids) \in FollowUps
      /\ OnIds("clearIds", u, ids) \in Statements
  BY <1>1 DEF Free, Statements, FollowUps
<1>6. /\ \A k \in {"pending", "pendingApp", "handoff"} : Free(Ticket(k, u, ids))
      /\ \A x \in {"wxweb", "wxapp", "apple"} : Bind(u, x, ids) \in Statements
      /\ \A pw \in Passwords \cup {"unusable"}, then \in Seq(FollowUps) : Free(Insert(pw, ids, then))
  BY <1>2, <1>3, <1>4 DEF Free, Statements
<1> QED BY <1>1, <1>3, <1>5, <1>6

LEMMA MadeOnRows ==
    ASSUME NEW u \in Users, NEW row \in UserRows
    PROVE  /\ Free(ToCache(u, row))
           /\ \A k \in {"access", "access2"} : Free(Session(u, row, k))
           /\ Free([do |-> "second", u |-> u, row |-> row])
<1>1. ToCache(u, row) \in CacheStatements /\ ToCache(u, row).do = "cache"
  BY DEF ToCache, CacheStatements
<1>2. \A k \in {"access", "access2"} : Session(u, row, k) \in SessionStatements /\ Session(u, row, k).do = "session"
  BY DEF Session, SessionStatements
<1>3. [do |-> "second", u |-> u, row |-> row] \in SecondStatements
  BY DEF SecondStatements
<1> QED BY <1>1, <1>2, <1>3 DEF Free, Statements

LEMMA MadeOthers ==
    ASSUME NEW u \in Users
    PROVE  /\ \A on \in BOOLEAN : Free(OnTotp(u, on))
           /\ \A c \in Channels, p \in Purposes, n \in Nat : Free(Check(u, c, p, n))
           /\ \A c \in Channels, p \in Purposes : Free(Send(u, c, p)) /\ Send(u, c, p) \in FollowUps
           /\ TableTypes => \A t \in Tokens, d \in {"find", "revoke"} : Free(OnToken(d, t))
<1>1. \A on \in BOOLEAN : OnTotp(u, on) \in TotpStatements /\ OnTotp(u, on).do = "setTotp"
  BY DEF OnTotp, TotpStatements
<1>2. \A c \in Channels, p \in Purposes, n \in Nat :
         Check(u, c, p, n) \in CheckStatements /\ Check(u, c, p, n).do = "checkCode"
  BY DEF Check, CheckStatements, CodeKeys
<1>3. \A c \in Channels, p \in Purposes : Send(u, c, p) \in SendStatements /\ Send(u, c, p).do = "sendCode"
  BY DEF Send, SendStatements, CodeKeys
<1>4. ASSUME TableTypes, NEW t \in Tokens, NEW d \in {"find", "revoke"}
      PROVE  OnToken(d, t) \in TokenStatements /\ OnToken(d, t).do = d
  BY <1>4 DEF OnToken, TokenStatements, TableTypes
<1> QED BY <1>1, <1>2, <1>3, <1>4 DEF Free, Statements, FollowUps

\* ---------------------------------------------------------------------------
\* The invariant.

AccountInv == TableInv /\ MemoryTypes

Still == UNCHANGED <<users, refresh, codes, use, crashes, lockedTries>>

LEMMA MemoryKept ==
    ASSUME MemoryTypes, UNCHANGED <<cache, reload, jwts, ip, calls, sent, tickets, minted>>
    PROVE  MemoryTypes'
BY DEF MemoryTypes

LEMMA RequestHas ==
    ASSUME TableInv, NEW r \in Reqs
    PROVE  /\ req[r] \in Requests /\ RequestFits(req[r])
           /\ req[r].op \in Operations /\ req[r].u \in Users /\ req[r].x \in Arguments /\ req[r].n \in Nat
           /\ req[r].row \in UserRows /\ req[r].ids \in SUBSET Identifiers /\ req[r].who \in SUBSET Users
BY DEF TableInv, TableTypes, Requests

LEMMA SyncTypes ==
    ASSUME AccountInv, NEW r \in Reqs, Sync(r)
    PROVE  cache' \in [Users -> UserRows]
BY RequestHas DEF AccountInv, MemoryTypes, Sync

LEMMA LimiterTypes ==
    ASSUME MemoryTypes, NEW k \in Limiters, LimiterFails(k) \/ LimiterClears(k)
    PROVE  ip' \in [Limiters -> [fails : Nat, locked : BOOLEAN]]
<1>1. ip[k].fails \in Nat /\ ip[k].locked \in BOOLEAN
  BY DEF MemoryTypes
<1>2. CASE LimiterClears(k)
  BY <1>2 DEF LimiterClears, Unlimited, MemoryTypes
<1>3. CASE LimiterFails(k)
  <2> PICK new : new = FailedOnce(ip[k])
    OBVIOUS
  <2>1. ip' = [ip EXCEPT ![k] = new]
    BY <1>3 DEF LimiterFails
  <2>2. [ip[k] EXCEPT !.fails = @ + 1] \in [fails : Nat, locked : BOOLEAN]
    BY <1>1 DEF MemoryTypes
  <2>3. new \in [fails : Nat, locked : BOOLEAN]
    BY <2>2 DEF FailedOnce
  <2> QED BY <2>1, <2>3 DEF MemoryTypes
<1> QED BY <1>2, <1>3

LEMMA JwtTypes ==
    ASSUME NEW u \in Users, NEW row \in UserRows, NEW k \in {"access", "access2", "pending", "trusted", "admin"}
    PROVE  Jwt(k, row, u) \in Jwts
BY DEF Jwt, Jwts, UserRows

\* ---------------------------------------------------------------------------
\* The decisions: a list of statements from what the request has read.

LEMMA Decided ==
    ASSUME AccountInv, NEW r \in Reqs, req[r].at \notin {"idle", "run"}, NEW todo, Plan(req[r], todo),
           Continue(r, todo), Still
    PROVE  TableInv'
BY QuietContinue DEF AccountInv, Still

\* A password that does not fit is compared by a request that read the account
\* before it was locked, and this request is now one less of those.
LEMMA LoginCounts ==
    ASSUME AccountInv, NEW r \in Reqs, Deciding(r, "login"), ~req[r].row.locked,
           NEW todo, Continue(r, todo), Plan(req[r], todo),
           NEW right \in BOOLEAN,
           lockedTries' = [lockedTries EXCEPT ![req[r].u] = IF users[req[r].u].locked /\ ~right THEN @ + 1 ELSE @],
           UNCHANGED <<users, refresh, codes, use, crashes>>
    PROVE  TableInv'
<1> PICK v \in Users : v = req[r].u
  BY RequestHas DEF AccountInv
<1>1. PICK q \in Requests : Turn(r, q) /\ q.at \in {"idle", "run"} /\ ~Begins(q, "countTry")
  BY Continues DEF AccountInv, Deciding
<1>2. TableTypes /\ TriesLocked
  BY DEF AccountInv, TableInv
<1>3. lockedTries' \in [Users -> Nat]
  BY <1>2 DEF TableTypes
<1>4. TriesLocked'
  <2> SUFFICES ASSUME NEW u \in Users
               PROVE  (IF users[u].locked THEN lockedTries[u] + Cardinality(Unaware(u)) <= Cardinality(Reqs) - 1
                       ELSE lockedTries[u] = 0)'
    BY DEF TriesLocked
  <2>1. lockedTries[u] \in Nat /\ Unaware(u) \in SUBSET Reqs /\ Unaware(u)' \in SUBSET Reqs
    BY <1>2 DEF TableTypes, Unaware
  <2>2. Unaware(u)' \subseteq Unaware(u) \ {r}
    BY <1>1, <1>2, TurnIs DEF Unaware
  <2>3. CASE ~users[u].locked
    BY <1>2, <2>1, <2>3 DEF TriesLocked, TableTypes
  <2>4. CASE users[u].locked /\ u # v
    <3>1. Cardinality(Unaware(u)') <= Cardinality(Unaware(u)) /\ Cardinality(Unaware(u)) \in Nat
          /\ Cardinality(Unaware(u)') \in Nat /\ Cardinality(Reqs) \in Nat
      BY <2>1, <2>2, Fewer
    <3>2. lockedTries'[u] = lockedTries[u]
      BY <1>2, <2>4 DEF TableTypes
    <3> QED BY <1>2, <2>1, <2>4, <3>1, <3>2 DEF TriesLocked
  <2>5. CASE users[u].locked /\ u = v
    <3>1. r \in Unaware(u)
      BY <2>5 DEF Unaware, Deciding
    <3>2. Cardinality(Unaware(u)') + 1 <= Cardinality(Unaware(u)) /\ Cardinality(Unaware(u)) \in Nat
          /\ Cardinality(Unaware(u)') \in Nat
      BY <2>1, <2>2, <3>1, OneLess
    <3>3. lockedTries'[u] \in Nat /\ lockedTries'[u] <= lockedTries[u] + 1
      BY <1>2, <2>1, <2>5 DEF TableTypes
    <3>4. Cardinality(Reqs) \in Nat
      BY <2>1, Fewer
    <3> QED BY <1>2, <2>1, <2>5, <3>2, <3>3, <3>4 DEF TriesLocked
  <2> QED BY <2>3, <2>4, <2>5
<1>5. (\A u : ~Ends(req[r], u)) /\ ~Begins(req[r], "lock")
  BY NotEnding DEF AccountInv, TableInv, TableTypes, Deciding, Begins
<1> QED BY <1>1, <1>3, <1>4, <1>5, TurnOfOne DEF AccountInv

LEMMA StepLogin ==
    ASSUME AccountInv, NEW r \in Reqs, Login(r), UNCHANGED memory
    PROVE  AccountInv'
<1> PICK u \in Users : u = req[r].u
  BY RequestHas DEF AccountInv
<1> PICK row \in UserRows : row = req[r].row
  BY RequestHas DEF AccountInv
<1> PICK right \in BOOLEAN : right = (row.pw = req[r].x)
  OBVIOUS
<1>1. Deciding(r, "login") /\ Sync(r) /\ UNCHANGED <<tables, reload, jwts, bounds>>
  BY DEF Login
<1>2. /\ "login" \in Limiters /\ UNCHANGED <<users, refresh, codes, use, crashes>> /\ Plan(req[r], <<>>)
      /\ req[r].at \notin {"idle", "run"}
  BY <1>1, PlanEmpty DEF Limiters, tables, bounds, Deciding
<1>3. MemoryTypes'
  <2>1. ip' = ip \/ LimiterFails("login") \/ LimiterClears("login")
    BY DEF Login
  <2>2. ip' \in [Limiters -> [fails : Nat, locked : BOOLEAN]]
    BY <1>2, <2>1, LimiterTypes DEF AccountInv, MemoryTypes
  <2>3. cache' \in [Users -> UserRows]
    BY <1>1, SyncTypes
  <2> QED BY <1>1, <2>2, <2>3 DEF AccountInv, MemoryTypes, tables, bounds, memory
<1>4. ASSUME Continue(r, <<>>), UNCHANGED lockedTries
      PROVE  TableInv'
  <2>1. Still
    BY <1>2, <1>4 DEF Still
  <2> QED BY <1>2, <1>4, <2>1, Decided
<1>5. ASSUME ~row.locked,
             lockedTries' = [lockedTries EXCEPT ![u] = IF users[u].locked /\ ~right THEN @ + 1 ELSE @],
             Continue(r, IF ~right THEN <<OnUser("incFails", u)>>
                         ELSE IF row.totp
                         THEN <<OnUser("clearFails", u), [do |-> "second", u |-> u, row |-> row]>>
                         ELSE <<OnUser("clearFails", u), Session(u, row, "access"), ClearIp("login")>>)
      PROVE  TableInv'
  <2>1. Free(OnUser("incFails", u)) /\ Free(OnUser("clearFails", u))
    BY MadeUser DEF UserDos
  <2>2. Free([do |-> "second", u |-> u, row |-> row]) /\ Free(Session(u, row, "access"))
    BY MadeOnRows
  <2>3. Free(ClearIp("login"))
    BY <1>2, MadeRow, NobodyIs DEF ClearIp
  <2> PICK todo : todo = IF ~right THEN <<OnUser("incFails", u)>>
                          ELSE IF row.totp
                          THEN <<OnUser("clearFails", u), [do |-> "second", u |-> u, row |-> row]>>
                          ELSE <<OnUser("clearFails", u), Session(u, row, "access"), ClearIp("login")>>
    OBVIOUS
  <2>4. Plan(req[r], todo)
    <3>1. CASE ~right
      BY <2>1, <3>1, FreeIsWarranted
    <3>2. CASE right /\ row.totp
      BY <2>1, <2>2, <3>2, FreePlans
    <3>3. CASE right /\ ~row.totp
      BY <2>1, <2>2, <2>3, <3>3, FreePlans
    <3> QED BY <3>1, <3>2, <3>3
  <2>5. /\ ~req[r].row.locked /\ Continue(r, todo)
        /\ lockedTries' = [lockedTries EXCEPT ![req[r].u] = IF users[req[r].u].locked /\ ~right THEN @ + 1 ELSE @]
    BY <1>5
  <2> QED BY <1>1, <1>2, <2>4, <2>5, LoginCounts
<1>6. TableInv'
  <2>1. \/ Continue(r, <<>>) /\ UNCHANGED lockedTries
        \/ /\ ~row.locked
           /\ lockedTries' = [lockedTries EXCEPT ![u] = IF users[u].locked /\ ~right THEN @ + 1 ELSE @]
           /\ Continue(r, IF ~right THEN <<OnUser("incFails", u)>>
                          ELSE IF row.totp
                          THEN <<OnUser("clearFails", u), [do |-> "second", u |-> u, row |-> row]>>
                          ELSE <<OnUser("clearFails", u), Session(u, row, "access"), ClearIp("login")>>)
    BY DEF Login
  <2> QED BY <1>4, <1>5, <2>1
<1> QED BY <1>3, <1>6 DEF AccountInv

LEMMA StepTotpLogin ==
    ASSUME AccountInv, NEW r \in Reqs, TotpLogin(r), UNCHANGED memory
    PROVE  AccountInv'
<1> PICK u \in Users : u = req[r].u
  BY RequestHas DEF AccountInv
<1> PICK row \in UserRows : row = req[r].row
  BY RequestHas DEF AccountInv
<1>1. /\ req[r].at \notin {"idle", "run"} /\ Still /\ UNCHANGED <<reload, jwts, ip, calls, sent>>
  BY DEF TotpLogin, Deciding, tables, bounds, Still
<1>2. \/ Continue(r, <<>>)
      \/ \E trust \in BOOLEAN : Continue(r, <<Session(u, row, "access2")>> \o (IF trust THEN <<Trust(u)>> ELSE <<>>))
  BY DEF TotpLogin
<1>3. cache' \in [Users -> UserRows]
  BY SyncTypes DEF TotpLogin, AccountInv, MemoryTypes
<1>4. MemoryTypes'
  BY <1>1, <1>3 DEF AccountInv, MemoryTypes, memory
<1>5. Plan(req[r], <<>>)
  BY PlanEmpty
<1>6. ASSUME NEW trust \in BOOLEAN
      PROVE  Plan(req[r], <<Session(u, row, "access2")>> \o (IF trust THEN <<Trust(u)>> ELSE <<>>))
  <2>1. Free(Session(u, row, "access2")) /\ Free(Trust(u))
    BY MadeOnRows, MadeUser DEF Trust, UserDos
  <2>2. Plan(req[r], <<Session(u, row, "access2")>>) /\ Plan(req[r], IF trust THEN <<Trust(u)>> ELSE <<>>)
    BY <1>5, <2>1, FreeIsWarranted
  <2> QED BY <2>2, PlanJoin
<1>7. TableInv'
  BY <1>1, <1>2, <1>5, <1>6, Decided
<1> QED BY <1>4, <1>7 DEF AccountInv

\* A decision that changes nothing in memory.
LEMMA PlainDecision ==
    ASSUME AccountInv, NEW r \in Reqs, req[r].at = "decide", NEW todo, Plan(req[r], todo), Continue(r, todo),
           UNCHANGED <<tables, cache, reload, jwts, ip, bounds, lockedTries>>, UNCHANGED memory
    PROVE  AccountInv'
<1>1. TableInv'
  BY Decided DEF Still, tables, bounds
<1>2. MemoryTypes'
  BY MemoryKept DEF AccountInv, bounds, memory
<1> QED BY <1>1, <1>2 DEF AccountInv

LEMMA StepChangePassword ==
    ASSUME AccountInv, NEW r \in Reqs, ChangePassword(r), UNCHANGED memory
    PROVE  AccountInv'
<1> PICK pw : pw = CHOOSE w \in Passwords : w # req[r].x
  OBVIOUS
<1>1. pw \in Passwords
  <2>1. \E w \in Passwords : w # req[r].x
    BY DEF Passwords
  <2> QED BY <2>1
<1>2. Plan(req[r], <<>>) /\ Plan(req[r], NewPassword(req[r].u, pw))
  BY <1>1, PlanEmpty, PlanPassword, RequestHas DEF AccountInv
<1>3. \E todo : Plan(req[r], todo) /\ Continue(r, todo)
  BY <1>2 DEF ChangePassword
<1> QED BY <1>3, PlainDecision DEF ChangePassword, Deciding

LEMMA StepResetRequest ==
    ASSUME AccountInv, NEW r \in Reqs, ResetRequest(r), UNCHANGED memory
    PROVE  AccountInv'
<1>1. req[r].u \in Users /\ req[r].x \in Channels
  BY RequestHas DEF AccountInv, ResetRequest, Deciding, RequestFits, ByIdentity
<1>2. Plan(req[r], <<>>) /\ Plan(req[r], <<Send(req[r].u, req[r].x, "reset")>>)
  BY <1>1, PlanEmpty, MadeOthers, FreeIsWarranted DEF Purposes
<1>3. \E todo : Plan(req[r], todo) /\ Continue(r, todo)
  BY <1>2 DEF ResetRequest
<1> QED BY <1>3, PlainDecision DEF ResetRequest, Deciding

LEMMA StepResetConfirm ==
    ASSUME AccountInv, NEW r \in Reqs, ResetConfirm(r), UNCHANGED memory
    PROVE  AccountInv'
<1>1. req[r].u \in Users /\ req[r].x \in Channels /\ req[r].n \in Nat
  BY RequestHas DEF AccountInv, ResetConfirm, Deciding, RequestFits, ByIdentity
<1>2. Plan(req[r], <<>>) /\ Plan(req[r], <<Check(req[r].u, req[r].x, "reset", req[r].n)>>)
      /\ Plan(req[r], NewPassword(req[r].u, "q"))
  BY <1>1, PlanEmpty, PlanPassword, MadeOthers, FreeIsWarranted DEF Purposes, Passwords
<1>3. \E todo : Plan(req[r], todo) /\ Continue(r, todo)
  BY <1>2, PlanJoin DEF ResetConfirm
<1> QED BY <1>3, PlainDecision DEF ResetConfirm, Deciding

LEMMA StepRegister ==
    ASSUME AccountInv, NEW r \in Reqs, Register(r), UNCHANGED memory
    PROVE  AccountInv'
<1> PICK c : c = req[r].x
  OBVIOUS
<1> PICK u \in Users : u = req[r].u
  BY RequestHas DEF AccountInv
<1>1. c \in Channels
  BY RequestHas DEF AccountInv, Register, Deciding, RequestFits, ByIdentity
<1> PICK insert : insert = Insert("p", {NameOf(c)}, <<OnRow("setStatus", Nobody, "pending"),
                                                      OnIds("setIds", Nobody, {c}), Send(Nobody, c, "verify")>>)
  OBVIOUS
<1>2. Free(insert)
  <2>1. /\ OnRow("setStatus", Nobody, "pending") \in FollowUps /\ OnIds("setIds", Nobody, {c}) \in FollowUps
        /\ Send(Nobody, c, "verify") \in FollowUps
    BY <1>1, MadeRow, MadeIds, MadeOthers, NobodyIs DEF Purposes, Identifiers
  <2>2. {NameOf(c)} \in SUBSET Identifiers /\ "p" \in Passwords
    BY <1>1 DEF Identifiers, Passwords
  <2>3. <<OnRow("setStatus", Nobody, "pending"), OnIds("setIds", Nobody, {c}), Send(Nobody, c, "verify")>> \in Seq(FollowUps)
    BY <2>1
  <2> QED BY <2>2, <2>3, MadeIds, NobodyIs
<1>3. Plan(req[r], <<>>) /\ Plan(req[r], <<Send(u, c, "verify")>>) /\ Plan(req[r], <<insert>>)
  BY <1>1, <1>2, PlanEmpty, MadeOthers, FreeIsWarranted DEF Purposes
<1>4. \E todo : Plan(req[r], todo) /\ Continue(r, todo)
  BY <1>3 DEF Register
<1> QED BY <1>4, PlainDecision DEF Register, Deciding

LEMMA StepResend ==
    ASSUME AccountInv, NEW r \in Reqs, Resend(r), UNCHANGED memory
    PROVE  AccountInv'
<1>1. req[r].u \in Users /\ req[r].x \in Channels
  BY RequestHas DEF AccountInv, Resend, Deciding, RequestFits, ByIdentity
<1>2. Plan(req[r], <<>>) /\ Plan(req[r], <<Send(req[r].u, req[r].x, "verify")>>)
  BY <1>1, PlanEmpty, MadeOthers, FreeIsWarranted DEF Purposes
<1>3. \E todo : Plan(req[r], todo) /\ Continue(r, todo)
  BY <1>2 DEF Resend
<1> QED BY <1>3, PlainDecision DEF Resend, Deciding

LEMMA PlanTwo ==
    ASSUME NEW q, NEW a, NEW b, Plan(q, <<a>>), Plan(q, <<b>>)
    PROVE  Plan(q, <<a, b>>)
<1>1. /\ 1 \in DOMAIN <<a>> /\ 1 + 1 \notin DOMAIN <<a>> /\ <<a>>[1] = a
      /\ 1 \in DOMAIN <<b>> /\ 1 + 1 \notin DOMAIN <<b>> /\ <<b>>[1] = b
  OBVIOUS
<1>2. a \in Statements /\ b \in Statements
  BY <1>1, TailOf DEF Plan
<1>3. Warranted(q, a) /\ Warranted(q, b)
  BY <1>1 DEF Plan
<1>4. a.do # "setPassword" /\ b.do # "setPassword"
  BY <1>1 DEF Plan, Paired
<1> QED BY <1>2, <1>3, <1>4 DEF Plan, Paired

LEMMA StepVerify ==
    ASSUME AccountInv, NEW r \in Reqs, Verify(r), UNCHANGED memory
    PROVE  AccountInv'
<1> PICK c : c = req[r].x
  OBVIOUS
<1> PICK u \in Users : u = req[r].u
  BY RequestHas DEF AccountInv
<1>1. c \in Channels /\ req[r].n \in Nat /\ req[r].op = "verify"
  BY RequestHas DEF AccountInv, Verify, Deciding, RequestFits, ByIdentity
<1>2. /\ Plan(req[r], <<>>) /\ Plan(req[r], <<Check(u, c, "verify", req[r].n)>>) /\ Plan(req[r], <<OnUser("issue", u)>>)
  BY <1>1, PlanEmpty, MadeOthers, MadeUser, FreeIsWarranted DEF Purposes, UserDos
<1>3. ASSUME req[r].row.st = "pending"
      PROVE  Plan(req[r], <<OnRow("setStatus", u, "active"), OnIds("setVerified", u, {c})>>)
  <2> PICK s : s = OnRow("setStatus", u, "active")
    OBVIOUS
  <2> PICK i : i = OnIds("setVerified", u, {c})
    OBVIOUS
  <2>1. s \in Statements /\ s.do = "setStatus" /\ s.u = u
    BY MadeRow
  <2>2. Warranted(req[r], s)
    BY <1>1, <1>3, <2>1 DEF Warranted
  <2>3. Free(i)
    BY <1>1, MadeIds DEF Identifiers
  <2>4. Plan(req[r], <<s>>) /\ Plan(req[r], <<i>>)
    BY <2>1, <2>2, <2>3, PlanOne, FreeIsWarranted
  <2> QED BY <2>4, PlanTwo
<1>4. \E todo : Plan(req[r], todo) /\ Continue(r, todo)
  <2>1. CASE req[r].row.st = "none"
    BY <1>2, <2>1 DEF Verify
  <2>2. CASE req[r].row.st = "pending"
    <3> PICK todo : todo = (<<Check(u, c, "verify", req[r].n)>>
                              \o <<OnRow("setStatus", u, "active"), OnIds("setVerified", u, {c})>>) \o <<OnUser("issue", u)>>
      OBVIOUS
    <3>1. Plan(req[r], todo)
      BY <1>2, <1>3, <2>2, PlanJoin
    <3>2. Continue(r, todo)
      BY <2>2 DEF Verify
    <3> QED BY <3>1, <3>2
  <2>3. CASE req[r].row.st \notin {"none", "pending"}
    <3> PICK todo : todo = (<<Check(u, c, "verify", req[r].n)>> \o <<>>) \o <<OnUser("issue", u)>>
      OBVIOUS
    <3>1. Plan(req[r], todo)
      BY <1>2, PlanJoin
    <3>2. Continue(r, todo)
      BY <2>3 DEF Verify
    <3> QED BY <3>1, <3>2
  <2> QED BY <2>1, <2>2, <2>3
<1> QED BY <1>4, PlainDecision DEF Verify, Deciding

LEMMA StepDisableTotp ==
    ASSUME AccountInv, NEW r \in Reqs, DisableTotp(r), UNCHANGED memory
    PROVE  AccountInv'
<1> PICK u \in Users : u = req[r].u
  BY RequestHas DEF AccountInv
<1>1. Free(OnTotp(u, FALSE)) /\ Free(OnUser("bumpVersion", u))
  BY MadeOthers, MadeUser DEF UserDos
<1>2. Plan(req[r], <<>>) /\ Plan(req[r], <<OnTotp(u, FALSE), OnUser("bumpVersion", u)>>)
  BY <1>1, PlanEmpty, FreePlans
<1>3. \E todo : Plan(req[r], todo) /\ Continue(r, todo)
  BY <1>2 DEF DisableTotp
<1> QED BY <1>3, PlainDecision DEF DisableTotp, Deciding

LEMMA StepDeleteAccount ==
    ASSUME AccountInv, NEW r \in Reqs, DeleteAccount(r), UNCHANGED memory
    PROVE  AccountInv'
<1>1. Plan(req[r], <<>>) /\ Plan(req[r], <<OnUser("deleteAccount", req[r].u)>>)
  BY RequestHas, PlanEmpty, MadeUser, FreeIsWarranted DEF AccountInv, UserDos
<1>2. \E todo : Plan(req[r], todo) /\ Continue(r, todo)
  BY <1>1 DEF DeleteAccount
<1> QED BY <1>2, PlainDecision DEF DeleteAccount, Deciding

LEMMA AdminPlans ==
    ASSUME NEW q, NEW u \in Users, q.op \in OperatorOps \cup AdminOps
    PROVE  Plan(q, AdminPlan(q.op, u))
<1>1. CASE q.op = "ban"
  <2>1. Plan(q, <<OnRow("setStatus", u, "banned")>>)
    <3> PICK s : s = OnRow("setStatus", u, "banned")
      OBVIOUS
    <3>1. s \in Statements /\ s.do = "setStatus" /\ s.x = "banned"
      BY MadeRow
    <3> QED BY <3>1, PlanOne DEF Warranted
  <2>2. Plan(q, <<OnUser("revokeAll", u)>>)
    BY MadeUser, FreeIsWarranted DEF UserDos
  <2>3. Plan(q, <<OnRow("setStatus", u, "banned"), OnUser("revokeAll", u)>>)
    BY <2>1, <2>2, PlanTwo
  <2> QED BY <1>1, <2>3 DEF AdminPlan, AccessPlan, AccessOps
<1>2. CASE q.op = "unban"
  <2> PICK s : s = OnRow("setStatus", u, "active")
    OBVIOUS
  <2>1. s \in Statements /\ s.do = "setStatus"
    BY MadeRow
  <2>2. Plan(q, <<s>>)
    BY <1>2, <2>1, PlanOne DEF Warranted
  <2> QED BY <1>2, <2>2 DEF AdminPlan, AccessPlan, AccessOps
<1>3. CASE q.op = "resetPw"
  BY <1>3, PlanPassword DEF AdminPlan, AccessPlan, AccessOps, Passwords
<1>4. CASE q.op = "unlock"
  BY <1>4, MadeUser, FreeIsWarranted DEF AdminPlan, SupportPlan, AccessOps, OperatorOps, UserDos
<1>5. CASE q.op = "reset2fa"
  <2>1. Free(OnTotp(u, FALSE)) /\ Free(OnUser("bumpVersion", u)) /\ Free(OnUser("revokeAll", u))
    BY MadeOthers, MadeUser DEF UserDos
  <2> QED BY <1>5, <2>1, FreePlans DEF AdminPlan, SupportPlan, AccessOps, OperatorOps
<1>6. CASE q.op = "setRole"
  BY <1>6, MadeRow, FreeIsWarranted DEF AdminPlan, StaffPlan, AccessOps, OperatorOps, Roles
<1>7. CASE q.op = "dropAdmin"
  BY <1>7, MadeRow, FreeIsWarranted DEF AdminPlan, StaffPlan, AccessOps, OperatorOps, Roles
<1>8. CASE q.op = "remove"
  BY <1>8, MadeUser, FreeIsWarranted DEF AdminPlan, StaffPlan, AccessOps, OperatorOps, UserDos
<1> QED BY <1>1, <1>2, <1>3, <1>4, <1>5, <1>6, <1>7, <1>8 DEF OperatorOps, AccessOps, AdminOps

LEMMA StepAdminAct ==
    ASSUME AccountInv, NEW r \in Reqs, AdminAct(r), UNCHANGED memory
    PROVE  AccountInv'
<1>1. Plan(req[r], <<>>) /\ Plan(req[r], AdminPlan(req[r].op, req[r].u))
  BY RequestHas, PlanEmpty, AdminPlans DEF AccountInv, AdminAct
<1>2. \E todo : Plan(req[r], todo) /\ Continue(r, todo)
  BY <1>1 DEF AdminAct
<1> QED BY <1>2, PlainDecision DEF AdminAct

\* ---------------------------------------------------------------------------
\* What a request reads, and the statements that change no table.

LEMMA StepReadRow ==
    ASSUME AccountInv, NEW r \in Reqs, ReadRow(r), UNCHANGED memory
    PROVE  AccountInv'
<1>1. /\ req[r] \in Requests /\ RequestFits(req[r]) /\ req[r].at = "read" /\ req[r].todo = <<>>
      /\ TableInv /\ use.ops = use.ops /\ UNCHANGED <<tables, cache, reload, jwts, ip, bounds, lockedTries>>
  BY RequestHas DEF AccountInv, ReadRow, RequestFits
<1>2. \E row \in UserRows, u \in Users :
        /\ row = users[u] \/ req[r].op \in ByIdentity
        /\ row.st = "none" => row = NoUser
        /\ req' = [req EXCEPT ![r] = [req[r] EXCEPT !.at = "decide", !.u = u, !.row = row]]
  <2> PICK who : who = IF req[r].op \in ByIdentity THEN Owner(req[r].op, req[r].x) ELSE {req[r].u}
    OBVIOUS
  <2>1. \A k : Holder(users, k) \subseteq Users
    BY DEF Holder
  <2>2. who \subseteq Users /\ req[r].u \in Users
    BY <1>1, <2>1, RequestHas DEF Owner
  <2>3. users \in [Users -> UserRows] /\ RowsWhole
    BY <1>1 DEF TableInv, TableTypes
  <2>4. CASE who = {}
    <3>1. req' = [req EXCEPT ![r] = [req[r] EXCEPT !.at = "decide", !.row = NoUser]]
      BY <2>4 DEF ReadRow
    <3>2. [req[r] EXCEPT !.at = "decide", !.row = NoUser]
            = [req[r] EXCEPT !.at = "decide", !.u = req[r].u, !.row = NoUser]
      BY <1>1 DEF Requests
    <3>3. req[r].op \in ByIdentity
      BY <2>4
    <3> QED BY <2>2, <3>1, <3>2, <3>3, NobodyIs
  <2>5. CASE who # {}
    <3> PICK u : u = CHOOSE v \in who : TRUE
      OBVIOUS
    <3>1. u \in Users
      BY <2>2, <2>5
    <3>2. req' = [req EXCEPT ![r] = [req[r] EXCEPT !.at = "decide", !.u = u, !.row = users[u]]]
      BY <2>5 DEF ReadRow
    <3> QED BY <2>3, <3>1, <3>2 DEF RowsWhole
  <2> QED BY <2>4, <2>5
<1>3. PICK row \in UserRows, u \in Users :
        /\ row = users[u] \/ req[r].op \in ByIdentity
        /\ row.st = "none" => row = NoUser
        /\ req' = [req EXCEPT ![r] = [req[r] EXCEPT !.at = "decide", !.u = u, !.row = row]]
  BY <1>2
<1> PICK q : q = [req[r] EXCEPT !.at = "decide", !.u = u, !.row = row]
  OBVIOUS
<1>4. /\ q \in Requests /\ q.at = "decide" /\ q.u = u /\ q.row = row /\ q.todo = <<>> /\ q.op = req[r].op
      /\ q.x = req[r].x /\ q.ids = req[r].ids
  BY <1>1 DEF Requests, RequestSeats
<1>5. RequestFits(q)
  BY <1>1, <1>3, <1>4 DEF RequestFits
<1>6. Turn(r, q) /\ ~Begins(q, "countTry")
  BY <1>1, <1>3, <1>4, <1>5 DEF Turn, Begins, bounds
<1>7. q.op = "login" /\ ~q.row.locked => ~users[q.u].locked
  BY <1>3, <1>4 DEF ByIdentity
<1>8. TableInv'
  <2>1. UNCHANGED <<users, refresh, codes, crashes, lockedTries>>
    BY <1>1 DEF tables, bounds
  <2> QED BY <1>1, <1>6, <1>7, <2>1, QuietTurn
<1>9. MemoryTypes'
  BY <1>1, MemoryKept DEF AccountInv, bounds, memory
<1> QED BY <1>8, <1>9 DEF AccountInv

\* The end of the sessions is not put off by what concerns the cache only.
LEMMA EndsOn ==
    ASSUME NEW q \in Requests, q.todo # <<>>, q.todo[1].do # "revokeAll",
           NEW pre \in Seq(Statements), \A i \in DOMAIN pre : pre[i].do \in {"reread", "cache"},
           NEW w, w.todo = pre \o Tail(q.todo), NEW u, Ends(q, u)
    PROVE  Ends(w, u)
<1> DEFINE S == Statements \cup CountStatements
           p == q.todo
           t == Tail(p)
           c == pre \o t
<1>1. p \in Seq(S) /\ pre \in Seq(S)
  BY DEF Requests
<1>2. PICK i \in DOMAIN p : /\ p[i].do = "revokeAll" /\ p[i].u = u
                            /\ \A j \in 1 .. i - 1 : p[j].do \in {"reread", "cache"}
  BY DEF Ends
<1> HIDE DEF S, p
<1>3. /\ t \in Seq(S) /\ Len(p) \in Nat \ {0} /\ DOMAIN p = 1 .. Len(p)
      /\ DOMAIN t = 1 .. Len(p) - 1 /\ Len(t) = Len(p) - 1
      /\ \A k \in 1 .. Len(p) - 1 : t[k] = p[k + 1]
  BY <1>1, TailOf DEF p
<1> HIDE DEF t
<1>4. /\ c \in Seq(S)
      /\ Len(pre) \in Nat /\ DOMAIN pre = 1 .. Len(pre) /\ Len(c) = Len(pre) + Len(t)
      /\ DOMAIN c = 1 .. Len(c)
      /\ \A k \in 1 .. Len(c) : c[k] = IF k <= Len(pre) THEN pre[k] ELSE t[k - Len(pre)]
  <2> HIDE DEF S
  <2>1. /\ c \in Seq(S) /\ Len(c) = Len(pre) + Len(t)
        /\ \A k \in 1 .. Len(pre) + Len(t) : c[k] = IF k <= Len(pre) THEN pre[k] ELSE t[k - Len(pre)]
    BY <1>1, <1>3, ConcatProperties, ZenonT(30)
  <2>2. Len(pre) \in Nat /\ DOMAIN pre = 1 .. Len(pre) /\ DOMAIN c = 1 .. Len(c)
    BY <1>1, <2>1
  <2> QED BY <2>1, <2>2
<1> HIDE DEF c
<1>5. i \in 2 .. Len(p)
  BY <1>2, <1>3 DEF p
<1> PICK m \in Nat : m = Len(pre)
  BY <1>4
<1> PICK l \in Nat : l = Len(p)
  BY <1>3
<1> PICK n \in Nat : n = m + i - 1
  BY <1>5
<1>6. /\ n \in DOMAIN c /\ n > m /\ n - m = i - 1 /\ n \in 1 .. Len(c)
      /\ i - 1 \in 1 .. Len(p) - 1 /\ i - 1 + 1 = i
  <2>1. Len(c) = m + l - 1 /\ i \in 2 .. l /\ m \in Nat /\ l \in Nat /\ n = m + i - 1
    BY <1>3, <1>4, <1>5
  <2>2. n \in 1 .. m + l - 1 /\ n > m /\ n - m = i - 1 /\ i - 1 \in 1 .. l - 1 /\ i - 1 + 1 = i
    BY ONLY <2>1
  <2> QED BY <1>4, <2>1, <2>2
<1>7. c[n] = p[i]
  <2>1. c[n] = t[n - m]
    <3>1. \A k \in 1 .. Len(c) : c[k] = IF k <= m THEN pre[k] ELSE t[k - m]
      BY <1>4
    <3>2. n \in 1 .. Len(c) /\ ~(n <= m)
      BY <1>6
    <3> QED BY ONLY <3>1, <3>2
  <2>2. t[i - 1] = p[i - 1 + 1]
    BY <1>3, <1>6
  <2> QED BY <1>6, <2>1, <2>2
<1>8. ASSUME NEW j \in 1 .. n - 1 PROVE c[j].do \in {"reread", "cache"}
  <2>0. j \in 1 .. Len(c)
    BY <1>6
  <2>1. CASE j <= m
    <3>1. c[j] = pre[j] /\ j \in DOMAIN pre
      BY <1>4, <2>0, <2>1
    <3> QED BY <3>1
  <2>2. CASE ~(j <= m)
    <3>1. j - m \in 1 .. Len(p) - 1 /\ j - m + 1 \in 1 .. i - 1
      <4>1. n = m + i - 1 /\ i \in 2 .. l /\ j \in 1 .. n - 1 /\ j > m
        BY <1>5, <2>2
      <4>2. j - m \in 1 .. l - 1 /\ j - m + 1 \in 1 .. i - 1
        BY <4>1
      <4> QED BY <4>2
    <3>2. c[j] = t[j - m]
      BY <1>4, <2>0, <2>2
    <3>3. t[j - m] = p[j - m + 1]
      BY <1>3, <3>1
    <3> QED BY <1>2, <3>1, <3>2, <3>3
  <2> QED BY <2>1, <2>2
<1>9. w.todo = c
  BY DEF c, t, p
<1> QED BY <1>2, <1>6, <1>7, <1>8, <1>9 DEF Ends

LEMMA DoneIs ==
    ASSUME TableInv, NEW r \in Reqs, req[r].at = "run", NEW pre, Plan(req[r], pre), Done(r, pre), use' = use
    PROVE  \E q \in Requests :
             /\ Turn(r, q) /\ q.at \in {"idle", "run"} /\ q.todo = pre \o Tail(req[r].todo) /\ ~Begins(q, "countTry")
<1>1. Plan(req[r], pre \o Tail(req[r].todo))
  BY RunningIs, PlanJoin
<1> QED BY <1>1, Continues, ZenonT(30) DEF Done

LEMMA CacheTurn ==
    ASSUME TableInv, NEW r \in Reqs, NEW q, Turn(r, q), q.at \in {"idle", "run"}, ~Begins(q, "countTry"),
           UNCHANGED <<users, refresh, codes, crashes, lockedTries>>,
           req[r].todo[1].do # "lock", \A u : Ends(req[r], u) => Ends(q, u)
    PROVE  TableInv'
<1>1. \A u \in Users : IF users'[u].locked THEN users[u].locked /\ lockedTries'[u] = lockedTries[u]
                       ELSE lockedTries'[u] = 0
  BY DEF TableInv, TriesLocked
<1>2. TriesLocked'
  BY <1>1, LocksKept DEF TableInv
<1>3. lockedTries' \in [Users -> Nat] /\ ~Begins(req[r], "lock")
  BY DEF TableInv, TableTypes, Begins
<1> QED BY <1>2, <1>3, TurnOfOne

LEMMA StepReread ==
    ASSUME AccountInv, NEW r \in Reqs, Reread(r), UNCHANGED memory
    PROVE  AccountInv'
<1>1. TableInv /\ req[r].at = "run" /\ UNCHANGED <<tables, cache, reload, jwts, ip, bounds, lockedTries>>
  BY DEF AccountInv, Reread, Running
<1>2. Stmt(r) = req[r].todo[1] /\ req[r].todo # <<>> /\ Stmt(r).do = "reread" /\ Stmt(r) \in Statements
  BY <1>1, RunningIs DEF Reread, Running, Stmt
<1> PICK s : s = ToCache(Stmt(r).u, users[Stmt(r).u])
  OBVIOUS
<1>3. Free(s) /\ s \in Statements /\ s.do = "cache"
  <2>1. Stmt(r).u \in Users /\ users[Stmt(r).u] \in UserRows
    BY <1>1, <1>2, Kinds DEF TableInv, TableTypes
  <2> QED BY <2>1, MadeOnRows DEF Free, ToCache
<1>4. Done(r, <<s>>) /\ Plan(req[r], <<s>>)
  BY <1>3, FreeIsWarranted DEF Reread
<1>5. PICK q \in Requests : /\ Turn(r, q) /\ q.at \in {"idle", "run"} /\ q.todo = <<s>> \o Tail(req[r].todo)
                            /\ ~Begins(q, "countTry")
  BY <1>1, <1>4, DoneIs DEF bounds
<1>6. \A u : Ends(req[r], u) => Ends(q, u)
  <2>1. <<s>> \in Seq(Statements) /\ \A i \in DOMAIN <<s>> : <<s>>[i].do \in {"reread", "cache"}
    BY <1>3
  <2>2. req[r] \in Requests /\ req[r].todo[1].do # "revokeAll"
    BY <1>1, <1>2, RequestHas
  <2> QED BY <1>2, <1>5, <2>1, <2>2, EndsOn
<1>7. TableInv'
  BY <1>1, <1>2, <1>5, <1>6, CacheTurn DEF tables, bounds
<1>8. MemoryTypes'
  BY <1>1, MemoryKept DEF AccountInv, bounds, memory
<1> QED BY <1>7, <1>8 DEF AccountInv

LEMMA StepSetCache ==
    ASSUME AccountInv, NEW r \in Reqs, SetCache(r), UNCHANGED memory
    PROVE  AccountInv'
<1>1. TableInv /\ req[r].at = "run" /\ UNCHANGED <<tables, reload, jwts, ip, bounds, lockedTries>>
  BY DEF AccountInv, SetCache, Running
<1>2. Stmt(r) = req[r].todo[1] /\ req[r].todo # <<>> /\ Stmt(r).do = "cache" /\ Stmt(r) \in Statements
  BY <1>1, RunningIs DEF SetCache, Running, Stmt
<1>4. Done(r, <<>>) /\ Plan(req[r], <<>>)
  BY PlanEmpty DEF SetCache
<1>5. PICK q \in Requests : /\ Turn(r, q) /\ q.at \in {"idle", "run"} /\ q.todo = <<>> \o Tail(req[r].todo)
                            /\ ~Begins(q, "countTry")
  BY <1>1, <1>4, DoneIs DEF bounds
<1>6. \A u : Ends(req[r], u) => Ends(q, u)
  <2>1. <<>> \in Seq(Statements) /\ \A i \in DOMAIN <<>> : <<>>[i].do \in {"reread", "cache"}
    OBVIOUS
  <2>2. req[r] \in Requests /\ req[r].todo[1].do # "revokeAll"
    BY <1>1, <1>2, RequestHas
  <2> QED BY <1>2, <1>5, <2>1, <2>2, EndsOn
<1>7. TableInv'
  BY <1>1, <1>2, <1>5, <1>6, CacheTurn DEF tables, bounds
<1>8. MemoryTypes'
  <2>1. cache' = [cache EXCEPT ![Stmt(r).u] = Stmt(r).row] /\ Stmt(r).row \in UserRows
    BY <1>2, Kinds DEF SetCache, CacheStatements
  <2> QED BY <1>1, <2>1 DEF AccountInv, MemoryTypes, tables, bounds, memory
<1> QED BY <1>7, <1>8 DEF AccountInv

LEMMA StepSignTrusted ==
    ASSUME AccountInv, NEW r \in Reqs, SignTrusted(r), UNCHANGED memory
    PROVE  AccountInv'
<1>1. TableInv /\ req[r].at = "run" /\ UNCHANGED <<tables, cache, reload, ip, bounds, lockedTries>>
  BY DEF AccountInv, SignTrusted, Running
<1>2. Stmt(r).do = "trust" /\ Stmt(r) \in Statements
  BY <1>1, RunningIs DEF SignTrusted, Running, Stmt
<1>3. TableInv'
  <2>1. Done(r, <<>>) /\ Plan(req[r], <<>>)
    BY PlanEmpty DEF SignTrusted
  <2> QED BY <1>1, <1>2, <2>1, QuietDone DEF tables, bounds
<1>4. MemoryTypes'
  <2> PICK u \in Users : u = Stmt(r).u
    BY <1>2, Kinds
  <2>1. Jwt("trusted", cache[u], u) \in Jwts
    BY JwtTypes DEF AccountInv, MemoryTypes
  <2>2. jwts' \subseteq Jwts
    BY <2>1 DEF SignTrusted, AccountInv, MemoryTypes
  <2> QED BY <1>1, <2>2 DEF AccountInv, MemoryTypes, bounds, memory
<1> QED BY <1>3, <1>4 DEF AccountInv

\* A statement that reads and goes on.
LEMMA PlainStatement ==
    ASSUME AccountInv, NEW r \in Reqs, req[r].at = "run", NEW todo, Plan(req[r], todo), Continue(r, todo),
           Stmt(r).do \notin {"reread", "cache", "revokeAll", "lock"},
           UNCHANGED <<tables, bounds, lockedTries>>, MemoryTypes'
    PROVE  AccountInv'
<1>1. req[r].todo[1].do \notin {"reread", "cache", "revokeAll", "lock"}
  BY RunningIs DEF AccountInv
<1>2. TableInv'
  BY <1>1, QuietContinue DEF AccountInv, tables, bounds
<1> QED BY <1>2 DEF AccountInv

LEMMA StepIssueSession ==
    ASSUME AccountInv, NEW r \in Reqs, IssueSession(r), UNCHANGED memory
    PROVE  AccountInv'
<1>1. TableInv /\ req[r].at = "run" /\ UNCHANGED <<tables, cache, reload, jwts, ip, bounds, lockedTries>>
  BY DEF AccountInv, IssueSession, Running
<1>2. Stmt(r).do = "issue" /\ Stmt(r) \in Statements
  BY <1>1, RunningIs DEF IssueSession, Running, Stmt
<1> PICK u \in Users : u = Stmt(r).u
  BY <1>2, Kinds
<1>3. Plan(req[r], <<>>) /\ Plan(req[r], <<ToCache(u, users[u]), Session(u, users[u], "access")>>)
  <2>1. users[u] \in UserRows
    BY <1>1 DEF TableInv, TableTypes
  <2>2. Free(ToCache(u, users[u])) /\ Free(Session(u, users[u], "access"))
    BY <2>1, MadeOnRows
  <2> QED BY <2>2, FreePlans, PlanEmpty
<1>4. Plan(req[r], Tail(req[r].todo))
  BY <1>1, RunningIs
<1>5. \E todo : Plan(req[r], todo) /\ Continue(r, todo)
  BY <1>3, <1>4, PlanJoin DEF IssueSession, Done
<1>6. MemoryTypes'
  BY <1>1, MemoryKept DEF AccountInv, bounds, memory
<1> QED BY <1>1, <1>2, <1>5, <1>6, PlainStatement

LEMMA StepSecondFactor ==
    ASSUME AccountInv, NEW r \in Reqs, SecondFactor(r), UNCHANGED memory
    PROVE  AccountInv'
<1>1. TableInv /\ req[r].at = "run" /\ UNCHANGED <<tables, cache, reload, bounds, lockedTries>>
  BY DEF AccountInv, SecondFactor, Running
<1>2. Stmt(r).do = "second" /\ Stmt(r) \in Statements
  BY <1>1, RunningIs DEF SecondFactor, Running, Stmt
<1> PICK u \in Users : u = Stmt(r).u
  BY <1>2, Kinds
<1>3. Plan(req[r], <<>>) /\ Plan(req[r], <<Session(u, users[u], "access2"), Trust(u)>>)
  <2>1. users[u] \in UserRows
    BY <1>1 DEF TableInv, TableTypes
  <2>2. Free(Session(u, users[u], "access2")) /\ Free(Trust(u))
    BY <2>1, MadeOnRows, MadeUser DEF Trust, UserDos
  <2> QED BY <2>2, FreePlans, PlanEmpty
<1>4. TableInv'
  <2>1. \E pre : Plan(req[r], pre) /\ Done(r, pre)
    BY <1>3 DEF SecondFactor
  <2> QED BY <1>1, <1>2, <2>1, QuietDone DEF tables, bounds
<1>5. MemoryTypes'
  <2>1. jwts' \subseteq Jwts
    <3>1. Stmt(r).row \in UserRows
      BY <1>2, Kinds DEF SecondStatements
    <3>2. Jwt("pending", Stmt(r).row, u) \in Jwts
      BY <3>1, JwtTypes
    <3> QED BY <3>2 DEF SecondFactor, AccountInv, MemoryTypes
  <2>2. ip' \in [Limiters -> [fails : Nat, locked : BOOLEAN]]
    <3>1. ip' = ip \/ LimiterClears("login")
      BY DEF SecondFactor
    <3> QED BY <3>1, LimiterTypes DEF Limiters, AccountInv, MemoryTypes
  <2> QED BY <1>1, <2>1, <2>2 DEF AccountInv, MemoryTypes, bounds, memory
<1> QED BY <1>4, <1>5 DEF AccountInv

LEMMA StepLimiterCleared ==
    ASSUME AccountInv, NEW r \in Reqs, LimiterCleared(r), UNCHANGED memory
    PROVE  AccountInv'
<1>1. TableInv /\ req[r].at = "run" /\ UNCHANGED <<tables, cache, reload, jwts, bounds, lockedTries>>
  BY DEF AccountInv, LimiterCleared, Running
<1>2. Stmt(r).do = "clearIp" /\ Stmt(r) \in Statements
  BY <1>1, RunningIs DEF LimiterCleared, Running, Stmt
<1>3. Stmt(r).x \in Limiters
  BY <1>2, Kinds DEF LimiterStatements
<1>4. TableInv'
  <2>1. Done(r, <<>>) /\ Plan(req[r], <<>>)
    BY PlanEmpty DEF LimiterCleared
  <2> QED BY <1>1, <1>2, <2>1, QuietDone DEF tables, bounds
<1>5. MemoryTypes'
  <2>1. ip' \in [Limiters -> [fails : Nat, locked : BOOLEAN]]
    BY <1>3, LimiterTypes DEF LimiterCleared, AccountInv
  <2> QED BY <1>1, <2>1 DEF AccountInv, MemoryTypes, bounds, memory
<1> QED BY <1>4, <1>5 DEF AccountInv

LEMMA StepFindRefresh ==
    ASSUME AccountInv, NEW r \in Reqs, FindRefresh(r), UNCHANGED memory
    PROVE  AccountInv'
<1>1. TableInv /\ TableTypes /\ req[r].at = "run" /\ UNCHANGED <<tables, cache, reload, jwts, ip, bounds, lockedTries>>
  BY DEF AccountInv, TableInv, FindRefresh, Running
<1>2. Stmt(r).do = "find" /\ Stmt(r) \in Statements
  BY <1>1, RunningIs DEF FindRefresh, Running, Stmt
<1>3. Stmt(r).u \in Users /\ Stmt(r).n \in Tokens
  BY <1>2, Kinds DEF TokenStatements
<1> PICK revoke : revoke = OnToken("revoke", Stmt(r).n)
  OBVIOUS
<1> PICK holder : holder = OnUser("holder", Stmt(r).u)
  OBVIOUS
<1>4. Free(revoke) /\ Free(holder)
  BY <1>1, <1>3, MadeOthers, MadeUser, NobodyIs DEF UserDos
<1>5. Plan(req[r], <<>>) /\ Plan(req[r], <<revoke>>) /\ Plan(req[r], <<holder, revoke>>)
  BY <1>4, PlanEmpty, FreeIsWarranted, FreePlans
<1>6. \E todo : Plan(req[r], todo) /\ Continue(r, todo)
  BY <1>5 DEF FindRefresh
<1>7. MemoryTypes'
  BY <1>1, MemoryKept DEF AccountInv, bounds, memory
<1> QED BY <1>1, <1>2, <1>6, <1>7, PlainStatement

LEMMA StepRefreshHolder ==
    ASSUME AccountInv, NEW r \in Reqs, RefreshHolder(r), UNCHANGED memory
    PROVE  AccountInv'
<1>1. TableInv /\ req[r].at = "run" /\ UNCHANGED <<tables, cache, reload, jwts, ip, bounds, lockedTries>>
  BY DEF AccountInv, RefreshHolder, Running
<1>2. Stmt(r).do = "holder" /\ Stmt(r) \in Statements
  BY <1>1, RunningIs DEF RefreshHolder, Running, Stmt
<1> PICK u \in Users : u = Stmt(r).u
  BY <1>2, Kinds
<1> PICK row \in UserRows : row = users[u]
  BY <1>1 DEF TableInv, TableTypes
<1>3. Plan(req[r], <<>>) /\ Plan(req[r], <<ToCache(u, row)>>) /\ Plan(req[r], <<Session(u, row, "access")>>)
  BY MadeOnRows, PlanEmpty, FreeIsWarranted
<1>4. Plan(req[r], Tail(req[r].todo))
  BY <1>1, RunningIs
<1>5. Plan(req[r], (<<ToCache(u, row)>> \o Tail(req[r].todo)) \o <<Session(u, row, "access")>>)
  BY <1>3, <1>4, PlanJoin
<1>6. \E todo : Plan(req[r], todo) /\ Continue(r, todo)
  BY <1>3, <1>5 DEF RefreshHolder
<1>7. MemoryTypes'
  BY <1>1, MemoryKept DEF AccountInv, bounds, memory
<1> QED BY <1>1, <1>2, <1>6, <1>7, PlainStatement

LEMMA StepMintTicket ==
    ASSUME AccountInv, NEW r \in Reqs, MintTicket(r)
    PROVE  AccountInv'
<1>1. TableInv /\ req[r].at = "run" /\ UNCHANGED <<tables, cache, reload, jwts, ip, bounds, lockedTries>>
  BY DEF AccountInv, MintTicket, Running
<1>2. Stmt(r).do = "mint" /\ Stmt(r) \in Statements
  BY <1>1, RunningIs DEF MintTicket, Running, Stmt
<1>3. Stmt(r).u \in Users /\ Stmt(r).x \in {"pending", "pendingApp", "handoff"} /\ Stmt(r).ids \in SUBSET Identifiers
  BY <1>2, Kinds DEF MintStatements
<1>4. TableInv'
  <2>1. Done(r, <<>>) /\ Plan(req[r], <<>>)
    BY PlanEmpty DEF MintTicket
  <2> QED BY <1>1, <1>2, <2>1, QuietDone DEF tables, bounds
<1>5. MemoryTypes'
  <2>1. tickets' \subseteq Tickets /\ minted' \in Nat
    <3>1. minted \in Nat /\ tickets \subseteq Tickets
      BY DEF AccountInv, MemoryTypes
    <3>2. [n |-> minted + 1, k |-> Stmt(r).x, u |-> Stmt(r).u, ids |-> Stmt(r).ids] \in Tickets
      BY <1>3, <3>1 DEF Tickets
    <3> QED BY <3>1, <3>2 DEF MintTicket, Mint, memory
  <2> QED BY <1>1, <2>1 DEF AccountInv, MemoryTypes, bounds
<1> QED BY <1>4, <1>5 DEF AccountInv

\* ---------------------------------------------------------------------------
\* Decisions about the identities.

LEMMA DecidesPlan ==
    ASSUME AccountInv, NEW r \in Reqs, NEW op, NEW todo, Plan(req[r], todo), Decides(r, op, todo)
    PROVE  AccountInv'
BY PlainDecision DEF Decides, Deciding, memory

LEMMA FoundIsUser ==
    ASSUME AccountInv, NEW r \in Reqs, ~Unknown(r)
    PROVE  FoundUser(r) \in Users
<1>1. req[r].who \in SUBSET Users /\ req[r].who # {}
  BY RequestHas DEF AccountInv, Unknown
<1> QED BY <1>1 DEF FoundUser

LEMMA SideFits ==
    ASSUME AccountInv, NEW r \in Reqs, NEW op \in Exchanges, Deciding(r, op), NEW u \in Users
    PROVE  Plan(req[r], <<Bind(u, Side(req[r].op), req[r].ids)>>)
<1> PICK side : side = Side(req[r].op)
  OBVIOUS
<1> PICK ids \in SUBSET Identifiers : ids = req[r].ids
  BY RequestHas DEF AccountInv
<1>1. side \in {"wxweb", "wxapp", "apple"}
  BY DEF Side
<1>2. side \in ids /\ ids \subseteq {side, "union"}
  BY RequestHas DEF AccountInv, RequestFits, Deciding
<1> PICK s : s = Bind(u, side, ids)
  OBVIOUS
<1>3. s \in Statements /\ s.do = "bindIds" /\ s.x = side /\ s.ids = ids
  BY <1>1, MadeIds
<1> QED BY <1>2, <1>3, PlanOne DEF Warranted

LEMMA RebindPlan ==
    ASSUME AccountInv, NEW r \in Reqs, NEW op \in Exchanges, Deciding(r, op), ~Unknown(r)
    PROVE  Plan(req[r], Rebind(r))
BY SideFits, FoundIsUser, PlanEmpty DEF Rebind

LEMMA LoginPlan ==
    ASSUME AccountInv, NEW r \in Reqs, NEW u \in Users, NEW k \in Limiters
    PROVE  /\ Plan(req[r], <<OnUser("issue", u)>>) /\ Plan(req[r], <<OnUser("issue", u), ClearIp(k)>>)
           /\ Plan(req[r], IfActive(r, <<OnUser("issue", u)>>))
           /\ Plan(req[r], IfActive(r, <<OnUser("issue", u), ClearIp(k)>>))
           /\ Plan(req[r], IfActive(r, <<Ticket("handoff", u, {})>>))
<1>1. Free(OnUser("issue", u)) /\ Free(ClearIp(k)) /\ Free(Ticket("handoff", u, {}))
  BY MadeUser, MadeRow, MadeIds, NobodyIs DEF UserDos, ClearIp
<1> QED BY <1>1, PlanEmpty, FreeIsWarranted, FreePlans DEF IfActive

LEMMA PendingPlan ==
    ASSUME AccountInv, NEW r \in Reqs, NEW k \in {"pending", "pendingApp"}
    PROVE  Plan(req[r], <<Ticket(k, Nobody, req[r].ids)>>)
BY RequestHas, MadeIds, NobodyIs, FreeIsWarranted DEF AccountInv

LEMMA StepWechatLoginCallback ==
    ASSUME AccountInv, NEW r \in Reqs, WechatLoginCallback(r)
    PROVE  AccountInv'
<1> PICK todo : todo = IF Unknown(r) THEN <<Ticket("pending", Nobody, req[r].ids)>>
                       ELSE Rebind(r) \o <<OnUser("issue", FoundUser(r))>>
  OBVIOUS
<1>1. Decides(r, "wx-login", todo) /\ Deciding(r, "wx-login")
  BY DEF WechatLoginCallback, Decides
<1>2. "wx-login" \in Exchanges /\ "login" \in Limiters
  BY DEF Exchanges, Redirects, Limiters
<1>3. Plan(req[r], todo)
  <2>1. CASE Unknown(r)
    BY <2>1, PendingPlan
  <2>2. CASE ~Unknown(r)
    <3>1. Plan(req[r], Rebind(r)) /\ Plan(req[r], <<OnUser("issue", FoundUser(r))>>)
      BY <1>1, <1>2, <2>2, RebindPlan, FoundIsUser, LoginPlan
    <3> QED BY <2>2, <3>1, PlanJoin
  <2> QED BY <2>1, <2>2
<1> QED BY <1>1, <1>3, DecidesPlan

LEMMA StepAppWechatLogin ==
    ASSUME AccountInv, NEW r \in Reqs, AppWechatLogin(r)
    PROVE  AccountInv'
<1> PICK todo : todo = IF Unknown(r) THEN <<Ticket("pendingApp", Nobody, req[r].ids)>>
                       ELSE Rebind(r) \o IfActive(r, <<OnUser("issue", FoundUser(r)), ClearIp("app-sdk")>>)
  OBVIOUS
<1>1. Decides(r, "app-sdk", todo) /\ Deciding(r, "app-sdk")
  BY DEF AppWechatLogin, Decides
<1>2. "app-sdk" \in Exchanges /\ "app-sdk" \in Limiters
  BY DEF Exchanges, Limiters
<1>3. Plan(req[r], todo)
  <2>1. CASE Unknown(r)
    BY <2>1, PendingPlan
  <2>2. CASE ~Unknown(r)
    <3>1. Plan(req[r], Rebind(r)) /\ Plan(req[r], IfActive(r, <<OnUser("issue", FoundUser(r)), ClearIp("app-sdk")>>))
      BY <1>1, <1>2, <2>2, RebindPlan, FoundIsUser, LoginPlan
    <3> QED BY <2>2, <3>1, PlanJoin
  <2> QED BY <2>1, <2>2
<1> QED BY <1>1, <1>3, DecidesPlan

LEMMA StepAppWechatCallback ==
    ASSUME AccountInv, NEW r \in Reqs, AppWechatCallback(r)
    PROVE  AccountInv'
<1> PICK todo : todo = IF Unknown(r) THEN <<Ticket("pending", Nobody, req[r].ids)>>
                       ELSE Rebind(r) \o IfActive(r, <<Ticket("handoff", FoundUser(r), {})>>)
  OBVIOUS
<1>1. Decides(r, "app-login", todo) /\ Deciding(r, "app-login")
  BY DEF AppWechatCallback, Decides
<1>2. "app-login" \in Exchanges /\ "login" \in Limiters
  BY DEF Exchanges, Redirects, Limiters
<1>3. Plan(req[r], todo)
  <2>1. CASE Unknown(r)
    BY <2>1, PendingPlan
  <2>2. CASE ~Unknown(r)
    <3>1. Plan(req[r], Rebind(r)) /\ Plan(req[r], IfActive(r, <<Ticket("handoff", FoundUser(r), {})>>))
      BY <1>1, <1>2, <2>2, RebindPlan, FoundIsUser, LoginPlan
    <3> QED BY <2>2, <3>1, PlanJoin
  <2> QED BY <2>1, <2>2
<1> QED BY <1>1, <1>3, DecidesPlan

LEMMA InsertPlan ==
    ASSUME AccountInv, NEW r \in Reqs, NEW ids \in SUBSET Identifiers, NEW k \in Limiters
    PROVE  /\ Plan(req[r], <<Insert("unusable", ids, <<OnUser("issue", Nobody)>>)>>)
           /\ Plan(req[r], <<Insert("unusable", ids, <<OnUser("issue", Nobody), ClearIp(k)>>)>>)
<1>1. OnUser("issue", Nobody) \in FollowUps /\ ClearIp(k) \in FollowUps
  BY NobodyIs, MadeUser, MadeRow DEF UserDos, ClearIp
<1>2. <<OnUser("issue", Nobody)>> \in Seq(FollowUps) /\ <<OnUser("issue", Nobody), ClearIp(k)>> \in Seq(FollowUps)
  BY <1>1
<1>3. /\ Free(Insert("unusable", ids, <<OnUser("issue", Nobody)>>))
      /\ Free(Insert("unusable", ids, <<OnUser("issue", Nobody), ClearIp(k)>>))
  BY <1>2, NobodyIs, MadeIds
<1> QED BY <1>3, FreeIsWarranted

LEMMA StepAppleLogin ==
    ASSUME AccountInv, NEW r \in Reqs, AppleLogin(r)
    PROVE  AccountInv'
<1> PICK todo : todo = IF Unknown(r)
                      THEN <<Insert("unusable", {"apple"}, <<OnUser("issue", Nobody), ClearIp("apple")>>)>>
                      ELSE <<Bind(FoundUser(r), "apple", {"apple"})>>
                           \o IfActive(r, <<OnUser("issue", FoundUser(r)), ClearIp("apple")>>)
  OBVIOUS
<1>1. Decides(r, "apple", todo)
  BY DEF AppleLogin
<1>2. "apple" \in Limiters /\ {"apple"} \in SUBSET Identifiers
  BY DEF Limiters, Identifiers
<1>3. Plan(req[r], todo)
  <2>1. CASE Unknown(r)
    BY <1>2, <2>1, InsertPlan
  <2>2. CASE ~Unknown(r)
    <3> PICK u \in Users : u = FoundUser(r)
      BY <2>2, FoundIsUser
    <3> PICK s : s = Bind(u, "apple", {"apple"})
      OBVIOUS
    <3>1. s \in Statements /\ s.do = "bindIds" /\ s.x = "apple" /\ s.ids = {"apple"}
      BY <1>2, MadeIds
    <3>2. Plan(req[r], <<s>>)
      BY <3>1, PlanOne DEF Warranted
    <3>3. Plan(req[r], IfActive(r, <<OnUser("issue", u), ClearIp("apple")>>))
      BY <1>2, LoginPlan
    <3> QED BY <2>2, <3>2, <3>3, PlanJoin
  <2> QED BY <2>1, <2>2
<1> QED BY <1>1, <1>3, DecidesPlan

LEMMA BindFoundPlan ==
    ASSUME AccountInv, NEW r \in Reqs, NEW op \in Exchanges, Decides(r, op, BindFound(r))
    PROVE  AccountInv'
<1>1. Deciding(r, op) /\ req[r].u \in Users
  BY RequestHas DEF AccountInv, Decides
<1>2. Plan(req[r], BindFound(r))
  BY <1>1, SideFits, PlanEmpty DEF BindFound
<1> QED BY <1>2, DecidesPlan

LEMMA StepBinds ==
    ASSUME AccountInv, NEW r \in Reqs,
           WechatBindCallback(r) \/ AppWechatBindCallback(r) \/ AppWechatBind(r) \/ AppleBind(r)
    PROVE  AccountInv'
BY BindFoundPlan DEF WechatBindCallback, AppWechatBindCallback, AppWechatBind, AppleBind, Exchanges, Redirects

LEMMA StepConfirms ==
    ASSUME AccountInv, NEW r \in Reqs, WechatConfirm(r) \/ AppWechatConfirm(r)
    PROVE  AccountInv'
<1>1. Plan(req[r], Confirmed(r))
  <2>1. "login" \in Limiters
    BY DEF Limiters
  <2>2. CASE Unknown(r)
    BY <2>1, <2>2, InsertPlan, RequestHas DEF AccountInv, Confirmed
  <2>3. CASE ~Unknown(r)
    BY <2>1, <2>3, FoundIsUser, LoginPlan DEF Confirmed
  <2> QED BY <2>2, <2>3
<1> QED BY <1>1, DecidesPlan DEF WechatConfirm, AppWechatConfirm

LEMMA UnbindsKeeps ==
    ASSUME AccountInv, NEW r \in Reqs, NEW m, NEW ids \in SUBSET Identifiers,
           \/ m \in Channels \cup {"apple"} /\ ids = {m}
           \/ m = "wechat" /\ ids = WechatIds,
           Unbinds(r, m, ids)
    PROVE  AccountInv'
<1> PICK s : s = OnIds("clearIds", req[r].u, ids)
  OBVIOUS
<1> PICK todo : todo = IF req[r].row.st # "none" /\ Methods(req[r].row) \ {m} = {} THEN <<>> ELSE <<s>>
  OBVIOUS
<1>1. req[r].x = m /\ Decides(r, "unbind", todo)
  BY DEF Unbinds
<1>2. s \in Statements /\ s.do = "clearIds" /\ s.u = req[r].u /\ s.ids = ids
  BY RequestHas, MadeIds DEF AccountInv
<1>3. CASE req[r].row.st # "none" /\ Methods(req[r].row) \ {m} = {}
  BY <1>1, <1>3, PlanEmpty, DecidesPlan
<1>4. CASE ~(req[r].row.st # "none" /\ Methods(req[r].row) \ {m} = {})
  <2>1. Warranted(req[r], s)
    BY <1>1, <1>2, <1>4 DEF Warranted
  <2>2. Plan(req[r], todo)
    BY <1>2, <1>4, <2>1, PlanOne
  <2> QED BY <1>1, <2>2, DecidesPlan
<1> QED BY <1>3, <1>4

LEMMA StepUnbinds ==
    ASSUME AccountInv, NEW r \in Reqs, UnbindEmail(r) \/ UnbindPhone(r) \/ UnbindWechat(r) \/ UnbindApple(r)
    PROVE  AccountInv'
<1>1. {"email"} \in SUBSET Identifiers /\ {"phone"} \in SUBSET Identifiers /\ {"apple"} \in SUBSET Identifiers
      /\ WechatIds \in SUBSET Identifiers /\ "email" \in Channels /\ "phone" \in Channels
  BY DEF Identifiers, Channels
<1>2. CASE UnbindEmail(r)
  BY <1>1, <1>2, UnbindsKeeps DEF UnbindEmail
<1>3. CASE UnbindPhone(r)
  BY <1>1, <1>3, UnbindsKeeps DEF UnbindPhone
<1>4. CASE UnbindWechat(r)
  BY <1>1, <1>4, UnbindsKeeps DEF UnbindWechat
<1>5. CASE UnbindApple(r)
  BY <1>1, <1>5, UnbindsKeeps DEF UnbindApple
<1> QED BY <1>2, <1>3, <1>4, <1>5

LEMMA StepExchange ==
    ASSUME AccountInv, NEW r \in Reqs, Exchange(r)
    PROVE  AccountInv'
<1>1. /\ req[r] \in Requests /\ RequestFits(req[r]) /\ req[r].at = "exchange" /\ req[r].todo = <<>> /\ TableInv
      /\ UNCHANGED <<tables, cache, reload, jwts, bounds, lockedTries, memory>>
  BY RequestHas DEF AccountInv, Exchange, RequestFits
<1>2. \E q \in Requests : RequestFits(q) /\ q.at \in {"lookup", "idle"} /\ req' = [req EXCEPT ![r] = q]
  <2>1. CASE req' = [req EXCEPT ![r] = Idle]
    BY <2>1, IdleFits
  <2>2. ASSUME NEW ids \in {{Side(req[r].op)}, {Side(req[r].op), "union"}},
               req' = [req EXCEPT ![r] = [req[r] EXCEPT !.at = "lookup", !.ids = ids]]
        PROVE  \E q \in Requests : RequestFits(q) /\ q.at \in {"lookup", "idle"} /\ req' = [req EXCEPT ![r] = q]
    <3> PICK q : q = [req[r] EXCEPT !.at = "lookup", !.ids = ids]
      OBVIOUS
    <3>1. ids \in SUBSET Identifiers /\ Side(req[r].op) \in ids /\ ids \subseteq {Side(req[r].op), "union"}
      BY <2>2 DEF Side, Identifiers, WechatIds
    <3>2. /\ q \in Requests /\ q.at = "lookup" /\ q.op = req[r].op /\ q.x = req[r].x /\ q.todo = <<>> /\ q.ids = ids
      BY <1>1, <3>1 DEF Requests, RequestSeats
    <3>3. RequestFits(q)
      BY <1>1, <3>1, <3>2 DEF RequestFits
    <3> QED BY <2>2, <3>2, <3>3
  <2> QED BY <2>1, <2>2 DEF Exchange
<1>3. PICK q \in Requests : RequestFits(q) /\ q.at \in {"lookup", "idle"} /\ req' = [req EXCEPT ![r] = q]
  BY <1>2
<1>4. TableInv'
  <2>1. Turn(r, q) /\ ~Begins(q, "countTry") /\ UNCHANGED <<users, refresh, codes, crashes, lockedTries>>
    BY <1>1, <1>3 DEF Turn, Begins, tables, bounds
  <2> QED BY <1>1, <1>3, <2>1, QuietTurn
<1>5. MemoryTypes'
  <2>1. ip' \in [Limiters -> [fails : Nat, locked : BOOLEAN]]
    <3>1. Limiter(req[r].op) \in Limiters
      BY DEF Limiter, Limiters
    <3>2. ip' = ip \/ LimiterFails(Limiter(req[r].op))
      BY DEF Exchange
    <3> QED BY <3>1, <3>2, LimiterTypes DEF AccountInv, MemoryTypes
  <2> QED BY <1>1, <2>1 DEF AccountInv, MemoryTypes, bounds, memory
<1> QED BY <1>4, <1>5 DEF AccountInv

LEMMA StepLookup ==
    ASSUME AccountInv, NEW r \in Reqs, Lookup(r)
    PROVE  AccountInv'
<1>1. /\ req[r] \in Requests /\ RequestFits(req[r]) /\ req[r].at = "lookup" /\ req[r].todo = <<>> /\ TableInv
      /\ UNCHANGED <<tables, cache, reload, jwts, ip, bounds, lockedTries, memory>>
  BY RequestHas DEF AccountInv, Lookup, RequestFits
<1> PICK who : who = Found(req[r].ids)
  OBVIOUS
<1> PICK row : row = IF who = {} THEN NoUser ELSE users[CHOOSE u \in who : TRUE]
  OBVIOUS
<1>2. who \in SUBSET Users /\ row \in UserRows /\ (row.st = "none" => row = NoUser)
  <2>1. \A k : Holder(users, k) \subseteq Users
    BY DEF Holder
  <2>2. who \in SUBSET Users
    BY <2>1 DEF Found
  <2>3. users \in [Users -> UserRows] /\ RowsWhole
    BY <1>1 DEF TableInv, TableTypes
  <2>4. CASE who = {}
    BY <2>2, <2>4, NobodyIs
  <2>5. CASE who # {}
    <3> PICK u : u = CHOOSE v \in who : TRUE
      OBVIOUS
    <3>1. u \in Users /\ row = users[u]
      BY <2>2, <2>5
    <3> QED BY <2>2, <2>3, <3>1 DEF RowsWhole
  <2> QED BY <2>4, <2>5
<1> PICK q : q = [req[r] EXCEPT !.at = "decide", !.who = who, !.row = row]
  OBVIOUS
<1>3. req' = [req EXCEPT ![r] = q]
  BY DEF Lookup
<1>4. /\ q \in Requests /\ q.at = "decide" /\ q.op = req[r].op /\ q.x = req[r].x /\ q.todo = <<>> /\ q.ids = req[r].ids
      /\ q.row = row
  BY <1>1, <1>2 DEF Requests, RequestSeats
<1>5. RequestFits(q) /\ q.op # "login"
  BY <1>1, <1>2, <1>4 DEF RequestFits
<1>6. TableInv'
  <2>1. Turn(r, q) /\ ~Begins(q, "countTry") /\ UNCHANGED <<users, refresh, codes, crashes, lockedTries>>
    BY <1>1, <1>3, <1>4, <1>5 DEF Turn, Begins, tables, bounds
  <2> QED BY <1>1, <1>5, <2>1, QuietTurn
<1>7. MemoryTypes'
  BY <1>1, MemoryKept DEF AccountInv, bounds, memory
<1> QED BY <1>6, <1>7 DEF AccountInv

\* ---------------------------------------------------------------------------
\* Arrivals.

LEMMA Arrives ==
    ASSUME AccountInv, NEW r \in Reqs, NEW op, Called(r, op), NEW q \in Requests, RequestFits(q),
           req' = [req EXCEPT ![r] = q], q.at \in {"read", "exchange", "lookup", "run"}, ~Begins(q, "countTry"),
           UNCHANGED <<tables, cache, reload, jwts, ip, use, crashes, sent, lockedTries>>,
           tickets' \subseteq tickets, minted' = minted
    PROVE  AccountInv'
<1>1. TableInv'
  <2>1. Turn(r, q) /\ UNCHANGED <<users, refresh, codes, crashes, lockedTries>>
    BY DEF Turn, tables
  <2>2. req[r].at # "run"
    BY DEF Called
  <2> QED BY <2>1, <2>2, QuietTurn DEF AccountInv
<1>2. MemoryTypes'
  <2>1. calls' \in Nat
    BY DEF Called, AccountInv, MemoryTypes
  <2>2. tickets' \subseteq Tickets
    BY DEF AccountInv, MemoryTypes
  <2> QED BY <2>1, <2>2 DEF AccountInv, MemoryTypes
<1> QED BY <1>1, <1>2 DEF AccountInv

LEMMA ArrivesToRead ==
    ASSUME AccountInv, NEW r \in Reqs, NEW op \in Operations, NEW u \in Users, NEW x \in Arguments, NEW n \in Nat,
           op \notin Exchanges, op \in ByIdentity => x \in Channels,
           Arrive(r, op, u, x, n), UNCHANGED memory
    PROVE  AccountInv'
<1> PICK q : q = [Idle EXCEPT !.op = op, !.u = u, !.x = x, !.n = n, !.at = "read"]
  OBVIOUS
<1>1. q \in Requests /\ q.op = op /\ q.x = x /\ q.at = "read" /\ q.todo = <<>> /\ q.row = NoUser
  BY IdleFits DEF Requests, RequestSeats
<1>2. RequestFits(q)
  BY <1>1 DEF RequestFits, Arrive, Called
<1>3. Called(r, op) /\ req' = [req EXCEPT ![r] = q] /\ tickets' \subseteq tickets /\ minted' = minted
      /\ ~Begins(q, "countTry")
  BY <1>1 DEF Arrive, memory, Begins
<1> QED BY <1>1, <1>2, <1>3, Arrives DEF Arrive

LEMMA ArrivesRunning ==
    ASSUME AccountInv, NEW r \in Reqs, NEW op \in Operations, op \notin Exchanges, op \notin ByIdentity,
           NEW todo, \A q : Plan(q, todo), todo # <<>>,
           ArriveRunning(r, op, todo), tickets' \subseteq tickets, minted' = minted
    PROVE  AccountInv'
<1>1. todo \in Seq(Statements) /\ Head(todo) \in Statements /\ Head(todo) = todo[1]
  BY TailOf DEF Plan
<1>2. Head(todo).u \in Users /\ todo[1].do # "countTry"
  BY <1>1, Kinds
<1> PICK q : q = [Idle EXCEPT !.op = op, !.u = Head(todo).u, !.at = "run", !.todo = todo]
  OBVIOUS
<1>3. todo \in Seq(Statements \cup CountStatements)
  BY <1>1
<1>4. q \in Requests /\ q.op = op /\ q.at = "run" /\ q.todo = todo /\ q.row = NoUser
  BY <1>2, <1>3, IdleFits DEF Requests, RequestSeats
<1>5. RequestFits(q)
  BY <1>4 DEF RequestFits, ArriveRunning, Called
<1>6. Called(r, op) /\ req' = [req EXCEPT ![r] = q] /\ ~Begins(q, "countTry")
  BY <1>2, <1>4 DEF ArriveRunning, Begins
<1> QED BY <1>4, <1>5, <1>6, Arrives DEF ArriveRunning

LEMMA ExchangeArrives ==
    ASSUME AccountInv, NEW r \in Reqs, NEW op \in Exchanges, NEW u \in Users,
           Exchanging(r, op, u), tickets' \subseteq tickets, minted' = minted
    PROVE  AccountInv'
<1> PICK q : q = [Idle EXCEPT !.op = op, !.u = u, !.at = "exchange"]
  OBVIOUS
<1>1. q \in Requests /\ q.op = op /\ q.at = "exchange" /\ q.todo = <<>> /\ q.row = NoUser
  BY IdleFits DEF Requests, RequestSeats, Operations
<1>2. RequestFits(q)
  BY <1>1 DEF RequestFits, Exchanging, Called, Exchanges, Redirects, ByIdentity
<1>3. Called(r, op) /\ req' = [req EXCEPT ![r] = q] /\ ~Begins(q, "countTry")
  BY <1>1 DEF Exchanging, Begins
<1> QED BY <1>1, <1>2, <1>3, Arrives DEF Exchanging

LEMMA PlainOps ==
    ASSUME NEW op \in {"login", "totp", "refresh", "logout", "password", "totpOn", "totpOff", "delete", "create",
                       "handoff", "confirm", "app-confirm", "bindSend", "bindVerify", "unbind"}
                      \cup OperatorOps \cup AdminOps
    PROVE  op \in Operations /\ op \notin Exchanges /\ op \notin ByIdentity
BY DEF Operations, Exchanges, Redirects, ByIdentity, OperatorOps, AccessOps, AdminOps

LEMMA Holds ==
    ASSUME AccountInv, NEW j \in jwts
    PROVE  j.u \in Users /\ j.ver \in Nat
BY DEF AccountInv, MemoryTypes, Jwts

LEMMA SessionArrives ==
    ASSUME AccountInv, NEW r \in Reqs, NEW op \in {"password", "totpOff", "delete", "unbind"}, NEW x \in Arguments,
           WithSession(r, op, x), UNCHANGED memory
    PROVE  AccountInv'
<1>1. PICK j \in jwts : Arrive(r, op, j.u, x, 0)
  BY DEF WithSession
<1>2. j.u \in Users /\ 0 \in Nat /\ op \in Operations /\ op \notin Exchanges /\ op \notin ByIdentity
  BY Holds, PlainOps
<1> QED BY <1>1, <1>2, ArrivesToRead

LEMMA StepPasswordArrives ==
    ASSUME AccountInv, NEW r \in Reqs,
           \/ PasswordArrives(r) /\ UNCHANGED memory
           \/ DisableArrives(r) /\ UNCHANGED memory
           \/ DeleteArrives(r) /\ UNCHANGED memory
           \/ UnbindArrives(r)
    PROVE  AccountInv'
<1>1. UNCHANGED memory
  BY DEF UnbindArrives
<1>2. \E op \in {"password", "totpOff", "delete", "unbind"}, x \in Arguments : WithSession(r, op, x)
  <2>1. Passwords \subseteq Arguments /\ Channels \cup {"wechat", "apple"} \subseteq Arguments /\ "" \in Arguments
    BY DEF Arguments
  <2> QED BY <2>1 DEF PasswordArrives, DisableArrives, DeleteArrives, UnbindArrives
<1> QED BY <1>1, <1>2, SessionArrives

LEMMA StepLoginArrives ==
    ASSUME AccountInv, NEW r \in Reqs, LoginArrives(r), UNCHANGED memory
    PROVE  AccountInv'
<1>1. PICK u \in Users, pw \in Passwords : Arrive(r, "login", u, pw, 0)
  BY DEF LoginArrives
<1>2. pw \in Arguments /\ "login" \in Operations /\ "login" \notin Exchanges /\ "login" \notin ByIdentity
  BY PlainOps DEF Arguments
<1> QED BY <1>1, <1>2, ArrivesToRead

LEMMA StepTotpArrives ==
    ASSUME AccountInv, NEW r \in Reqs, TotpArrives(r), UNCHANGED memory
    PROVE  AccountInv'
<1>1. PICK j \in jwts : Arrive(r, "totp", j.u, "", j.ver)
  BY DEF TotpArrives
<1>2. j.u \in Users /\ j.ver \in Nat /\ "" \in Arguments /\ "totp" \in Operations
      /\ "totp" \notin Exchanges /\ "totp" \notin ByIdentity
  BY Holds, PlainOps DEF Arguments
<1> QED BY <1>1, <1>2, ArrivesToRead

LEMMA StepGuestArrives ==
    ASSUME AccountInv, NEW r \in Reqs, GuestArrives(r), UNCHANGED memory
    PROVE  AccountInv'
<1>1. sent \in Nat
  BY DEF AccountInv, MemoryTypes
<1>2. PICK op \in ByIdentity, c \in Channels, guess \in 0 .. sent : Arrive(r, op, Nobody, c, guess)
  BY DEF GuestArrives
<1>3. op \in Operations /\ op \notin Exchanges /\ c \in Arguments /\ guess \in Nat /\ Nobody \in Users
  <2>1. op \in Operations /\ op \notin Exchanges
    BY DEF Operations, Exchanges, Redirects, ByIdentity
  <2>2. guess \in Nat
    BY <1>1
  <2>3. c \in Arguments
    BY DEF Arguments
  <2> QED BY <2>1, <2>2, <2>3, NobodyIs
<1> QED BY <1>2, <1>3, ArrivesToRead

LEMMA StepAdminArrives ==
    ASSUME AccountInv, NEW r \in Reqs, AdminArrives(r), UNCHANGED memory
    PROVE  AccountInv'
<1>1. PICK op \in OperatorOps \cup AdminOps, u \in Users : Arrive(r, op, u, "", 0)
  BY DEF AdminArrives
<1>2. op \in Operations /\ op \notin Exchanges /\ op \notin ByIdentity /\ "" \in Arguments /\ 0 \in Nat
  BY PlainOps DEF Arguments
<1> QED BY <1>1, <1>2, ArrivesToRead

LEMMA FreeRuns ==
    ASSUME AccountInv, NEW r \in Reqs,
           NEW op \in {"refresh", "logout", "totpOn", "create", "handoff", "bindSend"}, NEW s, Free(s),
           ArriveRunning(r, op, <<s>>), tickets' \subseteq tickets, minted' = minted
    PROVE  AccountInv'
<1>1. (\A q : Plan(q, <<s>>)) /\ <<s>> # <<>>
  BY FreeIsWarranted
<1>2. op \in Operations /\ op \notin Exchanges /\ op \notin ByIdentity
  BY PlainOps
<1> QED BY <1>1, <1>2, ArrivesRunning

LEMMA StepRefreshArrives ==
    ASSUME AccountInv, NEW r \in Reqs, RefreshArrives(r), UNCHANGED memory
    PROVE  AccountInv'
<1>1. PICK op \in {"refresh", "logout"}, t \in Tokens : ArriveRunning(r, op, <<OnToken("find", t)>>)
  BY DEF RefreshArrives
<1>2. Free(OnToken("find", t))
  BY MadeOthers, NobodyIs DEF AccountInv, TableInv
<1> QED BY <1>1, <1>2, FreeRuns DEF memory

LEMMA StepActivateTotp ==
    ASSUME AccountInv, NEW r \in Reqs, ActivateTotp(r), UNCHANGED memory
    PROVE  AccountInv'
<1>1. PICK j \in jwts : ArriveRunning(r, "totpOn", <<OnTotp(j.u, TRUE)>>)
  BY DEF ActivateTotp
<1>2. Free(OnTotp(j.u, TRUE))
  BY MadeOthers, Holds
<1> QED BY <1>1, <1>2, FreeRuns DEF memory

LEMMA StepAdminCreate ==
    ASSUME AccountInv, NEW r \in Reqs, AdminCreate(r), UNCHANGED memory
    PROVE  AccountInv'
<1>1. PICK c \in Channels : ArriveRunning(r, "create", <<Insert("p", {NameOf(c)}, <<OnIds("setIds", Nobody, {c})>>)>>)
  BY DEF AdminCreate
<1>2. {c} \in SUBSET Identifiers /\ {NameOf(c)} \in SUBSET Identifiers /\ "p" \in Passwords
  BY DEF Identifiers, Passwords
<1>3. <<OnIds("setIds", Nobody, {c})>> \in Seq(FollowUps)
  <2>1. OnIds("setIds", Nobody, {c}) \in FollowUps
    BY <1>2, MadeIds, NobodyIs
  <2> QED BY <2>1
<1>4. Free(Insert("p", {NameOf(c)}, <<OnIds("setIds", Nobody, {c})>>))
  BY <1>2, <1>3, MadeIds, NobodyIs
<1> QED BY <1>1, <1>4, FreeRuns DEF memory

LEMMA StepHandoff ==
    ASSUME AccountInv, NEW r \in Reqs, AppWechatHandoff(r)
    PROVE  AccountInv'
<1>1. PICK t \in tickets : Redeem(t) /\ ArriveRunning(r, "handoff", <<OnUser("issue", t.u)>>)
  BY DEF AppWechatHandoff
<1>2. t.u \in Users
  BY DEF AccountInv, MemoryTypes, Tickets
<1>3. Free(OnUser("issue", t.u))
  BY <1>2, MadeUser DEF UserDos
<1>4. tickets' \subseteq tickets /\ minted' = minted
  BY <1>1 DEF Redeem
<1> QED BY <1>1, <1>3, <1>4, FreeRuns

LEMMA StepBindSend ==
    ASSUME AccountInv, NEW r \in Reqs, BindEmail(r) \/ BindPhone(r)
    PROVE  AccountInv'
<1>1. PICK j \in jwts, c \in Channels : ArriveRunning(r, "bindSend", <<Send(j.u, c, "verify")>>) /\ UNCHANGED memory
  BY DEF BindEmail, BindPhone, Channels
<1>2. Free(Send(j.u, c, "verify"))
  BY Holds, MadeOthers DEF Purposes
<1> QED BY <1>1, <1>2, FreeRuns DEF memory

LEMMA StepVerified ==
    ASSUME AccountInv, NEW r \in Reqs, VerifyEmail(r) \/ VerifyPhone(r)
    PROVE  AccountInv'
<1>0. sent \in Nat
  BY DEF AccountInv, MemoryTypes
<1>1. PICK c \in Channels : Verified(r, c)
  BY DEF VerifyEmail, VerifyPhone, Channels
<1>2. PICK j \in jwts, guess \in 0 .. sent :
        /\ ArriveRunning(r, "bindVerify", <<Check(j.u, c, "verify", guess), OnIds("setIds", j.u, {c}),
                                            OnIds("setVerified", j.u, {c})>>)
        /\ UNCHANGED memory
  BY <1>1 DEF Verified
<1> PICK a : a = Check(j.u, c, "verify", guess)
  OBVIOUS
<1> PICK b : b = OnIds("setIds", j.u, {c})
  OBVIOUS
<1> PICK d : d = OnIds("setVerified", j.u, {c})
  OBVIOUS
<1>3. Free(a) /\ Free(b) /\ Free(d)
  <2>1. j.u \in Users /\ {c} \in SUBSET Identifiers /\ "verify" \in Purposes /\ guess \in Nat
    BY <1>0, Holds DEF Identifiers, Purposes
  <2> QED BY <2>1, MadeOthers, MadeIds
<1>4. (\A q : Plan(q, <<a, b, d>>)) /\ <<a, b, d>> # <<>>
  BY <1>3, FreePlans
<1>5. "bindVerify" \in Operations /\ "bindVerify" \notin Exchanges /\ "bindVerify" \notin ByIdentity
  BY PlainOps
<1> QED BY <1>2, <1>4, <1>5, ArrivesRunning DEF memory

LEMMA StepExchangeArrives ==
    ASSUME AccountInv, NEW r \in Reqs, Callback(r) \/ SdkArrives(r) \/ SdkBinds(r)
    PROVE  AccountInv'
<1>1. CASE Callback(r)
  <2>1. PICK t \in tickets : t.k \in Redirects /\ Redeem(t) /\ Exchanging(r, t.k, t.u)
    BY <1>1 DEF Callback
  <2>2. t.u \in Users /\ t.k \in Exchanges
    BY <2>1 DEF AccountInv, MemoryTypes, Tickets, Exchanges
  <2>3. tickets' \subseteq tickets /\ minted' = minted
    BY <2>1 DEF Redeem
  <2> QED BY <2>1, <2>2, <2>3, ExchangeArrives
<1>2. CASE SdkArrives(r)
  <2>1. PICK op \in {"app-sdk", "apple"} : Exchanging(r, op, Nobody) /\ UNCHANGED memory
    BY <1>2 DEF SdkArrives
  <2> QED BY <2>1, NobodyIs, ExchangeArrives DEF memory, Exchanges
<1>3. CASE SdkBinds(r)
  <2>1. PICK j \in jwts, op \in {"app-sdk-bind", "apple-bind"} : Exchanging(r, op, j.u) /\ UNCHANGED memory
    BY <1>3 DEF SdkBinds
  <2> QED BY <2>1, Holds, ExchangeArrives DEF memory, Exchanges
<1> QED BY <1>1, <1>2, <1>3

LEMMA StepConfirmArrives ==
    ASSUME AccountInv, NEW r \in Reqs, ConfirmArrives(r)
    PROVE  AccountInv'
<1>1. PICK t \in tickets, op \in {"confirm", "app-confirm"} :
        /\ Called(r, op) /\ Redeem(t)
        /\ req' = [req EXCEPT ![r] = [Idle EXCEPT !.op = op, !.at = "lookup",
                                                  !.ids = IF op = "confirm" THEN AsWebsites(t.ids) ELSE t.ids]]
        /\ UNCHANGED <<tables, cache, reload, jwts, ip, use, crashes, sent, lockedTries>>
  BY DEF ConfirmArrives
<1> PICK ids : ids = IF op = "confirm" THEN AsWebsites(t.ids) ELSE t.ids
  OBVIOUS
<1>2. ids \in SUBSET Identifiers
  <2>1. t.ids \in SUBSET Identifiers
    BY DEF AccountInv, MemoryTypes, Tickets
  <2> QED BY <2>1 DEF AsWebsites, Identifiers, WechatIds
<1>3. op \in Operations /\ op \notin Exchanges /\ op \notin ByIdentity /\ op # "login"
  BY PlainOps
<1> PICK q : q = [Idle EXCEPT !.op = op, !.at = "lookup", !.ids = ids]
  OBVIOUS
<1>4. q \in Requests /\ q.op = op /\ q.at = "lookup" /\ q.todo = <<>> /\ q.row = NoUser
  BY <1>2, <1>3, IdleFits DEF Requests, RequestSeats
<1>5. RequestFits(q)
  BY <1>1, <1>3, <1>4 DEF RequestFits, Called
<1>6. req' = [req EXCEPT ![r] = q] /\ ~Begins(q, "countTry") /\ tickets' \subseteq tickets /\ minted' = minted
  BY <1>1, <1>4 DEF Begins, Redeem
<1> QED BY <1>1, <1>4, <1>5, <1>6, Arrives

\* Steps that leave the tables and the requests alone.
LEMMA TablesStill ==
    ASSUME TableInv, UNCHANGED <<users, refresh, codes, req, use, crashes, lockedTries>>
    PROVE  TableInv'
<1>1. TableTypes' /\ RowsWhole' /\ TokensOwned'
  BY DEF TableInv, TableTypes, RowsWhole, TokensOwned
<1>2. (\A r \in Reqs : RequestFits(req[r]))'
  BY DEF TableInv, RequestFits
<1>3. SessionsEnding'
  BY DEF TableInv, SessionsEnding, Ends
<1>4. \A u : Locking(u)' = Locking(u) /\ Unaware(u)' = Unaware(u) /\ Counting(u)' = Counting(u)
  BY DEF Locking, Unaware, Counting
<1>5. TriesCounted' /\ TriesLocked' /\ FailsCounted'
  BY <1>4 DEF TableInv, TriesCounted, TriesLocked, FailsCounted
<1> QED BY <1>1, <1>2, <1>3, <1>5 DEF TableInv

LEMMA StepAdminLogin ==
    ASSUME AccountInv, NEW r \in Reqs, AdminLogin(r), UNCHANGED memory
    PROVE  AccountInv'
<1>1. TableInv'
  BY TablesStill DEF AdminLogin, AccountInv, tables
<1>2. jwts' \subseteq Jwts
  <2>1. PICK j \in jwts : jwts' = jwts \cup {Jwt("admin", cache[j.u], j.u)}
    BY DEF AdminLogin
  <2>2. j.u \in Users /\ cache[j.u] \in UserRows
    BY Holds DEF AccountInv, MemoryTypes
  <2>3. Jwt("admin", cache[j.u], j.u) \in Jwts
    BY <2>2, JwtTypes
  <2> QED BY <2>1, <2>3 DEF AccountInv, MemoryTypes
<1>3. calls' \in Nat /\ UNCHANGED <<cache, reload, ip, sent, tickets, minted>>
  BY DEF AdminLogin, Called, AccountInv, MemoryTypes, memory
<1> QED BY <1>1, <1>2, <1>3 DEF AccountInv, MemoryTypes

LEMMA StepRedirects ==
    ASSUME AccountInv, NEW r \in Reqs,
           \/ WechatLoginAuthorize(r) \/ AppWechatAuthorize(r) \/ WechatBindAuthorize(r) \/ AppWechatBindInit(r)
           \/ AppWechatBindAuthorize(r)
    PROVE  AccountInv'
<1>1. Quiet /\ calls' \in Nat
  BY DEF WechatLoginAuthorize, AppWechatAuthorize, WechatBindAuthorize, AppWechatBindInit,
         AppWechatBindAuthorize, Redirect, RedirectOf, Called, AccountInv, MemoryTypes
<1>2. TableInv'
  BY <1>1, TablesStill DEF AccountInv, Quiet, tables
<1>3. tickets' \subseteq Tickets /\ minted' \in Nat
  <2>1. tickets \subseteq Tickets /\ minted \in Nat /\ \A t \in tickets : t.u \in Users
    BY DEF AccountInv, MemoryTypes, Tickets
  <2>2. ASSUME NEW u \in Users, NEW k \in {"wx-login", "app-login", "bind", "bindToken", "app-bind"}
        PROVE  [n |-> minted + 1, k |-> k, u |-> u, ids |-> {}] \in Tickets
    BY <2>1 DEF Tickets, Redirects
  <2>3. ASSUME NEW u \in Users, NEW k \in {"wx-login", "app-login", "bind", "bindToken"}, Mint(k, u, {})
        PROVE  tickets' \subseteq Tickets /\ minted' \in Nat
    <3> PICK t : t = [n |-> minted + 1, k |-> k, u |-> u, ids |-> {}]
      OBVIOUS
    <3>1. t \in Tickets
      BY <2>2
    <3>2. tickets' = tickets \cup {t} /\ minted' = minted + 1
      BY <2>3 DEF Mint
    <3>3. tickets' \subseteq Tickets
      BY ONLY <2>1, <3>1, <3>2
    <3>4. minted' \in Nat
      BY <2>1, <3>1, <3>2
    <3> QED BY <3>3, <3>4
  <2>4. CASE WechatLoginAuthorize(r) \/ AppWechatAuthorize(r)
    BY <2>3, <2>4, NobodyIs DEF WechatLoginAuthorize, AppWechatAuthorize, Redirect
  <2>5. CASE WechatBindAuthorize(r) \/ AppWechatBindInit(r)
    BY <2>3, <2>5, Holds DEF WechatBindAuthorize, AppWechatBindInit, RedirectOf
  <2>6. CASE AppWechatBindAuthorize(r)
    <3>1. PICK t \in tickets :
            /\ minted' = minted + 1
            /\ tickets' = (tickets \ {t}) \cup {[n |-> minted + 1, k |-> "app-bind", u |-> t.u, ids |-> {}]}
      BY <2>6 DEF AppWechatBindAuthorize
    <3> PICK w : w = [n |-> minted + 1, k |-> "app-bind", u |-> t.u, ids |-> {}]
      OBVIOUS
    <3>2. w \in Tickets
      BY <2>1, <2>2
    <3>3. tickets' = (tickets \ {t}) \cup {w}
      BY <3>1
    <3>4. tickets' \subseteq Tickets
      BY ONLY <2>1, <3>2, <3>3
    <3>5. minted' \in Nat
      BY <2>1, <3>1
    <3> QED BY <3>4, <3>5
  <2> QED BY <2>4, <2>5, <2>6
<1> QED BY <1>1, <1>2, <1>3 DEF AccountInv, MemoryTypes, Quiet

\* ---------------------------------------------------------------------------
\* The statements that write.

LEMMA Assembled ==
    ASSUME TableInv, NEW r \in Reqs, NEW q, Turn(r, q),
           users' \in [Users -> UserRows],
           refresh' \in [Tokens -> [u : Users, live : BOOLEAN, used : BOOLEAN, ver : Nat, late : BOOLEAN]],
           codes' \in [CodeKeys -> [id : Nat, tries : Nat, u : Users]],
           crashes' = crashes, lockedTries' \in [Users -> Nat],
           RowsWhole', TokensOwned', SessionsEnding', TriesCounted', TriesLocked', FailsCounted'
    PROVE  TableInv'
<1>1. TableTypes /\ \A o \in Reqs : RequestFits(req[o])
  BY DEF TableInv
<1>2. TableTypes'
  BY <1>1, TurnIs DEF TableTypes
<1>3. (\A o \in Reqs : RequestFits(req[o]))'
  BY <1>1, FitsKept
<1> QED BY <1>2, <1>3 DEF TableInv

\* A request that comes to an account that was not locked is past its password.
LEMMA LocksWritten ==
    ASSUME TableTypes, TriesLocked, NEW r \in Reqs, NEW q, Turn(r, q), q.at # "decide",
           \A u \in Users : lockedTries'[u] = IF users'[u].locked THEN lockedTries[u] ELSE 0
    PROVE  TriesLocked'
<1> SUFFICES ASSUME NEW u \in Users, users'[u].locked
             PROVE  (lockedTries[u] + Cardinality(Unaware(u)) <= Cardinality(Reqs) - 1)'
  BY DEF TriesLocked
<1>1. Unaware(u) \in SUBSET Reqs /\ Unaware(u)' \in SUBSET Reqs
  BY DEF Unaware
<1>2. Unaware(u)' \subseteq Unaware(u) /\ Unaware(u)' \subseteq Reqs \ {r}
  BY TurnIs DEF Unaware
<1>3. lockedTries[u] \in Nat /\ lockedTries'[u] = lockedTries[u]
  BY DEF TableTypes
<1>4. CASE users[u].locked
  BY <1>1, <1>2, <1>3, <1>4, Fewer DEF TriesLocked
<1>5. CASE ~users[u].locked
  <2>1. lockedTries'[u] = 0
    BY <1>3, <1>5 DEF TriesLocked
  <2>2. Cardinality(Unaware(u)') + 1 <= Cardinality(Reqs) /\ Cardinality(Unaware(u)') \in Nat /\ Cardinality(Reqs) \in Nat
    BY <1>1, <1>2, OneLess
  <2> QED BY <2>1, <2>2
<1> QED BY <1>4, <1>5

LEMMA Written ==
    ASSUME TableInv, NEW r \in Reqs, NEW q, Turn(r, q), q.at \in {"idle", "run"}, ~Begins(q, "countTry"),
           users' \in [Users -> UserRows],
           refresh' \in [Tokens -> [u : Users, live : BOOLEAN, used : BOOLEAN, ver : Nat, late : BOOLEAN]],
           codes' \in [CodeKeys -> [id : Nat, tries : Nat, u : Users]],
           crashes' = crashes, RowsWhole', TokensOwned',
           \A k \in CodeKeys : codes'[k] = codes[k] \/ codes'[k].tries = 0,
           lockedTries' \in [Users -> Nat],
           \A u \in Users : lockedTries'[u] = IF users'[u].locked THEN lockedTries[u] ELSE 0,
           \A u \in Users : \/ users'[u].fails = 0
                            \/ users'[u].fails = users[u].fails /\ r \notin Locking(u),
           \A t \in Tokens : Outlived(t)' =>
             \/ Ends(q, refresh'[t].u)
             \/ Outlived(t) /\ refresh'[t].u = refresh[t].u /\ ~Ends(req[r], refresh[t].u)
    PROVE  TableInv'
<1>1. TableTypes /\ SessionsEnding /\ TriesCounted /\ TriesLocked /\ FailsCounted
  BY DEF TableInv
<1>2. TriesCounted'
  BY <1>1, TriesKept
<1>3. TriesLocked'
  BY <1>1, LocksWritten
<1>4. FailsCounted'
  BY <1>1, FailsKept
<1>5. SessionsEnding'
  BY <1>1, EndingKept
<1> QED BY <1>2, <1>3, <1>4, <1>5, Assembled

\* Without a lock there is nothing in the history.
LEMMA HistoryKept ==
    ASSUME TableInv, \A u \in Users : users'[u].locked = users[u].locked, lockedTries' = lockedTries \/ LockHistory
    PROVE  /\ lockedTries' = lockedTries /\ lockedTries' \in [Users -> Nat]
           /\ \A u \in Users : lockedTries'[u] = IF users'[u].locked THEN lockedTries[u] ELSE 0
<1>1. lockedTries \in [Users -> Nat] /\ \A u \in Users : users[u].locked \in BOOLEAN /\ (~users[u].locked => lockedTries[u] = 0)
  BY DEF TableInv, TableTypes, TriesLocked, UserRows
<1>2. CASE LockHistory
  BY <1>1, <1>2 DEF LockHistory
<1>3. CASE lockedTries' = lockedTries
  BY <1>1, <1>3
<1> QED BY <1>2, <1>3

\* What a statement does to its row.
LEMMA UpdatedIs ==
    ASSUME NEW row \in UserRows, NEW s \in Statements, s.do \in RowStatements
    PROVE  /\ Updated(row, s) \in UserRows
           /\ s.do \notin {"lock", "unlock"} => Updated(row, s).locked = row.locked
           /\ s.do = "incFails" => Updated(row, s).fails = row.fails + 1
           /\ s.do = "lock" => Updated(row, s).fails = 0
           /\ s.do # "incFails" => Updated(row, s).fails = 0 \/ Updated(row, s).fails = row.fails
           /\ s.do # "setPassword" => Updated(row, s).pwAt = row.pwAt
           /\ s.do # "setStatus" => Updated(row, s).st = row.st
           /\ s.do = "setStatus" => Updated(row, s).st = s.x /\ s.x # "none"
           /\ s.do \notin {"setIds", "setVerified", "clearIds"} =>
                 Updated(row, s).ids = row.ids /\ Updated(row, s).ok = row.ok
           /\ s.do = "setVerified" => Updated(row, s).ids = row.ids /\ row.ok \subseteq Updated(row, s).ok
           /\ s.do = "clearIds" => Updated(row, s).ids = row.ids \ s.ids /\ Updated(row, s).ok = row.ok \ s.ids
<1> PICK new : new = Updated(row, s)
  OBVIOUS
<1>1. CASE s.do = "setPassword"
  <2>1. new = [row EXCEPT !.pw = s.x, !.ver = row.ver + 1, !.pwAt = row.ver + 1]
    BY <1>1 DEF Updated, CredentialStatements, Credential
  <2>2. s.x \in Passwords
    BY <1>1, Kinds DEF PasswordStatements
  <2>3. /\ row.ver + 1 \in Nat /\ "locked" \in DOMAIN row /\ "fails" \in DOMAIN row /\ "st" \in DOMAIN row
        /\ "ids" \in DOMAIN row /\ "ok" \in DOMAIN row
    BY DEF UserRows
  <2>4. new \in UserRows
    BY <2>1, <2>2, <2>3 DEF UserRows
  <2>5. /\ new.locked = row.locked /\ new.fails = row.fails /\ new.st = row.st
        /\ new.ids = row.ids /\ new.ok = row.ok
    BY <2>1, <2>3
  <2> QED BY <1>1, <2>4, <2>5
<1>2. CASE s.do = "bumpVersion"
  <2>1. new = [row EXCEPT !.ver = row.ver + 1]
    BY <1>2 DEF Updated, CredentialStatements, Credential
  <2> QED BY <1>2, <2>1 DEF UserRows
<1>3. CASE s.do = "setTotp"
  <2>1. new = [row EXCEPT !.totp = s.on]
    BY <1>3 DEF Updated, CredentialStatements, Credential
  <2>2. s.on \in BOOLEAN
    BY <1>3, Kinds DEF TotpStatements
  <2> QED BY <1>3, <2>1, <2>2 DEF UserRows
<1>4. CASE s.do \in {"setIds", "setVerified", "clearIds"}
  <2>1. s.ids \in SUBSET Identifiers
    BY <1>4, Kinds DEF IdStatements
  <2>2. CASE s.do = "setIds"
    <3>1. new = [row EXCEPT !.ids = row.ids \cup s.ids, !.ok = row.ok \ s.ids]
      BY <2>2 DEF Updated, CredentialStatements, Credential
    <3>2. /\ new \in UserRows /\ new.locked = row.locked /\ new.fails = row.fails /\ new.st = row.st
          /\ new.pwAt = row.pwAt
      BY <2>1, <3>1, ZenonT(30) DEF UserRows
    <3> QED BY <2>2, <3>2
  <2>3. CASE s.do = "setVerified"
    <3>1. new = [row EXCEPT !.ok = row.ok \cup s.ids]
      BY <2>3 DEF Updated, CredentialStatements, Credential
    <3> QED BY <2>1, <2>3, <3>1 DEF UserRows
  <2>4. CASE s.do = "clearIds"
    <3>1. new = [row EXCEPT !.ids = row.ids \ s.ids, !.ok = row.ok \ s.ids]
      BY <2>4 DEF Updated, CredentialStatements, Credential
    <3>2. /\ new \in UserRows /\ new.locked = row.locked /\ new.fails = row.fails /\ new.st = row.st
          /\ new.pwAt = row.pwAt /\ new.ids = row.ids \ s.ids /\ new.ok = row.ok \ s.ids
      BY <2>1, <3>1, ZenonT(30) DEF UserRows
    <3> QED BY <2>4, <3>2
  <2> QED BY <1>4, <2>2, <2>3, <2>4
<1>5. CASE s.do = "setStatus"
  <2>1. new = [row EXCEPT !.st = s.x]
    BY <1>5 DEF Updated, CredentialStatements, Standing
  <2>2. s.x \in {"pending", "active", "banned"}
    BY <1>5, Kinds DEF StatusStatements
  <2> QED BY <1>5, <2>1, <2>2 DEF UserRows, Statuses
<1>6. CASE s.do = "setRole"
  <2>1. new = [row EXCEPT !.role = s.x]
    BY <1>6 DEF Updated, CredentialStatements, Standing
  <2>2. s.x \in Roles
    BY <1>6, Kinds DEF RoleStatements
  <2> QED BY <1>6, <2>1, <2>2 DEF UserRows
<1>7. CASE s.do = "incFails"
  <2>1. new = [row EXCEPT !.fails = row.fails + 1]
    BY <1>7 DEF Updated, CredentialStatements, Standing
  <2> QED BY <1>7, <2>1 DEF UserRows
<1>8. CASE s.do = "clearFails"
  <2>1. new = [row EXCEPT !.fails = 0]
    BY <1>8 DEF Updated, CredentialStatements, Standing
  <2> QED BY <1>8, <2>1 DEF UserRows
<1>9. CASE s.do = "lock"
  <2> PICK b \in BOOLEAN : b = TRUE
    OBVIOUS
  <2>1. new = [row EXCEPT !.locked = b, !.fails = 0]
    BY <1>9 DEF Updated, CredentialStatements, Standing
  <2>3. /\ "fails" \in DOMAIN row /\ "st" \in DOMAIN row /\ "pwAt" \in DOMAIN row
        /\ "ids" \in DOMAIN row /\ "ok" \in DOMAIN row
    BY DEF UserRows
  <2> PICK a : a = [row EXCEPT !.fails = 0]
    OBVIOUS
  <2>4. a \in UserRows
    BY DEF UserRows
  <2>5. new \in UserRows
    <3>1. [a EXCEPT !.locked = b] \in UserRows
      BY <2>4 DEF UserRows
    <3>2. new = [a EXCEPT !.locked = b]
      BY <2>1
    <3> QED BY <3>1, <3>2
  <2>6. new.fails = 0 /\ new.st = row.st /\ new.pwAt = row.pwAt /\ new.ids = row.ids /\ new.ok = row.ok
    BY <2>1, <2>3
  <2> QED BY <1>9, <2>5, <2>6
<1>10. CASE s.do = "unlock"
  <2> PICK b \in BOOLEAN : b = FALSE
    OBVIOUS
  <2>1. new = [row EXCEPT !.locked = b, !.fails = 0]
    BY <1>10 DEF Updated, CredentialStatements, Standing
  <2>3. /\ "fails" \in DOMAIN row /\ "st" \in DOMAIN row /\ "pwAt" \in DOMAIN row
        /\ "ids" \in DOMAIN row /\ "ok" \in DOMAIN row
    BY DEF UserRows
  <2> PICK a : a = [row EXCEPT !.fails = 0]
    OBVIOUS
  <2>4. a \in UserRows
    BY DEF UserRows
  <2>5. new \in UserRows
    <3>1. [a EXCEPT !.locked = b] \in UserRows
      BY <2>4 DEF UserRows
    <3>2. new = [a EXCEPT !.locked = b]
      BY <2>1
    <3> QED BY <3>1, <3>2
  <2>6. new.fails = 0 /\ new.st = row.st /\ new.pwAt = row.pwAt /\ new.ids = row.ids /\ new.ok = row.ok
    BY <2>1, <2>3
  <2> QED BY <1>10, <2>5, <2>6
<1> QED BY <1>1, <1>2, <1>3, <1>4, <1>5, <1>6, <1>7, <1>8, <1>9, <1>10 DEF RowStatements, CredentialStatements

LEMMA StepWriteRow ==
    ASSUME AccountInv, NEW r \in Reqs, WriteRow(r), UNCHANGED memory
    PROVE  AccountInv'
<1>1. /\ TableInv /\ TableTypes /\ RowsWhole /\ TokensOwned /\ req[r].at = "run"
      /\ UNCHANGED <<refresh, codes, cache, reload, jwts, ip, bounds>>
  BY DEF AccountInv, TableInv, WriteRow
<1> PICK s : s = Stmt(r)
  OBVIOUS
<1>2. /\ s.do \in RowStatements \ {"incFails"} /\ s = req[r].todo[1] /\ s \in Statements
      /\ s.do = "setPassword" => /\ Tail(req[r].todo) # <<>> /\ Tail(req[r].todo)[1].do = "revokeAll"
                                 /\ Tail(req[r].todo)[1].u = s.u
  BY <1>1, RunningIs DEF WriteRow, RowStatements, CredentialStatements
<1>3. /\ s.u \in Users /\ req[r] \in Requests /\ RequestFits(req[r])
      /\ s.do \notin {"reread", "cache", "revokeAll", "incFails"}
  BY <1>1, <1>2, Kinds, RequestHas DEF RowStatements, CredentialStatements
<1>4. MemoryTypes'
  BY <1>1, MemoryKept DEF AccountInv, bounds, memory
<1>5. ASSUME s.do = "setIds", Continue(r, <<>>), UNCHANGED users
      PROVE  TableInv'
  <2>1. lockedTries' = lockedTries
    BY <1>1, <1>5, HistoryKept DEF WriteRow
  <2>2. req[r].todo[1].do \notin {"reread", "cache", "revokeAll", "lock"}
    BY <1>2, <1>5
  <2> QED BY <1>1, <1>5, <2>1, <2>2, QuietContinue, PlanEmpty DEF bounds
<1>6. ASSUME users' = [users EXCEPT ![s.u] = IF users[s.u].st = "none" THEN users[s.u] ELSE Updated(users[s.u], s)],
             Done(r, IF s.do \in Mutators THEN <<OnUser("reread", s.u)>> ELSE <<>>), LockHistory
      PROVE  TableInv'
  <2> PICK pre : pre = IF s.do \in Mutators THEN <<OnUser("reread", s.u)>> ELSE <<>>
    OBVIOUS
  <2>1. Plan(req[r], pre)
    BY <1>3, MadeUser, FreeIsWarranted, PlanEmpty DEF UserDos
  <2>2. PICK q \in Requests : /\ Turn(r, q) /\ q.at \in {"idle", "run"} /\ q.todo = pre \o Tail(req[r].todo)
                              /\ ~Begins(q, "countTry")
    BY <1>1, <1>6, <2>1, DoneIs DEF bounds
  <2> PICK new \in UserRows : new = IF users[s.u].st = "none" THEN users[s.u] ELSE Updated(users[s.u], s)
    BY <1>1, <1>2, <1>3, UpdatedIs DEF TableTypes
  <2>3. /\ users' \in [Users -> UserRows]
        /\ \A u \in Users : users'[u] = IF u = s.u THEN new ELSE users[u]
    BY <1>1, <1>3, <1>6 DEF TableTypes
  <2>4. users[s.u] \in UserRows
    BY <1>1, <1>3 DEF TableTypes
  <2>5. /\ new.st = "none" => new = NoUser /\ users[s.u] = NoUser
        /\ users[s.u].st = "none" => new = NoUser
    <3>1. users[s.u].st = "none" => users[s.u] = NoUser /\ NoUser.st = "none"
      BY <1>1, <1>3 DEF RowsWhole, NoUser
    <3> QED BY <1>2, <2>4, <3>1, UpdatedIs, SMTT(30)
  <2>6. new.fails = 0 \/ (new.fails = users[s.u].fails /\ s.do # "lock")
    BY <1>2, <2>4, <2>5, UpdatedIs, SMTT(30) DEF NoUser
  <2>7. s.do # "setPassword" => new.pwAt = users[s.u].pwAt
    BY <1>2, <2>4, UpdatedIs
  <2>8. RowsWhole' /\ TokensOwned'
    <3>1. RowsWhole'
      BY <1>1, <2>3, <2>5 DEF RowsWhole
    <3>2. \A u \in Users : users'[u].st = "none" => users[u].st = "none"
      BY <2>3, <2>5 DEF NoUser
    <3>3. \A t \in Tokens : refresh[t].u \in Users
      BY <1>1 DEF TableTypes
    <3>4. refresh' = refresh
      BY <1>1
    <3>5. TokensOwned'
      BY <1>1, <3>2, <3>3, <3>4 DEF TokensOwned
    <3> QED BY <3>1, <3>5
  <2>9. lockedTries' \in [Users -> Nat] /\ \A u \in Users : lockedTries'[u] = IF users'[u].locked THEN lockedTries[u] ELSE 0
    BY <1>1, <1>6 DEF LockHistory, TableTypes
  <2>10. \A u \in Users : users'[u].fails = 0 \/ (users'[u].fails = users[u].fails /\ r \notin Locking(u))
    BY <1>2, <2>3, <2>6 DEF Locking, Begins
  <2>11. \A u : ~Ends(req[r], u)
    BY <1>2, <1>3, NotEnding
  <2>12. s.do = "setPassword" => Ends(q, s.u)
    <3> SUFFICES ASSUME s.do = "setPassword" PROVE Ends(q, s.u)
      OBVIOUS
    <3>1. pre = <<OnUser("reread", s.u)>>
      BY DEF Mutators, RowStatements, CredentialStatements
    <3> PICK rest : rest = Tail(req[r].todo)
      OBVIOUS
    <3>2. rest \in Seq(Statements) /\ rest # <<>> /\ rest[1].do = "revokeAll" /\ rest[1].u = s.u
      BY <1>1, <1>2, RunningIs DEF Plan
    <3> PICK re : re = OnUser("reread", s.u)
      OBVIOUS
    <3>3. re.do = "reread" /\ re \in Statements
      BY <1>3, MadeUser DEF OnUser, Free, UserDos
    <3> PICK todo : todo = <<re>> \o rest
      OBVIOUS
    <3>4. 2 \in DOMAIN todo /\ todo[1] = re /\ todo[2] = rest[1] /\ q.todo = todo
      <4>1. <<re>> \in Seq(Statements) /\ Len(<<re>>) = 1 /\ <<re>>[1] = re
        BY <3>3
      <4>2. Len(rest) \in Nat \ {0}
        BY <3>2, TailOf
      <4>3. /\ todo \in Seq(Statements) /\ Len(todo) = 1 + Len(rest)
            /\ \A i \in 1 .. 1 + Len(rest) : todo[i] = IF i <= 1 THEN <<re>>[i] ELSE rest[i - 1]
        BY <3>2, <4>1, ConcatProperties
      <4>4. DOMAIN todo = 1 .. 1 + Len(rest) /\ 1 \in 1 .. 1 + Len(rest) /\ 2 \in 1 .. 1 + Len(rest)
        BY <4>2, <4>3
      <4>5. todo[1] = re
        BY <4>1, <4>3, <4>4
      <4>6. todo[2] = rest[1]
        BY <4>3, <4>4
      <4>7. q.todo = todo
        BY <2>2, <3>1
      <4> QED BY <4>4, <4>5, <4>6, <4>7
    <3>5. \A j \in 1 .. 2 - 1 : q.todo[j].do \in {"reread", "cache"}
      BY <3>3, <3>4
    <3> QED BY <3>2, <3>4, <3>5 DEF Ends
  <2>13. \A t \in Tokens : Outlived(t)' =>
             \/ Ends(q, refresh'[t].u)
             \/ Outlived(t) /\ refresh'[t].u = refresh[t].u /\ ~Ends(req[r], refresh[t].u)
    <3> SUFFICES ASSUME NEW t \in Tokens, Outlived(t)', ~Ends(q, refresh'[t].u)
                 PROVE  Outlived(t) /\ refresh'[t].u = refresh[t].u
      BY <2>11
    <3>1. refresh' = refresh /\ refresh[t].u \in Users
      BY <1>1 DEF TableTypes
    <3>2. users'[refresh[t].u].pwAt = users[refresh[t].u].pwAt
      BY <2>3, <2>7, <2>12, <3>1
    <3> QED BY <3>1, <3>2 DEF Outlived
  <2> QED BY <1>1, <2>2, <2>3, <2>8, <2>9, <2>10, <2>13, Written DEF TableTypes, bounds
<1>7. TableInv'
  <2>1. \/ s.do = "setIds" /\ Continue(r, <<>>) /\ UNCHANGED users
        \/ /\ users' = [users EXCEPT ![s.u] = IF users[s.u].st = "none" THEN users[s.u] ELSE Updated(users[s.u], s)]
           /\ Done(r, IF s.do \in Mutators THEN <<OnUser("reread", s.u)>> ELSE <<>>)
    BY DEF WriteRow
  <2> QED BY <1>5, <1>6, <2>1 DEF WriteRow
<1> QED BY <1>4, <1>7 DEF AccountInv

\* The row of a statement that is running.
LEMMA StatementIs ==
    ASSUME AccountInv, NEW r \in Reqs, NEW do, Running(r, do), do # "countTry"
    PROVE  /\ TableInv /\ TableTypes /\ RowsWhole /\ TokensOwned /\ req[r].at = "run"
           /\ Stmt(r) \in Statements /\ Stmt(r).do = do /\ Stmt(r) = req[r].todo[1] /\ Stmt(r).u \in Users
           /\ do # "lock" => \A u : r \notin Locking(u)
           /\ do \notin {"reread", "cache", "revokeAll"} => \A u : ~Ends(req[r], u)
<1>1. TableInv /\ TableTypes /\ RowsWhole /\ TokensOwned /\ req[r].at = "run" /\ Stmt(r).do = do
  BY DEF AccountInv, TableInv, Running, Stmt
<1>2. Stmt(r) \in Statements /\ Stmt(r) = req[r].todo[1]
  BY <1>1, RunningIs
<1>3. Stmt(r).u \in Users
  BY <1>2, Kinds
<1>4. do # "lock" => \A u : r \notin Locking(u)
  BY <1>1, <1>2 DEF Locking, Begins
<1>5. do \notin {"reread", "cache", "revokeAll"} => \A u : ~Ends(req[r], u)
  BY <1>1, <1>2, NotEnding, RequestHas
<1> QED BY <1>1, <1>2, <1>3, <1>4, <1>5

LEMMA WithoutTokensIs ==
    ASSUME TableTypes, TokensOwned, NEW u
    PROVE  LET after == WithoutTokens(refresh, u) IN
           /\ after \in [Tokens -> [u : Users, live : BOOLEAN, used : BOOLEAN, ver : Nat, late : BOOLEAN]]
           /\ \A t \in Tokens : /\ after[t].u = refresh[t].u /\ after[t].ver = refresh[t].ver
                                /\ after[t].used = refresh[t].used /\ after[t].late = refresh[t].late
                                /\ after[t].live => refresh[t].live /\ refresh[t].u # u
<1> DEFINE after == WithoutTokens(refresh, u)
           T == [u : Users, live : BOOLEAN, used : BOOLEAN, ver : Nat, late : BOOLEAN]
<1>1. ASSUME NEW t \in Tokens
      PROVE  /\ after[t] \in T /\ after[t].u = refresh[t].u /\ after[t].ver = refresh[t].ver
             /\ after[t].used = refresh[t].used /\ after[t].late = refresh[t].late
             /\ after[t].live => refresh[t].live /\ refresh[t].u # u
  <2>1. refresh[t] \in T /\ (refresh[t].live => refresh[t].used)
    BY DEF TableTypes, TokensOwned
  <2> PICK old \in T : old = refresh[t]
    BY <2>1
  <2>2. CASE old.used /\ old.u = u
    <3>1. after[t] = [old EXCEPT !.live = FALSE]
      BY <2>2 DEF WithoutTokens
    <3> PICK no \in BOOLEAN : no = FALSE
      OBVIOUS
    <3> PICK new : new = [old EXCEPT !.live = no]
      OBVIOUS
    <3>2. /\ new \in T /\ new.live = no /\ new.u = old.u /\ new.ver = old.ver
          /\ new.used = old.used /\ new.late = old.late
      OBVIOUS
    <3> QED BY <3>1, <3>2
  <2>3. CASE ~(old.used /\ old.u = u)
    <3>1. after[t] = old
      BY <2>3 DEF WithoutTokens
    <3> QED BY <2>1, <2>3, <3>1
  <2> QED BY <2>2, <2>3
<1>2. after = [t \in Tokens |-> after[t]]
  BY DEF WithoutTokens
<1> HIDE DEF after, T
<1>3. after \in [Tokens -> T]
  BY <1>1, <1>2
<1> QED BY <1>1, <1>3 DEF after, T

LEMMA StepRevokeRefresh ==
    ASSUME AccountInv, NEW r \in Reqs, RevokeRefresh(r), UNCHANGED memory
    PROVE  AccountInv'
<1> PICK s : s = Stmt(r)
  OBVIOUS
<1>1. Running(r, "revoke") /\ Done(r, <<>>) /\ UNCHANGED <<users, codes, cache, reload, jwts, ip, bounds, lockedTries>>
  BY DEF RevokeRefresh
<1>2. /\ TableInv /\ TableTypes /\ RowsWhole /\ TokensOwned /\ req[r].at = "run" /\ s \in Statements /\ s.do = "revoke"
      /\ (\A u : r \notin Locking(u)) /\ (\A u : ~Ends(req[r], u))
  BY <1>1, StatementIs
<1> PICK n \in Tokens : n = s.n
  BY <1>2, Kinds DEF TokenStatements
<1>3. PICK q \in Requests : Turn(r, q) /\ q.at \in {"idle", "run"} /\ ~Begins(q, "countTry")
  BY <1>1, <1>2, DoneIs, PlanEmpty DEF bounds
<1> PICK no \in BOOLEAN : no = FALSE
  OBVIOUS
<1>4. refresh' = [refresh EXCEPT ![n] = [refresh[n] EXCEPT !.live = no]]
  BY DEF RevokeRefresh
<1>5. refresh' \in [Tokens -> [u : Users, live : BOOLEAN, used : BOOLEAN, ver : Nat, late : BOOLEAN]]
  BY <1>2, <1>4 DEF TableTypes
<1>6. \A t \in Tokens : /\ refresh'[t].u = refresh[t].u /\ refresh'[t].ver = refresh[t].ver
                        /\ refresh'[t].used = refresh[t].used /\ refresh'[t].late = refresh[t].late
                        /\ refresh'[t].live => refresh[t].live
  BY <1>2, <1>4 DEF TableTypes
<1>7. TokensOwned' /\ RowsWhole'
  BY <1>1, <1>2, <1>6 DEF TokensOwned, RowsWhole
<1>8. \A t \in Tokens : Outlived(t)' => Outlived(t) /\ refresh'[t].u = refresh[t].u
  BY <1>1, <1>6 DEF Outlived
<1>9. TableInv'
  <2>1. lockedTries' \in [Users -> Nat] /\ \A u \in Users : lockedTries'[u] = IF users'[u].locked THEN lockedTries[u] ELSE 0
    BY <1>1, <1>2, HistoryKept
  <2> QED BY <1>1, <1>2, <1>3, <1>5, <1>7, <1>8, <2>1, Written DEF TableTypes, bounds
<1>10. MemoryTypes'
  BY <1>1, MemoryKept DEF AccountInv, bounds, memory
<1> QED BY <1>9, <1>10 DEF AccountInv

LEMMA StepRevokeAllRefresh ==
    ASSUME AccountInv, NEW r \in Reqs, RevokeAllRefresh(r), UNCHANGED memory
    PROVE  AccountInv'
<1> PICK s : s = Stmt(r)
  OBVIOUS
<1>1. /\ Running(r, "revokeAll") /\ Done(r, <<>>) /\ refresh' = WithoutTokens(refresh, s.u)
      /\ UNCHANGED <<users, codes, cache, reload, jwts, ip, bounds, lockedTries>>
  BY DEF RevokeAllRefresh
<1>2. /\ TableInv /\ TableTypes /\ RowsWhole /\ TokensOwned /\ req[r].at = "run" /\ s \in Statements /\ s.do = "revokeAll"
      /\ s = req[r].todo[1] /\ (\A u : r \notin Locking(u))
  BY <1>1, StatementIs
<1>3. PICK q \in Requests : Turn(r, q) /\ q.at \in {"idle", "run"} /\ ~Begins(q, "countTry")
  BY <1>1, <1>2, DoneIs, PlanEmpty DEF bounds
<1>4. /\ refresh' \in [Tokens -> [u : Users, live : BOOLEAN, used : BOOLEAN, ver : Nat, late : BOOLEAN]]
      /\ \A t \in Tokens : /\ refresh'[t].u = refresh[t].u /\ refresh'[t].ver = refresh[t].ver
                           /\ refresh'[t].used = refresh[t].used /\ refresh'[t].late = refresh[t].late
                           /\ refresh'[t].live => refresh[t].live /\ refresh[t].u # s.u
  BY <1>1, <1>2, WithoutTokensIs, SMTT(30)
<1>5. TokensOwned' /\ RowsWhole'
  <2>1. RowsWhole'
    BY <1>1, <1>2 DEF RowsWhole
  <2>2. TokensOwned'
    <3> SUFFICES ASSUME NEW t \in Tokens, refresh'[t].live
                 PROVE  refresh'[t].used /\ users'[refresh'[t].u].st # "none"
      BY DEF TokensOwned
    <3>1. refresh[t].live /\ refresh'[t].u = refresh[t].u /\ refresh'[t].used = refresh[t].used
      BY <1>4
    <3> QED BY <1>1, <1>2, <3>1 DEF TokensOwned
  <2> QED BY <2>1, <2>2
<1>6. \A u : u # s.u => ~Ends(req[r], u)
  <2> SUFFICES ASSUME NEW u, u # s.u, Ends(req[r], u) PROVE FALSE
    OBVIOUS
  <2>1. PICK i \in DOMAIN req[r].todo :
          /\ req[r].todo[i].do = "revokeAll" /\ req[r].todo[i].u = u
          /\ \A j \in 1 .. i - 1 : req[r].todo[j].do \in {"reread", "cache"}
    BY DEF Ends
  <2>2. i \in Nat \ {0}
    <3>1. req[r].todo \in Seq(Statements \cup CountStatements)
      BY <1>2, RunningIs
    <3> QED BY <3>1
  <2>3. i # 1
    BY <1>2, <2>1
  <2>4. 1 \in 1 .. i - 1
    BY <2>2, <2>3
  <2> QED BY <1>2, <2>1, <2>4
<1>7. \A t \in Tokens : Outlived(t)' => /\ Outlived(t) /\ refresh'[t].u = refresh[t].u
                                        /\ ~Ends(req[r], refresh[t].u)
  BY <1>1, <1>4, <1>6 DEF Outlived
<1>8. TableInv'
  <2>1. lockedTries' \in [Users -> Nat] /\ \A u \in Users : lockedTries'[u] = IF users'[u].locked THEN lockedTries[u] ELSE 0
    BY <1>1, <1>2, HistoryKept
  <2> QED BY <1>1, <1>2, <1>3, <1>4, <1>5, <1>7, <2>1, Written DEF TableTypes, bounds
<1>9. MemoryTypes'
  BY <1>1, MemoryKept DEF AccountInv, bounds, memory
<1> QED BY <1>8, <1>9 DEF AccountInv

LEMMA StepDeleteCodes ==
    ASSUME AccountInv, NEW r \in Reqs, DeleteCodes(r), UNCHANGED memory
    PROVE  AccountInv'
<1>1. /\ Running(r, "deleteCodes") /\ Done(r, <<>>)
      /\ UNCHANGED <<users, refresh, cache, reload, jwts, ip, bounds, lockedTries>>
  BY DEF DeleteCodes
<1>2. /\ TableInv /\ TableTypes /\ RowsWhole /\ TokensOwned /\ req[r].at = "run"
      /\ (\A u : r \notin Locking(u)) /\ (\A u : ~Ends(req[r], u))
  BY <1>1, StatementIs
<1>3. PICK q \in Requests : Turn(r, q) /\ q.at \in {"idle", "run"} /\ ~Begins(q, "countTry")
  BY <1>1, <1>2, DoneIs, PlanEmpty DEF bounds
<1>4. /\ codes' \in [CodeKeys -> [id : Nat, tries : Nat, u : Users]]
      /\ \A k \in CodeKeys : codes'[k] = codes[k] \/ codes'[k].tries = 0
  <2>1. NoCode \in [id : Nat, tries : Nat, u : Users] /\ NoCode.tries = 0
    BY NobodyIs DEF NoCode, Nobody
  <2> QED BY <1>2, <2>1 DEF DeleteCodes, TableTypes
<1>5. TokensOwned' /\ RowsWhole'
  BY <1>1, <1>2 DEF TokensOwned, RowsWhole
<1>6. \A t \in Tokens : Outlived(t)' => Outlived(t) /\ refresh'[t].u = refresh[t].u
  BY <1>1 DEF Outlived
<1>7. TableInv'
  <2>1. lockedTries' \in [Users -> Nat] /\ \A u \in Users : lockedTries'[u] = IF users'[u].locked THEN lockedTries[u] ELSE 0
    BY <1>1, <1>2, HistoryKept
  <2> QED BY <1>1, <1>2, <1>3, <1>4, <1>5, <1>6, <2>1, Written DEF TableTypes, bounds
<1>8. MemoryTypes'
  BY <1>1, MemoryKept DEF AccountInv, bounds, memory
<1> QED BY <1>7, <1>8 DEF AccountInv

LEMMA StepSendCode ==
    ASSUME AccountInv, NEW r \in Reqs, SendCode(r), UNCHANGED memory
    PROVE  AccountInv'
<1> PICK s : s = Stmt(r)
  OBVIOUS
<1>1. /\ Running(r, "sendCode") /\ Done(r, <<>>)
      /\ UNCHANGED <<users, refresh, cache, reload, jwts, ip, use, calls, crashes, lockedTries>>
  BY DEF SendCode
<1>2. /\ TableInv /\ TableTypes /\ RowsWhole /\ TokensOwned /\ req[r].at = "run" /\ s \in Statements /\ s.do = "sendCode"
      /\ (\A u : r \notin Locking(u)) /\ (\A u : ~Ends(req[r], u))
  BY <1>1, StatementIs
<1>3. PICK q \in Requests : Turn(r, q) /\ q.at \in {"idle", "run"} /\ ~Begins(q, "countTry")
  BY <1>1, <1>2, DoneIs, PlanEmpty
<1>4. /\ codes' \in [CodeKeys -> [id : Nat, tries : Nat, u : Users]]
      /\ \A k \in CodeKeys : codes'[k] = codes[k] \/ codes'[k].tries = 0
      /\ sent' \in Nat
  <2>1. s.c \in CodeKeys /\ s.u \in Users
    BY <1>2, Kinds DEF SendStatements
  <2>2. sent \in Nat
    BY DEF AccountInv, MemoryTypes
  <2>3. \/ codes' = codes /\ sent' = sent
        \/ sent' = sent + 1 /\ codes' = [codes EXCEPT ![s.c] = [id |-> sent + 1, tries |-> 0, u |-> s.u]]
    BY DEF SendCode
  <2> PICK new : new = [id |-> sent + 1, tries |-> 0, u |-> s.u]
    OBVIOUS
  <2>4. new \in [id : Nat, tries : Nat, u : Users] /\ new.tries = 0
    BY <2>1, <2>2
  <2> QED BY <1>2, <2>1, <2>2, <2>3, <2>4 DEF TableTypes
<1>5. TokensOwned' /\ RowsWhole'
  BY <1>1, <1>2 DEF TokensOwned, RowsWhole
<1>6. \A t \in Tokens : Outlived(t)' => Outlived(t) /\ refresh'[t].u = refresh[t].u
  BY <1>1 DEF Outlived
<1>7. TableInv'
  <2>1. lockedTries' \in [Users -> Nat] /\ \A u \in Users : lockedTries'[u] = IF users'[u].locked THEN lockedTries[u] ELSE 0
    BY <1>1, <1>2, HistoryKept
  <2> QED BY <1>1, <1>2, <1>3, <1>4, <1>5, <1>6, <2>1, Written DEF TableTypes
<1>8. MemoryTypes'
  BY <1>1, <1>4 DEF AccountInv, MemoryTypes, memory
<1> QED BY <1>7, <1>8 DEF AccountInv

LEMMA StepDeleteRows ==
    ASSUME AccountInv, NEW r \in Reqs, DeleteRows(r), UNCHANGED memory
    PROVE  AccountInv'
<1> PICK s : s = Stmt(r)
  OBVIOUS
<1>1. /\ Running(r, "deleteAccount") /\ Done(r, <<OnUser("reread", s.u)>>) /\ refresh' = WithoutTokens(refresh, s.u)
      /\ UNCHANGED <<cache, reload, jwts, ip, bounds, lockedTries>>
  BY DEF DeleteRows
<1>2. /\ TableInv /\ TableTypes /\ RowsWhole /\ TokensOwned /\ req[r].at = "run" /\ s.u \in Users
      /\ (\A u : r \notin Locking(u)) /\ (\A u : ~Ends(req[r], u))
  BY <1>1, StatementIs
<1>3. PICK q \in Requests : Turn(r, q) /\ q.at \in {"idle", "run"} /\ ~Begins(q, "countTry")
  BY <1>1, <1>2, DoneIs, MadeUser, FreeIsWarranted DEF bounds, UserDos
<1> PICK row \in UserRows : row = users[s.u]
  BY <1>2 DEF TableTypes
<1> PICK new : new = IF row.st = "none" THEN row ELSE Tombstone(row)
  OBVIOUS
<1>4. /\ new \in UserRows /\ new.locked = row.locked /\ new.fails = row.fails /\ new.pwAt = row.pwAt
      /\ new.st = "none" <=> row.st = "none" /\ new = row
  <2>1. row.ids \cap {"wxweb", "stray", "union"} \in SUBSET Identifiers /\ {} \in SUBSET Identifiers
    BY DEF Identifiers, WechatIds
  <2> PICK grave : grave = Tombstone(row)
    OBVIOUS
  <2>2. grave = [st |-> "deleted", ver |-> row.ver, pwAt |-> row.pwAt, pw |-> "unusable", totp |-> FALSE,
                 role |-> row.role, ids |-> row.ids \cap {"wxweb", "stray", "union"}, ok |-> {},
                 fails |-> row.fails, locked |-> row.locked]
    BY ZenonT(30) DEF Tombstone, NoUser
  <2>3. grave \in UserRows
    BY <2>1, <2>2 DEF UserRows, Statuses
  <2>4. grave.locked = row.locked /\ grave.fails = row.fails /\ grave.pwAt = row.pwAt /\ grave.st = "deleted"
    BY <2>2
  <2> QED BY <2>3, <2>4
<1>5. users' = [users EXCEPT ![s.u] = new]
  BY DEF DeleteRows
<1>6. /\ users' \in [Users -> UserRows]
      /\ \A u \in Users : users'[u] = IF u = s.u THEN new ELSE users[u]
  BY <1>2, <1>4, <1>5 DEF TableTypes
<1>7. \A u \in Users : /\ users'[u].locked = users[u].locked /\ users'[u].fails = users[u].fails
                       /\ users'[u].pwAt = users[u].pwAt /\ (users'[u].st = "none" => users'[u] = users[u])
  BY <1>4, <1>6
<1>8. /\ refresh' \in [Tokens -> [u : Users, live : BOOLEAN, used : BOOLEAN, ver : Nat, late : BOOLEAN]]
      /\ \A t \in Tokens : /\ refresh'[t].u = refresh[t].u /\ refresh'[t].ver = refresh[t].ver
                           /\ refresh'[t].used = refresh[t].used /\ refresh'[t].late = refresh[t].late
                           /\ refresh'[t].live => refresh[t].live /\ refresh[t].u # s.u
                           /\ refresh[t].u \in Users
  BY <1>1, <1>2, WithoutTokensIs DEF TableTypes
<1>9. /\ codes' \in [CodeKeys -> [id : Nat, tries : Nat, u : Users]]
      /\ \A k \in CodeKeys : codes'[k] = codes[k] \/ codes'[k].tries = 0
  <2>1. NoCode \in [id : Nat, tries : Nat, u : Users] /\ NoCode.tries = 0
    BY NobodyIs DEF NoCode, Nobody
  <2> QED BY <1>2, <2>1 DEF DeleteRows, TableTypes
<1>10. RowsWhole'
  BY <1>2, <1>7 DEF RowsWhole
<1>11. TokensOwned'
  <2> SUFFICES ASSUME NEW t \in Tokens, refresh'[t].live
               PROVE  refresh'[t].used /\ users'[refresh'[t].u].st # "none"
    BY DEF TokensOwned
  <2>1. refresh[t].live /\ refresh'[t].u = refresh[t].u /\ refresh'[t].used = refresh[t].used /\ refresh[t].u \in Users
    BY <1>8
  <2> QED BY <1>2, <1>7, <2>1 DEF TokensOwned
<1>12. \A t \in Tokens : Outlived(t)' => Outlived(t) /\ refresh'[t].u = refresh[t].u
  BY <1>7, <1>8 DEF Outlived
<1>13. TableInv'
  <2>1. lockedTries' \in [Users -> Nat] /\ \A u \in Users : lockedTries'[u] = IF users'[u].locked THEN lockedTries[u] ELSE 0
    BY <1>1, <1>2, <1>7, HistoryKept
  <2> QED BY <1>1, <1>2, <1>3, <1>6, <1>7, <1>8, <1>9, <1>10, <1>11, <1>12, <2>1, Written, SMTT(30) DEF bounds
<1>14. MemoryTypes'
  BY <1>1, MemoryKept DEF AccountInv, bounds, memory
<1> QED BY <1>13, <1>14 DEF AccountInv

\* A statement that writes what identifies an account and nothing else.
LEMMA BoundIs ==
    ASSUME NEW row \in UserRows, NEW side \in {"wxweb", "wxapp", "apple"}, NEW ids \in SUBSET Identifiers
    PROVE  /\ Bound(row, side, ids) \in UserRows
           /\ Bound(row, side, ids).locked = row.locked /\ Bound(row, side, ids).fails = row.fails
           /\ Bound(row, side, ids).pwAt = row.pwAt /\ Bound(row, side, ids).st = row.st
           /\ Bound(row, side, ids).ok = row.ok
           /\ side = "apple" => Bound(row, side, ids).ids = row.ids \cup {"apple"}
           /\ side # "apple" => /\ Bound(row, side, ids).ids \subseteq row.ids \cup ids
                                /\ row.ids \ {side, "union", "stray"} \subseteq Bound(row, side, ids).ids
                                /\ ids \subseteq Bound(row, side, ids).ids
<1> PICK new : new = Bound(row, side, ids)
  OBVIOUS
<1> PICK all : all = IF side = "apple" THEN row.ids \cup {"apple"}
                     ELSE (row.ids \ ({side, "union"} \cup (IF side = "wxweb" THEN {"stray"} ELSE {}))) \cup ids
  OBVIOUS
<1>1. new = [row EXCEPT !.ids = all]
  BY DEF Bound
<1>2. row.ids \in SUBSET Identifiers
  BY DEF UserRows
<1>3. all \in SUBSET Identifiers
  BY <1>2 DEF Identifiers
<1>4. /\ new \in UserRows /\ new.locked = row.locked /\ new.fails = row.fails
      /\ new.pwAt = row.pwAt /\ new.st = row.st /\ new.ok = row.ok /\ new.ids = all
  BY <1>1, <1>3 DEF UserRows
<1> QED BY <1>4

LEMMA StepWriteBind ==
    ASSUME AccountInv, NEW r \in Reqs, WriteBind(r)
    PROVE  AccountInv'
<1> PICK s : s = Stmt(r)
  OBVIOUS
<1>1. Running(r, "bindIds") /\ UNCHANGED <<refresh, codes, cache, reload, jwts, ip, bounds, lockedTries, memory>>
  BY DEF WriteBind
<1>2. /\ TableInv /\ TableTypes /\ RowsWhole /\ TokensOwned /\ req[r].at = "run" /\ s \in Statements /\ s.u \in Users
      /\ s.do = "bindIds" /\ s = req[r].todo[1] /\ (\A u : r \notin Locking(u)) /\ (\A u : ~Ends(req[r], u))
  BY <1>1, StatementIs
<1>3. MemoryTypes'
  BY <1>1, MemoryKept DEF AccountInv, bounds, memory
<1>4. ASSUME Continue(r, <<>>), UNCHANGED users
      PROVE  TableInv'
  BY <1>1, <1>2, <1>4, QuietContinue, PlanEmpty DEF bounds
<1> PICK row \in UserRows : row = users[s.u]
  BY <1>2 DEF TableTypes
<1> PICK new : new = IF row.st = "none" THEN row ELSE Bound(row, s.x, s.ids)
  OBVIOUS
<1>5. ASSUME users' = [users EXCEPT ![s.u] = new], Done(r, <<OnUser("reread", s.u)>>)
      PROVE  TableInv'
  <2>1. PICK q \in Requests : Turn(r, q) /\ q.at \in {"idle", "run"} /\ ~Begins(q, "countTry")
    BY <1>1, <1>2, <1>5, DoneIs, MadeUser, FreeIsWarranted DEF bounds, UserDos
  <2>2. s.x \in {"wxweb", "wxapp", "apple"} /\ s.ids \in SUBSET Identifiers
    BY <1>2, Kinds DEF BindStatements
  <2>3. /\ new \in UserRows /\ new.locked = row.locked /\ new.fails = row.fails /\ new.pwAt = row.pwAt
        /\ new.st = row.st /\ (row.st = "none" => new = row)
    BY <2>2, BoundIs
  <2>4. /\ users' \in [Users -> UserRows]
        /\ \A u \in Users : users'[u] = IF u = s.u THEN new ELSE users[u]
    BY <1>2, <1>5, <2>3 DEF TableTypes
  <2>5. \A u \in Users : /\ users'[u].locked = users[u].locked /\ users'[u].fails = users[u].fails
                         /\ users'[u].pwAt = users[u].pwAt /\ users'[u].st = users[u].st
                         /\ (users'[u].st = "none" => users'[u] = users[u])
    BY <2>3, <2>4
  <2>6. RowsWhole'
    BY <1>2, <2>5 DEF RowsWhole
  <2>7. \A t \in Tokens : refresh'[t] = refresh[t] /\ refresh[t].u \in Users
    BY <1>1, <1>2 DEF TableTypes
  <2>8. TokensOwned'
    BY <1>2, <2>5, <2>7 DEF TokensOwned
  <2>9. \A t \in Tokens : Outlived(t)' => Outlived(t) /\ refresh'[t].u = refresh[t].u
    BY <2>5, <2>7 DEF Outlived
  <2>10. lockedTries' \in [Users -> Nat] /\ \A u \in Users : lockedTries'[u] = IF users'[u].locked THEN lockedTries[u] ELSE 0
    BY <1>1, <1>2, <2>5, HistoryKept
  <2> QED BY <1>1, <1>2, <2>1, <2>4, <2>5, <2>6, <2>8, <2>9, <2>10, Written DEF bounds, TableTypes
<1>6. TableInv'
  BY <1>4, <1>5 DEF WriteBind
<1> QED BY <1>3, <1>6 DEF AccountInv

LEMMA StepCreateSession ==
    ASSUME AccountInv, NEW r \in Reqs, CreateSession(r), UNCHANGED memory
    PROVE  AccountInv'
<1> PICK s : s = Stmt(r)
  OBVIOUS
<1>1. Running(r, "session") /\ UNCHANGED <<users, codes, cache, reload, ip, bounds, lockedTries>>
  BY DEF CreateSession
<1>2. /\ TableInv /\ TableTypes /\ RowsWhole /\ TokensOwned /\ req[r].at = "run" /\ s \in Statements /\ s.u \in Users
      /\ s.do = "session" /\ s = req[r].todo[1] /\ (\A u : r \notin Locking(u)) /\ (\A u : ~Ends(req[r], u))
  BY <1>1, StatementIs
<1>3. s.row \in UserRows /\ s.x \in {"access", "access2"}
  BY <1>2, Kinds DEF SessionStatements
<1>4. MemoryTypes'
  <2>1. Jwt(s.x, s.row, s.u) \in Jwts
    BY <1>2, <1>3, JwtTypes
  <2>2. jwts' \subseteq Jwts
    BY <2>1 DEF CreateSession, AccountInv, MemoryTypes
  <2> QED BY <1>1, <2>2 DEF AccountInv, MemoryTypes, bounds, memory
<1> PICK n : n = CHOOSE t \in Tokens : ~refresh[t].used /\ \A v \in Tokens : v < t => refresh[v].used
  OBVIOUS
<1> PICK late : late = (s.row.ver < users[s.u].pwAt)
  OBVIOUS
<1> PICK new : new = [u |-> s.u, live |-> TRUE, used |-> TRUE, ver |-> s.row.ver, late |-> late]
  OBVIOUS
<1>5. ASSUME Continue(r, <<>>), UNCHANGED refresh
      PROVE  TableInv'
  BY <1>1, <1>2, <1>5, QuietContinue, PlanEmpty DEF bounds
<1>6. ASSUME users[s.u].st # "none", refresh' = [refresh EXCEPT ![n] = new], Done(r, <<>>)
      PROVE  TableInv'
  <2>1. PICK q \in Requests : Turn(r, q) /\ q.at \in {"idle", "run"} /\ ~Begins(q, "countTry")
    BY <1>1, <1>2, <1>6, DoneIs, PlanEmpty DEF bounds
  <2>2. new \in [u : Users, live : BOOLEAN, used : BOOLEAN, ver : Nat, late : BOOLEAN]
    <3>1. s.row.ver \in Nat /\ users[s.u].pwAt \in Nat
      BY <1>2, <1>3 DEF UserRows, TableTypes
    <3>2. late \in BOOLEAN
      BY <3>1
    <3> QED BY <1>2, <3>1, <3>2
  <2>3. /\ refresh' \in [Tokens -> [u : Users, live : BOOLEAN, used : BOOLEAN, ver : Nat, late : BOOLEAN]]
        /\ \A t \in Tokens : refresh'[t] = new \/ refresh'[t] = refresh[t]
    BY <1>2, <1>6, <2>2 DEF TableTypes
  <2>4. TokensOwned'
    BY <1>1, <1>2, <1>6, <2>3 DEF TokensOwned
  <2>5. RowsWhole'
    BY <1>1, <1>2 DEF RowsWhole
  <2>6. \A t \in Tokens : Outlived(t)' => Outlived(t) /\ refresh'[t].u = refresh[t].u
    <3> SUFFICES ASSUME NEW t \in Tokens, Outlived(t)' PROVE refresh'[t] = refresh[t]
      BY <1>1 DEF Outlived
    <3>1. CASE refresh'[t] = new
      <4>1. refresh'[t].u = s.u /\ refresh'[t].ver = s.row.ver /\ refresh'[t].late = late
        BY <3>1
      <4> QED BY <1>1, <4>1 DEF Outlived
    <3> QED BY <2>3, <3>1
  <2>7. lockedTries' \in [Users -> Nat] /\ \A u \in Users : lockedTries'[u] = IF users'[u].locked THEN lockedTries[u] ELSE 0
    BY <1>1, <1>2, HistoryKept
  <2> QED BY <1>1, <1>2, <2>1, <2>3, <2>4, <2>5, <2>6, <2>7, Written DEF bounds, TableTypes
<1>7. TableInv'
  BY <1>5, <1>6 DEF CreateSession
<1> QED BY <1>4, <1>7 DEF AccountInv

\* The statements after the creation of an account are for the new user.
LEMMA FollowPlan ==
    ASSUME NEW q, NEW then \in Seq(FollowUps), NEW u \in Users
    PROVE  Plan(q, [i \in 1 .. Len(then) |-> [then[i] EXCEPT !.u = u]])
<1> PICK n \in Nat : n = Len(then)
  OBVIOUS
<1> DEFINE p == [i \in 1 .. n |-> [then[i] EXCEPT !.u = u]]
<1>1. ASSUME NEW f \in FollowUps
      PROVE  /\ [f EXCEPT !.u = u] \in Statements
             /\ [f EXCEPT !.u = u].do \notin {"setPassword", "clearIds", "bindIds"}
             /\ [f EXCEPT !.u = u].do = "setStatus" => [f EXCEPT !.u = u].x = "pending"
  <2> PICK w : w = [f EXCEPT !.u = u]
    OBVIOUS
  <2>1. CASE f \in UserStatements
    <3>1. w \in UserStatements /\ w.do = f.do
      BY <2>1 DEF UserStatements
    <3> QED BY <3>1 DEF UserStatements, Statements, FollowUps
  <2>2. CASE f \in StatusStatements /\ f.x = "pending"
    <3>1. w \in StatusStatements /\ w.x = "pending"
      BY <2>2 DEF StatusStatements
    <3> QED BY <3>1 DEF StatusStatements, Statements
  <2>3. CASE f \in IdStatements /\ f.do # "clearIds"
    <3>1. w \in IdStatements /\ w.do = f.do
      BY <2>3 DEF IdStatements
    <3> QED BY <2>3, <3>1 DEF IdStatements, Statements
  <2>4. CASE f \in SendStatements
    <3>1. w \in SendStatements
      BY <2>4 DEF SendStatements
    <3> QED BY <3>1 DEF SendStatements, Statements, FollowUps
  <2>5. CASE f \in LimiterStatements
    <3>1. w \in LimiterStatements
      BY <2>5 DEF LimiterStatements
    <3> QED BY <3>1 DEF LimiterStatements, Statements, FollowUps
  <2> QED BY <2>1, <2>2, <2>3, <2>4, <2>5 DEF FollowUps
<1>2. \A i \in 1 .. n : then[i] \in FollowUps
  OBVIOUS
<1>3. /\ DOMAIN p = 1 .. n
      /\ \A i \in 1 .. n : /\ p[i] \in Statements /\ p[i].do \notin {"setPassword", "clearIds", "bindIds"}
                           /\ p[i].do = "setStatus" => p[i].x = "pending"
  BY <1>1, <1>2
<1>4. p \in Seq(Statements)
  <2>1. p = [i \in 1 .. n |-> p[i]]
    OBVIOUS
  <2> HIDE DEF p
  <2>2. p \in [1 .. n -> Statements]
    BY <1>3, <2>1
  <2> QED BY <2>2, SeqDef
<1> HIDE DEF p
<1>5. Plan(q, p)
  BY <1>3, <1>4 DEF Plan, Paired, Warranted
<1> QED BY <1>5 DEF p

LEMMA StepCreateUser ==
    ASSUME AccountInv, NEW r \in Reqs, CreateUser(r), UNCHANGED memory
    PROVE  AccountInv'
<1> PICK s : s = Stmt(r)
  OBVIOUS
<1>1. Running(r, "createUser") /\ UNCHANGED <<refresh, codes, cache, reload, jwts, ip, bounds, lockedTries>>
  BY DEF CreateUser
<1>2. /\ TableInv /\ TableTypes /\ RowsWhole /\ TokensOwned /\ req[r].at = "run" /\ s \in Statements
      /\ s.do = "createUser" /\ s = req[r].todo[1] /\ (\A u : r \notin Locking(u)) /\ (\A u : ~Ends(req[r], u))
  BY <1>1, StatementIs
<1>3. MemoryTypes'
  BY <1>1, MemoryKept DEF AccountInv, bounds, memory
<1>4. ASSUME Continue(r, <<>>), UNCHANGED users
      PROVE  TableInv'
  BY <1>1, <1>2, <1>4, QuietContinue, PlanEmpty DEF bounds
<1> PICK new : new = NewUser(s.pw, s.ids)
  OBVIOUS
<1>5. ASSUME NEW u \in FreeUsers, users' = [users EXCEPT ![u] = new],
             Done(r, [i \in 1..Len(s.then) |-> [s.then[i] EXCEPT !.u = u]])
      PROVE  TableInv'
  <2>1. s.then \in Seq(FollowUps) /\ s.pw \in Passwords \cup {"unusable"} /\ s.ids \in SUBSET Identifiers
    BY <1>2, Kinds DEF InsertStatements
  <2>2. u \in Users /\ users[u] = NoUser
    BY <1>2, <1>5 DEF FreeUsers, RowsWhole
  <2> PICK pre : pre = [i \in 1..Len(s.then) |-> [s.then[i] EXCEPT !.u = u]]
    OBVIOUS
  <2>3. PICK q \in Requests : Turn(r, q) /\ q.at \in {"idle", "run"} /\ ~Begins(q, "countTry")
    <3>1. Plan(req[r], pre) /\ Done(r, pre)
      BY <1>5, <2>1, <2>2, FollowPlan
    <3> QED BY <1>1, <1>2, <3>1, DoneIs DEF bounds
  <2>4. /\ new \in UserRows /\ new.locked = FALSE /\ new.fails = 0 /\ new.st = "active"
    <3>1. new = [st |-> "active", ver |-> 1, pwAt |-> 1, pw |-> s.pw, totp |-> FALSE, role |-> "user",
                 ids |-> s.ids, ok |-> {}, fails |-> 0, locked |-> FALSE]
      BY DEF NewUser, NoUser
    <3>2. {} \in SUBSET Identifiers /\ "active" \in Statuses /\ "user" \in Roles /\ 0 \in Nat /\ 1 \in Nat
      BY DEF Statuses, Roles
    <3>3. new \in UserRows
      BY <2>1, <3>1, <3>2 DEF UserRows
    <3> QED BY <3>1, <3>3
  <2>5. /\ users' \in [Users -> UserRows]
        /\ \A v \in Users : users'[v] = IF v = u THEN new ELSE users[v]
    BY <1>2, <1>5, <2>2, <2>4 DEF TableTypes
  <2>6. \A v \in Users : users'[v].locked = users[v].locked /\ users'[v].fails = users[v].fails
    <3>1. users[u].locked = FALSE /\ users[u].fails = 0
      BY <2>2 DEF NoUser
    <3>2. \A v \in Users \ {u} : users'[v] = users[v]
      BY <2>5
    <3>3. users'[u].locked = users[u].locked /\ users'[u].fails = users[u].fails
      BY <2>2, <2>4, <2>5, <3>1
    <3> QED BY <3>2, <3>3
  <2>7. \A v \in Users : users'[v].fails = users[v].fails
    BY <2>6
  <2>8. RowsWhole'
    BY <1>2, <2>4, <2>5 DEF RowsWhole
  <2>9. \A t \in Tokens : refresh'[t] = refresh[t] /\ refresh[t].u \in Users /\ (refresh[t].live => refresh[t].u # u)
    BY <1>1, <1>2, <2>2 DEF TableTypes, TokensOwned, NoUser
  <2>10. TokensOwned'
    BY <1>2, <2>4, <2>5, <2>9, SMTT(30) DEF TokensOwned
  <2>11. \A t \in Tokens : Outlived(t)' => Outlived(t) /\ refresh'[t].u = refresh[t].u
    BY <2>5, <2>9 DEF Outlived
  <2>12. lockedTries' \in [Users -> Nat] /\ \A v \in Users : lockedTries'[v] = IF users'[v].locked THEN lockedTries[v] ELSE 0
    BY <1>1, <1>2, <2>6, HistoryKept
  <2> QED BY <1>1, <1>2, <2>3, <2>5, <2>7, <2>8, <2>10, <2>11, <2>12, Written DEF bounds, TableTypes
<1>6. TableInv'
  BY <1>4, <1>5 DEF CreateUser
<1> QED BY <1>3, <1>6 DEF AccountInv

LEMMA StepCountFail ==
    ASSUME AccountInv, NEW r \in Reqs, CountFail(r), UNCHANGED memory
    PROVE  AccountInv'
<1> PICK s : s = Stmt(r)
  OBVIOUS
<1>1. Running(r, "incFails") /\ UNCHANGED <<refresh, codes, cache, reload, jwts, bounds, lockedTries>>
  BY DEF CountFail
<1>2. /\ TableInv /\ TableTypes /\ RowsWhole /\ TokensOwned /\ req[r].at = "run" /\ s \in Statements /\ s.u \in Users
      /\ s.do = "incFails" /\ s = req[r].todo[1] /\ (\A u : r \notin Locking(u)) /\ (\A u : ~Ends(req[r], u))
  BY <1>1, StatementIs
<1>3. MemoryTypes'
  <2>1. LimiterClears("login") \/ LimiterFails("login")
    BY DEF CountFail
  <2>2. ip' \in [Limiters -> [fails : Nat, locked : BOOLEAN]]
    BY <2>1, LimiterTypes DEF Limiters, AccountInv
  <2> QED BY <1>1, <2>2 DEF AccountInv, MemoryTypes, bounds, memory
<1> PICK row \in UserRows : row = users[s.u]
  BY <1>2 DEF TableTypes
<1> PICK new : new = IF row.st = "none" THEN row ELSE Updated(row, s)
  OBVIOUS
<1>4. /\ new \in UserRows /\ new.locked = row.locked /\ new.pwAt = row.pwAt /\ new.st = row.st
      /\ row.st = "none" => new = row
      /\ row.st # "none" => new.fails = row.fails + 1
  BY <1>2, UpdatedIs, SMTT(30) DEF RowStatements
<1>5. /\ users' \in [Users -> UserRows]
      /\ \A u \in Users : users'[u] = IF u = s.u THEN new ELSE users[u]
  <2>1. users' = [users EXCEPT ![s.u] = new]
    BY DEF CountFail
  <2> QED BY <1>2, <1>4, <2>1 DEF TableTypes
<1>6. \A u \in Users : /\ users'[u].locked = users[u].locked /\ users'[u].pwAt = users[u].pwAt
                       /\ users'[u].st = users[u].st /\ (users'[u].st = "none" => users'[u] = users[u])
  BY <1>4, <1>5
<1> PICK locks : locks = (row.fails + 1 >= LockThreshold /\ row.st # "none")
  OBVIOUS
<1> PICK lock : lock = OnUser("lock", s.u)
  OBVIOUS
<1>7. PICK q \in Requests : /\ Turn(r, q) /\ q.at \in {"idle", "run"} /\ ~Begins(q, "countTry")
                            /\ locks => q.at = "run" /\ q.todo[1] = lock
  <2>1. CASE locks
    <3>1. Free(lock)
      BY <1>2, MadeUser DEF UserDos
    <3>2. PICK q \in Requests : /\ Turn(r, q) /\ q.at \in {"idle", "run"} /\ ~Begins(q, "countTry")
                                /\ q.todo = <<lock>> \o Tail(req[r].todo)
      <4>1. Done(r, <<lock>>)
        BY <2>1 DEF CountFail
      <4> QED BY <1>1, <1>2, <3>1, <4>1, DoneIs, FreeIsWarranted DEF bounds
    <3> PICK rest : rest = Tail(req[r].todo)
      OBVIOUS
    <3>3. q.todo # <<>> /\ q.todo[1] = lock
      <4>0. lock \in Statements
        BY <3>1 DEF Free
      <4>1. <<lock>> \in Seq(Statements) /\ rest \in Seq(Statements) /\ Len(<<lock>>) = 1 /\ <<lock>>[1] = lock
        <5>1. rest \in Seq(Statements)
          BY <1>1, <1>2, RunningIs DEF Plan
        <5> QED BY <4>0, <5>1
      <4>2. Len(rest) \in Nat
        BY <4>1
      <4>3. /\ q.todo \in Seq(Statements) /\ Len(q.todo) = 1 + Len(rest)
            /\ \A i \in 1 .. 1 + Len(rest) : q.todo[i] = IF i <= 1 THEN <<lock>>[i] ELSE rest[i - 1]
        BY <3>2, <4>1, ConcatProperties
      <4>4. 1 \in 1 .. 1 + Len(rest) /\ Len(q.todo) # 0
        BY <4>2, <4>3
      <4>5. q.todo[1] = lock
        BY <4>1, <4>3, <4>4
      <4>6. q.todo # <<>>
        BY <4>4
      <4> QED BY <4>5, <4>6
    <3>4. q.at = "run"
      BY <3>2, <3>3 DEF Turn, RequestFits
    <3> QED BY <3>2, <3>3, <3>4
  <2>2. CASE ~locks
    <3>1. Done(r, <<>>)
      BY <2>2 DEF CountFail
    <3> QED BY <1>1, <1>2, <2>2, <3>1, DoneIs, PlanEmpty DEF bounds
  <2> QED BY <2>1, <2>2
<1>8. FailsCounted'
  <2> SUFFICES ASSUME NEW u \in Users
               PROVE  (users[u].fails <= LockThreshold - 1 + Cardinality(Reqs) * crashes + Cardinality(Locking(u)))'
    BY DEF FailsCounted
  <2>1. /\ Locking(u) \in SUBSET Reqs /\ Locking(u)' \in SUBSET Reqs /\ r \notin Locking(u)
        /\ Locking(u) \subseteq Locking(u)'
    BY <1>2, <1>7, TurnIs DEF Locking, Begins
  <2>2. /\ LockThreshold \in Nat \ {0} /\ crashes \in Nat /\ users[u].fails \in Nat /\ crashes' = crashes
        /\ row.fails \in Nat
    BY <1>1, <1>2, StoreAssumption DEF TableTypes, UserRows, bounds
  <2>3. /\ Cardinality(Locking(u)) \in Nat /\ Cardinality(Locking(u)') \in Nat /\ Cardinality(Reqs) \in Nat
        /\ Cardinality(Locking(u)) <= Cardinality(Locking(u)')
    BY <2>1, Fewer
  <2> PICK n \in Nat : n = Cardinality(Reqs) * crashes
    BY <2>2, <2>3
  <2>4. users[u].fails <= LockThreshold - 1 + n + Cardinality(Locking(u))
    BY <1>2 DEF TableInv, FailsCounted
  <2>5. CASE users'[u].fails = users[u].fails
    BY <2>2, <2>3, <2>4, <2>5
  <2>6. CASE u = s.u /\ row.st # "none"
    <3>1. users'[u].fails = row.fails + 1 /\ users[u].fails = row.fails
      BY <1>4, <1>5, <2>6
    <3>2. CASE ~locks
      <4> PICK f : f = row.fails
        OBVIOUS
      <4>1. f \in Nat /\ LockThreshold \in Nat \ {0} /\ ~(f + 1 >= LockThreshold)
        BY <2>2, <2>6, <3>2
      <4>2. f + 1 <= LockThreshold - 1 /\ f + 1 \in Nat
        BY ONLY <4>1
      <4>3. users'[u].fails = f + 1
        BY <3>1
      <4> QED BY <2>2, <2>3, <4>2, <4>3
    <3>3. CASE locks
      <4>0. req'[r] = q /\ q.todo[1].do = "lock" /\ q.todo[1].u = u
        <5>1. req'[r] = q
          BY <1>2, <1>7, TurnIs
        <5>2. lock.do = "lock" /\ lock.u = u
          BY <2>6 DEF OnUser
        <5> QED BY <1>7, <3>3, <5>1, <5>2
      <4>1. r \in Locking(u)'
        BY <1>7, <3>3, <4>0 DEF Locking, Begins
      <4>2. Locking(u) \subseteq Locking(u)' \ {r}
        BY <2>1
      <4>3. Cardinality(Locking(u)) + 1 <= Cardinality(Locking(u)')
        BY <2>1, <4>1, <4>2, OneLess
      <4> QED BY <2>2, <2>3, <2>4, <3>1, <4>3
    <3> QED BY <3>2, <3>3
  <2> QED BY <1>4, <1>5, <2>5, <2>6
<1>9. TableInv'
  <2>1. RowsWhole'
    BY <1>2, <1>6 DEF RowsWhole
  <2>2. \A t \in Tokens : refresh'[t] = refresh[t] /\ refresh[t].u \in Users
    BY <1>1, <1>2 DEF TableTypes
  <2>3. TokensOwned'
    <3> SUFFICES ASSUME NEW t \in Tokens, refresh'[t].live
                 PROVE  refresh'[t].used /\ users'[refresh'[t].u].st # "none"
      BY DEF TokensOwned
    <3>1. refresh[t].used /\ users[refresh[t].u].st # "none"
      BY <1>2, <2>2 DEF TokensOwned
    <3> QED BY <1>6, <2>2, <3>1
  <2>4. \A t \in Tokens : Outlived(t)' => Outlived(t) /\ refresh'[t].u = refresh[t].u
    BY <1>6, <2>2 DEF Outlived
  <2>5. lockedTries' \in [Users -> Nat] /\ \A u \in Users : lockedTries'[u] = IF users'[u].locked THEN lockedTries[u] ELSE 0
    BY <1>1, <1>2, <1>6, HistoryKept
  <2>6. SessionsEnding' /\ TriesCounted' /\ TriesLocked'
    <3>1. SessionsEnding'
      BY <1>1, <1>2, <1>7, <2>4, EndingKept DEF TableInv, bounds
    <3>2. TriesCounted'
      BY <1>1, <1>2, <1>7, TriesKept DEF TableInv
    <3>3. TriesLocked'
      BY <1>2, <1>7, <2>5, LocksWritten DEF TableInv
    <3> QED BY <3>1, <3>2, <3>3
  <2> QED BY <1>1, <1>2, <1>5, <1>7, <1>8, <2>1, <2>3, <2>5, <2>6, Assembled DEF bounds, TableTypes
<1> QED BY <1>3, <1>9 DEF AccountInv

\* ---------------------------------------------------------------------------
\* The codes that were sent, and the tries of them.

LEMMA CodesTurn ==
    ASSUME TableInv, NEW r \in Reqs, NEW q, Turn(r, q), q.at \in {"idle", "run"}, req[r].at = "run",
           UNCHANGED <<users, refresh, crashes, lockedTries>>,
           req[r].todo[1].do \notin {"reread", "cache", "revokeAll", "lock"},
           codes' \in [CodeKeys -> [id : Nat, tries : Nat, u : Users]], TriesCounted'
    PROVE  TableInv'
<1>1. /\ TableTypes /\ RowsWhole /\ TokensOwned /\ SessionsEnding /\ TriesLocked /\ FailsCounted
      /\ req[r] \in Requests /\ RequestFits(req[r])
  BY DEF TableInv, TableTypes
<1>2. (\A u : ~Ends(req[r], u)) /\ (\A u : r \notin Locking(u))
  BY <1>1, NotEnding DEF Locking, Begins
<1>3. SessionsEnding'
  <2>1. \A t \in Tokens : Outlived(t)' => Outlived(t) /\ refresh'[t].u = refresh[t].u
    BY DEF Outlived
  <2> QED BY <1>1, <1>2, <2>1, EndingKept
<1>4. TriesLocked'
  <2>1. \A u \in Users : IF users'[u].locked THEN users[u].locked /\ lockedTries'[u] = lockedTries[u]
                         ELSE lockedTries'[u] = 0
    BY <1>1 DEF TriesLocked
  <2> QED BY <1>1, <2>1, LocksKept
<1>5. FailsCounted'
  BY <1>1, <1>2, FailsKept
<1>6. RowsWhole' /\ TokensOwned' /\ users' \in [Users -> UserRows] /\ lockedTries' \in [Users -> Nat]
      /\ refresh' \in [Tokens -> [u : Users, live : BOOLEAN, used : BOOLEAN, ver : Nat, late : BOOLEAN]]
  BY <1>1 DEF RowsWhole, TokensOwned, TableTypes
<1> QED BY <1>3, <1>4, <1>5, <1>6, Assembled

LEMMA StepCountTry ==
    ASSUME AccountInv, NEW r \in Reqs, CountTry(r), UNCHANGED memory
    PROVE  AccountInv'
<1> PICK s : s = Stmt(r)
  OBVIOUS
<1>1. /\ Running(r, "countTry") /\ Done(r, <<>>)
      /\ UNCHANGED <<users, refresh, cache, reload, jwts, ip, bounds, lockedTries>>
      /\ codes' = [codes EXCEPT ![s.c] = TriedOnce(codes[s.c], s.n)]
  BY DEF CountTry
<1>2. TableInv /\ TableTypes /\ TriesCounted /\ req[r].at = "run"
  BY <1>1 DEF AccountInv, TableInv, Running
<1>3. s \in CountStatements /\ s = req[r].todo[1] /\ s.do = "countTry" /\ s.c \in CodeKeys
  <2>1. Stmt(r).do = "countTry"
    BY <1>1 DEF Running, Stmt
  <2> QED BY <1>2, <2>1, RunningIs DEF CountStatements
<1>4. PICK q \in Requests : Turn(r, q) /\ q.at \in {"idle", "run"} /\ ~Begins(q, "countTry")
  BY <1>1, <1>2, DoneIs, PlanEmpty DEF bounds
<1> PICK new : new = TriedOnce(codes[s.c], s.n)
  OBVIOUS
<1>5. /\ new \in [id : Nat, tries : Nat, u : Users] /\ new.id = codes[s.c].id
      /\ IF codes[s.c].id = s.n THEN new.tries = codes[s.c].tries + 1 ELSE new.tries = codes[s.c].tries
  <2> PICK code \in [id : Nat, tries : Nat, u : Users] : code = codes[s.c]
    BY <1>2, <1>3 DEF TableTypes
  <2>1. [code EXCEPT !.tries = code.tries + 1] \in [id : Nat, tries : Nat, u : Users]
    OBVIOUS
  <2> QED BY <2>1 DEF TriedOnce
<1>6. /\ codes' \in [CodeKeys -> [id : Nat, tries : Nat, u : Users]]
      /\ \A k \in CodeKeys : codes'[k] = IF k = s.c THEN new ELSE codes[k]
  BY <1>1, <1>2, <1>3, <1>5 DEF TableTypes
<1>7. TriesCounted'
  <2> SUFFICES ASSUME NEW k \in CodeKeys
               PROVE  (codes[k].tries + Cardinality(Counting(k)) <= MaxCodeAttempts - 1 + Cardinality(Reqs))'
    BY DEF TriesCounted
  <2>1. codes'[k].id = codes[k].id
    BY <1>5, <1>6
  <2>2. Counting(k) \in SUBSET Reqs /\ Counting(k)' \in SUBSET Reqs /\ Counting(k)' \subseteq Counting(k) \ {r}
    BY <1>2, <1>4, <2>1, TurnIs DEF Counting, Begins
  <2>3. /\ Cardinality(Counting(k)) \in Nat /\ Cardinality(Counting(k)') \in Nat /\ Cardinality(Reqs) \in Nat
        /\ Cardinality(Counting(k)') <= Cardinality(Counting(k))
    BY <2>2, Fewer
  <2>4. codes[k].tries + Cardinality(Counting(k)) <= MaxCodeAttempts - 1 + Cardinality(Reqs)
    BY <1>2 DEF TriesCounted
  <2>5. codes[k].tries \in Nat /\ MaxCodeAttempts \in Nat
    BY <1>2, AccountsAssumption DEF TableTypes
  <2>6. CASE k = s.c /\ codes[s.c].id = s.n
    <3>1. r \in Counting(k)
      BY <1>2, <1>3, <2>6 DEF Counting, Begins
    <3>2. Cardinality(Counting(k)') + 1 <= Cardinality(Counting(k))
      BY <2>2, <3>1, OneLess
    <3>3. codes'[k].tries = codes[k].tries + 1
      BY <1>5, <1>6, <2>6
    <3> QED BY <2>3, <2>4, <2>5, <3>2, <3>3
  <2>7. CASE ~(k = s.c /\ codes[s.c].id = s.n)
    <3>1. codes'[k].tries = codes[k].tries
      BY <1>5, <1>6, <2>7
    <3> QED BY <2>3, <2>4, <2>5, <3>1
  <2> QED BY <2>6, <2>7
<1>8. TableInv'
  <2>1. req[r].todo[1].do \notin {"reread", "cache", "revokeAll", "lock"} /\ UNCHANGED crashes
    BY <1>1, <1>3 DEF bounds
  <2> QED BY <1>1, <1>2, <1>4, <1>6, <1>7, <2>1, CodesTurn
<1>9. MemoryTypes'
  BY <1>1, MemoryKept DEF AccountInv, bounds, memory
<1> QED BY <1>8, <1>9 DEF AccountInv

LEMMA StepCheckCode ==
    ASSUME AccountInv, NEW r \in Reqs, CheckCode(r), UNCHANGED memory
    PROVE  AccountInv'
<1> PICK s : s = Stmt(r)
  OBVIOUS
<1>1. Running(r, "checkCode") /\ UNCHANGED <<tables, cache, reload, jwts, ip, bounds, lockedTries>>
  BY DEF CheckCode
<1>2. /\ TableInv /\ TableTypes /\ TriesCounted /\ req[r].at = "run" /\ s \in Statements /\ s.do = "checkCode"
      /\ s = req[r].todo[1] /\ s.u \in Users
  BY <1>1, StatementIs DEF TableInv
<1>3. s.c \in CodeKeys /\ s.c[1] \in Channels
  <2>1. s.c \in CodeKeys
    BY <1>2, Kinds DEF CheckStatements
  <2> QED BY <2>1 DEF CodeKeys
<1>4. MemoryTypes'
  BY <1>1, MemoryKept DEF AccountInv, bounds, memory
<1> PICK code \in [id : Nat, tries : Nat, u : Users] : code = codes[s.c]
  BY <1>2, <1>3 DEF TableTypes
<1> PICK count : count = [do |-> "countTry", u |-> s.u, c |-> s.c, n |-> code.id]
  OBVIOUS
<1> PICK del : del = OnRow("deleteCodes", s.u, s.c[1])
  OBVIOUS
<1>12. count \in CountStatements
  BY <1>2, <1>3 DEF CountStatements
<1>5. CASE Continue(r, <<>>)
  BY <1>1, <1>2, <1>4, <1>5, PlainStatement, PlanEmpty
<1>6. ASSUME NEW rest, Plan(req[r], rest), Continue(r, <<count>> \o rest), code.tries < MaxCodeAttempts
      PROVE  TableInv'
  <2> PICK todo : todo = <<count>> \o rest
    OBVIOUS
  <2>1. count \in CountStatements
    BY <1>12
  <2>2. /\ <<count>> \in Seq(Statements \cup CountStatements) /\ rest \in Seq(Statements \cup CountStatements)
        /\ Len(<<count>>) = 1 /\ <<count>>[1] = count
    <3>1. rest \in Seq(Statements)
      BY <1>6 DEF Plan
    <3> QED BY <2>1, <3>1
  <2>3. /\ todo \in Seq(Statements \cup CountStatements) /\ Len(todo) = 1 + Len(rest) /\ Len(rest) \in Nat
        /\ \A i \in 1 .. 1 + Len(rest) : todo[i] = IF i <= 1 THEN <<count>>[i] ELSE rest[i - 1]
    BY <2>2, ConcatProperties
  <2>4. todo # <<>> /\ todo[1] = count /\ Head(todo) = count
    <3>1. Len(todo) # 0 /\ 1 \in 1 .. 1 + Len(rest)
      BY <2>3
    <3>2. todo # <<>> /\ todo[1] = count
      BY <2>2, <2>3, <3>1
    <3> QED BY <2>3, <3>2, TailOf
  <2>5. Tail(todo) = rest
    BY <2>2
  <2> PICK q : q = [req[r] EXCEPT !.at = "run", !.todo = todo]
    OBVIOUS
  <2>6. /\ req[r] \in Requests /\ RequestFits(req[r])
    BY <1>2 DEF TableInv, TableTypes
  <2>7. /\ q \in Requests /\ q.at = "run" /\ q.todo = todo
        /\ q.op = req[r].op /\ q.u = req[r].u /\ q.x = req[r].x /\ q.row = req[r].row
    BY <2>3, <2>6 DEF Requests, RequestSeats
  <2>8. Plan(q, rest)
    BY <1>6, <2>7, PlanSame
  <2>9. RequestFits(q)
    BY <1>2, <2>1, <2>4, <2>5, <2>6, <2>7, <2>8, ZenonT(30) DEF RequestFits
  <2>10. Turn(r, q)
    BY <1>1, <1>2, <1>6, <2>4, <2>7, <2>9 DEF Continue, Turn, TableTypes, bounds
  <2>11. TriesCounted'
    <3> SUFFICES ASSUME NEW k \in CodeKeys
                 PROVE  (codes[k].tries + Cardinality(Counting(k)) <= MaxCodeAttempts - 1 + Cardinality(Reqs))'
      BY DEF TriesCounted
    <3>1. codes' = codes
      BY <1>1 DEF tables
    <3>2. Counting(k) \in SUBSET Reqs /\ Counting(k)' \in SUBSET Reqs
      BY DEF Counting
    <3>3. codes[k].tries \in Nat /\ MaxCodeAttempts \in Nat \ {0}
      BY <1>2, AccountsAssumption DEF TableTypes
    <3>4. CASE k = s.c
      <4>1. Cardinality(Counting(k)') \in Nat /\ Cardinality(Reqs) \in Nat /\ Cardinality(Counting(k)') <= Cardinality(Reqs)
        BY <3>2, Fewer
      <4> QED BY <1>6, <3>1, <3>3, <3>4, <4>1
    <3>5. CASE k # s.c
      <4>1. count.c = s.c
        OBVIOUS
      <4>2. Counting(k)' \subseteq Counting(k)
        <5> SUFFICES ASSUME NEW o \in Reqs, Begins(req'[o], "countTry"),
                            req'[o].todo[1].c = k, req'[o].todo[1].n = codes[k].id
                     PROVE  o \in Counting(k)
          BY <3>1 DEF Counting, Begins
        <5>1. req'[r] = q /\ (o # r => req'[o] = req[o])
          BY <1>2, <2>10, TurnIs
        <5>2. q.todo[1].c # k
          BY <2>4, <2>7, <3>5, <4>1
        <5>3. o # r
          BY <5>1, <5>2
        <5> QED BY <5>1, <5>3 DEF Counting
      <4>3. codes[k].tries + Cardinality(Counting(k)) <= MaxCodeAttempts - 1 + Cardinality(Reqs)
        BY <1>2 DEF TriesCounted
      <4>4. /\ Cardinality(Counting(k)) \in Nat /\ Cardinality(Counting(k)') \in Nat /\ Cardinality(Reqs) \in Nat
            /\ Cardinality(Counting(k)') <= Cardinality(Counting(k))
        BY <3>2, <4>2, Fewer
      <4>5. codes'[k].tries = codes[k].tries
        BY <3>1
      <4> QED BY <3>3, <4>3, <4>4, <4>5
    <3> QED BY <3>4, <3>5
  <2>12. req[r].todo[1].do \notin {"reread", "cache", "revokeAll", "lock"} /\ UNCHANGED <<users, refresh, crashes, lockedTries>>
    BY <1>1, <1>2 DEF tables, bounds
  <2>13. codes' \in [CodeKeys -> [id : Nat, tries : Nat, u : Users]]
    BY <1>1, <1>2 DEF TableTypes, tables
  <2> QED BY <1>2, <2>7, <2>10, <2>11, <2>12, <2>13, CodesTurn
<1>7. CASE Continue(r, <<count>>) /\ code.tries < MaxCodeAttempts
  <2>1. <<count>> \o <<>> = <<count>>
    OBVIOUS
  <2>2. TableInv'
    BY <1>6, <1>7, <2>1, PlanEmpty
  <2> QED BY <1>4, <2>2 DEF AccountInv
<1>8. CASE Done(r, <<count, del>>) /\ code.tries < MaxCodeAttempts
  <2> PICK rest : rest = Tail(req[r].todo)
    OBVIOUS
  <2>1. Plan(req[r], rest)
    BY <1>2, RunningIs
  <2>2. del \in Statements /\ Plan(req[r], <<del>>)
    <3>1. del \in DeleteStatements /\ del.do = "deleteCodes"
      BY <1>2, <1>3 DEF DeleteStatements, OnRow
    <3>2. del \in Statements
      BY <3>1 DEF Statements
    <3> QED BY <3>1, <3>2, PlanOne DEF Warranted
  <2>3. Plan(req[r], <<del>> \o rest)
    BY <2>1, <2>2, PlanJoin
  <2>4. <<count, del>> \o rest = <<count>> \o (<<del>> \o rest)
    <3>1. count \in Statements \cup CountStatements /\ del \in Statements \cup CountStatements
          /\ rest \in Seq(Statements \cup CountStatements)
      <4>1. rest \in Seq(Statements)
        BY <2>1 DEF Plan
      <4> QED BY <1>12, <2>2, <4>1
    <3> HIDE DEF Statements, CountStatements
    <3> QED BY <3>1
  <2>5. TableInv'
    BY <1>6, <1>8, <2>3, <2>4 DEF Done
  <2> QED BY <1>4, <2>5 DEF AccountInv
<1>9. MaxCodeAttempts \in Nat /\ code.tries \in Nat
  BY AccountsAssumption
<1>10. \/ Continue(r, <<>>)
       \/ (Continue(r, <<count>>) \/ Done(r, <<count, del>>)) /\ ~(code.tries >= MaxCodeAttempts)
  BY DEF CheckCode
<1>11. ~(code.tries >= MaxCodeAttempts) => code.tries < MaxCodeAttempts
  BY <1>9
<1> QED BY <1>5, <1>7, <1>8, <1>10, <1>11

\* ---------------------------------------------------------------------------
\* What happens beside the requests: the command line, the reload of the cache,
\* time, a crash.

LEMMA RequestsStill ==
    ASSUME TableInv, UNCHANGED <<req, use, crashes>>,
           users' \in [Users -> UserRows],
           refresh' \in [Tokens -> [u : Users, live : BOOLEAN, used : BOOLEAN, ver : Nat, late : BOOLEAN]],
           codes' \in [CodeKeys -> [id : Nat, tries : Nat, u : Users]],
           RowsWhole', TokensOwned',
           \A k \in CodeKeys : codes'[k] = codes[k] \/ codes'[k].tries = 0,
           LockHistory, \A u \in Users : users'[u].locked => users[u].locked,
           \A u \in Users : users'[u].fails \in {0, users[u].fails},
           "cliPasswd" \notin use.ops =>
             \A t \in Tokens : Outlived(t)' => Outlived(t) /\ refresh'[t].u = refresh[t].u
    PROVE  TableInv'
<1>1. TableTypes /\ SessionsEnding /\ TriesCounted /\ TriesLocked /\ FailsCounted
  BY DEF TableInv
<1>2. lockedTries' \in [Users -> Nat] /\ \A u \in Users : lockedTries'[u] = IF users'[u].locked THEN lockedTries[u] ELSE 0
  BY <1>1 DEF LockHistory, TableTypes
<1>3. TableTypes'
  BY <1>1, <1>2 DEF TableTypes
<1>4. (\A r \in Reqs : RequestFits(req[r]))'
  BY DEF TableInv, RequestFits
<1>5. SessionsEnding'
  BY <1>1 DEF SessionsEnding, Outlived, Ends
<1>6. TriesCounted'
  <2> SUFFICES ASSUME NEW k \in CodeKeys
               PROVE  (codes[k].tries + Cardinality(Counting(k)) <= MaxCodeAttempts - 1 + Cardinality(Reqs))'
    BY DEF TriesCounted
  <2>1. Counting(k)' \in SUBSET Reqs /\ MaxCodeAttempts \in Nat \ {0}
    BY AccountsAssumption DEF Counting
  <2>2. CASE codes'[k] = codes[k]
    <3>1. Counting(k)' = Counting(k)
      BY <2>2 DEF Counting
    <3> QED BY <1>1, <2>2, <3>1 DEF TriesCounted
  <2>3. CASE codes'[k].tries = 0
    <3>1. Cardinality(Counting(k)') \in Nat /\ Cardinality(Reqs) \in Nat /\ Cardinality(Counting(k)') <= Cardinality(Reqs)
      BY <2>1, Fewer
    <3> QED BY <2>1, <2>3, <3>1
  <2> QED BY <2>2, <2>3
<1>7. TriesLocked'
  <2>1. \A u : Unaware(u)' = Unaware(u)
    BY DEF Unaware
  <2> QED BY <1>1, <1>2, <2>1 DEF TriesLocked
<1>8. FailsCounted'
  <2> SUFFICES ASSUME NEW u \in Users
               PROVE  (users[u].fails <= LockThreshold - 1 + Cardinality(Reqs) * crashes + Cardinality(Locking(u)))'
    BY DEF FailsCounted
  <2>1. Locking(u)' = Locking(u) /\ Locking(u) \in SUBSET Reqs
    BY DEF Locking
  <2>2. Cardinality(Reqs) \in Nat /\ Cardinality(Locking(u)) \in Nat /\ crashes \in Nat /\ LockThreshold \in Nat \ {0}
    BY <1>1, <2>1, Fewer, StoreAssumption DEF TableTypes
  <2> PICK n \in Nat : n = Cardinality(Reqs) * crashes
    BY <2>2
  <2>3. users[u].fails <= LockThreshold - 1 + n + Cardinality(Locking(u))
    BY <1>1 DEF FailsCounted
  <2>4. 0 <= LockThreshold - 1 + n + Cardinality(Locking(u))
    BY <2>2
  <2>5. users'[u].fails <= LockThreshold - 1 + n + Cardinality(Locking(u))
    BY <2>3, <2>4
  <2> QED BY <2>1, <2>5
<1> QED BY <1>3, <1>4, <1>5, <1>6, <1>7, <1>8 DEF TableInv

\* What the command line makes of a row.
LEMMA CliPlanIs ==
    ASSUME NEW row \in UserRows, NEW op \in CliOps, row.st # "none"
    PROVE  LET new == CliPlan(op, row) IN
           /\ new \in UserRows /\ (new.st = "none" => new = NoUser) /\ (new.st = "none" <=> op = "cliRemove")
           /\ new.locked => row.locked
           /\ new.fails \in {0, row.fails}
           /\ op \notin {"cliPasswd", "cliRemove"} => new.pwAt = row.pwAt
           /\ op # "cliRemove" => new.ids = row.ids /\ new.ok = row.ok
           /\ new.st = "active" => row.st = "active" \/ op = "cliUnban"
<1> PICK new : new = CliPlan(op, row)
  OBVIOUS
<1>1. Nobody \in Users /\ "q" \in Passwords
  BY NobodyIs DEF Passwords
<1>2. CASE op = "cliPasswd"
  <2> PICK s : s = OnRow("setPassword", Nobody, "q")
    OBVIOUS
  <2>1. s \in PasswordStatements /\ s.do = "setPassword"
    BY <1>1 DEF PasswordStatements, OnRow
  <2>2. s \in Statements /\ s.do \in RowStatements
    BY <2>1 DEF Statements, RowStatements, CredentialStatements
  <2>3. new = Updated(row, s)
    BY <1>2 DEF CliPlan
  <2> QED BY <1>2, <2>1, <2>2, <2>3, UpdatedIs
<1>3. CASE op = "cliUnlock"
  <2> PICK s : s = OnUser("unlock", Nobody)
    OBVIOUS
  <2>1. s \in UserStatements /\ s.do = "unlock"
    BY <1>1 DEF UserStatements, OnUser
  <2>2. s \in Statements /\ s.do \in RowStatements
    BY <2>1 DEF Statements, FollowUps, RowStatements
  <2>3. new = Updated(row, s)
    BY <1>3 DEF CliPlan
  <2>4. new.locked = FALSE
    BY <2>1, <2>3 DEF Updated, Standing, CredentialStatements, UserRows
  <2> QED BY <1>3, <2>1, <2>2, <2>3, <2>4, UpdatedIs
<1>4. CASE op = "cliReset2fa"
  <2> PICK s : s = OnTotp(Nobody, FALSE)
    OBVIOUS
  <2> PICK b : b = OnUser("bumpVersion", Nobody)
    OBVIOUS
  <2> PICK mid : mid = Updated(row, s)
    OBVIOUS
  <2>1. s \in Statements /\ s.do = "setTotp" /\ s.do \in RowStatements
    <3>1. s \in TotpStatements /\ s.do = "setTotp"
      BY <1>1 DEF TotpStatements, OnTotp
    <3> QED BY <3>1 DEF Statements, RowStatements, CredentialStatements
  <2>2. b \in Statements /\ b.do = "bumpVersion" /\ b.do \in RowStatements
    <3>1. b \in UserStatements /\ b.do = "bumpVersion"
      BY <1>1 DEF UserStatements, OnUser
    <3> QED BY <3>1 DEF Statements, FollowUps, RowStatements, CredentialStatements
  <2>3. new = Updated(mid, b)
    BY <1>4 DEF CliPlan
  <2>4. /\ mid \in UserRows /\ mid.locked = row.locked /\ mid.fails \in {0, row.fails} /\ mid.pwAt = row.pwAt
        /\ mid.st = row.st /\ mid.ids = row.ids /\ mid.ok = row.ok
    <3>1. mid \in UserRows
      BY <2>1, UpdatedIs
    <3>2. mid.locked = row.locked
      <4>1. Updated(row, s).locked = row.locked
        BY <2>1, UpdatedIs, ZenonT(30)
      <4> QED BY <4>1
    <3>3. mid.fails \in {0, row.fails}
      BY <2>1, UpdatedIs
    <3>4. mid.pwAt = row.pwAt /\ mid.st = row.st
      BY <2>1, UpdatedIs
    <3>5. mid.ids = row.ids /\ mid.ok = row.ok
      BY <2>1, UpdatedIs
    <3> QED BY <3>1, <3>2, <3>3, <3>4, <3>5
  <2>5. /\ new \in UserRows /\ new.locked = mid.locked /\ new.fails \in {0, mid.fails} /\ new.pwAt = mid.pwAt
        /\ new.st = mid.st /\ new.ids = mid.ids /\ new.ok = mid.ok
    <3>1. ASSUME NEW w \in UserRows
          PROVE  /\ Updated(w, b) \in UserRows /\ Updated(w, b).locked = w.locked
                 /\ Updated(w, b).fails \in {0, w.fails} /\ Updated(w, b).pwAt = w.pwAt
                 /\ Updated(w, b).st = w.st /\ Updated(w, b).ids = w.ids /\ Updated(w, b).ok = w.ok
      BY <2>2, UpdatedIs
    <3>2. Updated(mid, b).locked = mid.locked
      BY <2>4, <3>1
    <3>3. new.locked = mid.locked
      BY <2>3, <3>2
    <3>4. /\ new \in UserRows /\ new.fails \in {0, mid.fails} /\ new.pwAt = mid.pwAt
          /\ new.st = mid.st /\ new.ids = mid.ids /\ new.ok = mid.ok
      <4>1. mid \in UserRows
        BY <2>4
      <4>2. /\ Updated(mid, b) \in UserRows /\ Updated(mid, b).fails \in {0, mid.fails} /\ Updated(mid, b).pwAt = mid.pwAt
            /\ Updated(mid, b).st = mid.st /\ Updated(mid, b).ids = mid.ids /\ Updated(mid, b).ok = mid.ok
        BY <3>1, <4>1
      <4> QED BY <2>3, <4>2
    <3> QED BY <3>3, <3>4
  <2> QED BY <1>4, <2>4, <2>5
<1>5. ASSUME op \in {"cliBan", "cliUnban"}, NEW x, x = IF op = "cliBan" THEN "banned" ELSE "active"
      PROVE  /\ new \in UserRows /\ new.st = x /\ new.locked = row.locked /\ new.fails \in {0, row.fails}
             /\ new.pwAt = row.pwAt /\ new.ids = row.ids /\ new.ok = row.ok
  <2> PICK s : s = OnRow("setStatus", Nobody, x)
    OBVIOUS
  <2>1. s \in StatusStatements /\ s.do = "setStatus" /\ s.x = x
    BY <1>1, <1>5 DEF StatusStatements, OnRow
  <2>2. s \in Statements /\ s.do \in RowStatements
    BY <2>1 DEF Statements, RowStatements
  <2>3. new = Updated(row, s)
    BY <1>5 DEF CliPlan
  <2> QED BY <2>1, <2>2, <2>3, UpdatedIs
<1>6. CASE op = "cliRemove"
  <2>1. new = NoUser
    BY <1>6 DEF CliPlan
  <2>2. NoUser.st = "none" /\ NoUser.locked = FALSE /\ NoUser.fails = 0
    BY DEF NoUser
  <2> QED BY <1>6, <2>1, <2>2, NobodyIs
<1> QED BY <1>2, <1>3, <1>4, <1>5, <1>6 DEF CliOps

LEMMA StepCommandLine ==
    ASSUME AccountInv, CommandLine, UNCHANGED memory
    PROVE  AccountInv'
<1>1. PICK op \in CliOps, u \in Users :
         /\ op \in use.ops /\ calls' = calls + 1 /\ users[u].st # "none"
         /\ users' = [users EXCEPT ![u] = CliPlan(op, users[u])]
         /\ refresh' = IF op = "cliRemove" THEN WithoutTokens(refresh, u) ELSE refresh
         /\ codes' = [k \in DOMAIN codes |-> IF op = "cliRemove" /\ codes[k].u = u THEN NoCode ELSE codes[k]]
         /\ LockHistory
  BY DEF CommandLine
<1>2. UNCHANGED <<cache, reload, jwts, req, ip, use, crashes, sent>>
  BY DEF CommandLine
<1>3. TableInv /\ TableTypes /\ RowsWhole /\ TokensOwned /\ MemoryTypes
  BY DEF AccountInv, TableInv
<1> PICK row \in UserRows : row = users[u]
  BY <1>3 DEF TableTypes
<1> PICK new : new = CliPlan(op, row)
  OBVIOUS
<1>4. /\ new \in UserRows /\ (new.st = "none" => new = NoUser) /\ (new.st = "none" <=> op = "cliRemove")
      /\ new.locked => row.locked
      /\ new.fails \in {0, row.fails}
      /\ op \notin {"cliPasswd", "cliRemove"} => new.pwAt = row.pwAt
  BY <1>1, CliPlanIs
<1>5. /\ users' \in [Users -> UserRows]
      /\ \A v \in Users : users'[v] = IF v = u THEN new ELSE users[v]
  BY <1>1, <1>3, <1>4 DEF TableTypes
<1>6. RowsWhole'
  BY <1>3, <1>4, <1>5 DEF RowsWhole
<1> PICK after : after = WithoutTokens(refresh, u)
  OBVIOUS
<1>7. /\ after \in [Tokens -> [u : Users, live : BOOLEAN, used : BOOLEAN, ver : Nat, late : BOOLEAN]]
      /\ \A t \in Tokens : /\ after[t].u = refresh[t].u /\ after[t].ver = refresh[t].ver
                           /\ after[t].used = refresh[t].used /\ after[t].late = refresh[t].late
                           /\ after[t].live => refresh[t].live /\ refresh[t].u # u
  BY <1>3, WithoutTokensIs
<1>8. /\ refresh' \in [Tokens -> [u : Users, live : BOOLEAN, used : BOOLEAN, ver : Nat, late : BOOLEAN]]
      /\ \A t \in Tokens : /\ refresh'[t].u = refresh[t].u /\ refresh'[t].ver = refresh[t].ver
                           /\ refresh'[t].used = refresh[t].used /\ refresh'[t].late = refresh[t].late
                           /\ refresh'[t].live => refresh[t].live /\ (op = "cliRemove" => refresh[t].u # u)
  <2>1. CASE op = "cliRemove"
    <3>1. refresh' = after
      BY <1>1, <2>1
    <3> QED BY <1>7, <3>1
  <2>2. CASE op # "cliRemove"
    <3>1. refresh' = refresh
      BY <1>1, <2>2
    <3> QED BY <1>3, <2>2, <3>1 DEF TableTypes
  <2> QED BY <2>1, <2>2
<1>9. TokensOwned'
  <2> SUFFICES ASSUME NEW t \in Tokens, refresh'[t].live
               PROVE  refresh'[t].used /\ users'[refresh'[t].u].st # "none"
    BY DEF TokensOwned
  <2>1. refresh[t].used /\ users[refresh[t].u].st # "none" /\ refresh[t].u \in Users
    BY <1>3, <1>8 DEF TokensOwned, TableTypes
  <2>2. users'[refresh[t].u].st # "none"
    BY <1>4, <1>5, <1>8, <2>1
  <2> QED BY <1>8, <2>1, <2>2
<1>10. /\ codes' \in [CodeKeys -> [id : Nat, tries : Nat, u : Users]]
       /\ \A k \in CodeKeys : codes'[k] = codes[k] \/ codes'[k].tries = 0
  <2>1. NoCode \in [id : Nat, tries : Nat, u : Users] /\ NoCode.tries = 0
    BY NobodyIs DEF NoCode, Nobody
  <2> QED BY <1>1, <1>3, <2>1 DEF TableTypes
<1>11. \A v \in Users : (users'[v].locked => users[v].locked) /\ users'[v].fails \in {0, users[v].fails}
  BY <1>4, <1>5
<1>12. ASSUME "cliPasswd" \notin use.ops, NEW t \in Tokens, Outlived(t)'
       PROVE  Outlived(t) /\ refresh'[t].u = refresh[t].u
  <2>1. op # "cliPasswd"
    BY <1>1, <1>12
  <2>2. refresh[t].u \in Users
    BY <1>3 DEF TableTypes
  <2>3. users'[refresh[t].u].pwAt = users[refresh[t].u].pwAt
    <3>1. CASE refresh[t].u = u
      <4>1. op # "cliRemove"
        BY <1>8, <1>12, <3>1 DEF Outlived
      <4> QED BY <1>4, <1>5, <2>1, <2>2, <3>1, <4>1
    <3>2. CASE refresh[t].u # u
      BY <1>5, <2>2, <3>2
    <3> QED BY <3>1, <3>2
  <2> QED BY <1>8, <1>12, <2>3 DEF Outlived
<1>13. TableInv'
  BY <1>1, <1>2, <1>3, <1>5, <1>6, <1>8, <1>9, <1>10, <1>11, <1>12, RequestsStill
<1>14. MemoryTypes'
  BY <1>1, <1>2, <1>3 DEF MemoryTypes, memory
<1> QED BY <1>13, <1>14 DEF AccountInv

LEMMA StepReload ==
    ASSUME AccountInv, ReloadReads \/ ReloadSets, UNCHANGED memory
    PROVE  AccountInv'
<1>1. UNCHANGED <<users, refresh, codes, jwts, req, ip, use, calls, crashes, sent, lockedTries>>
  BY DEF ReloadReads, ReloadSets, tables, bounds
<1>2. TableInv'
  BY <1>1, TablesStill DEF AccountInv
<1>3. MemoryTypes /\ users \in [Users -> UserRows]
  BY DEF AccountInv, TableInv, TableTypes
<1>4. cache' \in [Users -> UserRows] /\ reload' \in {<<>>} \cup [Users -> UserRows]
  <2>1. CASE ReloadReads
    BY <1>3, <2>1 DEF ReloadReads, MemoryTypes
  <2>2. CASE ReloadSets
    <3>1. reload \in [Users -> UserRows] /\ cache \in [Users -> UserRows]
      BY <1>3, <2>2 DEF ReloadSets, MemoryTypes
    <3>2. reload' = <<>> /\ cache' = [u \in Users |-> IF reload[u].st = "none" THEN cache[u] ELSE reload[u]]
      BY <2>2 DEF ReloadSets
    <3> QED BY <3>1, <3>2
  <2> QED BY <2>1, <2>2
<1>5. MemoryTypes'
  BY <1>1, <1>3, <1>4 DEF MemoryTypes, memory
<1> QED BY <1>2, <1>5 DEF AccountInv

LEMMA StepExpire ==
    ASSUME AccountInv, Expire, UNCHANGED memory
    PROVE  AccountInv'
<1>1. UNCHANGED <<refresh, cache, reload, jwts, req, bounds>>
  BY DEF Expire
<1>2. TableInv /\ TableTypes /\ RowsWhole /\ TokensOwned /\ MemoryTypes
  BY DEF AccountInv, TableInv
<1>3. CASE \E u \in Users : /\ users[u].locked
                            /\ users' = [users EXCEPT ![u].locked = FALSE]
                            /\ LockHistory /\ UNCHANGED <<ip, codes>>
  <2>1. PICK u \in Users : /\ users[u].locked
                           /\ users' = [users EXCEPT ![u].locked = FALSE]
                           /\ LockHistory /\ UNCHANGED <<ip, codes>>
    BY <1>3
  <2> PICK row \in UserRows : row = users[u]
    BY <1>2 DEF TableTypes
  <2> PICK new : new = [row EXCEPT !.locked = FALSE]
    OBVIOUS
  <2>2. /\ new \in UserRows /\ new.locked = FALSE /\ new.fails = row.fails /\ new.pwAt = row.pwAt /\ new.st = row.st
    BY DEF UserRows
  <2>3. users' \in [Users -> UserRows] /\ \A v \in Users : users'[v] = IF v = u THEN new ELSE users[v]
    BY <1>2, <2>1, <2>2 DEF TableTypes
  <2>4. row.st # "none"
    BY <1>2, <2>1 DEF RowsWhole, NoUser
  <2>5. RowsWhole'
    BY <1>2, <2>2, <2>3, <2>4 DEF RowsWhole
  <2>6. \A v \in Users : /\ users'[v].pwAt = users[v].pwAt /\ users'[v].st = users[v].st
                         /\ users'[v].fails \in {0, users[v].fails} /\ (users'[v].locked => users[v].locked)
    BY <2>2, <2>3
  <2>7. \A t \in Tokens : refresh'[t] = refresh[t] /\ refresh[t].u \in Users
    BY <1>1, <1>2 DEF TableTypes
  <2>8. TokensOwned'
    <3> SUFFICES ASSUME NEW t \in Tokens, refresh'[t].live
                 PROVE  refresh'[t].used /\ users'[refresh'[t].u].st # "none"
      BY DEF TokensOwned
    <3>1. refresh[t].used /\ users[refresh[t].u].st # "none"
      BY <1>2, <2>7 DEF TokensOwned
    <3> QED BY <2>6, <2>7, <3>1
  <2>9. \A t \in Tokens : Outlived(t)' => Outlived(t) /\ refresh'[t].u = refresh[t].u
    BY <2>6, <2>7 DEF Outlived
  <2>10. TableInv'
    BY <1>1, <1>2, <2>1, <2>3, <2>5, <2>6, <2>8, <2>9, RequestsStill DEF bounds, TableTypes
  <2>11. MemoryTypes'
    BY <1>1, <1>2, <2>1, MemoryKept DEF bounds, memory
  <2> QED BY <2>10, <2>11 DEF AccountInv
<1>4. CASE \E k \in Limiters : LimiterClears(k) /\ UNCHANGED <<users, codes, lockedTries>>
  <2>1. PICK k \in Limiters : LimiterClears(k) /\ UNCHANGED <<users, codes, lockedTries>>
    BY <1>4
  <2>2. TableInv'
    BY <1>1, <1>2, <2>1, TablesStill DEF bounds
  <2>3. ip' \in [Limiters -> [fails : Nat, locked : BOOLEAN]]
    BY <2>1, LimiterTypes DEF AccountInv
  <2>4. MemoryTypes'
    BY <1>1, <1>2, <2>3 DEF MemoryTypes, bounds, memory
  <2> QED BY <2>2, <2>4 DEF AccountInv
<1>5. CASE \E k \in DOMAIN codes : codes' = [codes EXCEPT ![k] = NoCode] /\ UNCHANGED <<users, ip, lockedTries>>
  <2>1. PICK k \in CodeKeys : codes' = [codes EXCEPT ![k] = NoCode] /\ UNCHANGED <<users, ip, lockedTries>>
    BY <1>2, <1>5 DEF TableTypes
  <2>2. NoCode \in [id : Nat, tries : Nat, u : Users] /\ NoCode.tries = 0
    BY NobodyIs DEF NoCode, Nobody
  <2>3. /\ codes' \in [CodeKeys -> [id : Nat, tries : Nat, u : Users]]
        /\ \A c \in CodeKeys : codes'[c] = codes[c] \/ codes'[c].tries = 0
    BY <1>2, <2>1, <2>2 DEF TableTypes
  <2>4. RowsWhole' /\ TokensOwned'
    BY <1>1, <1>2, <2>1 DEF RowsWhole, TokensOwned
  <2>5. LockHistory
    BY <1>2, <2>1 DEF LockHistory, TableInv, TriesLocked, TableTypes
  <2>6. \A t \in Tokens : Outlived(t)' => Outlived(t) /\ refresh'[t].u = refresh[t].u
    BY <1>1, <2>1 DEF Outlived
  <2>7. \A v \in Users : (users'[v].locked => users[v].locked) /\ users'[v].fails \in {0, users[v].fails}
    BY <2>1
  <2>8. TableInv'
    BY <1>1, <1>2, <2>1, <2>3, <2>4, <2>5, <2>6, <2>7, RequestsStill DEF bounds, TableTypes
  <2>9. MemoryTypes'
    BY <1>1, <1>2, <2>1, MemoryKept DEF bounds, memory
  <2> QED BY <2>8, <2>9 DEF AccountInv
<1> QED BY <1>3, <1>4, <1>5 DEF Expire

LEMMA StepHubDies ==
    ASSUME AccountInv, HubDies
    PROVE  AccountInv'
<1>1. /\ crashes' = crashes + 1 /\ req' = [r \in Reqs |-> Idle]
      /\ cache' = users /\ reload' = <<>> /\ ip' = [k \in Limiters |-> Unlimited]
      /\ UNCHANGED <<users, refresh, codes, jwts, use, calls, sent, lockedTries>>
      /\ tickets' = {} /\ minted' = minted
  BY DEF HubDies, Crash, tables
<1>2. /\ TableInv /\ TableTypes /\ RowsWhole /\ TokensOwned /\ MemoryTypes
      /\ TriesCounted /\ TriesLocked /\ FailsCounted
  BY DEF AccountInv, TableInv
<1>3. \A r \in Reqs : req'[r] = Idle
  BY <1>1
<1>4. TableTypes' /\ RowsWhole' /\ TokensOwned'
  BY <1>1, <1>2, IdleFits DEF TableTypes, RowsWhole, TokensOwned
<1>5. (\A r \in Reqs : RequestFits(req[r]))'
  <2> SUFFICES ASSUME NEW r \in Reqs PROVE RequestFits(req[r])'
    OBVIOUS
  <2>1. RequestFits(req'[r]) /\ use' = use
    BY <1>1, <1>3, IdleFits
  <2> QED BY <2>1 DEF RequestFits
<1>6. SessionsEnding'
  <2>1. crashes' > 0
    BY <1>1, <1>2 DEF TableTypes
  <2> QED BY <2>1 DEF SessionsEnding
<1>7. TriesCounted'
  <2> SUFFICES ASSUME NEW k \in CodeKeys
               PROVE  (codes[k].tries + Cardinality(Counting(k)) <= MaxCodeAttempts - 1 + Cardinality(Reqs))'
    BY DEF TriesCounted
  <2>1. Counting(k) \in SUBSET Reqs /\ Counting(k)' \in SUBSET Reqs /\ Counting(k)' \subseteq Counting(k)
    BY <1>3, IdleFits DEF Counting, Begins
  <2>2. /\ Cardinality(Counting(k)) \in Nat /\ Cardinality(Counting(k)') \in Nat /\ Cardinality(Reqs) \in Nat
        /\ Cardinality(Counting(k)') <= Cardinality(Counting(k))
    BY <2>1, Fewer
  <2>3. codes[k].tries + Cardinality(Counting(k)) <= MaxCodeAttempts - 1 + Cardinality(Reqs)
    BY <1>2 DEF TriesCounted
  <2>4. codes[k].tries \in Nat /\ MaxCodeAttempts \in Nat
    BY <1>2, AccountsAssumption DEF TableTypes
  <2> QED BY <1>1, <2>2, <2>3, <2>4
<1>8. TriesLocked'
  <2> SUFFICES ASSUME NEW u \in Users
               PROVE  (IF users[u].locked THEN lockedTries[u] + Cardinality(Unaware(u)) <= Cardinality(Reqs) - 1
                       ELSE lockedTries[u] = 0)'
    BY DEF TriesLocked
  <2>1. Unaware(u) \in SUBSET Reqs /\ Unaware(u)' \in SUBSET Reqs /\ Unaware(u)' \subseteq Unaware(u)
    BY <1>3, IdleFits DEF Unaware
  <2>2. /\ Cardinality(Unaware(u)) \in Nat /\ Cardinality(Unaware(u)') \in Nat /\ Cardinality(Reqs) \in Nat
        /\ Cardinality(Unaware(u)') <= Cardinality(Unaware(u)) /\ lockedTries[u] \in Nat
    BY <1>2, <2>1, Fewer DEF TableTypes
  <2>3. CASE users[u].locked
    <3>1. lockedTries[u] + Cardinality(Unaware(u)) <= Cardinality(Reqs) - 1
      BY <1>2, <2>3 DEF TriesLocked
    <3>2. lockedTries[u] + Cardinality(Unaware(u)') <= Cardinality(Reqs) - 1
      BY <2>2, <3>1
    <3> QED BY <1>1, <2>3, <3>2
  <2>4. CASE ~users[u].locked
    BY <1>1, <1>2, <2>4 DEF TriesLocked
  <2> QED BY <2>3, <2>4
<1>9. FailsCounted'
  <2> SUFFICES ASSUME NEW u \in Users
               PROVE  (users[u].fails <= LockThreshold - 1 + Cardinality(Reqs) * crashes + Cardinality(Locking(u)))'
    BY DEF FailsCounted
  <2>1. Locking(u) \in SUBSET Reqs /\ Locking(u)' \in SUBSET Reqs
    BY DEF Locking
  <2>2. /\ Cardinality(Locking(u)) \in Nat /\ Cardinality(Reqs) \in Nat /\ crashes \in Nat /\ LockThreshold \in Nat \ {0}
        /\ Cardinality(Locking(u)) <= Cardinality(Reqs) /\ Cardinality(Locking(u)') \in Nat
    BY <1>2, <2>1, Fewer, StoreAssumption DEF TableTypes
  <2>3. users[u].fails <= LockThreshold - 1 + Cardinality(Reqs) * crashes + Cardinality(Locking(u))
    BY <1>2 DEF FailsCounted
  <2>4. users[u].fails \in Nat
    BY <1>2 DEF TableTypes, UserRows
  <2> PICK f \in Nat : f = users[u].fails
    BY <2>4
  <2> PICK n \in Nat : n = Cardinality(Reqs)
    BY <2>2
  <2> PICK c \in Nat : c = crashes
    BY <2>2
  <2> PICK m \in Nat : m = Cardinality(Locking(u))
    BY <2>2
  <2>5. n * (c + 1) = n * c + n
    BY ONLY n \in Nat, c \in Nat
  <2> PICK p \in Nat : p = n * c
    BY ONLY n \in Nat, c \in Nat
  <2>6. f <= LockThreshold - 1 + p + m /\ m <= n
    BY <2>2, <2>3
  <2>7. f <= LockThreshold - 1 + (p + n)
    BY <2>2, <2>6
  <2>8. users'[u].fails = f /\ n * crashes' = p + n
    BY <1>1, <2>5
  <2> QED BY <2>2, <2>7, <2>8
<1>10. TableInv'
  BY <1>4, <1>5, <1>6, <1>7, <1>8, <1>9 DEF TableInv
<1>11. MemoryTypes'
  <2>1. ip' \in [Limiters -> [fails : Nat, locked : BOOLEAN]]
    BY <1>1 DEF Unlimited
  <2> QED BY <1>1, <1>2, <2>1 DEF MemoryTypes, TableTypes
<1> QED BY <1>10, <1>11 DEF AccountInv

LEMMA StepTicketsExpire ==
    ASSUME AccountInv, TicketsExpire
    PROVE  AccountInv'
<1>1. tickets' \subseteq tickets
  BY DEF TicketsExpire
<1>2. UNCHANGED <<accountsVars, minted>>
  BY DEF TicketsExpire
<1>3. TableInv'
  BY <1>2, TablesStill DEF AccountInv, accountsVars
<1> QED BY <1>1, <1>2, <1>3 DEF AccountInv, MemoryTypes, accountsVars

\* ---------------------------------------------------------------------------
\* The invariant holds at the start and is kept by every step.

LEMMA StartsWell == IdentitiesInit => AccountInv
<1> SUFFICES ASSUME IdentitiesInit PROVE AccountInv
  OBVIOUS
<1>1. /\ users = InitUsers /\ refresh = [t \in Tokens |-> NoToken] /\ codes = [k \in CodeKeys |-> NoCode]
      /\ cache = users /\ reload = <<>> /\ jwts = InitJwts /\ req = [r \in Reqs |-> Idle]
      /\ ip = [k \in Limiters |-> Unlimited] /\ calls = 0 /\ crashes = 0 /\ sent = 0
      /\ lockedTries = [u \in Users |-> 0] /\ tickets = {} /\ minted = 0
  BY DEF IdentitiesInit, AccountsInit, CodeKeys
<1>2. /\ NoToken \in [u : Users, live : BOOLEAN, used : BOOLEAN, ver : Nat, late : BOOLEAN] /\ NoToken.live = FALSE
      /\ NoCode \in [id : Nat, tries : Nat, u : Users] /\ NoCode.tries = 0
  BY NobodyIs DEF NoToken, NoCode, Nobody
<1>3. /\ users \in [Users -> UserRows] /\ \A r \in Reqs : req[r] = Idle
      /\ \A u \in Users : (users[u].st = "none" => users[u] = NoUser) /\ users[u].fails < LockThreshold
  BY <1>1, AccountsAssumption
<1>4. TableTypes
  BY <1>1, <1>2, <1>3, IdleFits DEF TableTypes
<1>5. (\A r \in Reqs : RequestFits(req[r])) /\ RowsWhole
  BY <1>3, IdleFits DEF RowsWhole
<1>6. \A t \in Tokens : ~refresh[t].live
  BY <1>1, <1>2
<1>7. TokensOwned /\ SessionsEnding
  BY <1>6 DEF TokensOwned, SessionsEnding
<1>8. /\ \A k : Counting(k) = {}
      /\ \A u : Unaware(u) = {} /\ Locking(u) = {}
  BY <1>3, IdleFits DEF Counting, Unaware, Locking, Begins
<1>9. /\ Cardinality({}) = 0 /\ Cardinality(Reqs) \in Nat \ {0}
  <2>1. {} \in SUBSET Reqs
    OBVIOUS
  <2> QED BY <2>1, Fewer, FS_EmptySet
<1>10. TriesCounted
  <2> SUFFICES ASSUME NEW k \in CodeKeys
               PROVE  codes[k].tries + Cardinality(Counting(k)) <= MaxCodeAttempts - 1 + Cardinality(Reqs)
    BY DEF TriesCounted
  <2>1. codes[k].tries = 0 /\ Cardinality(Counting(k)) = 0 /\ MaxCodeAttempts \in Nat \ {0}
    BY <1>1, <1>2, <1>8, <1>9, AccountsAssumption
  <2> QED BY <1>9, <2>1
<1>11. TriesLocked
  <2> SUFFICES ASSUME NEW u \in Users
               PROVE  IF users[u].locked THEN lockedTries[u] + Cardinality(Unaware(u)) <= Cardinality(Reqs) - 1
                      ELSE lockedTries[u] = 0
    BY DEF TriesLocked
  <2>1. lockedTries[u] = 0 /\ Unaware(u) = {}
    BY <1>1, <1>8
  <2>2. Cardinality(Unaware(u)) = 0
    BY <1>9, <2>1
  <2> QED BY <1>9, <2>1, <2>2
<1>12. FailsCounted
  <2> SUFFICES ASSUME NEW u \in Users
               PROVE  users[u].fails <= LockThreshold - 1 + Cardinality(Reqs) * crashes + Cardinality(Locking(u))
    BY DEF FailsCounted
  <2>1. users[u].fails \in Nat /\ users[u].fails < LockThreshold /\ LockThreshold \in Nat
    BY <1>3, StoreAssumption DEF UserRows
  <2>2. Cardinality(Reqs) * crashes = 0 /\ Cardinality(Locking(u)) = 0
    <3>1. Locking(u) = {}
      BY <1>8
    <3>2. Cardinality(Locking(u)) = 0
      BY <1>9, <3>1
    <3>3. Cardinality(Reqs) * crashes = 0
      BY <1>1, <1>9
    <3> QED BY <3>2, <3>3
  <2> QED BY <2>1, <2>2
<1>13. MemoryTypes
  <2>1. Unlimited \in [fails : Nat, locked : BOOLEAN]
    BY DEF Unlimited
  <2> QED BY <1>1, <1>3, <2>1, AccountsAssumption DEF MemoryTypes
<1> QED BY <1>4, <1>5, <1>7, <1>10, <1>11, <1>12, <1>13 DEF AccountInv, TableInv

LEMMA StepOfRequest ==
    ASSUME AccountInv, NEW r \in Reqs, RequestStep(r), UNCHANGED memory
    PROVE  AccountInv'
<1>1. CASE \/ ReadRow(r) \/ WriteRow(r) \/ Reread(r) \/ SetCache(r) \/ CountFail(r) \/ CreateSession(r)
           \/ SignTrusted(r) \/ RevokeRefresh(r) \/ RevokeAllRefresh(r) \/ IssueSession(r) \/ CountTry(r)
  BY <1>1, StepReadRow, StepWriteRow, StepReread, StepSetCache, StepCountFail, StepCreateSession, StepSignTrusted,
     StepRevokeRefresh, StepRevokeAllRefresh, StepIssueSession, StepCountTry
<1>2. CASE \/ DeleteCodes(r) \/ SendCode(r) \/ CreateUser(r) \/ DeleteRows(r) \/ CheckCode(r)
           \/ Login(r) \/ SecondFactor(r) \/ LimiterCleared(r) \/ TotpLogin(r) \/ FindRefresh(r) \/ RefreshHolder(r)
  BY <1>2, StepDeleteCodes, StepSendCode, StepCreateUser, StepDeleteRows, StepCheckCode, StepLogin, StepSecondFactor,
     StepLimiterCleared, StepTotpLogin, StepFindRefresh, StepRefreshHolder
<1>3. CASE \/ ChangePassword(r) \/ ResetRequest(r) \/ ResetConfirm(r) \/ Register(r) \/ Resend(r) \/ Verify(r)
           \/ DisableTotp(r) \/ DeleteAccount(r) \/ AdminAct(r)
  BY <1>3, StepChangePassword, StepResetRequest, StepResetConfirm, StepRegister, StepResend, StepVerify,
     StepDisableTotp, StepDeleteAccount, StepAdminAct
<1> QED BY <1>1, <1>2, <1>3 DEF RequestStep

LEMMA StepOfArrival ==
    ASSUME AccountInv, NEW r \in Reqs, Arrival(r), UNCHANGED memory
    PROVE  AccountInv'
BY StepLoginArrives, StepTotpArrives, StepRefreshArrives, StepPasswordArrives, StepGuestArrives, StepActivateTotp,
   StepAdminLogin, StepAdminArrives, StepAdminCreate DEF Arrival

LEMMA StepOfIdentity ==
    ASSUME AccountInv, NEW r \in Reqs, IdentityStep(r) \/ IdentityArrival(r)
    PROVE  AccountInv'
<1>1. CASE IdentityStep(r)
  <2>1. CASE Exchange(r) \/ Lookup(r) \/ WriteBind(r) \/ MintTicket(r)
    BY <2>1, StepExchange, StepLookup, StepWriteBind, StepMintTicket
  <2>2. CASE WechatLoginCallback(r) \/ AppWechatLogin(r) \/ AppWechatCallback(r) \/ AppleLogin(r)
    BY <2>2, StepWechatLoginCallback, StepAppWechatLogin, StepAppWechatCallback, StepAppleLogin
  <2>3. CASE WechatBindCallback(r) \/ AppWechatBindCallback(r) \/ AppWechatBind(r) \/ AppleBind(r)
    BY <2>3, StepBinds
  <2>4. CASE WechatConfirm(r) \/ AppWechatConfirm(r)
    BY <2>4, StepConfirms
  <2>5. CASE UnbindEmail(r) \/ UnbindPhone(r) \/ UnbindWechat(r) \/ UnbindApple(r)
    BY <2>5, StepUnbinds
  <2> QED BY <1>1, <2>1, <2>2, <2>3, <2>4, <2>5 DEF IdentityStep
<1>2. CASE IdentityArrival(r)
  <2>1. CASE \/ WechatLoginAuthorize(r) \/ AppWechatAuthorize(r) \/ WechatBindAuthorize(r) \/ AppWechatBindInit(r)
             \/ AppWechatBindAuthorize(r)
    BY <2>1, StepRedirects
  <2>2. CASE Callback(r) \/ SdkArrives(r) \/ SdkBinds(r)
    BY <2>2, StepExchangeArrives
  <2>3. CASE ConfirmArrives(r) \/ AppWechatHandoff(r)
    BY <2>3, StepConfirmArrives, StepHandoff
  <2>4. CASE BindEmail(r) \/ BindPhone(r)
    BY <2>4, StepBindSend
  <2>5. CASE VerifyEmail(r) \/ VerifyPhone(r)
    BY <2>5, StepVerified
  <2>6. CASE UnbindArrives(r)
    BY <2>6, StepPasswordArrives
  <2> QED BY <1>2, <2>1, <2>2, <2>3, <2>4, <2>5, <2>6 DEF IdentityArrival
<1> QED BY <1>1, <1>2

LEMMA StepKeeps == AccountInv /\ [IdentitiesNext]_identitiesVars => AccountInv'
<1> SUFFICES ASSUME AccountInv, [IdentitiesNext]_identitiesVars PROVE AccountInv'
  OBVIOUS
<1>1. CASE (CommandLine \/ ReloadReads \/ ReloadSets \/ Expire) /\ UNCHANGED memory
  BY <1>1, StepCommandLine, StepReload, StepExpire
<1>2. CASE HubDies \/ TicketsExpire
  BY <1>2, StepHubDies, StepTicketsExpire
<1>3. ASSUME NEW r \in Reqs,
             \/ (RequestStep(r) \/ Arrival(r)) /\ UNCHANGED memory
             \/ IdentityStep(r) \/ IdentityArrival(r)
      PROVE  AccountInv'
  BY <1>3, StepOfRequest, StepOfArrival, StepOfIdentity
<1>4. CASE UNCHANGED identitiesVars
  <2>1. TableInv'
    BY <1>4, TablesStill DEF AccountInv, identitiesVars, accountsVars
  <2>2. MemoryTypes'
    BY <1>4, MemoryKept DEF AccountInv, identitiesVars, accountsVars
  <2> QED BY <2>1, <2>2 DEF AccountInv
<1> QED BY <1>1, <1>2, <1>3, <1>4 DEF IdentitiesNext

\* Whatever clients, administrators and the command line do, and wherever the hub
\* dies, the tables, the requests and what is in memory keep their shape, and what
\* a list of statements owes to the tables is still in it.
THEOREM AccountsSafe == IdentitiesSpec => []AccountInv
<1>1. IdentitiesInit => AccountInv
  BY StartsWell
<1>2. AccountInv /\ [IdentitiesNext]_identitiesVars => AccountInv'
  BY StepKeeps
<1> QED BY <1>1, <1>2, PTL DEF IdentitiesSpec

\* ---------------------------------------------------------------------------
\* What the invariant says of secrets.

LEMMA SessionsEnd == ASSUME AccountInv PROVE OldSessionsEnd
<1> SUFFICES ASSUME "cliPasswd" \notin use.ops, NEW t \in Tokens, refresh[t].live,
                    refresh[t].ver < users[refresh[t].u].pwAt
             PROVE  refresh[t].late \/ Pending(refresh[t].u, "revokeAll") \/ crashes > 0
  BY DEF OldSessionsEnd
<1>1. refresh[t].late \/ crashes > 0 \/ \E r \in Reqs : Ends(req[r], refresh[t].u)
  BY DEF AccountInv, TableInv, SessionsEnding
<1>2. ASSUME NEW r \in Reqs, Ends(req[r], refresh[t].u)
      PROVE  Pending(refresh[t].u, "revokeAll")
  BY <1>2 DEF Ends, Pending
<1> QED BY <1>1, <1>2

LEMMA GuessesEnd == ASSUME AccountInv PROVE GuessesBounded
<1>1. TableTypes /\ TriesCounted /\ TriesLocked /\ FailsCounted
  BY DEF AccountInv, TableInv
<1>2. ASSUME NEW k \in DOMAIN codes
      PROVE  codes[k].tries <= MaxCodeAttempts + Cardinality(Reqs) - 1
  <2>1. k \in CodeKeys /\ codes[k].tries \in Nat /\ MaxCodeAttempts \in Nat
    BY <1>1, <1>2, AccountsAssumption DEF TableTypes
  <2>2. Counting(k) \in SUBSET Reqs
    BY DEF Counting
  <2>3. Cardinality(Counting(k)) \in Nat /\ Cardinality(Reqs) \in Nat
    BY <2>2, Fewer
  <2>4. codes[k].tries + Cardinality(Counting(k)) <= MaxCodeAttempts - 1 + Cardinality(Reqs)
    BY <1>1, <2>1 DEF TriesCounted
  <2> QED BY <2>1, <2>3, <2>4
<1>3. ASSUME NEW u \in Users
      PROVE  lockedTries[u] <= Cardinality(Reqs) - 1
  <2>1. Unaware(u) \in SUBSET Reqs /\ lockedTries[u] \in Nat
    BY <1>1 DEF Unaware, TableTypes
  <2>2. Cardinality(Unaware(u)) \in Nat /\ Cardinality(Reqs) \in Nat \ {0}
    BY <2>1, Fewer
  <2>3. lockedTries[u] + Cardinality(Unaware(u)) <= Cardinality(Reqs) - 1 \/ lockedTries[u] = 0
    BY <1>1 DEF TriesLocked
  <2> QED BY <2>1, <2>2, <2>3
<1>4. ASSUME NEW u \in Users
      PROVE  users[u].fails <= LockThreshold - 1 + Cardinality(Reqs) * (1 + crashes)
  <2>1. Locking(u) \in SUBSET Reqs /\ crashes \in Nat /\ users[u].fails \in Nat /\ LockThreshold \in Nat
    BY <1>1, StoreAssumption DEF Locking, TableTypes, UserRows
  <2> PICK n \in Nat : n = Cardinality(Reqs)
    BY <2>1, Fewer
  <2> PICK m \in Nat : m = Cardinality(Locking(u))
    BY <2>1, Fewer
  <2> PICK c \in Nat : c = crashes
    BY <2>1
  <2> PICK f \in Nat : f = users[u].fails
    BY <2>1
  <2>2. f <= LockThreshold - 1 + n * c + m /\ m <= n
    BY <1>1, <2>1, Fewer DEF FailsCounted
  <2>3. n * (1 + c) = n * c + n
    BY ONLY n \in Nat, c \in Nat
  <2> PICK p \in Nat : p = n * c
    BY ONLY n \in Nat, c \in Nat
  <2>4. f <= LockThreshold - 1 + (p + n)
    BY <2>1, <2>2
  <2> QED BY <2>3, <2>4
<1> QED BY <1>2, <1>3, <1>4 DEF GuessesBounded

\* SecretsHold for any number of accounts, requests, codes and crashes: a session from
\* before a new password is ended or is being ended (handleChangePassword and
\* handleResetConfirm revoke after they write), and the codes and passwords that can
\* be tried past a limit are as many as the requests in flight.
THEOREM SecretsAreSafe == IdentitiesSpec => []SecretsHold
<1>1. AccountInv => SecretsHold
  BY SessionsEnd, GuessesEnd DEF SecretsHold
<1> QED BY <1>1, AccountsSafe, PTL

\* ---------------------------------------------------------------------------
\* Who writes the table of users.

LEMMA WhoWrites ==
    ASSUME [IdentitiesNext]_identitiesVars
    PROVE  \/ users' = users \/ CommandLine \/ Expire
           \/ \E r \in Reqs : WriteRow(r) \/ CountFail(r) \/ CreateUser(r) \/ DeleteRows(r) \/ WriteBind(r)
<1>1. CASE UNCHANGED identitiesVars
  BY <1>1 DEF identitiesVars, accountsVars
<1>2. CASE (CommandLine \/ ReloadReads \/ ReloadSets \/ Expire) /\ UNCHANGED memory
  BY <1>2 DEF ReloadReads, ReloadSets, tables
<1>3. CASE HubDies \/ TicketsExpire
  BY <1>3 DEF HubDies, Crash, TicketsExpire, tables, accountsVars
<1>4. ASSUME NEW r \in Reqs, RequestStep(r) \/ Arrival(r) \/ IdentityStep(r) \/ IdentityArrival(r)
      PROVE  users' = users \/ WriteRow(r) \/ CountFail(r) \/ CreateUser(r) \/ DeleteRows(r) \/ WriteBind(r)
  <2>1. \A op, u, x, n : Arrive(r, op, u, x, n) => users' = users
    BY DEF Arrive, tables
  <2>2. \A op, todo : ArriveRunning(r, op, todo) => users' = users
    BY DEF ArriveRunning, tables
  <2>3. \A op, u : Exchanging(r, op, u) => users' = users
    BY DEF Exchanging, tables
  <2>4. \A op, todo : Decides(r, op, todo) => users' = users
    BY DEF Decides, tables
  <2>5. \A op, x : WithSession(r, op, x) => users' = users
    BY <2>1 DEF WithSession
  <2>6. Quiet => users' = users
    BY DEF Quiet, tables
  <2>7. CASE RequestStep(r)
    <3>1. CASE \/ ReadRow(r) \/ Reread(r) \/ SetCache(r) \/ CreateSession(r)
               \/ SignTrusted(r) \/ RevokeRefresh(r) \/ RevokeAllRefresh(r) \/ IssueSession(r) \/ CountTry(r)
      BY <3>1 DEF ReadRow, Reread, SetCache, CreateSession, SignTrusted, RevokeRefresh, RevokeAllRefresh,
                  IssueSession, CountTry, tables
    <3>2. CASE \/ DeleteCodes(r) \/ SendCode(r) \/ CheckCode(r) \/ Login(r) \/ SecondFactor(r)
               \/ LimiterCleared(r) \/ TotpLogin(r) \/ FindRefresh(r) \/ RefreshHolder(r)
      BY <3>2 DEF DeleteCodes, SendCode, CheckCode, Login, SecondFactor, LimiterCleared, TotpLogin, FindRefresh,
                  RefreshHolder, tables
    <3>3. CASE \/ ChangePassword(r) \/ ResetRequest(r) \/ ResetConfirm(r) \/ Register(r) \/ Resend(r) \/ Verify(r)
               \/ DisableTotp(r) \/ DeleteAccount(r) \/ AdminAct(r)
      BY <3>3 DEF ChangePassword, ResetRequest, ResetConfirm, Register, Resend, Verify, DisableTotp, DeleteAccount,
                  AdminAct, tables
    <3> QED BY <2>7, <3>1, <3>2, <3>3 DEF RequestStep
  <2>8. CASE Arrival(r)
    BY <2>1, <2>2, <2>5, <2>8 DEF Arrival, LoginArrives, TotpArrives, RefreshArrives, PasswordArrives, GuestArrives,
       ActivateTotp, DisableArrives, AdminLogin, DeleteArrives, AdminArrives, AdminCreate, tables
  <2>9. CASE IdentityStep(r)
    <3>1. CASE Exchange(r) \/ Lookup(r) \/ MintTicket(r)
      BY <3>1 DEF Exchange, Lookup, MintTicket, tables
    <3>2. CASE WechatLoginCallback(r) \/ AppWechatLogin(r) \/ AppWechatCallback(r) \/ AppleLogin(r)
      BY <2>4, <3>2 DEF WechatLoginCallback, AppWechatLogin, AppWechatCallback, AppleLogin
    <3>3. CASE \/ WechatBindCallback(r) \/ AppWechatBindCallback(r) \/ AppWechatBind(r) \/ AppleBind(r)
               \/ WechatConfirm(r) \/ AppWechatConfirm(r)
      BY <2>4, <3>3 DEF WechatBindCallback, AppWechatBindCallback, AppWechatBind, AppleBind, WechatConfirm,
                        AppWechatConfirm
    <3>4. CASE UnbindEmail(r) \/ UnbindPhone(r) \/ UnbindWechat(r) \/ UnbindApple(r)
      BY <2>4, <3>4 DEF UnbindEmail, UnbindPhone, UnbindWechat, UnbindApple, Unbinds
    <3> QED BY <2>9, <3>1, <3>2, <3>3, <3>4 DEF IdentityStep
  <2>10. CASE IdentityArrival(r)
    <3>1. CASE \/ WechatLoginAuthorize(r) \/ AppWechatAuthorize(r) \/ WechatBindAuthorize(r) \/ AppWechatBindInit(r)
               \/ AppWechatBindAuthorize(r)
      BY <2>6, <3>1 DEF WechatLoginAuthorize, AppWechatAuthorize, WechatBindAuthorize, AppWechatBindInit,
                        AppWechatBindAuthorize, Redirect, RedirectOf
    <3>2. CASE Callback(r) \/ SdkArrives(r) \/ SdkBinds(r) \/ ConfirmArrives(r) \/ AppWechatHandoff(r)
      BY <2>2, <2>3, <3>2 DEF Callback, SdkArrives, SdkBinds, ConfirmArrives, AppWechatHandoff, tables
    <3>3. CASE BindEmail(r) \/ BindPhone(r) \/ VerifyEmail(r) \/ VerifyPhone(r) \/ UnbindArrives(r)
      BY <2>2, <2>5, <3>3 DEF BindEmail, BindPhone, VerifyEmail, VerifyPhone, Verified, UnbindArrives
    <3> QED BY <2>10, <3>1, <3>2, <3>3 DEF IdentityArrival
  <2> QED BY <1>4, <2>7, <2>8, <2>9, <2>10
<1> QED BY <1>1, <1>2, <1>3, <1>4 DEF IdentitiesNext

\* One row changes, and how.
Rewrites(r, u) == /\ req[r].at = "run" /\ Stmt(r) \in Statements /\ Warranted(req[r], Stmt(r)) /\ RequestFits(req[r])
                  /\ Stmt(r).u = u
RowRewritten(r, u) == Rewrites(r, u) /\ Stmt(r).do \in RowStatements /\ users'[u] = Updated(users[u], Stmt(r))
RowBound(r, u) == Rewrites(r, u) /\ Stmt(r).do = "bindIds" /\ users'[u] = Bound(users[u], Stmt(r).x, Stmt(r).ids)
RowGone(u) == users[u].st = "none" \/ users'[u].st \in {"none", "deleted"}
RowAside(u) == /\ users'[u].ids = users[u].ids /\ users'[u].ok = users[u].ok
               /\ users'[u].st = "active" => users[u].st = "active" \/ "cliUnban" \in use.ops

LEMMA RowWrites ==
    ASSUME AccountInv, [IdentitiesNext]_identitiesVars, NEW u \in Users
    PROVE  \/ RowAside(u) \/ RowGone(u)
           \/ \E r \in Reqs : RowRewritten(r, u) \/ RowBound(r, u)
<1>1. TableInv /\ TableTypes /\ RowsWhole /\ users \in [Users -> UserRows]
  BY DEF AccountInv, TableInv, TableTypes
<1>2. ASSUME users' = users
      PROVE  RowAside(u)
  BY <1>2 DEF RowAside
<1>3. CASE CommandLine
  <2>1. PICK op \in CliOps, v \in Users :
           op \in use.ops /\ users[v].st # "none" /\ users' = [users EXCEPT ![v] = CliPlan(op, users[v])]
    BY <1>3 DEF CommandLine
  <2>2. CASE u # v
    BY <1>1, <2>1, <2>2 DEF RowAside
  <2>3. CASE u = v
    <3> PICK row \in UserRows : row = users[u]
      BY <1>1
    <3> PICK new : new = CliPlan(op, row)
      OBVIOUS
    <3>1. users'[u] = new
      BY <1>1, <2>1, <2>3
    <3>2. /\ new.st = "none" <=> op = "cliRemove"
          /\ op # "cliRemove" => new.ids = row.ids /\ new.ok = row.ok
          /\ new.st = "active" => row.st = "active" \/ op = "cliUnban"
      BY <2>1, <2>3, CliPlanIs
    <3> QED BY <2>1, <3>1, <3>2 DEF RowAside, RowGone
  <2> QED BY <2>2, <2>3
<1>4. CASE Expire
  <2>1. CASE \E v \in Users : users' = [users EXCEPT ![v].locked = FALSE]
    <3>1. PICK v \in Users : users' = [users EXCEPT ![v].locked = FALSE]
      BY <2>1
    <3>2. users'[u] = IF u = v THEN [users[u] EXCEPT !.locked = FALSE] ELSE users[u]
      BY <1>1, <3>1
    <3> QED BY <1>1, <3>2 DEF RowAside, UserRows
  <2>2. CASE users' = users
    BY <1>2, <2>2
  <2> QED BY <1>4, <2>1, <2>2 DEF Expire
<1>5. ASSUME NEW r \in Reqs, WriteRow(r) \/ CountFail(r) \/ WriteBind(r) \/ DeleteRows(r)
      PROVE  RowAside(u) \/ RowGone(u) \/ RowRewritten(r, u) \/ RowBound(r, u)
  <2> PICK s : s = Stmt(r)
    OBVIOUS
  <2>1. /\ req[r].at = "run" /\ RequestFits(req[r])
        /\ s.do # "countTry" => s \in Statements /\ Warranted(req[r], s)
    <3>1. req[r].at = "run"
      BY <1>5 DEF WriteRow, CountFail, WriteBind, DeleteRows, Running
    <3> QED BY <1>1, <3>1, RunningIs DEF TableInv
  <2>2. CASE WriteRow(r)
    <3>1. /\ s.do \in RowStatements
          /\ users' = users \/ users' = [users EXCEPT ![s.u] = IF users[s.u].st = "none" THEN users[s.u]
                                                               ELSE Updated(users[s.u], s)]
      BY <2>2 DEF WriteRow
    <3>2. s \in Statements /\ Warranted(req[r], s)
      BY <2>1, <3>1 DEF RowStatements, CredentialStatements
    <3>3. CASE users' = users \/ u # s.u
      <4>1. users'[u] = users[u]
        BY <1>1, <3>1, <3>3
      <4> QED BY <4>1 DEF RowAside
    <3>4. CASE users' # users /\ u = s.u
      <4>1. users'[u] = users[u] \/ users'[u] = Updated(users[u], s)
        BY <1>1, <3>1, <3>4
      <4> QED BY <2>1, <3>1, <3>2, <3>4, <4>1 DEF RowAside, RowRewritten, Rewrites
    <3> QED BY <3>3, <3>4
  <2>3. CASE CountFail(r)
    <3>1. /\ s.do = "incFails"
          /\ users' = [users EXCEPT ![s.u] = IF users[s.u].st = "none" THEN users[s.u] ELSE Updated(users[s.u], s)]
      BY <2>3 DEF CountFail, Running, Stmt
    <3>2. s \in Statements /\ Warranted(req[r], s) /\ s.do \in RowStatements
      BY <2>1, <3>1 DEF RowStatements
    <3>3. CASE u # s.u
      BY <1>1, <3>1, <3>3 DEF RowAside
    <3>4. CASE u = s.u
      <4>1. users'[u] = users[u] \/ users'[u] = Updated(users[u], s)
        BY <1>1, <3>1, <3>4
      <4> QED BY <2>1, <3>2, <3>4, <4>1 DEF RowAside, RowRewritten, Rewrites
    <3> QED BY <3>3, <3>4
  <2>4. CASE WriteBind(r)
    <3>1. /\ s.do = "bindIds"
          /\ users' = users \/ users' = [users EXCEPT ![s.u] = IF users[s.u].st = "none" THEN users[s.u]
                                                               ELSE Bound(users[s.u], s.x, s.ids)]
      BY <2>4 DEF WriteBind, Running, Stmt
    <3>2. s \in Statements /\ Warranted(req[r], s)
      BY <2>1, <3>1
    <3>3. CASE users' = users \/ u # s.u
      <4>1. users'[u] = users[u]
        BY <1>1, <3>1, <3>3
      <4> QED BY <4>1 DEF RowAside
    <3>4. CASE users' # users /\ u = s.u
      <4>1. users'[u] = users[u] \/ users'[u] = Bound(users[u], s.x, s.ids)
        BY <1>1, <3>1, <3>4
      <4> QED BY <2>1, <3>1, <3>2, <3>4, <4>1 DEF RowAside, RowBound, Rewrites
    <3> QED BY <3>3, <3>4
  <2>5. CASE DeleteRows(r)
    <3>1. users' = [users EXCEPT ![s.u] = IF users[s.u].st = "none" THEN users[s.u] ELSE Tombstone(users[s.u])]
      BY <2>5 DEF DeleteRows
    <3>2. CASE u # s.u
      BY <1>1, <3>1, <3>2 DEF RowAside
    <3>3. CASE u = s.u
      <4>1. users'[u] = users[u] \/ users'[u] = Tombstone(users[u])
        BY <1>1, <3>1, <3>3
      <4>2. Tombstone(users[u]).st = "deleted"
        BY DEF Tombstone, NoUser
      <4> QED BY <4>1, <4>2 DEF RowAside, RowGone
    <3> QED BY <3>2, <3>3
  <2> QED BY <1>5, <2>2, <2>3, <2>4, <2>5
<1>6. ASSUME NEW r \in Reqs, CreateUser(r)
      PROVE  RowAside(u) \/ RowGone(u)
  <2>1. users' = users \/ \E v \in FreeUsers : \E new : users' = [users EXCEPT ![v] = new]
    BY <1>6 DEF CreateUser
  <2>2. ASSUME NEW v \in FreeUsers, NEW new, users' = [users EXCEPT ![v] = new]
        PROVE  RowAside(u) \/ RowGone(u)
    BY <1>1, <2>2 DEF FreeUsers, RowAside, RowGone
  <2> QED BY <1>2, <2>1, <2>2
<1> QED BY <1>2, <1>3, <1>4, <1>5, <1>6, WhoWrites

\* ---------------------------------------------------------------------------
\* A ban, and the last way in.

LEMMA BanStep ==
    ASSUME AccountInv, [IdentitiesNext]_identitiesVars, NEW u \in Users,
           users[u].st \in {"banned", "deleted"}, users'[u].st = "active"
    PROVE  \/ \E op \in {"unban", "cliUnban"} : op \in use.ops
           \/ \E r \in Reqs : req[r].op = "verify" /\ req[r].u = u /\ req[r].row.st = "pending"
<1>1. users[u] \in UserRows
  BY DEF AccountInv, TableInv, TableTypes
<1>2. CASE RowAside(u) \/ RowGone(u)
  BY <1>2 DEF RowAside, RowGone
<1>3. ASSUME NEW r \in Reqs, RowRewritten(r, u)
      PROVE  \/ "unban" \in use.ops
             \/ req[r].op = "verify" /\ req[r].u = u /\ req[r].row.st = "pending"
  <2> PICK s \in Statements : s = Stmt(r)
    BY <1>3 DEF RowRewritten, Rewrites
  <2>1. s.do \in RowStatements /\ users'[u] = Updated(users[u], s) /\ s.u = u /\ Warranted(req[r], s)
        /\ req[r].at = "run" /\ RequestFits(req[r])
    BY <1>3 DEF RowRewritten, Rewrites
  <2>2. s.do = "setStatus" /\ s.x = "active"
    BY <1>1, <2>1, UpdatedIs
  <2>3. req[r].op = "unban" \/ (req[r].op = "verify" /\ req[r].row.st = "pending" /\ s.u = req[r].u)
    BY <2>1, <2>2 DEF Warranted
  <2>4. req[r].op \in use.ops
    BY <2>1 DEF RequestFits
  <2> QED BY <2>1, <2>3, <2>4
<1>4. ASSUME NEW r \in Reqs, RowBound(r, u)
      PROVE  FALSE
  <2> PICK s \in Statements : s = Stmt(r)
    BY <1>4 DEF RowBound, Rewrites
  <2>1. s.do = "bindIds" /\ users'[u] = Bound(users[u], s.x, s.ids)
    BY <1>4 DEF RowBound
  <2>2. s.x \in {"wxweb", "wxapp", "apple"} /\ s.ids \in SUBSET Identifiers
    BY <2>1, Kinds DEF BindStatements
  <2> QED BY <1>1, <2>1, <2>2, BoundIs
<1> QED BY <1>2, <1>3, <1>4, RowWrites

LEMMA MethodStep ==
    ASSUME AccountInv, [IdentitiesNext]_identitiesVars, NEW u \in Users,
           Methods(users[u]) # {}, users[u].st = "active", users'[u].st = "active"
    PROVE  \/ Methods(users'[u]) # {}
           \/ \E r \in Reqs : Running(r, "setIds") /\ Stmt(r).u = u
           \/ \E r \in Reqs : Running(r, "clearIds") /\ req[r].u = u /\ Methods(req[r].row) # Methods(users[u])
<1>1. users[u] \in UserRows
  BY DEF AccountInv, TableInv, TableTypes
<1> PICK row \in UserRows : row = users[u]
  BY <1>1
<1> PICK new : new = users'[u]
  OBVIOUS
<1>2. \A a, b : a.ids = b.ids /\ a.ok = b.ok => Methods(a) = Methods(b)
  BY DEF Methods
<1>3. CASE RowAside(u) \/ RowGone(u)
  <2>1. new.ids = row.ids /\ new.ok = row.ok
    BY <1>3 DEF RowAside, RowGone
  <2> QED BY <1>2, <2>1
<1>4. ASSUME NEW r \in Reqs, RowRewritten(r, u)
      PROVE  \/ Methods(new) # {}
             \/ Running(r, "setIds") /\ Stmt(r).u = u
             \/ Running(r, "clearIds") /\ req[r].u = u /\ Methods(req[r].row) # Methods(row)
  <2> PICK s \in Statements : s = Stmt(r)
    BY <1>4 DEF RowRewritten, Rewrites
  <2>1. s.do \in RowStatements /\ new = Updated(row, s) /\ s.u = u /\ Warranted(req[r], s)
        /\ req[r].at = "run" /\ RequestFits(req[r])
    BY <1>4 DEF RowRewritten, Rewrites
  <2>2. \A do : s.do = do => Running(r, do)
    BY <2>1 DEF Running, Stmt
  <2>3. CASE s.do \notin {"setIds", "setVerified", "clearIds"}
    <3>1. Updated(row, s).ids = row.ids /\ Updated(row, s).ok = row.ok
      BY <2>1, <2>3, UpdatedIs
    <3>2. new.ids = row.ids /\ new.ok = row.ok
      BY <2>1, <3>1
    <3> QED BY <1>2, <3>2
  <2>4. CASE s.do = "setIds"
    BY <2>1, <2>2, <2>4
  <2>5. CASE s.do = "setVerified"
    <3>1. Updated(row, s).ids = row.ids /\ row.ok \subseteq Updated(row, s).ok
      BY <2>1, <2>5, UpdatedIs
    <3>2. new.ids = row.ids /\ row.ok \subseteq new.ok
      BY <2>1, <3>1
    <3>3. Methods(row) \subseteq Methods(new)
      BY <3>2 DEF Methods
    <3> QED BY <3>3
  <2>6. CASE s.do = "clearIds"
    <3>1. Updated(row, s).ids = row.ids \ s.ids /\ Updated(row, s).ok = row.ok \ s.ids
      BY <2>1, <2>6, UpdatedIs
    <3>2. new.ids = row.ids \ s.ids /\ new.ok = row.ok \ s.ids
      BY <2>1, <3>1
    <3> PICK q : q = req[r]
      OBVIOUS
    <3>3. /\ s.u = q.u
          /\ q.row.st = "none" \/ Methods(q.row) \ {q.x} # {}
          /\ \/ q.x \in Channels \cup {"apple"} /\ s.ids = {q.x}
             \/ q.x = "wechat" /\ s.ids = WechatIds
      BY <2>1, <2>6 DEF Warranted
    <3>4. Methods(row) \ {q.x} \subseteq Methods(new)
      <4>1. CASE q.x \in Channels \cup {"apple"} /\ s.ids = {q.x}
        BY <3>2, <4>1 DEF Methods, Channels
      <4>2. CASE q.x = "wechat" /\ s.ids = WechatIds
        BY <3>2, <4>2 DEF Methods, Channels, WechatIds
      <4> QED BY <3>3, <4>1, <4>2
    <3>5. Methods(NoUser) = {}
      BY DEF Methods, NoUser
    <3>6. q.row.st = "none" => q.row = NoUser
      BY <2>1 DEF RequestFits
    <3>7. CASE Methods(q.row) # Methods(row)
      BY <2>1, <2>2, <2>6, <3>3, <3>7
    <3>8. CASE Methods(q.row) = Methods(row)
      <4>1. Methods(row) \ {q.x} # {}
        BY <3>3, <3>5, <3>6, <3>8
      <4> QED BY <3>4, <4>1
    <3> QED BY <3>7, <3>8
  <2> QED BY <2>3, <2>4, <2>5, <2>6
<1>5. ASSUME NEW r \in Reqs, RowBound(r, u)
      PROVE  Methods(new) # {}
  <2> PICK s \in Statements : s = Stmt(r)
    BY <1>5 DEF RowBound, Rewrites
  <2>1. s.do = "bindIds" /\ new = Bound(row, s.x, s.ids) /\ Warranted(req[r], s)
    BY <1>5 DEF RowBound, Rewrites
  <2>2. s.x \in {"wxweb", "wxapp", "apple"} /\ s.ids \in SUBSET Identifiers
    BY <2>1, Kinds DEF BindStatements
  <2>3. s.x \in s.ids
    BY <2>1 DEF Warranted
  <2>4. s.x \in new.ids
    <3>1. s.x \in Bound(row, s.x, s.ids).ids
      BY <2>2, <2>3, BoundIs
    <3> QED BY <2>1, <3>1
  <2> QED BY <2>2, <2>4 DEF Methods
<1> QED BY <1>3, <1>4, <1>5, RowWrites

\* AccountKept for any number of accounts and requests: whatever lists of statements
\* run beside each other, a ban is lifted only by an administrator or by a code that
\* was read as pending before it (handleVerifyEmail), and an unbinding leaves a way in
\* as long as the ways are the ones that it counted (countOtherLoginMethods).
THEOREM AccountsKept == IdentitiesSpec => AccountKept
<1>1. AccountInv /\ [IdentitiesNext]_identitiesVars =>
        [\A u \in Users : users[u].st \in {"banned", "deleted"} /\ users'[u].st = "active" =>
           \/ \E op \in {"unban", "cliUnban"} : op \in use.ops
           \/ \E r \in Reqs : req[r].op = "verify" /\ req[r].u = u /\ req[r].row.st = "pending"]_accountsVars
  BY BanStep
<1>2. AccountInv /\ [IdentitiesNext]_identitiesVars =>
        [\A u \in Users : Methods(users[u]) # {} /\ users[u].st = "active" /\ users'[u].st = "active" =>
           \/ Methods(users'[u]) # {}
           \/ \E r \in Reqs : Running(r, "setIds") /\ Stmt(r).u = u
           \/ \E r \in Reqs : Running(r, "clearIds") /\ req[r].u = u
                              /\ Methods(req[r].row) # Methods(users[u])]_identitiesVars
  BY MethodStep
<1> QED BY <1>1, <1>2, AccountsSafe, PTL DEF IdentitiesSpec, AccountKept, BanHeld, LoginMethodKept
=================================================================================
