------------------------------ MODULE AccountStore ------------------------------
(* The rows that accounts live in and the statements of the PostgreSQL store
   that change them.  A request of the hub is, after what it has read, a list of
   statements, each awaited and so a step of its own; this module says what one
   statement does to the tables, the modules of the handlers say which list a
   handler runs.

   An identity is the kind of it: the model has one e-mail address, one phone
   number, one WeChat and one Apple account, which several users may want.     *)
EXTENDS Naturals, Sequences, FiniteSets

CONSTANTS
  Users,            \* the ids of the table users, a free one included
  Tokens,           \* the ids of the table refresh_tokens, 1 .. n
  LockThreshold     \* security.loginLockThreshold

ASSUME StoreAssumption ==
  /\ IsFiniteSet(Users) /\ Users # {} /\ IsFiniteSet(Tokens) /\ Tokens \subseteq Nat \ {0}
  /\ LockThreshold \in Nat \ {0}

Channels == {"email", "phone"}
NameOf(c) == IF c = "email" THEN "name:email" ELSE "name:phone"
WechatIds == {"wxweb", "wxapp", "union", "stray"}
Identifiers == Channels \cup {NameOf(c) : c \in Channels} \cup WechatIds \cup {"apple"}
Passwords == {"p", "q"}

\* A row of the table users.
Statuses == {"none", "pending", "active", "banned", "deleted"}
Roles == {"user", "readonly", "operator", "admin"}
UserRows == [st : Statuses, ver : Nat, pwAt : Nat, pw : Passwords \cup {"unusable"}, totp : BOOLEAN, role : Roles,
             ids : SUBSET Identifiers, ok : SUBSET Identifiers, fails : Nat, locked : BOOLEAN]

\* No such row.
NoUser == [st |-> "none", ver |-> 0, pwAt |-> 0, pw |-> "unusable", totp |-> FALSE, role |-> "user",
           ids |-> {}, ok |-> {}, fails |-> 0, locked |-> FALSE]

NoToken == [u |-> CHOOSE u \in Users : TRUE, live |-> FALSE, used |-> FALSE, ver |-> 0, late |-> FALSE]

\* A code that was sent: its id, and the wrong and right tries of it so far.
NoCode == [id |-> 0, tries |-> 0, u |-> CHOOSE u \in Users : TRUE]

\* INSERT INTO users: account_status is 'active' unless a later statement says
\* otherwise, and ver is 1.
NewUser(pw, ids) == [NoUser EXCEPT !.st = "active", !.ver = 1, !.pwAt = 1, !.pw = pw, !.ids = ids]

\* The UNIQUE indexes on name, email, phone, openids, unionid and apple_sub.
Holder(users, k) == IF \E u \in Users : k \in users[u].ids
                    THEN {CHOOSE u \in Users : k \in users[u].ids} ELSE {}
Taken(users, u, ids) == \E v \in Users \ {u} : users[v].ids \cap ids # {}

\* UPDATE users SET ... WHERE id = u, for the statements of one row.
\* (pwAt, the ver that the last change of the password led to, is history.)
Credential(row, s) ==
  CASE s.do = "setPassword" -> [row EXCEPT !.pw = s.x, !.ver = @ + 1, !.pwAt = row.ver + 1]
    [] s.do = "bumpVersion" -> [row EXCEPT !.ver = @ + 1]
    [] s.do = "setTotp"     -> [row EXCEPT !.totp = s.on]
    [] s.do = "setIds"      -> [row EXCEPT !.ids = @ \cup s.ids, !.ok = @ \ s.ids]
    [] s.do = "setVerified" -> [row EXCEPT !.ok = @ \cup s.ids]
    [] s.do = "clearIds"    -> [row EXCEPT !.ids = @ \ s.ids, !.ok = @ \ s.ids]

Standing(row, s) ==
  CASE s.do = "setStatus"   -> [row EXCEPT !.st = s.x]
    [] s.do = "setRole"     -> [row EXCEPT !.role = s.x]
    [] s.do = "incFails"    -> [row EXCEPT !.fails = @ + 1]
    [] s.do = "clearFails"  -> [row EXCEPT !.fails = 0]
    [] s.do = "lock"        -> [row EXCEPT !.locked = TRUE, !.fails = 0]
    [] s.do = "unlock"      -> [row EXCEPT !.locked = FALSE, !.fails = 0]

CredentialStatements == {"setPassword", "bumpVersion", "setTotp", "setIds", "setVerified", "clearIds"}
RowStatements == CredentialStatements \cup {"setStatus", "setRole", "incFails", "clearFails", "lock", "unlock"}

Updated(row, s) == IF s.do \in CredentialStatements THEN Credential(row, s) ELSE Standing(row, s)

\* bindWechat and bindWechatApp write the openid of their side and the unionid
\* they were given, NULL included; bindApple writes the one id of Apple.
Bound(row, side, ids) ==
  [row EXCEPT !.ids = IF side = "apple" THEN @ \cup {"apple"}
                      ELSE (@ \ ({side, "union"} \cup (IF side = "wxweb" THEN {"stray"} ELSE {}))) \cup ids]

\* deleteAccount: the row stays as a tombstone.  The statement clears the
\* e-mail, the phone, the app's openid and the Apple id; the website's openid and
\* the unionid of WeChat stay.
Tombstone(row) == [NoUser EXCEPT !.st = "deleted", !.ver = row.ver, !.pwAt = row.pwAt, !.pw = "unusable",
                                 !.role = row.role, !.ids = row.ids \cap {"wxweb", "stray", "union"},
                                 !.fails = row.fails, !.locked = row.locked]

\* The writes after which the wrapped store reads the row again for the cache.
Mutators == RowStatements \ {"incFails", "clearFails"}

\* DELETE FROM refresh_tokens WHERE user_id = u.
WithoutTokens(refresh, u) ==
  [t \in Tokens |-> IF refresh[t].used /\ refresh[t].u = u THEN [refresh[t] EXCEPT !.live = FALSE] ELSE refresh[t]]
================================================================================
