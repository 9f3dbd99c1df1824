------------------------------- MODULE Identities -------------------------------
(* The ways into an account other than its password: e-mail and phone that are
   bound with a code, WeChat of the website and of the app, Apple.  The steps of
   OAuth leave one-time tickets in the memory of the hub: the state of a redirect,
   a WeChat identity that waits for "create an account", a handoff to the app, a
   token that binds from a browser without a session.

   A request here goes, before it reads, through the exchange of a code with
   WeChat or Apple ("exchange").                                              *)
EXTENDS Accounts

CONSTANT MaxTickets    \* bound: how many tickets are made

ASSUME MaxTickets \in Nat

VARIABLES
  tickets,     \* the maps of one-time tickets: number, kind, user, identities
  minted       \* how many were made

identitiesVars == <<accountsVars, tickets, minted>>
memory == <<tickets, minted>>

\* ---------------------------------------------------------------------------
\* Tickets.
Mint(k, u, ids) ==
  /\ minted < MaxTickets /\ minted' = minted + 1
  /\ tickets' = tickets \cup {[n |-> minted + 1, k |-> k, u |-> u, ids |-> ids]}

\* A ticket is looked up and deleted in one step, before anything is awaited.
Redeem(t) == tickets' = tickets \ {t} /\ UNCHANGED minted

TicketsExpire == \E t \in tickets : tickets' = tickets \ {t} /\ UNCHANGED <<accountsVars, minted>>

Quiet == UNCHANGED <<tables, cache, reload, jwts, req, ip, use, crashes, sent, lockedTries>>

Redirect(r, k) == Called(r, k) /\ Mint(k, Nobody, {}) /\ Quiet
RedirectOf(r, op, k) == \E j \in jwts : Authenticated(j) /\ Called(r, op) /\ Mint(k, j.u, {}) /\ Quiet

\* The redirects to WeChat: of a guest, and of a user who binds.
WechatLoginAuthorize(r) == Redirect(r, "wx-login")

AppWechatAuthorize(r) == Redirect(r, "app-login")

WechatBindAuthorize(r) == RedirectOf(r, "bind", "bind")

AppWechatBindInit(r) == RedirectOf(r, "bindInit", "bindToken")

AppWechatBindAuthorize(r) ==
  /\ Called(r, "app-bind")
  /\ \E t \in tickets :
       /\ t.k = "bindToken"
       /\ minted < MaxTickets /\ minted' = minted + 1
       /\ tickets' = (tickets \ {t}) \cup {[n |-> minted + 1, k |-> "app-bind", u |-> t.u, ids |-> {}]}
  /\ Quiet

\* ---------------------------------------------------------------------------
\* Arrivals that talk to WeChat or Apple first.
Exchanging(r, op, u) ==
  /\ Called(r, op)
  /\ req' = [req EXCEPT ![r] = [Idle EXCEPT !.op = op, !.u = u, !.at = "exchange"]]
  /\ UNCHANGED <<tables, cache, reload, jwts, ip, use, crashes, sent, lockedTries>>

Redirects == {"wx-login", "app-login", "bind", "app-bind"}
Callback(r) == \E t \in tickets : t.k \in Redirects /\ Redeem(t) /\ Exchanging(r, t.k, t.u)

\* The log-ins of the app count the failures of an address.
SdkArrives(r) ==
  \E op \in {"app-sdk", "apple"} : ~ip[Limiter(op)].locked /\ Exchanging(r, op, Nobody) /\ UNCHANGED memory

SdkBinds(r) ==
  \E j \in jwts, op \in {"app-sdk-bind", "apple-bind"} : Authenticated(j) /\ Exchanging(r, op, j.u) /\ UNCHANGED memory

\* What the exchange gives: the openid of the side that was asked, and with it the
\* unionid or not; or an error.
Side(op) == CASE op \in Redirects -> "wxweb"
              [] op \in {"app-sdk", "app-sdk-bind"} -> "wxapp"
              [] OTHER -> "apple"

Exchange(r) ==
  /\ req[r].at = "exchange"
  /\ \/ /\ \E ids \in {{Side(req[r].op)}, {Side(req[r].op), "union"}} :
             /\ Side(req[r].op) = "apple" => ids = {"apple"}
             /\ req' = [req EXCEPT ![r] = [@ EXCEPT !.at = "lookup", !.ids = ids]]
        /\ UNCHANGED ip
     \/ /\ req' = [req EXCEPT ![r] = Idle]
        /\ IF req[r].op \in {"app-sdk", "apple"} THEN LimiterFails(Limiter(req[r].op)) ELSE UNCHANGED ip
  /\ UNCHANGED <<tables, cache, reload, jwts, bounds, lockedTries, memory>>

\* The unionid first, the openid when nobody has it.
Found(ids) == IF "union" \in ids /\ Holder(users, "union") # {} THEN Holder(users, "union")
              ELSE Holder(users, CHOOSE k \in ids \ {"union"} : TRUE)

Lookup(r) ==
  /\ req[r].at = "lookup"
  /\ LET who == Found(req[r].ids)
     IN req' = [req EXCEPT ![r] = [@ EXCEPT !.at = "decide", !.who = who,
                                    !.row = IF who = {} THEN NoUser ELSE users[CHOOSE u \in who : TRUE]]]
  /\ UNCHANGED <<tables, cache, reload, jwts, ip, bounds, lockedTries, memory>>

Bind(u, side, ids) == [do |-> "bindIds", u |-> u, x |-> side, ids |-> ids]
Ticket(k, u, ids) == [do |-> "mint", u |-> u, x |-> k, ids |-> ids]
Unknown(r) == req[r].who = {}
FoundUser(r) == CHOOSE u \in req[r].who : TRUE
Decides(r, op, todo) ==
  /\ Deciding(r, op) /\ Continue(r, todo)
  /\ UNCHANGED <<tables, cache, reload, jwts, ip, bounds, lockedTries, memory>>

\* The log-ins of WeChat.  A user that the unionid found gets the openid of this
\* side too.  Nobody found: the identity waits for a confirmation.
HasOpenid(row, side) == side \in row.ids \/ (side = "wxweb" /\ "stray" \in row.ids)
Rebind(r) == IF HasOpenid(req[r].row, Side(req[r].op)) THEN <<>> 
             ELSE <<Bind(FoundUser(r), Side(req[r].op), req[r].ids)>>
IfActive(r, todo) == IF req[r].row.st = "active" THEN todo ELSE <<>>

\* The website goes straight to the session.
WechatLoginCallback(r) ==
  Decides(r, "wx-login", IF Unknown(r) THEN <<Ticket("pending", Nobody, req[r].ids)>>
                         ELSE Rebind(r) \o <<OnUser("issue", FoundUser(r))>>)

AppWechatLogin(r) ==
  Decides(r, "app-sdk", IF Unknown(r) THEN <<Ticket("pendingApp", Nobody, req[r].ids)>>
                        ELSE Rebind(r) \o IfActive(r, <<OnUser("issue", FoundUser(r)), ClearIp("app-sdk")>>))

\* The browser hands the log-in over to the app with a code.
AppWechatCallback(r) ==
  Decides(r, "app-login", IF Unknown(r) THEN <<Ticket("pending", Nobody, req[r].ids)>>
                          ELSE Rebind(r) \o IfActive(r, <<Ticket("handoff", FoundUser(r), {})>>))

AppWechatHandoff(r) ==
  \E t \in tickets : t.k = "handoff" /\ Redeem(t) /\ ArriveRunning(r, "handoff", <<OnUser("issue", t.u)>>)

\* Apple: found or created by the id alone, then the status, then the session.
AppleLogin(r) ==
  Decides(r, "apple", IF Unknown(r)
                      THEN <<Insert("unusable", {"apple"}, <<OnUser("issue", Nobody), ClearIp("apple")>>)>>
                      ELSE <<Bind(FoundUser(r), "apple", {"apple"})>>
                           \o IfActive(r, <<OnUser("issue", FoundUser(r)), ClearIp("apple")>>))

\* The binds: an identity of another account is refused.
BindFound(r) == IF req[r].who \ {req[r].u} # {} THEN <<>> ELSE <<Bind(req[r].u, Side(req[r].op), req[r].ids)>>

WechatBindCallback(r)    == Decides(r, "bind", BindFound(r))

AppWechatBindCallback(r) == Decides(r, "app-bind", BindFound(r))

AppWechatBind(r)         == Decides(r, "app-sdk-bind", BindFound(r))

AppleBind(r)             == Decides(r, "apple-bind", BindFound(r))

\* "Create an account": the ticket is spent first; whoever has got the identity in
\* the meantime is logged in instead.  The page of the website takes a ticket of
\* the app too, and then stores the app's openid as the website's ("stray").
AsWebsites(ids) == IF "wxapp" \in ids THEN (ids \ {"wxapp"}) \cup {"stray"} ELSE ids

ConfirmArrives(r) ==
  \E t \in tickets, op \in {"confirm", "app-confirm"} :
    /\ Called(r, op)
    /\ t.k \in {"pending", "pendingApp"} /\ Redeem(t)
    /\ req' = [req EXCEPT ![r] = [Idle EXCEPT !.op = op, !.at = "lookup",
                                              !.ids = IF op = "confirm" THEN AsWebsites(t.ids) ELSE t.ids]]
    /\ UNCHANGED <<tables, cache, reload, jwts, ip, use, crashes, sent, lockedTries>>

\* (The limit of trial accounts of an address is the bound Users.)
Confirmed(r) == IF Unknown(r) THEN <<Insert("unusable", req[r].ids, <<OnUser("issue", Nobody)>>)>>
                ELSE IfActive(r, <<OnUser("issue", FoundUser(r))>>)

WechatConfirm(r)    == Decides(r, "confirm", Confirmed(r))

AppWechatConfirm(r) == Decides(r, "app-confirm", Confirmed(r))

\* ---------------------------------------------------------------------------
\* Statements of this module.
WriteBind(r) ==
  /\ Running(r, "bindIds")
  /\ LET s == Stmt(r)
     IN IF Taken(users, s.u, s.ids) THEN Continue(r, <<>>) /\ UNCHANGED users      \* a UNIQUE index: 500
        ELSE /\ users' = [users EXCEPT ![s.u] = IF @.st = "none" THEN @ ELSE Bound(@, s.x, s.ids)]
             /\ Done(r, <<OnUser("reread", s.u)>>)
  /\ UNCHANGED <<refresh, codes, cache, reload, jwts, ip, bounds, lockedTries, memory>>

MintTicket(r) ==
  /\ Running(r, "mint")
  /\ IF minted < MaxTickets THEN Mint(Stmt(r).x, Stmt(r).u, Stmt(r).ids) ELSE UNCHANGED memory
  /\ Done(r, <<>>)
  /\ UNCHANGED <<tables, cache, reload, jwts, ip, bounds, lockedTries>>

\* ---------------------------------------------------------------------------
\* E-mail and phone of a signed-in user: a code (not sent within a day of an
\* unbinding, which is one of the reasons of SendCode), then the two writes.
BindEmail(r) ==
  \E j \in jwts : Authenticated(j) /\ ArriveRunning(r, "bindSend", <<Send(j.u, "email", "verify")>>) /\ UNCHANGED memory

\* The phone is looked up first.
BindPhone(r) ==
  \E j \in jwts :
    /\ Authenticated(j) /\ Holder(users, "phone") \subseteq {j.u}
    /\ ArriveRunning(r, "bindSend", <<Send(j.u, "phone", "verify")>>) /\ UNCHANGED memory

Verified(r, c) ==
  \E j \in jwts, guess \in 0 .. sent :
    /\ Authenticated(j)
    /\ ArriveRunning(r, "bindVerify", <<Check(j.u, c, "verify", guess), OnIds("setIds", j.u, {c}),
                                        OnIds("setVerified", j.u, {c})>>)
    /\ UNCHANGED memory

VerifyEmail(r) == Verified(r, "email")

VerifyPhone(r) == Verified(r, "phone")

\* ---------------------------------------------------------------------------
\* Unbinding: one other way in, the password not counted, must be left.
Methods(row) == {c \in Channels : c \in row.ids /\ c \in row.ok}
                \cup (IF row.ids \cap {"wxweb", "wxapp", "stray"} # {} THEN {"wechat"} ELSE {})
                \cup (row.ids \cap {"apple"})

UnbindArrives(r) == \E m \in Channels \cup {"wechat", "apple"} : WithSession(r, "unbind", m) /\ UNCHANGED memory

\* (a form that counts the way that goes)
UnbindsUncounted(r, m, ids) ==
  /\ req[r].x = m
  /\ Decides(r, "unbind", IF req[r].row.st # "none" /\ Methods(req[r].row) = {} THEN <<>>
                          ELSE <<OnIds("clearIds", req[r].u, ids)>>)

Unbinds(r, m, ids) ==
  /\ req[r].x = m
  /\ Decides(r, "unbind", IF req[r].row.st # "none" /\ Methods(req[r].row) \ {m} = {} THEN <<>>
                          ELSE <<OnIds("clearIds", req[r].u, ids)>>)

UnbindEmail(r)  == Unbinds(r, "email", {"email"})

UnbindPhone(r)  == Unbinds(r, "phone", {"phone"})

UnbindWechat(r) == Unbinds(r, "wechat", WechatIds)

\* (Apple is told too; its answer changes nothing.)
UnbindApple(r)  == Unbinds(r, "apple", {"apple"})

\* ---------------------------------------------------------------------------
IdentitiesInit == AccountsInit /\ tickets = {} /\ minted = 0

IdentityStep(r) ==
  \/ Exchange(r) \/ Lookup(r) \/ WriteBind(r) \/ MintTicket(r)
  \/ WechatLoginCallback(r) \/ AppWechatLogin(r) \/ AppWechatCallback(r) \/ AppleLogin(r)
  \/ WechatBindCallback(r) \/ AppWechatBindCallback(r) \/ AppWechatBind(r) \/ AppleBind(r)
  \/ WechatConfirm(r) \/ AppWechatConfirm(r)
  \/ UnbindEmail(r) \/ UnbindPhone(r) \/ UnbindWechat(r) \/ UnbindApple(r)

IdentityArrival(r) ==
  \/ WechatLoginAuthorize(r) \/ AppWechatAuthorize(r) \/ WechatBindAuthorize(r) \/ AppWechatBindInit(r)
  \/ AppWechatBindAuthorize(r) \/ Callback(r) \/ SdkArrives(r) \/ SdkBinds(r) \/ ConfirmArrives(r)
  \/ AppWechatHandoff(r) \/ BindEmail(r) \/ BindPhone(r) \/ VerifyEmail(r) \/ VerifyPhone(r) \/ UnbindArrives(r)

HubDies == Crash /\ tickets' = {} /\ UNCHANGED minted

IdentitiesNext ==
  \/ (CommandLine \/ ReloadReads \/ ReloadSets \/ Expire) /\ UNCHANGED memory
  \/ HubDies \/ TicketsExpire
  \/ \E r \in Reqs : \/ (RequestStep(r) \/ Arrival(r)) /\ UNCHANGED memory
                     \/ IdentityStep(r) \/ IdentityArrival(r)

IdentitiesFairness ==
  /\ \A r \in Reqs : WF_identitiesVars((RequestStep(r) /\ UNCHANGED memory) \/ IdentityStep(r))
  /\ WF_identitiesVars(ReloadReads /\ UNCHANGED memory) /\ WF_identitiesVars(ReloadSets /\ UNCHANGED memory)

IdentitiesSpec == IdentitiesInit /\ [][IdentitiesNext]_identitiesVars /\ IdentitiesFairness

\* ---------------------------------------------------------------------------
\* "must keep at least one login method": an account that has a way in besides its
\* password keeps one.  (Except by an unbinding that counted the ways before another
\* request changed them, and between the two writes that bind an address again.)
LoginMethodKept ==
  [][\A u \in Users : Methods(users[u]) # {} /\ users[u].st = "active" /\ users'[u].st = "active" =>
       \/ Methods(users'[u]) # {}
       \/ \E r \in Reqs : Running(r, "setIds") /\ Stmt(r).u = u
       \/ \E r \in Reqs : Running(r, "clearIds") /\ req[r].u = u /\ Methods(req[r].row) # Methods(users[u])]_identitiesVars

\* What two requests about one account do beside each other neither undoes an
\* administrator's ban nor takes the last way in.
AccountKept == BanHeld /\ LoginMethodKept
================================================================================
