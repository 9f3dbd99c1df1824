--------------------------- MODULE ServicesProofs ---------------------------
(***************************************************************************)
(* Proofs about the small services around the hub and the gateway, for any *)
(* number of tabs, requests, keys, processes and visitors.  The modules    *)
(* share no state; each part of this one is about one of them and has its  *)
(* inductive invariant, the lemma that every step keeps it, and the        *)
(* theorem.                                                                *)
(***************************************************************************)
EXTENDS Doors, PortalTabs, Migration, Routers, PayPages, PanelScan, FiniteSetTheorems, TLAPS
-----------------------------------------------------------------------------
(* PortalTabs: while nothing excuses it, one tab at a time exchanges the      *)
(* token of the cookies, and the hub accepts it until it has replaced it.     *)

Mistaken == signedOut \/ mishaps > 0 \/ twice
Exchanging(t) == exchange[t].at # "none"

OneExchange ==
    /\ \A t \in Tabs : page[t] # "login" /\ exchange[t].at # "refused"
    /\ \A t \in Tabs : Exchanging(t) => exchange[t].token = jar.refresh
    /\ \A t, u \in Tabs : Exchanging(t) /\ Exchanging(u) => t = u
    /\ (\A t \in Tabs : exchange[t].at # "rotated") => jar.refresh \in accepted
    /\ \A t \in Tabs : exchange[t].at = "rotated" => exchange[t].new \in accepted

TabsInv ==
    /\ page = [t \in Tabs |-> page[t]]
    /\ exchange = [t \in Tabs |-> [at |-> exchange[t].at, token |-> exchange[t].token,
                                   new |-> exchange[t].new]]
    /\ mishaps \in Nat
    /\ Mistaken \/ OneExchange

LEMMA TabsStart == PortalInit => TabsInv
BY Zenon, SMT DEF PortalInit, TabsInv, OneExchange, Exchanging, NoExchange

LEMMA TabsStep == TabsInv /\ [PortalNext]_portalVars => TabsInv'
<1> SUFFICES ASSUME TabsInv, [PortalNext]_portalVars PROVE TabsInv'
  OBVIOUS
<1>1. CASE UNCHANGED portalVars
  BY <1>1 DEF portalVars, TabsInv, OneExchange, Mistaken, Exchanging
<1>2. CASE AccessExpires
  BY <1>2 DEF AccessExpires, TabsInv, OneExchange, Mistaken, Exchanging
<1>3. CASE \E c \in Calls, t \in Tabs, probe \in BOOLEAN : Ask(c, t, probe)
  BY <1>3 DEF Ask, TabsInv, OneExchange, Mistaken, Exchanging
<1>4. CASE \E c \in Calls : Answered(c)
  <2>1. PICK c \in Calls : Answered(c)
    BY <1>4
  <2>2. UNCHANGED <<jar, accepted, issued, signedOut, expiries, mishaps>>
    BY <2>1 DEF Answered
  <2>3. /\ page' = [t \in Tabs |-> page'[t]]
        /\ \A t \in Tabs : page'[t] # "login" \/ page'[t] = page[t]
    BY <2>1, Zenon DEF Answered, TabsInv
  <2>4. PICK x : UNCHANGED <<exchange, twice>> \/ ((x \in Tabs => exchange[x].at = "none") /\ StartExchange(x))
    <3>1. UNCHANGED <<exchange, twice>> \/ SilentRefresh(asking[c].tab)
      BY <2>1 DEF Answered
    <3> QED BY <3>1 DEF SilentRefresh
  <2>5. CASE UNCHANGED <<exchange, twice>>
    BY <2>2, <2>3, <2>5 DEF TabsInv, OneExchange, Mistaken, Exchanging
  <2>6. CASE (x \in Tabs => exchange[x].at = "none") /\ StartExchange(x)
    <3>0. StartExchange(x)
      BY <2>6
    <3> PICK e : e = [NoExchange EXCEPT !.at = "sent", !.token = jar.refresh]
      OBVIOUS
    <3>e. e = [at |-> e.at, token |-> e.token, new |-> e.new] /\ e.at = "sent" /\ e.token = jar.refresh
      BY DEF NoExchange
    <3>1. exchange' = [exchange EXCEPT ![x] = e]
      BY <3>0 DEF StartExchange
    <3>2. \A t \in Tabs : exchange'[t] = IF t = x THEN e ELSE exchange[t]
      BY <3>1 DEF TabsInv
    <3>3. exchange' = [t \in Tabs |-> [at |-> exchange'[t].at, token |-> exchange'[t].token,
                                       new |-> exchange'[t].new]]
      BY <3>1, <3>2, <3>e DEF TabsInv
    <3>4. twice' = (twice \/ \E u \in Tabs \ {x} : exchange[u].at # "none" /\ exchange[u].token = jar.refresh)
      BY <2>6 DEF StartExchange
    <3>5. ASSUME ~Mistaken' PROVE OneExchange'
      <4>1. OneExchange /\ ~twice'
        BY <3>4, <3>5, <2>2 DEF TabsInv, Mistaken
      <4>2. \A u \in Tabs : u # x => exchange[u].at = "none"
        BY <4>1, <3>4 DEF OneExchange, Exchanging
      <4>3. \A u \in Tabs : exchange[u].at = "none"
        BY <4>2, <2>6
      <4> QED BY <4>1, <4>3, <3>2, <3>e, <2>2, <2>3 DEF OneExchange, Exchanging
    <3> QED BY <3>3, <3>5, <2>2, <2>3 DEF TabsInv
  <2> QED BY <2>4, <2>5, <2>6
<1>5. CASE \E t \in Tabs : ExchangeFinds(t)
  BY <1>5, SMTT(30) DEF ExchangeFinds, TabsInv, OneExchange, Mistaken, Exchanging
<1>6. CASE \E t \in Tabs : ExchangeRotates(t)
  <2>1. PICK x \in Tabs : ExchangeRotates(x)
    BY <1>6
  <2>2. /\ exchange[x].at = "found"
        /\ accepted' = (accepted \ {exchange[x].token}) \cup {issued + 1}
        /\ exchange' = [exchange EXCEPT ![x].at = "rotated", ![x].new = issued + 1]
    BY <2>1 DEF ExchangeRotates
  <2> PICK e : e = [exchange[x] EXCEPT !.at = "rotated", !.new = issued + 1]
    OBVIOUS
  <2>x. exchange[x] = [at |-> exchange[x].at, token |-> exchange[x].token, new |-> exchange[x].new]
    BY DEF TabsInv
  <2>e. /\ e = [at |-> e.at, token |-> e.token, new |-> e.new]
        /\ e.at = "rotated" /\ e.token = exchange[x].token /\ e.new = issued + 1
    BY <2>x
  <2>3. exchange' = [exchange EXCEPT ![x] = e]
    BY <2>2 DEF TabsInv
  <2>r. exchange'[x] = e /\ \A t \in Tabs : t # x => exchange'[t] = exchange[t]
    BY <2>3 DEF TabsInv
  <2>4. exchange' = [t \in Tabs |-> [at |-> exchange'[t].at, token |-> exchange'[t].token,
                                     new |-> exchange'[t].new]]
    BY <2>3, <2>r, <2>e DEF TabsInv
  <2>5. UNCHANGED <<jar, page, asking, signedOut, mishaps, twice>>
    BY <2>1 DEF ExchangeRotates
  <2>6. ASSUME OneExchange PROVE OneExchange'
    <3>1. \A t \in Tabs : t # x => exchange[t].at = "none"
      BY <2>2, <2>6 DEF OneExchange, Exchanging
    <3>2. issued + 1 \in accepted'
      BY <2>2
    <3>3. \A t \in Tabs : t # x => exchange'[t].at = "none"
      BY <3>1, <2>r
    <3>4. exchange'[x].at = "rotated" /\ exchange'[x].token = jar'.refresh /\ exchange'[x].new \in accepted'
      BY <3>2, <2>r, <2>e, <2>5, <2>2, <2>6 DEF OneExchange, Exchanging
    <3>5. \A t \in Tabs : page'[t] # "login"
      BY <2>5, <2>6 DEF OneExchange
    <3> QED BY <3>3, <3>4, <3>5 DEF OneExchange, Exchanging
  <2> QED BY <2>4, <2>5, <2>6 DEF TabsInv, Mistaken
<1>7. CASE \E t \in Tabs : ExchangeWorks(t)
  <2>1. PICK x \in Tabs : ExchangeWorks(x)
    BY <1>7
  <2>2. /\ exchange[x].at = "rotated" /\ jar'.refresh = exchange[x].new
        /\ exchange' = [exchange EXCEPT ![x] = [at |-> "none", token |-> NoToken, new |-> NoToken]]
        /\ UNCHANGED <<accepted, page, signedOut, mishaps, twice>>
    BY <2>1 DEF ExchangeWorks, NoExchange
  <2>3. \A t \in Tabs : exchange'[t] = IF t = x THEN [at |-> "none", token |-> NoToken, new |-> NoToken]
                                       ELSE exchange[t]
    BY <2>2 DEF TabsInv
  <2>4. exchange' = [t \in Tabs |-> [at |-> exchange'[t].at, token |-> exchange'[t].token,
                                     new |-> exchange'[t].new]]
    BY <2>2, <2>3 DEF TabsInv
  <2>5. ASSUME OneExchange PROVE OneExchange'
    <3>1. \A t \in Tabs : t # x => exchange[t].at = "none"
      BY <2>2, <2>5 DEF OneExchange, Exchanging
    <3> QED BY <3>1, <2>2, <2>3, <2>5 DEF OneExchange, Exchanging
  <2> QED BY <2>2, <2>4, <2>5 DEF TabsInv, Mistaken
<1>8. CASE \E t \in Tabs : ExchangeRefused(t)
  <2>1. PICK x \in Tabs : ExchangeRefused(x)
    BY <1>8
  <2>2. /\ exchange[x].at = "refused"
        /\ exchange' = [exchange EXCEPT ![x] = [at |-> "none", token |-> NoToken, new |-> NoToken]]
        /\ UNCHANGED <<signedOut, mishaps, twice>>
    BY <2>1 DEF ExchangeRefused, NoExchange
  <2>3. exchange' = [t \in Tabs |-> [at |-> exchange'[t].at, token |-> exchange'[t].token,
                                     new |-> exchange'[t].new]]
    BY <2>2 DEF TabsInv
  <2>4. page' = [t \in Tabs |-> page'[t]]
    BY <2>1, Zenon DEF ExchangeRefused, TabsInv
  <2> QED BY <2>2, <2>3, <2>4 DEF TabsInv, OneExchange, Mistaken
<1>9. CASE \E t \in Tabs : ExchangeLost(t)
  BY <1>9, PortalAssumption, SMTT(30) DEF ExchangeLost, TabsInv, OneExchange, Mistaken, Exchanging, NoExchange
<1>10. CASE \E t \in Tabs : Logout(t)
  BY <1>10 DEF Logout, TabsInv, OneExchange, Mistaken, Exchanging
<1>11. CASE EndedElsewhere
  BY <1>11 DEF EndedElsewhere, TabsInv, OneExchange, Mistaken, Exchanging
<1> QED BY <1>1, <1>2, <1>3, <1>4, <1>5, <1>6, <1>7, <1>8, <1>9, <1>10, <1>11 DEF PortalNext

\* No tab is sent to the login page while the session lives (silentRefresh and
\* jsonFetch of the portal's api.ts), but for the exceptions of
\* LoginOnlyWhenEnded, for any number of tabs, calls, tokens and expiries.
THEOREM NobodyIsSentAway == PortalSpec => []LoginOnlyWhenEnded
<1>1. TabsInv => LoginOnlyWhenEnded
  BY DEF TabsInv, OneExchange, Mistaken, LoginOnlyWhenEnded
<1> QED BY <1>1, TabsStart, TabsStep, PTL DEF PortalSpec
-----------------------------------------------------------------------------
(* Routers: who may still make the router of a join token, and what the       *)
(* answers given to administrators have settled.                              *)

IsVisit(q) == q = [at |-> q.at, router |-> q.router, key |-> q.key, before |-> q.before]
IsOrder(q) == q = [at |-> q.at, on |-> q.on, set |-> q.set]

RoutersShape ==
    /\ joinToken = [used |-> joinToken.used, expired |-> joinToken.expired]
    /\ access = [r \in RouterIds |-> access[r]]
    /\ status = [r \in RouterIds |-> status[r]]
    /\ pool = [k \in UpstreamKeys |-> pool[k]]
    /\ \A k \in UpstreamKeys : pool[k] = [enabled |-> pool[k].enabled, revoked |-> pool[k].revoked]
    /\ request = [v \in RouterCalls |-> request[v]] /\ \A v \in RouterCalls : IsVisit(request[v])
    /\ order = [o \in Orders |-> order[o]] /\ \A o \in Orders : IsOrder(order[o])

Made(r) == r \in RouterIds /\ access[r] # "none"
Makes(v) == request[v].at = "token"

\* A join token that is not used has made no router; one that is has made one,
\* or one request is about to.
OneRouter ==
    /\ ~joinToken.used => \A v \in RouterCalls : ~Makes(v)
    /\ (~joinToken.used \/ \E v \in RouterCalls : Makes(v)) => \A r \in RouterIds : ~Made(r)
    /\ \A v, w \in RouterCalls : Makes(v) /\ Makes(w) => v = w
    /\ \A r, s \in RouterIds : Made(r) /\ Made(s) => r = s

\* Whoever is about to write to a router found it made.
WritesToMade ==
    /\ \A r \in RouterIds : status[r] # "none" => Made(r)
    /\ \A v \in RouterCalls : request[v].at = "router" => Made(request[v].router)
    /\ \A o \in Orders : order[o].at \in {"router", "token"} => Made(order[o].on)

\* What was answered stays so.
Settles ==
    /\ \A r \in removed : r \in RouterIds /\ access[r] = "revoked"
    /\ \A k \in retired : k \in UpstreamKeys /\ pool[k].revoked
    /\ \A v \in RouterCalls :
          /\ request[v].before \subseteq retired
          /\ request[v].at = "answer" => request[v].key \notin request[v].before

RoutersInv == RoutersShape /\ OneRouter /\ WritesToMade /\ Settles

LEMMA RoutersStart == RoutersInit => RoutersInv
<1> SUFFICES ASSUME RoutersInit PROVE RoutersInv
  OBVIOUS
<1>1. RoutersShape
  BY DEF RoutersInit, RoutersShape, NoVisit, NoOrder, IsVisit, IsOrder
<1>2. OneRouter /\ WritesToMade
  BY DEF RoutersInit, OneRouter, WritesToMade, NoVisit, NoOrder, Made, Makes
<1>3. Settles
  BY DEF RoutersInit, Settles, NoVisit
<1> QED BY <1>1, <1>2, <1>3 DEF RoutersInv

\* A request goes on, and nothing else of importance happens.
LEMMA RequestGoesOn ==
    ASSUME RoutersInv, NEW v \in RouterCalls, NEW q, IsVisit(q),
           request' = [request EXCEPT ![v] = q],
           UNCHANGED <<access, status, pool, order, retired, removed>>,
           joinToken' = joinToken \/ (~joinToken.used /\ joinToken' = [joinToken EXCEPT !.used = TRUE]),
           q.at = "token" => ~joinToken.used /\ joinToken'.used,
           q.at # "router",
           q.before \subseteq retired,
           q.at = "answer" => q.key \notin q.before
    PROVE  RoutersInv'
<1>1. RoutersShape'
  BY DEF RoutersInv, RoutersShape, IsVisit, IsOrder
<1>2. request'[v] = q /\ \A w \in RouterCalls : w # v => request'[w] = request[w]
  BY DEF RoutersInv, RoutersShape
<1>3. joinToken'.used = joinToken.used \/ (~joinToken.used /\ joinToken'.used)
  BY DEF RoutersInv, RoutersShape
<1>4. OneRouter'
  BY <1>2, <1>3 DEF RoutersInv, OneRouter, Made, Makes
<1>5. WritesToMade'
  BY <1>2 DEF RoutersInv, WritesToMade, Made
<1>6. Settles'
  BY <1>2 DEF RoutersInv, Settles
<1> QED BY <1>1, <1>4, <1>5, <1>6 DEF RoutersInv

\* One step of an administrator, after which it stands at o.
LEMMA OrderGoesOn ==
    ASSUME RoutersInv, NEW o \in Orders, NEW d, IsOrder(d),
           order' = [order EXCEPT ![o] = d],
           UNCHANGED <<access, status, pool, request, joinToken, retired, removed>>,
           d.at \in {"router", "token"} => Made(d.on)
    PROVE  RoutersInv'
<1>1. RoutersShape'
  BY DEF RoutersInv, RoutersShape, IsVisit, IsOrder
<1>2. order'[o] = d /\ \A p \in Orders : p # o => order'[p] = order[p]
  BY DEF RoutersInv, RoutersShape
<1>3. OneRouter' /\ Settles'
  BY DEF RoutersInv, OneRouter, Settles, Made, Makes
<1>4. WritesToMade'
  BY <1>2 DEF RoutersInv, WritesToMade, Made
<1> QED BY <1>1, <1>3, <1>4 DEF RoutersInv

LEMMA RequestSteps ==
    ASSUME RoutersInv, NEW v \in RouterCalls,
           \/ FindJoinToken(v) \/ MarkUsed(v) \/ MakeAccess(v) \/ MakeRouter(v)
           \/ \E r \in RouterIds : Authenticate(v, r)
           \/ Report(v) \/ Approved(v) \/ pickUpstreamKey(v) \/ Configured(v)
    PROVE  RoutersInv'
<1>v. IsVisit(request[v]) /\ request[v].before \subseteq retired
  BY DEF RoutersInv, RoutersShape, Settles
<1>n. IsVisit(NoVisit) /\ NoVisit.at = "idle" /\ NoVisit.before = {}
  BY DEF NoVisit, IsVisit
<1>s. ASSUME NEW at, Stands(v, at)
      PROVE  \E q : /\ request' = [request EXCEPT ![v] = q] /\ IsVisit(q)
                    /\ q.at = at /\ q.before = request[v].before
  <2> PICK q : q = [request[v] EXCEPT !.at = at]
    OBVIOUS
  <2>1. request' = [request EXCEPT ![v] = q]
    BY <1>s DEF Stands, RoutersInv, RoutersShape
  <2>2. IsVisit(q) /\ q.at = at /\ q.before = request[v].before
    BY <1>v DEF IsVisit
  <2> QED BY <2>1, <2>2
<1>l. ASSUME Leaves(v), UNCHANGED <<access, status, pool, order, retired, removed, joinToken>>
      PROVE  RoutersInv'
  <2>1. request' = [request EXCEPT ![v] = NoVisit]
    BY <1>l DEF Leaves
  <2> QED BY <2>1, <1>n, <1>l, RequestGoesOn
<1>g. ASSUME NEW at \in {"mark", "keys"}, Stands(v, at),
             UNCHANGED <<access, status, pool, order, retired, removed, joinToken>>
      PROVE  RoutersInv'
  <2> PICK q : /\ request' = [request EXCEPT ![v] = q] /\ IsVisit(q)
               /\ q.at = at /\ q.before = request[v].before
    BY <1>s, <1>g
  <2> QED BY <1>g, <1>v, RequestGoesOn
<1>1. CASE FindJoinToken(v)
  BY <1>1, <1>g DEF FindJoinToken
<1>2. CASE MarkUsed(v)
  <2>1. CASE joinToken.used
    BY <1>2, <2>1, <1>l DEF MarkUsed
  <2>2. CASE ~joinToken.used
    <3>1. /\ joinToken' = [joinToken EXCEPT !.used = TRUE] /\ Stands(v, "token")
          /\ UNCHANGED <<access, status, pool, order, retired, removed>>
      BY <1>2, <2>2 DEF MarkUsed
    <3>2. joinToken'.used
      BY <3>1 DEF RoutersInv, RoutersShape
    <3> PICK q : /\ request' = [request EXCEPT ![v] = q] /\ IsVisit(q)
                 /\ q.at = "token" /\ q.before = request[v].before
      BY <1>s, <3>1
    <3> QED BY <3>1, <3>2, <2>2, <1>v, RequestGoesOn
  <2> QED BY <2>1, <2>2
<1>3. CASE MakeAccess(v)
  <2>p. PICK r \in RouterIds :
          /\ access[r] = "none"
          /\ access' = [access EXCEPT ![r] = "live"]
          /\ request' = [request EXCEPT ![v].at = "router", ![v].router = r]
    BY <1>3 DEF MakeAccess
  <2>1. Makes(v) /\ UNCHANGED <<joinToken, status, pool, order, retired, removed>>
    BY <1>3 DEF MakeAccess, Makes
  <2>q. PICK q : q = [request[v] EXCEPT !.at = "router", !.router = r]
    OBVIOUS
  <2>2. IsVisit(q) /\ q.at = "router" /\ q.router = r /\ q.before = request[v].before
    BY <1>v, <2>q DEF IsVisit
  <2>3. request' = [request EXCEPT ![v] = q]
    BY <2>p, <2>q DEF RoutersInv, RoutersShape
  <2>4. RoutersShape'
    BY <2>p, <2>1, <2>2, <2>3 DEF RoutersInv, RoutersShape, IsVisit, IsOrder
  <2>5. /\ request'[v] = q /\ \A w \in RouterCalls : w # v => request'[w] = request[w]
        /\ access'[r] = "live" /\ \A s \in RouterIds : s # r => access'[s] = access[s]
    BY <2>p, <2>3 DEF RoutersInv, RoutersShape
  <2>6. OneRouter'
    <3>1. \A s \in RouterIds : access[s] = "none"
      BY <2>1 DEF RoutersInv, OneRouter, Made
    <3>2. \A w \in RouterCalls : w # v => request[w].at # "token"
      BY <2>1 DEF RoutersInv, OneRouter, Makes
    <3>3. joinToken.used
      BY <2>1 DEF RoutersInv, OneRouter
    <3>4. \A w \in RouterCalls : request'[w].at # "token"
      BY <3>2, <2>2, <2>5
    <3>5. \A s \in RouterIds : s # r => access'[s] = "none"
      BY <3>1, <2>5
    <3> QED BY <3>3, <3>4, <3>5, <2>1 DEF OneRouter, Made, Makes
  <2>7. WritesToMade'
    <3>1. \A s \in RouterIds : access[s] # "none" => access'[s] # "none"
      BY <2>5
    <3>2. \A w \in RouterCalls : request'[w].at = "router" => w = v \/ request'[w] = request[w]
      BY <2>5
    <3>3. access'[r] # "none"
      BY <2>5
    <3> QED BY <3>1, <3>2, <3>3, <2>1, <2>2, <2>5 DEF RoutersInv, WritesToMade, Made
  <2>8. Settles'
    <3>1. \A s \in removed : s # r
      BY <2>p DEF RoutersInv, Settles
    <3> QED BY <3>1, <2>1, <2>2, <2>5 DEF RoutersInv, Settles
  <2> QED BY <2>4, <2>6, <2>7, <2>8 DEF RoutersInv
<1>4. CASE MakeRouter(v)
  <2>1. /\ request[v].at = "router"
        /\ status' = [status EXCEPT ![request[v].router] = "pending"]
        /\ request' = [request EXCEPT ![v] = NoVisit]
        /\ UNCHANGED <<joinToken, access, pool, order, retired, removed>>
    BY <1>4 DEF MakeRouter, Leaves
  <2>2. /\ request'[v] = NoVisit /\ \A w \in RouterCalls : w # v => request'[w] = request[w]
        /\ \A s \in RouterIds : s = request[v].router \/ status'[s] = status[s]
    BY <2>1 DEF RoutersInv, RoutersShape
  <2>3. RoutersShape'
    BY <2>1, <1>n DEF RoutersInv, RoutersShape, IsVisit, IsOrder
  <2>4. OneRouter'
    BY <2>1, <2>2, <1>n DEF RoutersInv, OneRouter, Made, Makes
  <2>5. WritesToMade'
    BY <2>1, <2>2, <1>n DEF RoutersInv, WritesToMade, Made
  <2>6. Settles'
    BY <2>1, <2>2, <1>n DEF RoutersInv, Settles
  <2> QED BY <2>3, <2>4, <2>5, <2>6 DEF RoutersInv
<1>5. CASE \E r \in RouterIds : Authenticate(v, r)
  <2> PICK r \in RouterIds, at \in {"status", "report"} :
          request' = [request EXCEPT ![v] = [at |-> at, router |-> r, key |-> Absent, before |-> retired]]
    BY <1>5 DEF Authenticate
  <2> PICK q : q = [at |-> at, router |-> r, key |-> Absent, before |-> retired]
    OBVIOUS
  <2>1. IsVisit(q) /\ q.at = at /\ q.before = retired /\ request' = [request EXCEPT ![v] = q]
    BY DEF IsVisit
  <2>2. UNCHANGED <<access, status, pool, order, retired, removed, joinToken>>
    BY <1>5 DEF Authenticate
  <2> QED BY <2>1, <2>2, RequestGoesOn
<1>6. CASE Report(v)
  BY <1>6, <1>l DEF Report
<1>7. CASE Approved(v)
  BY <1>7, <1>l, <1>g DEF Approved
<1>8. CASE pickUpstreamKey(v)
  <2>1. UNCHANGED <<access, status, pool, order, retired, removed, joinToken>>
    BY <1>8 DEF pickUpstreamKey
  <2>2. CASE Leaves(v)
    BY <2>1, <2>2, <1>l
  <2>3. CASE \E k \in Candidates(request[v].router) :
                request' = [request EXCEPT ![v].at = "answer", ![v].key = k]
    <3> PICK k \in Candidates(request[v].router) :
                request' = [request EXCEPT ![v].at = "answer", ![v].key = k]
      BY <2>3
    <3>1. k \in listEnabledKeys
      BY DEF Candidates
    <3>2. k \notin retired
      BY <3>1 DEF listEnabledKeys, RoutersInv, Settles
    <3> PICK q : q = [request[v] EXCEPT !.at = "answer", !.key = k]
      OBVIOUS
    <3>3. IsVisit(q) /\ q.at = "answer" /\ q.key = k /\ q.before = request[v].before
      BY <1>v DEF IsVisit
    <3>4. request' = [request EXCEPT ![v] = q]
      BY DEF RoutersInv, RoutersShape
    <3> QED BY <2>1, <3>2, <3>3, <3>4, <1>v, RequestGoesOn
  <2> QED BY <2>2, <2>3, <1>8 DEF pickUpstreamKey
<1>9. CASE Configured(v)
  BY <1>9, <1>l DEF Configured
<1> QED BY <1>1, <1>2, <1>3, <1>4, <1>5, <1>6, <1>7, <1>8, <1>9

LEMMA AdministratorSteps ==
    ASSUME RoutersInv, NEW o \in Orders,
           \/ \E r \in RouterIds : BeginRouter(o, r)
           \/ SetStatus(o) \/ RevokeAccess(o)
           \/ \E k \in UpstreamKeys : BeginUpdate(o, k)
           \/ WriteUpdate(o)
    PROVE  RoutersInv'
<1>o. IsOrder(order[o]) /\ (order[o].at \in {"router", "token"} => Made(order[o].on))
  BY DEF RoutersInv, RoutersShape, WritesToMade
<1>n. IsOrder(NoOrder) /\ NoOrder.at = "idle"
  BY DEF NoOrder, IsOrder
<1>1. CASE \E r \in RouterIds : BeginRouter(o, r)
  <2>1. PICK r \in RouterIds, set \in {"active", "disabled", "revoked"} :
            /\ status[r] # "none"
            /\ order' = [order EXCEPT ![o] = [at |-> "router", on |-> r, set |-> set]]
    BY <1>1 DEF BeginRouter
  <2>2. Made(r)
    BY <2>1 DEF RoutersInv, WritesToMade
  <2>3. PICK d : d = [at |-> "router", on |-> r, set |-> set]
    OBVIOUS
  <2>4. IsOrder(d) /\ d.on = r /\ order' = [order EXCEPT ![o] = d]
    BY <2>1, <2>3 DEF IsOrder
  <2>5. UNCHANGED <<access, status, pool, request, joinToken, retired, removed>>
    BY <1>1 DEF BeginRouter
  <2> QED BY <2>2, <2>4, <2>5, OrderGoesOn
<1>2. CASE SetStatus(o)
  <2>1. /\ order[o].at = "router" /\ status' = [status EXCEPT ![order[o].on] = order[o].set]
        /\ UNCHANGED <<access, pool, request, joinToken, retired, removed>>
    BY <1>2 DEF SetStatus
  <2>2. PICK d : /\ order' = [order EXCEPT ![o] = d] /\ IsOrder(d)
                 /\ d.at \in {"router", "token"} => Made(d.on)
    <3>1. CASE order[o].set = "revoked"
      <4>1. PICK d : d = [order[o] EXCEPT !.at = "token"]
        OBVIOUS
      <4>2. order' = [order EXCEPT ![o] = d]
        BY <1>2, <3>1, <4>1 DEF SetStatus
      <4>3. IsOrder(d) /\ d.on = order[o].on
        BY <4>1, <1>o DEF IsOrder
      <4> QED BY <4>2, <4>3, <2>1, <1>o
    <3>2. CASE order[o].set # "revoked"
      <4>1. order' = [order EXCEPT ![o] = NoOrder]
        BY <1>2, <3>2 DEF SetStatus
      <4> QED BY <4>1, <1>n
    <3> QED BY <3>1, <3>2
  <2>3. RoutersShape'
    BY <2>1, <2>2 DEF RoutersInv, RoutersShape, IsVisit, IsOrder
  <2>4. OneRouter' /\ Settles'
    BY <2>1 DEF RoutersInv, OneRouter, Settles, Made, Makes
  <2>5. /\ order'[o] = d /\ \A p \in Orders : p # o => order'[p] = order[p]
        /\ \A s \in RouterIds : s # order[o].on => status'[s] = status[s]
    BY <2>1, <2>2 DEF RoutersInv, RoutersShape
  <2>6. Made(order[o].on)
    BY <1>o, <2>1
  <2>7. WritesToMade'
    BY <2>1, <2>2, <2>5, <2>6 DEF RoutersInv, WritesToMade, Made
  <2> QED BY <2>3, <2>4, <2>7 DEF RoutersInv
<1>3. CASE RevokeAccess(o)
  <2>1. /\ order[o].at = "token" /\ access' = [access EXCEPT ![order[o].on] = "revoked"]
        /\ removed' = removed \cup {order[o].on} /\ order' = [order EXCEPT ![o] = NoOrder]
        /\ UNCHANGED <<joinToken, status, pool, request, retired>>
    BY <1>3 DEF RevokeAccess
  <2>2. order[o].on \in RouterIds /\ access[order[o].on] # "none"
    BY <2>1, <1>o DEF Made
  <2>3. /\ order'[o] = NoOrder /\ \A p \in Orders : p # o => order'[p] = order[p]
        /\ access'[order[o].on] = "revoked"
        /\ \A s \in RouterIds : s # order[o].on => access'[s] = access[s]
    BY <2>1, <2>2 DEF RoutersInv, RoutersShape
  <2>4. RoutersShape'
    BY <2>1, <1>n DEF RoutersInv, RoutersShape, IsVisit, IsOrder
  <2>5. \A s : Made(s)' <=> Made(s)
    BY <2>2, <2>3 DEF Made
  <2>6. OneRouter'
    BY <2>1, <2>5 DEF RoutersInv, OneRouter, Makes
  <2>7. WritesToMade'
    BY <2>1, <2>3, <2>5, <1>n DEF RoutersInv, WritesToMade
  <2>8. Settles'
    BY <2>1, <2>2, <2>3 DEF RoutersInv, Settles
  <2> QED BY <2>4, <2>6, <2>7, <2>8 DEF RoutersInv
<1>4. CASE \E k \in UpstreamKeys : BeginUpdate(o, k)
  <2>1. PICK k \in UpstreamKeys : \E set : order' = [order EXCEPT ![o] = [at |-> "key", on |-> k, set |-> set]]
    BY <1>4 DEF BeginUpdate
  <2>s. PICK set : order' = [order EXCEPT ![o] = [at |-> "key", on |-> k, set |-> set]]
    BY <2>1
  <2>2. PICK d : d = [at |-> "key", on |-> k, set |-> set]
    OBVIOUS
  <2>3. IsOrder(d) /\ d.at = "key" /\ order' = [order EXCEPT ![o] = d]
    BY <2>s, <2>2 DEF IsOrder
  <2>4. UNCHANGED <<access, status, pool, request, joinToken, retired, removed>>
    BY <1>4 DEF BeginUpdate
  <2> QED BY <2>3, <2>4, OrderGoesOn
<1>5. CASE WriteUpdate(o)
  <2>1. /\ pool' = [pool EXCEPT ![order[o].on].enabled = (order[o].set = "on")]
        /\ order' = [order EXCEPT ![o] = NoOrder]
        /\ UNCHANGED <<joinToken, access, status, request, retired, removed>>
    BY <1>5 DEF WriteUpdate
  <2>p. pool' = [k \in UpstreamKeys |-> pool'[k]]
    BY <2>1 DEF RoutersInv, RoutersShape
  <2>q. \A k \in UpstreamKeys : /\ pool'[k] = [enabled |-> pool'[k].enabled, revoked |-> pool'[k].revoked]
                               /\ pool'[k].revoked = pool[k].revoked
    <3> TAKE k \in UpstreamKeys
    <3>1. pool[k] = [enabled |-> pool[k].enabled, revoked |-> pool[k].revoked]
      BY DEF RoutersInv, RoutersShape
    <3>2. k # order[o].on => pool'[k] = pool[k]
      BY <2>1 DEF RoutersInv, RoutersShape
    <3>3. k = order[o].on => pool'[k] = [pool[k] EXCEPT !.enabled = (order[o].set = "on")]
      BY <2>1 DEF RoutersInv, RoutersShape
    <3>4. PICK e : e = (order[o].set = "on")
      OBVIOUS
    <3>5. [pool[k] EXCEPT !.enabled = e] = [enabled |-> e, revoked |-> pool[k].revoked]
      BY <3>1
    <3> QED BY ONLY <3>1, <3>2, <3>3, <3>4, <3>5
  <2>2. /\ pool' = [k \in UpstreamKeys |-> pool'[k]]
        /\ \A k \in UpstreamKeys : /\ pool'[k] = [enabled |-> pool'[k].enabled, revoked |-> pool'[k].revoked]
                                     /\ pool'[k].revoked = pool[k].revoked
    BY <2>p, <2>q
  <2>3. /\ order' = [p \in Orders |-> order'[p]]
        /\ \A p \in Orders : order'[p] = NoOrder \/ order'[p] = order[p]
    BY <2>1 DEF RoutersInv, RoutersShape
  <2>4. RoutersShape'
    BY ONLY <2>1, <2>2, <2>3, <1>n, RoutersInv DEF RoutersInv, RoutersShape, IsOrder, IsVisit
  <2>5. OneRouter'
    BY <2>1 DEF RoutersInv, OneRouter, Made, Makes
  <2>6. WritesToMade'
    BY <2>1, <2>3, <1>n DEF RoutersInv, WritesToMade, Made
  <2>7. Settles'
    BY <2>1, <2>2 DEF RoutersInv, Settles
  <2> QED BY <2>4, <2>5, <2>6, <2>7 DEF RoutersInv
<1> QED BY <1>1, <1>2, <1>3, <1>4, <1>5

LEMMA RoutersStep == RoutersInv /\ [RoutersNext]_routersVars => RoutersInv'
<1> SUFFICES ASSUME RoutersInv, [RoutersNext]_routersVars PROVE RoutersInv'
  OBVIOUS
<1>1. CASE UNCHANGED routersVars
  BY <1>1 DEF routersVars, RoutersInv, RoutersShape, OneRouter, WritesToMade, Settles, IsVisit, IsOrder, Made, Makes
<1>2. CASE JoinTokenExpires
  <2>1. /\ UNCHANGED <<access, status, pool, request, order, retired, removed>>
        /\ joinToken' = [joinToken EXCEPT !.expired = TRUE]
    BY <1>2 DEF JoinTokenExpires
  <2>2. joinToken'.used = joinToken.used /\ joinToken' = [used |-> joinToken'.used, expired |-> joinToken'.expired]
    BY <2>1 DEF RoutersInv, RoutersShape
  <2> QED BY <2>1, <2>2 DEF RoutersInv, RoutersShape, OneRouter, WritesToMade, Settles, IsVisit, IsOrder, Made, Makes
<1>3. CASE \E v \in RouterCalls :
              \/ FindJoinToken(v) \/ MarkUsed(v) \/ MakeAccess(v) \/ MakeRouter(v)
              \/ \E r \in RouterIds : Authenticate(v, r)
              \/ Report(v) \/ Approved(v) \/ pickUpstreamKey(v) \/ Configured(v)
  BY <1>3, RequestSteps
<1>4. CASE \E r \in RouterIds : StickyExpires(r)
  BY <1>4 DEF StickyExpires, RoutersInv, RoutersShape, OneRouter, WritesToMade, Settles, IsVisit, IsOrder, Made, Makes
<1>5. CASE \E o \in Orders :
              \/ \E r \in RouterIds : BeginRouter(o, r)
              \/ SetStatus(o) \/ RevokeAccess(o)
              \/ \E k \in UpstreamKeys : BeginUpdate(o, k)
              \/ WriteUpdate(o)
  BY <1>5, AdministratorSteps
<1>6. CASE \E k \in UpstreamKeys : RevokeKey(k)
  <2>1. PICK x \in UpstreamKeys : RevokeKey(x)
    BY <1>6
  <2>2. /\ pool' = [pool EXCEPT ![x] = [enabled |-> FALSE, revoked |-> TRUE]]
        /\ retired' = retired \cup {x}
        /\ UNCHANGED <<joinToken, access, status, request, order, removed>>
    BY <2>1 DEF RevokeKey
  <2>3. /\ pool' = [k \in UpstreamKeys |-> pool'[k]]
        /\ \A k \in UpstreamKeys : /\ pool'[k] = [enabled |-> pool'[k].enabled, revoked |-> pool'[k].revoked]
        /\ pool'[x].revoked
    BY <2>2 DEF RoutersInv, RoutersShape
  <2>4. \A k \in UpstreamKeys : k # x => pool'[k] = pool[k]
    BY <2>2 DEF RoutersInv, RoutersShape
  <2>5. RoutersShape'
    BY <2>2, <2>3 DEF RoutersInv, RoutersShape, IsVisit, IsOrder
  <2>6. OneRouter' /\ WritesToMade'
    BY <2>2 DEF RoutersInv, OneRouter, WritesToMade, Made, Makes
  <2>7. Settles'
    BY <2>2, <2>3, <2>4 DEF RoutersInv, Settles
  <2> QED BY <2>5, <2>6, <2>7 DEF RoutersInv
<1>7. CASE HubCrashes
  <2>1. /\ request' = [v \in RouterCalls |-> NoVisit] /\ order' = [o \in Orders |-> NoOrder]
        /\ UNCHANGED <<joinToken, access, status, pool, retired, removed>>
    BY <1>7 DEF HubCrashes
  <2>2. /\ IsVisit(NoVisit) /\ NoVisit.at = "idle" /\ NoVisit.before = {}
        /\ IsOrder(NoOrder) /\ NoOrder.at = "idle"
    BY DEF NoVisit, IsVisit, NoOrder, IsOrder
  <2>3. RoutersShape'
    BY <2>1, <2>2 DEF RoutersInv, RoutersShape, IsVisit, IsOrder
  <2>4. OneRouter' /\ WritesToMade'
    BY <2>1, <2>2 DEF RoutersInv, OneRouter, WritesToMade, Made, Makes
  <2>5. Settles'
    BY <2>1, <2>2 DEF RoutersInv, Settles
  <2> QED BY <2>3, <2>4, <2>5 DEF RoutersInv
<1> QED BY <1>1, <1>2, <1>3, <1>4, <1>5, <1>6, <1>7 DEF RoutersNext

\* A join token makes one router, a deleted router's token opens nothing, and a
\* key that was revoked is in no answer to a request begun later (packages/hub/
\* src/internal-llm.ts, internal-voice.ts, llm-upstream-keys.ts), for any number
\* of routers, keys, requests and crashes of the hub.
THEOREM RetiredStaysOut == RoutersSpec => []RetiredOut
<1>1. RoutersInv => RetiredOut
  <2> SUFFICES ASSUME RoutersInv PROVE RetiredOut
    OBVIOUS
  <2>1. PICK S : S = {r \in RouterIds : access[r] # "none"}
    OBVIOUS
  <2>2. Cardinality(S) <= 1
    <3>1. CASE S = {}
      BY <3>1, FS_EmptySet
    <3>2. CASE S # {}
      <4>1. PICK r : r \in S
        BY <3>2
      <4>2. S = {r}
        BY <4>1, <2>1 DEF RoutersInv, OneRouter, Made
      <4>3. Cardinality({r}) = 1
        BY FS_Singleton
      <4> QED BY <4>2, <4>3
    <3> QED BY <3>1, <3>2
  <2> QED BY <2>1, <2>2 DEF RetiredOut, RoutersInv, Settles
<1> QED BY <1>1, RoutersStart, RoutersStep, PTL DEF RoutersSpec
-----------------------------------------------------------------------------
(* Migration: what every step of the constructor finds, and what the holder   *)
(* of the advisory lock knows of the files.                                   *)

\* A file in which no transaction is open.
Sound(t) ==
    /\ t = [users |-> t.users, usage |-> t.usage, usage_new |-> NoTable]
    /\ \/ t.usage = NoTable /\ stored = {}
       \/ \E form \in {"old", "hosts", "full"} : t.usage = Table(form, stored)

Tables(usage, usage_new) == [users |-> "new", usage |-> usage, usage_new |-> usage_new]

\* What the transaction of the constructor sees before each statement.
UpgradeAt ==
    \/ upgrade = "tables" /\ tx = schema
    \/ upgrade = "columns" /\ tx = schema /\ schema.usage # NoTable
    \/ upgrade \in {"rebuild", "create", "tts"} /\ tx = schema /\ schema.users = "new" /\ schema.usage # NoTable
    \/ /\ upgrade \in {"insert", "drop", "rename", "commit"}
       /\ schema.users = "new" /\ schema.usage # NoTable
       /\ tx = CASE upgrade = "insert" -> Tables(schema.usage, Table("hosts", {}))
                 [] upgrade = "drop" -> Tables(schema.usage, Table("hosts", stored))
                 [] upgrade = "rename" -> Tables(NoTable, Table("hosts", stored))
                 [] upgrade = "commit" -> Tables(Table("hosts", stored), NoTable)
    \/ upgrade = "open" /\ tx = schema /\ schema = Tables(Table("full", stored), NoTable)

FileInv == Sound(schema) /\ UpgradeAt

LEMMA FileStart == MigrationInit => FileInv
<1> SUFFICES ASSUME MigrationInit PROVE FileInv
  OBVIOUS
<1>1. UpgradeAt
  BY DEF MigrationInit, UpgradeAt
<1>2. Sound(schema)
  <2>1. PICK rows \in SUBSET Rows :
           /\ stored = rows
           /\ \/ schema = [users |-> "old", usage |-> Table("old", rows), usage_new |-> NoTable]
              \/ schema = [users |-> "old", usage |-> Table("hosts", rows), usage_new |-> NoTable]
              \/ rows = {} /\ schema = [users |-> "none", usage |-> NoTable, usage_new |-> NoTable]
    BY DEF MigrationInit
  <2> QED BY <2>1 DEF Sound
<1> QED BY <1>1, <1>2 DEF FileInv

LEMMA FileStep == FileInv /\ [MigrationNext]_migrationVars => FileInv'
<1> SUFFICES ASSUME FileInv, [MigrationNext]_migrationVars PROVE FileInv'
  OBVIOUS
<1>u. UNCHANGED <<schema, tx, upgrade, stored>> => FileInv'
  BY DEF FileInv, Sound, UpgradeAt, Tables, Table, NoTable
<1>1. CASE UNCHANGED migrationVars
  BY <1>1, <1>u DEF migrationVars
<1>2. CASE CreateTables
  <2>1. PICK u, g : /\ u = (IF schema.users = "none" THEN "new" ELSE schema.users)
                    /\ g = (IF schema.usage.form = "none" THEN Table("full", {}) ELSE schema.usage)
    OBVIOUS
  <2>2. tx = schema /\ upgrade' = "columns" /\ stored' = stored
    BY <1>2 DEF CreateTables, AtOnce, Statement, FileInv, UpgradeAt
  <2>3. schema' = [schema EXCEPT !.users = u, !.usage = g] /\ tx' = schema'
    BY <1>2, <2>1, <2>2 DEF CreateTables, AtOnce, Statement
  <2>4. schema' = [users |-> u, usage |-> g, usage_new |-> NoTable]
    <3>1. schema = [users |-> schema.users, usage |-> schema.usage, usage_new |-> NoTable]
      BY DEF FileInv, Sound
    <3>2. [schema EXCEPT !.users = u] = [users |-> u, usage |-> schema.usage, usage_new |-> NoTable]
      BY <3>1
    <3>3. [schema EXCEPT !.users = u, !.usage = g] = [[schema EXCEPT !.users = u] EXCEPT !.usage = g]
      OBVIOUS
    <3> QED BY <2>3, <3>2, <3>3
  <2>5. g # NoTable /\ \E form \in {"old", "hosts", "full"} : g = Table(form, stored)
    BY <2>1 DEF FileInv, Sound, Table, NoTable
  <2> QED BY <2>2, <2>3, <2>4, <2>5 DEF FileInv, Sound, UpgradeAt
<1>3. CASE AddColumns
  BY <1>3 DEF AddColumns, AtOnce, Statement, FileInv, Sound, UpgradeAt, Tables, Table, NoTable
<1>4. CASE SkipRebuild
  BY <1>4 DEF SkipRebuild, AtOnce, Statement, FileInv, Sound, UpgradeAt, Tables, Table, NoTable
<1>5. CASE Rebuild
  <2>1. CASE Held("rebuild", "create", tx)
    BY <2>1 DEF Held, Statement, FileInv, Sound, UpgradeAt, Tables, Table, NoTable
  <2>2. CASE Held("create", "insert", [tx EXCEPT !.usage_new = Table("hosts", {})])
    BY <2>2 DEF Held, Statement, FileInv, Sound, UpgradeAt, Tables, Table, NoTable
  <2>3. CASE Held("insert", "drop", [tx EXCEPT !.usage_new.rows = tx.usage.rows])
    BY <2>3 DEF Held, Statement, FileInv, Sound, UpgradeAt, Tables, Table, NoTable
  <2>4. CASE Held("drop", "rename", [tx EXCEPT !.usage = NoTable])
    BY <2>4 DEF Held, Statement, FileInv, Sound, UpgradeAt, Tables, Table, NoTable
  <2>5. CASE Held("rename", "commit", [tx EXCEPT !.usage = tx.usage_new, !.usage_new = NoTable])
    <3>1. /\ upgrade = "rename" /\ upgrade' = "commit" /\ UNCHANGED <<schema, stored>>
          /\ tx' = [tx EXCEPT !.usage = tx.usage_new, !.usage_new = NoTable]
      BY <2>5 DEF Held, Statement
    <3>2. tx = [users |-> "new", usage |-> NoTable, usage_new |-> Table("hosts", stored)]
      BY <3>1 DEF FileInv, UpgradeAt, Tables
    <3>3. PICK h : h = Table("hosts", stored)
      OBVIOUS
    <3>4. [tx EXCEPT !.usage = h] = [users |-> "new", usage |-> h, usage_new |-> h]
      BY <3>2, <3>3
    <3>5. [tx EXCEPT !.usage = h, !.usage_new = NoTable] = [[tx EXCEPT !.usage = h] EXCEPT !.usage_new = NoTable]
      OBVIOUS
    <3>6. tx' = [users |-> "new", usage |-> h, usage_new |-> NoTable]
      BY <3>1, <3>2, <3>3, <3>4, <3>5
    <3> QED BY <3>1, <3>3, <3>6 DEF FileInv, Sound, UpgradeAt, Tables
  <2>6. CASE AtOnce("commit", "tts", tx)
    BY <2>6 DEF AtOnce, Statement, FileInv, Sound, UpgradeAt, Tables, Table, NoTable
  <2> QED BY <2>1, <2>2, <2>3, <2>4, <2>5, <2>6, <1>5 DEF Rebuild
<1>6. CASE AddLateColumns
  BY <1>6 DEF AddLateColumns, AtOnce, Statement, FileInv, Sound, UpgradeAt, Tables, Table, NoTable
<1>7. CASE \E r \in Rows : Store(r)
  BY <1>7, SMTT(30) DEF Store, FileInv, Sound, UpgradeAt, Tables, Table, NoTable
<1>8. CASE Dies
  BY <1>8 DEF Dies, FileInv, Sound, UpgradeAt
<1>9. CASE \E p \in Processes : TakeLock(p) \/ Look(p) \/ Commit(p) \/ Fails(p)
  BY <1>9, <1>u DEF TakeLock, Look, Commit, Fails, fileVars
<1> QED BY <1>1, <1>2, <1>3, <1>4, <1>5, <1>6, <1>7, <1>8, <1>9 DEF MigrationNext

Done1To(n) == [i \in 1..n |-> i]

\* The files are committed one after the other; who runs one holds the lock,
\* and has found the ones before it recorded.
FilesInv ==
    \E n \in 0..2 :
        /\ committed = Done1To(n) /\ records = 1..n
        /\ proc = [p \in Processes |-> proc[p]] /\ work = [p \in Processes |-> work[p]]
        /\ \A p \in Processes :
              /\ proc[p].at \in {"look", "run"} => lock = p
              /\ proc[p].at = "look" => proc[p].file \in 1..3 /\ proc[p].file - 1 <= n
              /\ proc[p].at = "run" => proc[p].file = n + 1 /\ n < 2 /\ work[p] = <<n + 1>>
              /\ proc[p].at = "up" => n = 2

LEMMA FilesStart == MigrationInit => FilesInv
<1> SUFFICES ASSUME MigrationInit PROVE FilesInv
  OBVIOUS
<1>1. /\ committed = <<>> /\ records = {}
      /\ proc = [p \in Processes |-> proc[p]] /\ work = [p \in Processes |-> work[p]]
      /\ \A p \in Processes : proc[p].at = "start"
  BY DEF MigrationInit
<1>2. PICK n \in 0..2 : n = 0
  OBVIOUS
<1>3. committed = Done1To(n) /\ records = 1..n
  BY <1>1, <1>2 DEF Done1To
<1> QED BY <1>1, <1>3 DEF FilesInv

LEMMA OneMore ==
    ASSUME NEW n \in 0..1
    PROVE  Done1To(n) \o <<n + 1>> = Done1To(n + 1) /\ ToSet(<<n + 1>>) = {n + 1}
BY DEF Done1To, ToSet

LEMMA FilesStep == FilesInv /\ [MigrationNext]_migrationVars => FilesInv'
<1> SUFFICES ASSUME FilesInv, [MigrationNext]_migrationVars PROVE FilesInv'
  OBVIOUS
<1>n. PICK n \in 0..2 :
        /\ committed = Done1To(n) /\ records = 1..n
        /\ proc = [p \in Processes |-> proc[p]] /\ work = [p \in Processes |-> work[p]]
        /\ \A p \in Processes :
              /\ proc[p].at \in {"look", "run"} => lock = p
              /\ proc[p].at = "look" => proc[p].file \in 1..3 /\ proc[p].file - 1 <= n
              /\ proc[p].at = "run" => proc[p].file = n + 1 /\ n < 2 /\ work[p] = <<n + 1>>
              /\ proc[p].at = "up" => n = 2
  BY DEF FilesInv
<1>u. UNCHANGED pgVars => FilesInv'
  BY DEF FilesInv, pgVars, Done1To
<1>1. CASE UNCHANGED migrationVars
  BY <1>1, <1>u DEF migrationVars, pgVars
<1>2. CASE CreateTables \/ AddColumns \/ SkipRebuild \/ Rebuild \/ AddLateColumns
           \/ (\E r \in Rows : Store(r)) \/ Dies
  BY <1>2, <1>u DEF CreateTables, AddColumns, SkipRebuild, Rebuild, AddLateColumns, Store, Dies,
                    AtOnce, Held, Statement
<1>3. CASE \E p \in Processes : TakeLock(p)
  <2>1. PICK x \in Processes : TakeLock(x)
    BY <1>3
  <2>2. /\ lock = Free /\ lock' = x /\ proc' = [proc EXCEPT ![x] = [at |-> "look", file |-> 1]]
        /\ UNCHANGED <<committed, records, work>>
    BY <2>1 DEF TakeLock, To
  <2>3. \A p \in Processes : proc[p].at \notin {"look", "run"}
    BY <1>n, <2>2, MigrationAssumption
  <2> QED BY <1>n, <2>2, <2>3 DEF FilesInv
<1>4. CASE \E p \in Processes : Look(p)
  <2>1. PICK x \in Processes : Look(x)
    BY <1>4
  <2>2. PICK f : f = proc[x].file
    OBVIOUS
  <2>3. /\ proc[x].at = "look" /\ lock = x /\ f \in 1..3 /\ f - 1 <= n
        /\ UNCHANGED <<committed, records>>
    BY <2>1, <2>2, <1>n DEF Look
  <2>4. \A p \in Processes : p # x => proc[p].at \notin {"look", "run"}
    BY <1>n, <2>3
  <2>5. CASE f \in Files /\ f \in records
    <3>1. proc' = [proc EXCEPT ![x] = [at |-> "look", file |-> f + 1]] /\ UNCHANGED <<lock, work>>
      BY <2>1, <2>2, <2>5 DEF Look, To
    <3>2. f + 1 \in 1..3 /\ f <= n
      BY <2>5, <1>n DEF Files
    <3> QED BY <1>n, <2>3, <2>4, <3>1, <3>2, SMTT(30) DEF FilesInv
  <2>6. CASE f \in Files /\ f \notin records
    <3>1. /\ proc' = [proc EXCEPT ![x] = [at |-> "run", file |-> f]] /\ UNCHANGED lock
          /\ work' = [work EXCEPT ![x] = <<f>>]
      BY <2>1, <2>2, <2>6 DEF Look, To
    <3>2. f = n + 1 /\ n < 2
      BY <2>3, <2>6, <1>n DEF Files
    <3> QED BY <1>n, <2>3, <2>4, <3>1, <3>2, ZenonT(30) DEF FilesInv
  <2>7. CASE f \notin Files
    <3>1. proc' = [proc EXCEPT ![x] = [at |-> "up", file |-> 0]] /\ UNCHANGED work
      BY <2>1, <2>2, <2>7 DEF Look, To
    <3>2. n = 2
      BY <2>3, <2>7, <1>n DEF Files
    <3> QED BY <1>n, <2>3, <2>4, <3>1, <3>2 DEF FilesInv
  <2> QED BY <2>5, <2>6, <2>7
<1>5. CASE \E p \in Processes : Commit(p)
  <2>1. PICK x \in Processes : Commit(x)
    BY <1>5
  <2>2. proc[x].at = "run" /\ lock = x /\ proc[x].file = n + 1 /\ n < 2 /\ work[x] = <<n + 1>>
    BY <2>1, <1>n DEF Commit
  <2>3. \A p \in Processes : p # x => proc[p].at \notin {"look", "run", "up"}
    BY <1>n, <2>2
  <2>4. PICK m \in 0..2 : m = n + 1
    BY <2>2
  <2>5. committed' = Done1To(m) /\ records' = 1..m
    BY <2>1, <2>2, <2>4, <1>n, OneMore, SMTT(30) DEF Commit
  <2>6. /\ proc' = [proc EXCEPT ![x] = [at |-> "look", file |-> m + 1]]
        /\ work' = [work EXCEPT ![x] = <<>>] /\ UNCHANGED lock
    BY <2>1, <2>2, <2>4 DEF Commit, To
  <2>7. /\ proc' = [p \in Processes |-> proc'[p]] /\ work' = [p \in Processes |-> work'[p]]
        /\ proc'[x] = [at |-> "look", file |-> m + 1]
        /\ \A p \in Processes : p # x => proc'[p] = proc[p]
    BY <1>n, <2>6
  <2>8. \A p \in Processes : p # x => proc'[p].at \notin {"look", "run", "up"}
    BY <2>3, <2>7
  <2>9. proc'[x].at = "look" /\ lock' = x /\ proc'[x].file \in 1..3 /\ proc'[x].file - 1 <= m
    BY <2>2, <2>4, <2>6, <2>7
  <2> QED BY <2>5, <2>7, <2>8, <2>9 DEF FilesInv
<1>6. CASE \E p \in Processes : Fails(p)
  <2>1. PICK x \in Processes : Fails(x)
    BY <1>6
  <2>2. /\ proc' = [proc EXCEPT ![x] = [at |-> "start", file |-> 0]]
        /\ work' = [work EXCEPT ![x] = <<>>] /\ lock' = IF lock = x THEN Free ELSE lock
        /\ UNCHANGED <<committed, records>>
    BY <2>1 DEF Fails, To
  <2>3. /\ proc' = [p \in Processes |-> proc'[p]] /\ work' = [p \in Processes |-> work'[p]]
        /\ proc'[x].at = "start"
        /\ \A p \in Processes : p # x => proc'[p] = proc[p] /\ work'[p] = work[p]
    BY <1>n, <2>2
  <2>4. \A p \in Processes : p # x /\ lock = p => lock' = p
    BY <2>2
  <2> QED BY <1>n, <2>2, <2>3, <2>4 DEF FilesInv
<1> QED BY <1>1, <1>2, <1>3, <1>4, <1>5, <1>6 DEF MigrationNext

\* However often processes die, and whatever they start beside each other, a hub
\* that is up has the new schema and all rows, and the numbered files are applied
\* once and in order (HubDb in db.ts, migratePg in pg.ts).
THEOREM UpgradeLosesNothing == MigrationSpec => []UpgradeKeepsAll
<1>1. FileInv /\ FilesInv => UpgradeKeepsAll
  <2> SUFFICES ASSUME FileInv, FilesInv PROVE UpgradeKeepsAll
    OBVIOUS
  <2>1. upgrade = "open" => schema = [users |-> "new", usage |-> Table("full", stored), usage_new |-> NoTable]
    BY DEF FileInv, UpgradeAt, Tables
  <2>2. PICK n \in 0..2 : /\ committed = Done1To(n) /\ records = 1..n
                          /\ \A p \in Processes : proc[p].at = "up" => n = 2
    BY DEF FilesInv
  <2>3. Len(committed) = n /\ ToSet(committed) = 1..n
    BY <2>2 DEF Done1To, ToSet
  <2> QED BY <2>1, <2>2, <2>3 DEF UpgradeKeepsAll, Done1To, Files
<1> QED BY <1>1, FileStart, FileStep, FilesStart, FilesStep, PTL DEF MigrationSpec
-----------------------------------------------------------------------------
(* Doors: while nothing known has gone wrong, a cookie of the newest version   *)
(* was given for a password that still stands, and the gateway either knows    *)
(* that version or is about to read it.                                        *)

ConfShape(c) ==
    /\ c = [users |-> c.users, version |-> c.version]
    /\ c.users = [p \in People |-> c.users[p]] /\ c.version \in Nat

CookieKept(c) ==
    /\ c.who \in People /\ c.version \in Nat /\ c.version <= conf.version
    /\ c.version = conf.version => conf.users[c.who] \in {c.secret, Nobody}

Kept ==
    /\ ConfShape(conf)
    /\ \A a \in Admins : admin[a].fresh => admin[a].cfg = conf
    /\ seen \in Nat /\ seen <= conf.version
    /\ \A n \in reading : n \in Nat /\ n <= conf.version
    /\ seen # 0 /\ ~stirred => conf.version \in reading \cup {seen}
    /\ \A c \in cookies : CookieKept(c)

VisitShape ==
    /\ visit = [v \in Visits |-> visit[v]]
    /\ \A v \in Visits : visit[v].at # "idle" => visit[v].who \in People

AdminShape ==
    /\ admin = [a \in Admins |-> admin[a]]
    /\ \A a \in Admins :
          /\ admin[a] = [at |-> admin[a].at, op |-> admin[a].op, who |-> admin[a].who,
                         secret |-> admin[a].secret, cfg |-> admin[a].cfg, fresh |-> admin[a].fresh]
          /\ admin[a].at # "idle" => admin[a].who \in People

DoorsInv == VisitShape /\ AdminShape /\ (flaw = {} => Kept)

LEMMA DoorsStart == DoorsInit => DoorsInv
<1> SUFFICES ASSUME DoorsInit PROVE DoorsInv
  OBVIOUS
<1>1. ConfShape(conf)
  BY DEF DoorsInit, ConfShape
<1>2. VisitShape
  BY DEF DoorsInit, VisitShape, Away
<1>3. AdminShape /\ \A a \in Admins : admin[a].cfg = conf
  BY DEF DoorsInit, AdminShape, NoCommand
<1>4. seen = 1 /\ conf.version = 1 /\ reading = {} /\ cookies = {}
  BY DEF DoorsInit
<1> QED BY <1>1, <1>2, <1>3, <1>4 DEF DoorsInv, Kept

\* A step that leaves the files, their versions and the cookies alone.
LEMMA DoorsIdle ==
    ASSUME DoorsInv, UNCHANGED <<conf, seen, reading, stirred, cookies, flaw>>,
           VisitShape', AdminShape',
           \A a \in Admins : admin'[a].fresh =>
               (admin[a].fresh /\ admin'[a].cfg = admin[a].cfg) \/ (admin'[a].cfg = conf)
    PROVE  DoorsInv'
BY DEF DoorsInv, Kept, ConfShape, CookieKept

LEMMA CommandSteps ==
    ASSUME DoorsInv, NEW x \in Admins, Command(x) \/ WriteDraft(x)
    PROVE  DoorsInv'
<1>1. CASE Command(x)
  <2>1. PICK op \in {"add", "passwd", "rm", "gate"}, p \in People, s \in Secrets :
            admin' = [admin EXCEPT ![x] = [at |-> "write", op |-> op, who |-> p, secret |-> s,
                                           cfg |-> conf, fresh |-> TRUE]]
    BY <1>1 DEF Command
  <2>2. AdminShape' /\ \A a \in Admins : admin'[a].cfg = conf \/ admin'[a] = admin[a]
    BY <2>1 DEF DoorsInv, AdminShape
  <2>3. UNCHANGED <<conf, seen, reading, visit, stirred, cookies, flaw>>
    BY <1>1 DEF Command, onDisk, inGateway
  <2>4. VisitShape'
    BY <2>3 DEF DoorsInv, VisitShape
  <2> QED BY <2>2, <2>3, <2>4, DoorsIdle
<1>2. CASE WriteDraft(x)
  <2>1. PICK m : m = [admin[x] EXCEPT !.at = "rename"]
    OBVIOUS
  <2>2. admin' = [admin EXCEPT ![x] = m] /\ admin[x].at = "write"
    BY <1>2, <2>1 DEF WriteDraft, DoorsInv, AdminShape
  <2>3. /\ m.who = admin[x].who /\ m.fresh = admin[x].fresh /\ m.cfg = admin[x].cfg
        /\ m = [at |-> m.at, op |-> m.op, who |-> m.who, secret |-> m.secret, cfg |-> m.cfg, fresh |-> m.fresh]
    <3>1. admin[x] = [at |-> admin[x].at, op |-> admin[x].op, who |-> admin[x].who,
                      secret |-> admin[x].secret, cfg |-> admin[x].cfg, fresh |-> admin[x].fresh]
      BY DEF DoorsInv, AdminShape
    <3> QED BY <2>1, <3>1
  <2>4. admin[x].who \in People
    BY <2>2 DEF DoorsInv, AdminShape
  <2>5. AdminShape' /\ admin'[x] = m /\ \A a \in Admins : a # x => admin'[a] = admin[a]
    BY <2>2, <2>3, <2>4 DEF DoorsInv, AdminShape
  <2>6. UNCHANGED <<conf, seen, reading, visit, stirred, cookies, flaw>>
    BY <1>2 DEF WriteDraft, inGateway
  <2>7. VisitShape'
    BY <2>6 DEF DoorsInv, VisitShape
  <2> QED BY <2>3, <2>5, <2>6, <2>7, DoorsIdle
<1> QED BY <1>1, <1>2

\* What a command makes of the file it has read.
LEMMA ChangedFile ==
    ASSUME DoorsInv, flaw = {}, NEW x \in Admins, admin[x].cfg = conf, admin[x].who \in People,
           NEW new, new = Changed(admin[x]),
           admin[x].op = "add" => \A c \in cookies : c.who # admin[x].who
    PROVE  /\ ConfShape(new) /\ conf.version <= new.version
           /\ \A c \in cookies : c.version = new.version => new.users[c.who] \in {c.secret, Nobody}
<1>. PICK m : m = admin[x]
  OBVIOUS
<1>0. Kept
  BY DEF DoorsInv
<1>1. new.version = IF m.op = "passwd" THEN conf.version + 1 ELSE conf.version
  BY DEF Changed, NewVersion
<1>2. new = [users |-> new.users, version |-> new.version]
  BY DEF Changed
<1>3. CASE m.op \in {"add", "passwd"}
  <2>1. new.users = [conf.users EXCEPT ![m.who] = m.secret]
    BY <1>3 DEF Changed
  <2> QED BY <1>0, <1>1, <1>2, <1>3, <2>1 DEF Kept, ConfShape, CookieKept
<1>4. CASE m.op = "rm"
  <2>1. new.users = [conf.users EXCEPT ![m.who] = Nobody]
    BY <1>4 DEF Changed
  <2> QED BY <1>0, <1>1, <1>2, <1>4, <2>1 DEF Kept, ConfShape, CookieKept
<1>5. CASE m.op \notin {"add", "passwd", "rm"}
  <2>1. new.users = conf.users
    BY <1>5 DEF Changed
  <2> QED BY <1>0, <1>1, <1>2, <1>5, <2>1 DEF Kept, ConfShape, CookieKept
<1> QED BY <1>3, <1>4, <1>5

LEMMA RenameSteps ==
    ASSUME DoorsInv, NEW x \in Admins, RenameDraft(x)
    PROVE  DoorsInv'
<1>1. /\ admin[x].at = "rename" /\ UNCHANGED <<seen, reading, visit, cookies>>
      /\ IF draft = {} THEN UNCHANGED <<conf, stirred>> /\ admin' = [admin EXCEPT ![x] = NoCommand(conf)]
         ELSE /\ stirred' = TRUE
              /\ admin' = [b \in Admins |-> IF b = x THEN NoCommand(conf')
                                            ELSE IF admin[b].at = "idle" THEN NoCommand(conf')
                                            ELSE [admin[b] EXCEPT !.fresh = FALSE]]
  BY DEF RenameDraft, onDisk, inGateway, DirectoryWatch
<1>2. VisitShape'
  BY <1>1 DEF DoorsInv, VisitShape
<1>n. \A c : /\ NoCommand(c).at = "idle" /\ NoCommand(c).cfg = c
             /\ NoCommand(c) = [at |-> NoCommand(c).at, op |-> NoCommand(c).op, who |-> NoCommand(c).who,
                                secret |-> NoCommand(c).secret, cfg |-> NoCommand(c).cfg,
                                fresh |-> NoCommand(c).fresh]
  BY DEF NoCommand
<1>3. AdminShape'
  <2>1. CASE draft = {}
    BY <1>1, <1>n, <2>1 DEF DoorsInv, AdminShape
  <2>2. CASE draft # {}
    <3>1. admin' = [a \in Admins |-> admin'[a]]
      BY <1>1, <2>2
    <3>2. ASSUME NEW a \in Admins
          PROVE  /\ admin'[a] = [at |-> admin'[a].at, op |-> admin'[a].op, who |-> admin'[a].who,
                                 secret |-> admin'[a].secret, cfg |-> admin'[a].cfg, fresh |-> admin'[a].fresh]
                 /\ admin'[a].at # "idle" => admin'[a].who \in People
      <4>1. CASE a = x \/ admin[a].at = "idle"
        BY <1>1, <1>n, <2>2, <4>1
      <4>2. CASE ~(a = x \/ admin[a].at = "idle")
        <5>1. admin'[a] = [admin[a] EXCEPT !.fresh = FALSE]
          BY <1>1, <2>2, <4>2
        <5>2. /\ admin[a] = [at |-> admin[a].at, op |-> admin[a].op, who |-> admin[a].who,
                             secret |-> admin[a].secret, cfg |-> admin[a].cfg, fresh |-> admin[a].fresh]
              /\ admin[a].who \in People
          BY <4>2 DEF DoorsInv, AdminShape
        <5> QED BY <5>1, <5>2
      <4> QED BY <4>1, <4>2
    <3> QED BY <3>1, <3>2 DEF AdminShape
  <2> QED BY <2>1, <2>2
<1>4. ASSUME flaw' = {} PROVE Kept'
  <2>1. /\ flaw = {} /\ admin[x].fresh /\ draft = {Changed(admin[x])}
        /\ ~(admin[x].op = "add" /\ \E c \in cookies : c.who = admin[x].who)
    BY <1>4 DEF RenameDraft
  <2>2. Kept /\ admin[x].cfg = conf /\ admin[x].who \in People
    BY <1>1, <2>1 DEF DoorsInv, Kept, AdminShape
  <2>3. conf' = Changed(admin[x]) /\ stirred'
    BY <1>1, <2>1 DEF RenameDraft
  <2>4. /\ ConfShape(conf') /\ conf.version <= conf'.version
        /\ \A c \in cookies : c.version = conf'.version => conf'.users[c.who] \in {c.secret, Nobody}
    BY <2>1, <2>2, <2>3, ChangedFile
  <2>5. conf.version \in Nat /\ conf'.version \in Nat
    BY <2>2, <2>4 DEF Kept, ConfShape
  <2>6. \A a \in Admins : admin'[a].fresh => admin'[a].cfg = conf'
    <3> TAKE a \in Admins
    <3>1. CASE a = x \/ admin[a].at = "idle"
      BY <1>1, <1>n, <2>1, <3>1
    <3>2. CASE ~(a = x \/ admin[a].at = "idle")
      <4>1. admin'[a] = [admin[a] EXCEPT !.fresh = FALSE]
        BY <1>1, <2>1, <3>2
      <4>2. admin[a] = [at |-> admin[a].at, op |-> admin[a].op, who |-> admin[a].who,
                        secret |-> admin[a].secret, cfg |-> admin[a].cfg, fresh |-> admin[a].fresh]
        BY DEF DoorsInv, AdminShape
      <4> QED BY <4>1, <4>2
    <3> QED BY <3>1, <3>2
  <2>7. \A c \in cookies' : CookieKept(c)'
    BY <1>1, <2>2, <2>4, <2>5 DEF Kept, CookieKept
  <2>8. /\ seen' \in Nat /\ seen' <= conf'.version
        /\ \A n \in reading' : n \in Nat /\ n <= conf'.version
    BY <1>1, <2>2, <2>4, <2>5 DEF Kept
  <2>9. ConfShape(conf)'
    BY <2>4 DEF ConfShape
  <2> QED BY <2>3, <2>6, <2>7, <2>8, <2>9 DEF Kept
<1> QED BY <1>2, <1>3, <1>4 DEF DoorsInv

LEMMA GatewaySteps ==
    ASSUME DoorsInv, Reload \/ Reloaded \/ RestartGateway \/ GatewayUp
    PROVE  DoorsInv'
<1>1. UNCHANGED <<conf, admin>> /\ (UNCHANGED visit \/ visit' = [v \in Visits |-> Away])
  BY DEF Reload, Reloaded, RestartGateway, GatewayUp, onDisk
<1>2. VisitShape' /\ AdminShape'
  BY <1>1 DEF DoorsInv, VisitShape, AdminShape, Away
<1>3. ASSUME Kept, flaw' = {} PROVE Kept'
  <2>1. CASE Reload
    BY <1>1, <1>3, <2>1 DEF Reload, Kept, ConfShape, CookieKept
  <2>2. CASE Reloaded
    <3>1. PICK n \in reading : reading' = reading \ {n} /\ seen' = n /\ Flawed("order", n < seen)
      BY <2>2 DEF Reloaded
    <3>2. seen <= n /\ n <= conf.version /\ n \in Nat
      BY <1>3, <3>1 DEF Flawed, Kept
    <3>3. UNCHANGED <<stirred, cookies>> /\ seen # 0
      BY <2>2 DEF Reloaded
    <3>4. seen' # 0 /\ ~stirred' => conf'.version \in reading' \cup {seen'}
      BY <1>1, <1>3, <3>1, <3>2, <3>3 DEF Kept, ConfShape
    <3>5. \A c \in cookies' : CookieKept(c)'
      BY <1>1, <1>3, <3>3 DEF Kept, CookieKept
    <3> QED BY <1>1, <1>3, <3>1, <3>2, <3>4, <3>5 DEF Kept, ConfShape
  <2>3. CASE RestartGateway
    <3>1. seen' = 0 /\ reading' = {conf.version} /\ cookies' \subseteq cookies
      BY <2>3 DEF RestartGateway
    <3> QED BY <1>1, <1>3, <3>1 DEF Kept, ConfShape, CookieKept
  <2>4. CASE GatewayUp
    <3>1. seen' \in reading /\ reading' = {} /\ seen' = conf.version /\ UNCHANGED cookies
      BY <2>4, <1>3 DEF GatewayUp, Flawed
    <3> QED BY <1>1, <1>3, <3>1 DEF Kept, ConfShape, CookieKept
  <2> QED BY <2>1, <2>2, <2>3, <2>4
<1>4. flaw' = {} => flaw = {}
  BY DEF Reload, Reloaded, RestartGateway, GatewayUp, Flawed
<1> QED BY <1>2, <1>3, <1>4 DEF DoorsInv

LEMMA VisitSteps ==
    ASSUME DoorsInv, NEW x \in Visits, Visit(x) \/ Lookup(x) \/ Answer(x)
    PROVE  DoorsInv'
<1>1. UNCHANGED <<conf, seen, reading, stirred, admin>>
  BY DEF Visit, Lookup, Answer, onDisk
<1>2. AdminShape'
  BY <1>1 DEF DoorsInv, AdminShape
<1>3. CASE Visit(x)
  <2>1. PICK p \in People, s \in Secrets :
            visit' = [visit EXCEPT ![x] = [at |-> "body", who |-> p, secret |-> s, hash |-> Nobody]]
    BY <1>3 DEF Visit
  <2>2. VisitShape'
    BY <2>1 DEF DoorsInv, VisitShape
  <2>3. UNCHANGED <<cookies, flaw>>
    BY <1>3 DEF Visit
  <2> QED BY <1>1, <1>2, <2>2, <2>3, DoorsIdle
<1>4. CASE Lookup(x)
  <2>1. PICK h : visit' = [visit EXCEPT ![x].at = "scrypt", ![x].hash = h]
    BY <1>4 DEF Lookup
  <2>2. visit[x].at = "body" /\ UNCHANGED <<cookies, flaw>>
    BY <1>4 DEF Lookup
  <2>3. \A v \in Visits : visit'[v].who = visit[v].who /\ (v # x => visit'[v].at = visit[v].at)
    BY <2>1 DEF DoorsInv, VisitShape
  <2>4. visit' = [v \in Visits |-> visit'[v]]
    BY <2>1 DEF DoorsInv, VisitShape
  <2>5. VisitShape'
    BY <2>2, <2>3, <2>4 DEF DoorsInv, VisitShape
  <2> QED BY <1>1, <1>2, <2>2, <2>5, DoorsIdle
<1>5. CASE Answer(x)
  <2>1. visit' = [visit EXCEPT ![x] = Away] /\ visit[x].at = "scrypt"
    BY <1>5 DEF Answer
  <2>2. VisitShape'
    BY <2>1 DEF DoorsInv, VisitShape, Away
  <2>3. CASE visit[x].hash = visit[x].secret
    <3>1. /\ cookies' = cookies \cup {[who |-> visit[x].who, secret |-> visit[x].secret, version |-> seen]}
          /\ Flawed("late", conf.users[visit[x].who] # visit[x].hash)
      BY <1>5, <2>3 DEF Answer
    <3>2. ASSUME flaw' = {} PROVE Kept'
      <4>1. Kept /\ conf.users[visit[x].who] = visit[x].secret
        BY <2>3, <3>1, <3>2 DEF DoorsInv, Flawed
      <4>2. visit[x].who \in People
        BY <2>1 DEF DoorsInv, VisitShape
      <4>3. PICK k : k = [who |-> visit[x].who, secret |-> visit[x].secret, version |-> seen]
        OBVIOUS
      <4>4. CookieKept(k)
        BY <4>1, <4>2, <4>3 DEF Kept, CookieKept
      <4>5. \A c \in cookies' : CookieKept(c)
        BY <3>1, <4>1, <4>3, <4>4 DEF Kept
      <4>6. \A c \in cookies' : CookieKept(c)'
        BY <1>1, <4>5 DEF CookieKept
      <4> QED BY <1>1, <4>1, <4>6 DEF Kept, ConfShape
    <3> QED BY <1>2, <2>2, <3>2 DEF DoorsInv
  <2>4. CASE visit[x].hash # visit[x].secret
    <3>1. UNCHANGED <<cookies, flaw>>
      BY <1>5, <2>4 DEF Answer
    <3> QED BY <1>1, <1>2, <2>2, <3>1, DoorsIdle
  <2> QED BY <2>3, <2>4
<1> QED BY <1>3, <1>4, <1>5

LEMMA DoorsStep == DoorsInv /\ [DoorsNext]_doors => DoorsInv'
<1> SUFFICES ASSUME DoorsInv, [DoorsNext]_doors PROVE DoorsInv'
  OBVIOUS
<1>1. CASE UNCHANGED doors
  BY <1>1 DEF doors, onDisk, inGateway, DoorsInv, VisitShape, AdminShape, Kept, ConfShape, CookieKept
<1>2. CASE \E a \in Admins : Command(a) \/ WriteDraft(a) \/ RenameDraft(a)
  BY <1>2, CommandSteps, RenameSteps
<1>3. CASE \E v \in Visits : Visit(v) \/ Lookup(v) \/ Answer(v)
  BY <1>3, VisitSteps
<1>4. CASE Reload \/ Reloaded \/ RestartGateway \/ GatewayUp
  BY <1>4, GatewaySteps
<1>5. CASE Unlock \/ EnterCode \/ SetGate
  BY <1>5 DEF Unlock, EnterCode, SetGate, onDisk, inGateway, DoorsInv, VisitShape, AdminShape, Kept,
              ConfShape, CookieKept
<1> QED BY <1>1, <1>2, <1>3, <1>4, <1>5 DEF DoorsNext

-----------------------------------------------------------------------------
(* Doors: no login can begin while the address is locked out, so that only     *)
(* those under way when it was can still be counted.                          *)

UnderWay == {v \in Visits : visit[v].at # "idle"}

LimitShape ==
    /\ limiter = [kind |-> limiter.kind, fails |-> limiter.fails, locked |-> limiter.locked]
    /\ limiter.kind \in {"login", "gate", "join"} /\ limiter.locked \in BOOLEAN
    /\ limiter.fails \in Nat /\ wrong \in Nat
    /\ visit = [v \in Visits |-> visit[v]]
    /\ limiter.kind # "login" => UnderWay = {}

LimitKept ==
    CASE limiter.kind = "login" ->
            /\ limiter.fails < MaxFails
            /\ ~limiter.locked => wrong <= limiter.fails
            /\ limiter.locked => wrong + Cardinality(UnderWay) <= MaxFails + Cardinality(Visits) - 1
      [] limiter.kind = "gate" ->
            limiter.fails < MaxFails /\ wrong <= (IF limiter.locked THEN MaxFails ELSE limiter.fails)
      [] limiter.kind = "join" ->
            /\ limiter.fails <= MaxFails
            /\ IF limiter.locked THEN wrong <= MaxFails
               ELSE wrong <= limiter.fails /\ (limiter.fails = MaxFails => wrong = 0)

LimitInv == LimitShape /\ LimitKept

Numbers == MaxFails \in Nat /\ MaxFails # 0 /\ IsFiniteSet(Visits) /\ Cardinality(Visits) \in Nat

LEMMA NumbersHold == Numbers
BY DoorsAssumption, FS_CardinalityType DEF Numbers

LEMMA CountUnderWay ==
    /\ IsFiniteSet(UnderWay) /\ Cardinality(UnderWay) \in Nat
    /\ Cardinality(UnderWay) <= Cardinality(Visits)
BY NumbersHold, FS_Subset, FS_CardinalityType DEF Numbers, UnderWay

LEMMA LimitStart == DoorsInit => LimitInv
<1> SUFFICES ASSUME DoorsInit PROVE LimitInv
  OBVIOUS
<1>1. wrong = 0 /\ visit = [v \in Visits |-> Away]
  BY DEF DoorsInit
<1>3. /\ limiter = [kind |-> limiter.kind, fails |-> limiter.fails, locked |-> limiter.locked]
      /\ limiter.kind \in {"login", "gate", "join"} /\ limiter.fails = 0 /\ limiter.locked = FALSE
  BY DEF DoorsInit
<1>2. UnderWay = {}
  BY <1>1 DEF UnderWay, Away
<1>4. LimitShape
  <2>1. limiter.fails \in Nat /\ wrong \in Nat
    BY <1>1, <1>3
  <2>3. limiter.locked \in BOOLEAN
    BY <1>3, Zenon
  <2>2. visit = [v \in Visits |-> visit[v]]
    BY <1>1
  <2> QED BY <2>1, <2>2, <2>3, <1>2, <1>3, Zenon DEF LimitShape
<1>5. 0 < MaxFails /\ 0 <= MaxFails /\ MaxFails # 0
  BY NumbersHold DEF Numbers
<1>6. LimitKept
  <2>1. CASE limiter.kind = "login"
    BY <1>1, <1>3, <1>5, <2>1 DEF LimitKept
  <2>2. CASE limiter.kind = "gate"
    BY <1>1, <1>3, <1>5, <2>2 DEF LimitKept
  <2>3. CASE limiter.kind = "join"
    BY <1>1, <1>3, <1>5, <2>3 DEF LimitKept
  <2> QED BY <1>3, <2>1, <2>2, <2>3
<1> QED BY <1>4, <1>6 DEF LimitInv

\* A login ends: one less is under way.
LEMMA OneLessUnderWay ==
    ASSUME LimitInv, NEW x \in Visits, visit[x].at # "idle", visit' = [visit EXCEPT ![x] = Away]
    PROVE  /\ UnderWay' = UnderWay \ {x} /\ limiter.kind = "login"
           /\ Cardinality(UnderWay') + 1 = Cardinality(UnderWay)
           /\ Cardinality(UnderWay') \in Nat
           /\ Cardinality(UnderWay') <= Cardinality(Visits) - 1
<1>1. UnderWay' = UnderWay \ {x} /\ x \in UnderWay
  BY DEF LimitInv, LimitShape, UnderWay, Away
<1>2. limiter.kind = "login"
  BY <1>1 DEF LimitInv, LimitShape
<1>3. Cardinality(UnderWay \ {x}) = Cardinality(UnderWay) - 1 /\ IsFiniteSet(UnderWay \ {x})
  BY <1>1, CountUnderWay, FS_RemoveElement
<1>4. Cardinality(UnderWay \ {x}) \in Nat
  BY <1>3, FS_CardinalityType
<1> QED BY <1>1, <1>2, <1>3, <1>4, CountUnderWay, NumbersHold DEF Numbers

LEMMA LimitAnswer ==
    ASSUME LimitInv, NEW x \in Visits, Answer(x)
    PROVE  LimitInv'
<1>1. visit' = [visit EXCEPT ![x] = Away] /\ visit[x].at # "idle"
  BY DEF Answer
<1>2. PICK n, m \in Nat : /\ n = Cardinality(UnderWay') /\ m = Cardinality(UnderWay)
                          /\ n + 1 = m /\ n <= Cardinality(Visits) - 1 /\ limiter.kind = "login"
  BY <1>1, OneLessUnderWay, CountUnderWay
<1>3. CASE Clear
  <2>1. wrong' = 0
    BY <1>3 DEF Clear
  <2>2. limiter' = [kind |-> "login", fails |-> 0, locked |-> FALSE]
    BY <1>3, <1>2 DEF Clear, LimitInv, LimitShape
  <2>3. LimitShape'
    BY <2>1, <2>2, <1>1 DEF LimitInv, LimitShape
  <2> QED BY <2>1, <2>2, <2>3, NumbersHold DEF LimitInv, LimitKept, Numbers
<1>4. CASE Fail
  <2>1. wrong' = wrong + 1
    BY <1>4 DEF Fail
  <2>2. CASE limiter.fails + 1 >= MaxFails
    <3>1. limiter' = [kind |-> "login", fails |-> 0, locked |-> TRUE]
      BY <1>2, <1>4, <2>2 DEF Fail, LimitInv, LimitShape
    <3>2. LimitShape'
      BY <2>1, <3>1, <1>1 DEF LimitInv, LimitShape
    <3>3. wrong + 1 + n <= MaxFails + Cardinality(Visits) - 1
      BY <1>2, NumbersHold DEF LimitInv, LimitShape, LimitKept, Numbers
    <3> QED BY <2>1, <3>1, <3>2, <3>3, <1>2, NumbersHold DEF LimitInv, LimitKept, Numbers
  <2>3. CASE ~(limiter.fails + 1 >= MaxFails)
    <3>1. limiter' = [kind |-> "login", fails |-> limiter.fails + 1, locked |-> limiter.locked]
      BY <1>2, <1>4, <2>3 DEF Fail, LimitInv, LimitShape
    <3>2. LimitShape'
      BY <2>1, <3>1, <1>1 DEF LimitInv, LimitShape
    <3>3. limiter.fails + 1 < MaxFails
      BY <2>3, NumbersHold DEF LimitInv, LimitShape, Numbers
    <3>4. limiter.locked => wrong + 1 + n <= MaxFails + Cardinality(Visits) - 1
      BY <1>2, NumbersHold DEF LimitInv, LimitShape, LimitKept, Numbers
    <3>5. ~limiter.locked => wrong + 1 <= limiter.fails + 1
      BY <1>2 DEF LimitInv, LimitShape, LimitKept
    <3> QED BY <2>1, <3>1, <3>2, <3>3, <3>4, <3>5, <1>2 DEF LimitInv, LimitKept
  <2> QED BY <2>2, <2>3
<1> QED BY <1>3, <1>4 DEF Answer

\* The address is free again.
LEMMA FreeAgain ==
    ASSUME LimitInv, NEW n \in Nat, n < MaxFails \/ (limiter.kind = "join" /\ n <= MaxFails),
           limiter' = [kind |-> limiter.kind, fails |-> n, locked |-> FALSE], wrong' = 0,
           UNCHANGED visit \/ visit' = [v \in Visits |-> Away]
    PROVE  LimitInv'
<1>1. /\ limiter'.kind = limiter.kind /\ limiter'.fails = n /\ limiter'.locked = FALSE
      /\ limiter' = [kind |-> limiter'.kind, fails |-> limiter'.fails, locked |-> limiter'.locked]
  OBVIOUS
<1>2. visit' = [v \in Visits |-> visit'[v]] /\ (limiter.kind # "login" => UnderWay' = {})
  BY DEF LimitInv, LimitShape, UnderWay, Away
<1>3. LimitShape'
  BY <1>1, <1>2 DEF LimitInv, LimitShape
<1>4. LimitKept'
  <2>1. CASE limiter.kind = "login"
    BY <1>1, <2>1 DEF LimitKept
  <2>2. CASE limiter.kind = "gate"
    BY <1>1, <2>2 DEF LimitKept
  <2>3. CASE limiter.kind = "join"
    <3>1. n <= MaxFails
      BY NumbersHold DEF Numbers
    <3> QED BY <1>1, <2>3, <3>1 DEF LimitKept
  <2> QED BY <2>1, <2>2, <2>3 DEF LimitInv, LimitShape
<1> QED BY <1>3, <1>4 DEF LimitInv

LEMMA LimitStep == LimitInv /\ [DoorsNext]_doors => LimitInv'
<1> SUFFICES ASSUME LimitInv, [DoorsNext]_doors PROVE LimitInv'
  OBVIOUS
<1>u. ASSUME UNCHANGED <<limiter, wrong, visit>> PROVE LimitInv'
  BY <1>u DEF LimitInv, LimitShape, LimitKept, UnderWay
<1>1. CASE UNCHANGED doors
  BY <1>1, <1>u DEF doors, inGateway, limiting
<1>2. CASE \E a \in Admins : Command(a) \/ WriteDraft(a) \/ RenameDraft(a)
  BY <1>2, <1>u DEF Command, WriteDraft, RenameDraft, inGateway, limiting
<1>3. CASE Reload \/ Reloaded \/ GatewayUp
  BY <1>3, <1>u DEF Reload, Reloaded, GatewayUp, limiting
<1>4. CASE RestartGateway
  <2>1. /\ limiter.kind = "login" /\ wrong' = 0 /\ visit' = [v \in Visits |-> Away]
        /\ limiter' = [limiter EXCEPT !.fails = 0, !.locked = FALSE]
    BY <1>4 DEF RestartGateway, Password
  <2>2. limiter' = [kind |-> "login", fails |-> 0, locked |-> FALSE]
    BY <2>1 DEF LimitInv, LimitShape
  <2>3. 0 < MaxFails
    BY NumbersHold DEF Numbers
  <2> QED BY <2>1, <2>2, <2>3, FreeAgain
<1>5. CASE \E v \in Visits : Visit(v)
  <2>1. /\ limiter.kind = "login" /\ ~limiter.locked /\ UNCHANGED <<limiter, wrong>>
        /\ visit' = [v \in Visits |-> visit'[v]]
    BY <1>5 DEF Visit, Password, Refused, limiting, LimitInv, LimitShape
  <2> QED BY <2>1 DEF LimitInv, LimitShape, LimitKept
<1>6. CASE \E v \in Visits : Lookup(v)
  <2>1. PICK x \in Visits : Lookup(x)
    BY <1>6
  <2>2. PICK h : visit' = [visit EXCEPT ![x].at = "scrypt", ![x].hash = h]
    BY <2>1 DEF Lookup
  <2>3. UNCHANGED <<limiter, wrong>> /\ visit[x].at = "body"
    BY <2>1 DEF Lookup, limiting
  <2>4. visit' = [v \in Visits |-> visit'[v]] /\ \A v \in Visits : v # x => visit'[v] = visit[v]
    BY <2>2 DEF LimitInv, LimitShape
  <2>5. x \in UnderWay
    BY <2>3 DEF UnderWay
  <2>6. limiter.kind = "login"
    BY <2>5 DEF LimitInv, LimitShape
  <2>7. \A v \in Visits : v # x => visit'[v].at = visit[v].at
    BY <2>4
  <2>8. UnderWay' \subseteq UnderWay
    BY <2>5, <2>7 DEF UnderWay
  <2>9. Cardinality(UnderWay') <= Cardinality(UnderWay) /\ Cardinality(UnderWay') \in Nat
    BY <2>8, CountUnderWay, FS_Subset, FS_CardinalityType
  <2>10. LimitShape'
    BY <2>3, <2>4, <2>6 DEF LimitInv, LimitShape
  <2>11. /\ wrong \in Nat /\ Cardinality(UnderWay) \in Nat /\ MaxFails \in Nat /\ Cardinality(Visits) \in Nat
    BY CountUnderWay, NumbersHold DEF LimitInv, LimitShape, Numbers
  <2>12. LimitKept'
    BY <2>3, <2>6, <2>9, <2>11 DEF LimitInv, LimitKept
  <2> QED BY <2>10, <2>12 DEF LimitInv
<1>7. CASE \E v \in Visits : Answer(v)
  BY <1>7, LimitAnswer
<1>8. CASE Unlock
  <2>1. limiter.locked /\ limiter' = [limiter EXCEPT !.locked = FALSE] /\ wrong' = 0 /\ UNCHANGED visit
    BY <1>8 DEF Unlock, inGateway
  <2>2. limiter' = [kind |-> limiter.kind, fails |-> limiter.fails, locked |-> FALSE]
    BY <2>1 DEF LimitInv, LimitShape
  <2>3. limiter.fails \in Nat /\ (limiter.fails < MaxFails \/ (limiter.kind = "join" /\ limiter.fails <= MaxFails))
    BY <2>1, NumbersHold DEF LimitInv, LimitShape, LimitKept, Numbers
  <2> QED BY <2>1, <2>2, <2>3, FreeAgain
<1>9. CASE EnterCode
  <2>1. limiter.kind # "login" /\ ~limiter.locked /\ UNCHANGED visit /\ (Clear \/ Fail)
    BY <1>9 DEF EnterCode, Password, Refused, inGateway
  <2>2. CASE Clear
    <3>1. wrong' = 0
      BY <2>2 DEF Clear
    <3>2. limiter' = [kind |-> limiter.kind, fails |-> 0, locked |-> FALSE]
      BY <2>1, <2>2 DEF Clear, LimitInv, LimitShape
    <3>3. 0 < MaxFails
      BY NumbersHold DEF Numbers
    <3> QED BY <2>1, <3>1, <3>2, <3>3, FreeAgain
  <2>3. CASE Fail
    <3>1. wrong' = wrong + 1
      BY <2>3 DEF Fail
    <3>2. PICK n \in Nat, b \in BOOLEAN :
             /\ limiter' = [kind |-> limiter.kind, fails |-> n, locked |-> b]
             /\ IF limiter.fails + 1 >= MaxFails
                THEN b /\ n = (IF limiter.kind = "join" THEN MaxFails ELSE 0)
                ELSE ~b /\ n = limiter.fails + 1
      <4>0. MaxFails \in Nat /\ limiter.fails \in Nat
        BY NumbersHold DEF LimitInv, LimitShape, Numbers
      <4>1. CASE limiter.fails + 1 >= MaxFails
        <5>1. PICK n \in Nat : n = (IF limiter.kind = "join" THEN MaxFails ELSE 0)
          BY <4>0
        <5>2. limiter' = [kind |-> limiter.kind, fails |-> n, locked |-> TRUE]
          BY <2>3, <4>1, <5>1 DEF Fail, LimitInv, LimitShape
        <5> QED BY <4>1, <5>1, <5>2
      <4>2. CASE ~(limiter.fails + 1 >= MaxFails)
        <5>1. PICK n \in Nat : n = limiter.fails + 1
          BY <4>0
        <5>2. limiter' = [limiter EXCEPT !.fails = n]
          BY <2>3, <4>2, <5>1 DEF Fail
        <5>3. PICK k, f : limiter = [kind |-> k, fails |-> f, locked |-> FALSE]
          BY <2>1 DEF LimitInv, LimitShape
        <5>4. limiter' = [kind |-> k, fails |-> n, locked |-> FALSE] /\ limiter.kind = k
          BY <5>2, <5>3
        <5> QED BY <4>2, <5>1, <5>4
      <4> QED BY <4>1, <4>2
    <3>3. n \in Nat
      BY <3>2, NumbersHold DEF LimitInv, LimitShape, Numbers
    <3>4. LimitShape'
      BY <2>1, <3>1, <3>2, <3>3 DEF LimitInv, LimitShape, UnderWay
    <3>5. LimitKept'
      <4>1. CASE limiter.kind = "gate"
        BY <2>1, <3>1, <3>2, <3>3, <4>1, NumbersHold DEF LimitInv, LimitShape, LimitKept, Numbers
      <4>2. CASE limiter.kind = "join"
        BY <2>1, <3>1, <3>2, <3>3, <4>2, NumbersHold DEF LimitInv, LimitShape, LimitKept, Numbers
      <4> QED BY <2>1, <4>1, <4>2 DEF LimitInv, LimitShape
    <3> QED BY <3>4, <3>5 DEF LimitInv
  <2> QED BY <2>1, <2>2, <2>3
<1>10. CASE SetGate
  <2>1. /\ limiter.kind = "join" /\ wrong' = 0 /\ UNCHANGED visit
        /\ limiter' = [limiter EXCEPT !.fails = 0, !.locked = FALSE]
    BY <1>10 DEF SetGate, inGateway
  <2>2. limiter' = [kind |-> limiter.kind, fails |-> 0, locked |-> FALSE]
    BY <2>1 DEF LimitInv, LimitShape
  <2>3. 0 < MaxFails
    BY NumbersHold DEF Numbers
  <2> QED BY <2>1, <2>2, <2>3, FreeAgain
<1> QED BY <1>1, <1>2, <1>3, <1>4, <1>5, <1>6, <1>7, <1>8, <1>9, <1>10 DEF DoorsNext

LEMMA GuessesAreLimited == LimitInv => GuessesLimited
<1> SUFFICES ASSUME LimitInv PROVE GuessesLimited
  OBVIOUS
<1>1. /\ wrong \in Nat /\ Cardinality(UnderWay) \in Nat /\ MaxFails \in Nat /\ Cardinality(Visits) \in Nat
      /\ limiter.fails \in Nat
  BY CountUnderWay, NumbersHold DEF LimitInv, LimitShape, Numbers
<1>2. CASE limiter.kind = "login" /\ limiter.locked
  BY <1>1, <1>2 DEF LimitInv, LimitKept, GuessesLimited, Password
<1>3. CASE limiter.kind = "login" /\ ~limiter.locked
  <2>1. wrong < MaxFails
    BY <1>1, <1>3 DEF LimitInv, LimitKept
  <2>2. wrong <= MaxFails + (Cardinality(Visits) - 1)
    BY <1>1, <2>1
  <2> QED BY <1>3, <2>2 DEF GuessesLimited, Password
<1>4. CASE limiter.kind = "gate"
  BY <1>1, <1>4 DEF LimitInv, LimitKept, GuessesLimited, Password
<1>5. CASE limiter.kind = "join"
  BY <1>1, <1>5 DEF LimitInv, LimitKept, GuessesLimited, Password
<1> QED BY <1>2, <1>3, <1>4, <1>5 DEF LimitInv, LimitShape

\* An old password opens nothing once the gateway has caught up with the file,
\* and no address gets more wrong answers than the limit and the logins that were
\* under way with it (server.ts, auth.ts, gate.ts and join.ts of the gateway), for
\* any number of users, passwords, logins and commands.
THEOREM DoorsStayShut == DoorsSpec => []DoorsHold
<1>1. DoorsInv => OldPasswordOut
  BY DEF DoorsInv, Kept, CookieKept, OldPasswordOut
<1> QED BY <1>1, DoorsStart, DoorsStep, LimitStart, LimitStep, GuessesAreLimited, PTL
        DEF DoorsSpec, DoorsHold
-----------------------------------------------------------------------------
(* PanelScan: what a poll found, and which code the plugin was told to ask    *)
(* for, however many codes and polls there are.                               *)

BindSessions ==
    [st : {"none", "pending", "approved", "consumed"}, old : BOOLEAN, hosts : Nat]
PollRecords ==
    [at : {"idle", "asks", "consumes", "granted", "refused", "made", "expired", "connecting"},
     s : Sessions \cup {NoSession}, effect : Nat]

ScanShape ==
    /\ session \in [Sessions -> BindSessions]
    /\ bind \in Sessions \cup {NoSession} /\ onScreen \in Sessions \cup {NoSession}
    /\ hostToken \in Sessions \cup {NoSession}
    /\ begun \in [Sessions -> {"no", "asked", "made", "over"}]
    /\ poll \in [Polls -> PollRecords] /\ effect \in Nat
    /\ \A p \in Polls : poll[p].at # "idle" => poll[p].s \in Sessions
    /\ view # "idle" => onScreen \in Sessions

\* Nobody asks for a session before it is made.
NotMadeYet ==
    \A s \in Sessions : begun[s] \in {"no", "asked"} =>
        /\ session[s].st = "none" /\ bind # s
        /\ \A p \in Polls : poll[p].s # s

\* Where no two polls exchange a session at once, it is consumed when its host
\* is made, and the one poll that may make it finds it approved.
HostForEach ==
    ~overlapped =>
        /\ \A s \in Sessions : session[s].hosts = IF session[s].st = "consumed" THEN 1 ELSE 0
        /\ \A p \in Polls : poll[p].at = "granted" => session[poll[p].s].st = "approved"
        /\ \A p, q \in Polls :
             poll[p].at = "granted" /\ poll[q].at = "granted" /\ poll[p].s = poll[q].s => p = q

ScanTold ==
    /\ \A p \in Polls : poll[p].at = "consumes" => session[poll[p].s].st \in {"approved", "consumed"}
    /\ \A p \in Polls : poll[p].at \in {"refused", "expired"} => session[poll[p].s].old \/ overlapped
    /\ view = "expired" => session[onScreen].old \/ overlapped \/ crossed

\* A host that was made is on its way to the machine, or came there.
HostsTaken ==
    (\E s \in Sessions : session[s].hosts > 0) =>
        hostToken # NoSession \/ answerLost \/ \E p \in Polls : poll[p].at = "made"

\* The plugin asks for the code, or need not, or the code has an excuse.
AskedFor(s) ==
    bind = s \/ crossed \/ strayed \/ overlapped \/ hostToken # NoSession \/ session[s].old

ScanFollowed ==
    /\ \A s \in Sessions : begun[s] = "made" => AskedFor(s)
    /\ view = "showing" => AskedFor(onScreen) \/ \E s \in Sessions : begun[s] = "made"
    /\ \A s, u \in Sessions :
         begun[s] \in {"asked", "made"} /\ begun[u] \in {"asked", "made"} => s = u \/ strayed

ScanInv == ScanShape /\ NotMadeYet /\ HostForEach /\ ScanTold /\ HostsTaken /\ ScanFollowed

LEMMA ScanStart == ScanInit => ScanInv
<1> SUFFICES ASSUME ScanInit PROVE ScanInv
  OBVIOUS
<1> USE ScanAssumption DEF ScanInit
<1>1. ScanShape
  BY DEF ScanShape, BindSessions, PollRecords, NoPoll, NoSession
<1>2. NotMadeYet
  BY DEF NotMadeYet, NoPoll, NoSession
<1>3. HostForEach /\ ScanTold
  BY DEF HostForEach, ScanTold, NoPoll
<1>4. HostsTaken /\ ScanFollowed
  BY DEF HostsTaken, ScanFollowed
<1> QED BY <1>1, <1>2, <1>3, <1>4 DEF ScanInv

LEMMA ScanIdle == ScanInv /\ UNCHANGED scanVars => ScanInv'
BY DEF scanVars, ScanInv, ScanShape, NotMadeYet, HostForEach, ScanTold, HostsTaken, ScanFollowed, AskedFor

\* A step that touches nothing but the panel and its call.
LEMMA CodeSteps ==
    ASSUME ScanInv, NEW s \in Sessions, PressScan(s) \/ BeginFails(s) \/ PanelShows(s)
    PROVE  ScanInv'
<1> DEFINE Ends == {"no", "asked", "made", "over"}
<1>1. UNCHANGED <<session, bind, hostToken, poll, answerLost, overlapped, crossed>>
  BY DEF PressScan, BeginFails, PanelShows
<1>2. PICK b \in {"asked", "over"} : begun' = [begun EXCEPT ![s] = b]
  BY DEF PressScan, BeginFails, PanelShows
<1>3. \A u \in Sessions : begun'[u] = IF u = s THEN b ELSE begun[u]
  BY <1>2 DEF ScanInv, ScanShape
<1>4. b = "asked" => begun[s] = "no"
  BY <1>2, <1>3 DEF PressScan, BeginFails, PanelShows, ScanInv, ScanShape
<1>5. strayed => strayed'
  BY DEF PressScan, BeginFails, PanelShows
<1>6. ScanShape'
  <2>1. begun' \in [Sessions -> {"no", "asked", "made", "over"}]
    BY <1>2 DEF ScanInv, ScanShape
  <2>2. /\ onScreen' \in Sessions \cup {NoSession} /\ effect' \in Nat
        /\ view' # "idle" => onScreen' \in Sessions
    BY DEF PressScan, BeginFails, PanelShows, ScanInv, ScanShape
  <2> QED BY <1>1, <2>1, <2>2 DEF ScanInv, ScanShape
<1>7. NotMadeYet'
  BY <1>1, <1>3, <1>4 DEF ScanInv, NotMadeYet
<1>8. HostForEach' /\ HostsTaken'
  BY <1>1 DEF ScanInv, HostForEach, HostsTaken
<1>9. ScanTold'
  <2>1. view' = "expired" => view = "expired" /\ onScreen' = onScreen
    BY DEF PressScan, BeginFails, PanelShows
  <2> QED BY <1>1, <2>1 DEF ScanInv, ScanTold
<1>10. ScanFollowed'
  <2>1. \A u : AskedFor(u) => AskedFor(u)'
    BY <1>1, <1>5 DEF AskedFor
  <2>2. \A u \in Sessions : begun'[u] = "made" => begun[u] = "made"
    BY <1>3
  <2>3. CASE PressScan(s)
    <3>1. /\ UNCHANGED <<view, onScreen>>
          /\ strayed' = (strayed \/ \E u \in Sessions : begun[u] \in {"asked", "made"})
      BY <2>3 DEF PressScan
    <3>2. \A u \in Sessions : begun[u] = "made" => begun'[u] = "made"
      BY <2>3, <1>3 DEF PressScan
    <3>3. view' = "showing" => AskedFor(onScreen)' \/ \E u \in Sessions : begun'[u] = "made"
      BY <3>1, <3>2, <1>1, <1>5 DEF ScanInv, ScanFollowed, AskedFor
    <3>4. \A u, v \in Sessions :
            begun'[u] \in {"asked", "made"} /\ begun'[v] \in {"asked", "made"} => u = v \/ strayed'
      BY <3>1, <1>3 DEF ScanInv, ScanFollowed
    <3> QED BY <2>1, <2>2, <3>3, <3>4 DEF ScanInv, ScanFollowed
  <2>4. CASE BeginFails(s) \/ PanelShows(s)
    <3>1. b = "over"
      BY <2>4, <1>3 DEF BeginFails, PanelShows, ScanInv, ScanShape
    <3>2. \A u, v \in Sessions :
            begun'[u] \in {"asked", "made"} /\ begun'[v] \in {"asked", "made"} => u = v \/ strayed'
      BY <3>1, <1>3, <1>5 DEF ScanInv, ScanFollowed
    <3>3. view' = "showing" => AskedFor(onScreen)' \/ \E u \in Sessions : begun'[u] = "made"
      <4>1. CASE BeginFails(s)
        <5>1. UNCHANGED <<view, onScreen>> /\ (begun[s] = "made" => strayed')
          BY <4>1 DEF BeginFails
        <5>2. \A u \in Sessions : begun[u] = "made" => begun'[u] = "made" \/ strayed'
          BY <5>1, <1>3
        <5> QED BY <5>1, <5>2, <1>1, <1>5 DEF ScanInv, ScanFollowed, AskedFor
      <4>2. CASE PanelShows(s)
        <5>1. onScreen' = s /\ begun[s] = "made"
          BY <4>2 DEF PanelShows
        <5> QED BY <5>1, <1>1, <1>5 DEF ScanInv, ScanFollowed, AskedFor
      <4> QED BY <2>4, <4>1, <4>2
    <3> QED BY <2>1, <2>2, <3>2, <3>3 DEF ScanInv, ScanFollowed
  <2> QED BY <2>3, <2>4
<1> QED BY <1>6, <1>7, <1>8, <1>9, <1>10 DEF ScanInv

\* What a step does to the record of one session.
LEMMA OneSession ==
    ASSUME ScanShape, NEW s \in Sessions, NEW t \in BindSessions,
           session' = [session EXCEPT ![s] = t]
    PROVE  /\ session' \in [Sessions -> BindSessions]
           /\ \A u \in Sessions : session'[u] = IF u = s THEN t ELSE session[u]
BY DEF ScanShape

\* The plugin has made a session: the code before it is not the one it asks
\* for, but that one is still to be shown.
LEMMA BeginStep ==
    ASSUME ScanInv, NEW s \in Sessions, BeginScan(s)
    PROVE  ScanInv'
<1>0. ScanShape /\ NotMadeYet /\ HostForEach /\ ScanTold /\ HostsTaken /\ ScanFollowed
  BY DEF ScanInv
<1>1. /\ begun[s] = "asked" /\ bind' = s
      /\ begun' = [begun EXCEPT ![s] = "made"]
      /\ session' = [session EXCEPT ![s].st = "pending"]
  BY DEF BeginScan
<1>2. UNCHANGED <<hostToken, poll, view, onScreen, effect, answerLost, overlapped, crossed, strayed>>
  BY DEF BeginScan
<1> PICK t : t = [session[s] EXCEPT !.st = "pending"]
  OBVIOUS
<1>t. t \in BindSessions /\ t.st = "pending" /\ t.old = session[s].old /\ t.hosts = session[s].hosts
  BY <1>0 DEF ScanShape, BindSessions
<1>3. /\ session' \in [Sessions -> BindSessions]
      /\ \A u \in Sessions : session'[u] = IF u = s THEN t ELSE session[u]
  BY <1>0, <1>1, <1>t, OneSession
<1>4. \A u \in Sessions : begun'[u] = IF u = s THEN "made" ELSE begun[u]
  BY <1>0, <1>1 DEF ScanShape
<1>5. \A u \in Sessions : session'[u].old = session[u].old /\ session'[u].hosts = session[u].hosts
  BY <1>3, <1>t
<1>6. session[s].st = "none" /\ \A p \in Polls : poll[p].s # s
  BY <1>0, <1>1 DEF NotMadeYet
<1>7. ScanShape'
  <2>1. begun' \in [Sessions -> {"no", "asked", "made", "over"}]
    BY <1>0, <1>1 DEF ScanShape
  <2> QED BY <1>0, <1>1, <1>2, <1>3, <2>1 DEF ScanShape
<1>8. NotMadeYet'
  BY <1>0, <1>1, <1>2, <1>3, <1>4 DEF NotMadeYet
<1>9. \A p \in Polls : poll[p].at # "idle" => poll[p].s \in Sessions /\ session'[poll[p].s] = session[poll[p].s]
  BY <1>0, <1>3, <1>6 DEF ScanShape
<1>10. HostForEach'
  <2>1. ASSUME ~overlapped, NEW u \in Sessions
        PROVE  session'[u].hosts = IF session'[u].st = "consumed" THEN 1 ELSE 0
    BY <1>0, <2>1, <1>3, <1>5, <1>6, <1>t DEF HostForEach
  <2> QED BY <1>0, <1>2, <1>9, <2>1 DEF HostForEach
<1>11. ScanTold'
  <2>1. view = "expired" => onScreen \in Sessions
    BY <1>0 DEF ScanShape
  <2> QED BY <1>0, <1>2, <1>5, <1>9, <2>1 DEF ScanTold
<1>12. HostsTaken'
  BY <1>0, <1>2, <1>5 DEF HostsTaken
<1>13. ScanFollowed'
  <2>1. AskedFor(s)'
    BY <1>1 DEF AskedFor
  <2>2. \A u \in Sessions \ {s} : begun'[u] = "made" => strayed
    BY <1>0, <1>1, <1>4 DEF ScanFollowed
  <2>3. \A u \in Sessions : begun'[u] = "made" => AskedFor(u)'
    BY <2>1, <2>2, <1>2 DEF AskedFor
  <2> QED BY <1>0, <1>1, <1>2, <1>4, <2>3 DEF ScanFollowed
<1> QED BY <1>7, <1>8, <1>10, <1>11, <1>12, <1>13 DEF ScanInv

\* A session is approved, or its time passes.
LEMMA SessionSteps ==
    ASSUME ScanInv, NEW s \in Sessions, Approves(s) \/ GrowsOld(s)
    PROVE  ScanInv'
<1>0. ScanShape /\ NotMadeYet /\ HostForEach /\ ScanTold /\ HostsTaken /\ ScanFollowed
  BY DEF ScanInv
<1>1. UNCHANGED <<bind, hostToken, begun, poll, view, onScreen, effect, answerLost, overlapped, crossed, strayed>>
  BY DEF Approves, GrowsOld
<1>2. PICK t : /\ session' = [session EXCEPT ![s] = t]
               /\ t \in BindSessions /\ t.hosts = session[s].hosts
               /\ session[s].old => t.old
               /\ t.st = session[s].st \/ (session[s].st = "pending" /\ t.st = "approved")
               /\ session[s].st # "none"
  <2>1. CASE Approves(s)
    <3>1. PICK t : t = [session[s] EXCEPT !.st = "approved"]
      OBVIOUS
    <3>2. t \in BindSessions /\ t.hosts = session[s].hosts /\ t.old = session[s].old /\ t.st = "approved"
      BY <1>0, <3>1 DEF ScanShape, BindSessions
    <3>3. session' = [session EXCEPT ![s] = t] /\ session[s].st = "pending"
      BY <2>1, <3>1 DEF Approves
    <3> QED BY <3>2, <3>3
  <2>2. CASE GrowsOld(s)
    <3>1. PICK t : t = [session[s] EXCEPT !.old = TRUE]
      OBVIOUS
    <3>2. t \in BindSessions /\ t.hosts = session[s].hosts /\ t.old /\ t.st = session[s].st
      BY <1>0, <3>1 DEF ScanShape, BindSessions
    <3>3. session' = [session EXCEPT ![s] = t] /\ session[s].st # "none"
      BY <2>2, <3>1 DEF GrowsOld
    <3> QED BY <3>2, <3>3
  <2> QED BY <2>1, <2>2
<1>3. /\ session' \in [Sessions -> BindSessions]
      /\ \A u \in Sessions : session'[u] = IF u = s THEN t ELSE session[u]
  BY <1>0, <1>2, OneSession
<1>4. \A u \in Sessions : /\ session'[u].hosts = session[u].hosts
                          /\ session[u].old => session'[u].old
                          /\ session[u].st = "none" => session'[u].st = "none"
                          /\ session[u].st = "approved" => session'[u].st = "approved"
                          /\ session[u].st = "consumed" <=> session'[u].st = "consumed"
  BY <1>2, <1>3
<1>5. ScanShape'
  BY <1>0, <1>1, <1>3 DEF ScanShape
<1>6. \A p \in Polls : poll[p].at # "idle" => poll[p].s \in Sessions
  BY <1>0 DEF ScanShape
<1>7. NotMadeYet'
  BY <1>0, <1>1, <1>4 DEF NotMadeYet
<1>8. HostForEach'
  BY <1>0, <1>1, <1>4, <1>6 DEF HostForEach
<1>9. ScanTold'
  <2>1. view = "expired" => onScreen \in Sessions
    BY <1>0 DEF ScanShape
  <2> QED BY <1>0, <1>1, <1>4, <1>6, <2>1 DEF ScanTold
<1>10. HostsTaken'
  BY <1>0, <1>1, <1>4 DEF HostsTaken
<1>11. ScanFollowed'
  <2>1. \A u \in Sessions : AskedFor(u) => AskedFor(u)'
    BY <1>1, <1>4 DEF AskedFor
  <2>2. view = "showing" => onScreen \in Sessions
    BY <1>0 DEF ScanShape
  <2> QED BY <1>0, <1>1, <2>1, <2>2 DEF ScanFollowed
<1> QED BY <1>5, <1>7, <1>8, <1>9, <1>10, <1>11 DEF ScanInv

LEMMA ScreenSteps ==
    ASSUME ScanInv, LeaveScan \/ CountdownEnds
    PROVE  ScanInv'
<1>0. ScanShape /\ NotMadeYet /\ HostForEach /\ ScanTold /\ HostsTaken /\ ScanFollowed
  BY DEF ScanInv
<1>1. UNCHANGED <<session, bind, hostToken, begun, poll, effect, answerLost, overlapped, crossed, strayed>>
  BY DEF LeaveScan, CountdownEnds
<1>2. /\ onScreen' \in Sessions \cup {NoSession} /\ view' # "showing"
      /\ view' # "idle" => onScreen' \in Sessions /\ session[onScreen'].old
  BY <1>0 DEF LeaveScan, CountdownEnds, ScanShape
<1>3. ScanShape' /\ NotMadeYet' /\ HostForEach' /\ HostsTaken'
  BY <1>0, <1>1, <1>2 DEF ScanShape, NotMadeYet, HostForEach, HostsTaken
<1>4. ScanTold' /\ ScanFollowed'
  BY <1>0, <1>1, <1>2 DEF ScanTold, ScanFollowed, AskedFor
<1> QED BY <1>3, <1>4 DEF ScanInv

\* What a poll that goes on, or ends, has to do for the invariant: whatever it
\* found must be so, and the plugin may forget the session it asked about only
\* if that session is of no more use.
LEMMA PollGoesOn ==
    ASSUME ScanInv, NEW p \in Polls, NEW e \in PollRecords,
           poll' = [poll EXCEPT ![p] = e], poll[p].at # "idle",
           UNCHANGED <<session, begun, effect, strayed>>,
           \/ UNCHANGED <<view, onScreen>>
           \/ view' = "idle" /\ onScreen' = NoSession
           \/ /\ view # "idle" /\ view' = "expired" /\ onScreen' = onScreen
              /\ session[onScreen].old \/ overlapped' \/ crossed',
           overlapped => overlapped', crossed => crossed', answerLost => answerLost',
           hostToken' = hostToken \/ hostToken' \in Sessions,
           e.s = IF e.at = "idle" THEN NoSession ELSE poll[p].s,
           e.at = "consumes" => session[poll[p].s].st \in {"approved", "consumed"},
           e.at \in {"refused", "expired"} => session[poll[p].s].old \/ overlapped',
           e.at = "granted" =>
               /\ session[poll[p].s].st = "approved"
               /\ \A q \in Polls \ {p} : poll[q].s = poll[p].s /\ poll[q].at = "granted" => overlapped',
           poll[p].at = "made" => e.at = "made" \/ hostToken' # NoSession \/ answerLost',
           \/ bind' = bind
           \/ /\ bind' = NoSession
              /\ \/ crossed'
                 \/ /\ bind \in {poll[p].s, NoSession}
                    /\ overlapped' \/ hostToken' # NoSession \/ session[poll[p].s].old
    PROVE  ScanInv'
<1>0. ScanShape /\ NotMadeYet /\ HostForEach /\ ScanTold /\ HostsTaken /\ ScanFollowed
  BY DEF ScanInv
<1>1. NoSession \notin Sessions
  BY ScanAssumption DEF NoSession
<1>2. \A q \in Polls : poll'[q] = IF q = p THEN e ELSE poll[q]
  BY <1>0 DEF ScanShape
<1>3. hostToken # NoSession => hostToken' # NoSession
  BY <1>1
<1>4. ScanShape'
  <2>1. poll' \in [Polls -> PollRecords]
    BY <1>0 DEF ScanShape
  <2>2. \A q \in Polls : poll'[q].at # "idle" => poll'[q].s \in Sessions
    BY <1>0, <1>2 DEF ScanShape
  <2>3. hostToken' \in Sessions \cup {NoSession} /\ bind' \in Sessions \cup {NoSession}
    BY <1>0 DEF ScanShape
  <2>4. onScreen' \in Sessions \cup {NoSession} /\ (view' # "idle" => onScreen' \in Sessions)
    BY <1>0 DEF ScanShape
  <2> QED BY <1>0, <2>1, <2>2, <2>3, <2>4 DEF ScanShape
<1>5. NotMadeYet'
  <2>1. \A u \in Sessions, q \in Polls : poll'[q].s = u => poll[q].s = u
    BY <1>1, <1>2
  <2>2. \A u \in Sessions : bind' = u => bind = u
    BY <1>1
  <2> QED BY <1>0, <2>1, <2>2 DEF NotMadeYet
<1>6. HostForEach'
  <2> SUFFICES ASSUME ~overlapped' PROVE HostForEach'
    BY DEF HostForEach
  <2>1. ~overlapped
    OBVIOUS
  <2>2. \A q \in Polls : poll'[q].at = "granted" => session[poll'[q].s].st = "approved"
    BY <1>0, <1>2, <2>1 DEF HostForEach
  <2>3. \A q, r \in Polls :
          poll'[q].at = "granted" /\ poll'[r].at = "granted" /\ poll'[q].s = poll'[r].s => q = r
    <3> SUFFICES ASSUME NEW q \in Polls, NEW r \in Polls, q # r,
                        poll'[q].at = "granted", poll'[r].at = "granted", poll'[q].s = poll'[r].s
                 PROVE  FALSE
      OBVIOUS
    <3>1. CASE q # p /\ r # p
      BY <3>1, <1>0, <1>2, <2>1 DEF HostForEach
    <3>2. CASE q = p
      BY <3>2, <1>2
    <3>3. CASE r = p
      BY <3>3, <1>2
    <3> QED BY <3>1, <3>2, <3>3
  <2> QED BY <1>0, <2>1, <2>2, <2>3 DEF HostForEach
<1>7. ScanTold'
  <2>1. view' = "expired" => session[onScreen'].old \/ overlapped' \/ crossed'
    BY <1>0 DEF ScanTold
  <2> QED BY <1>0, <1>2, <2>1 DEF ScanTold
<1>8. HostsTaken'
  <2> SUFFICES ASSUME \E u \in Sessions : session[u].hosts > 0
               PROVE  hostToken' # NoSession \/ answerLost' \/ \E q \in Polls : poll'[q].at = "made"
    BY DEF HostsTaken
  <2>1. CASE hostToken # NoSession \/ answerLost
    BY <2>1, <1>3
  <2>2. CASE \E q \in Polls : poll[q].at = "made"
    BY <2>2, <1>2
  <2> QED BY <1>0, <2>1, <2>2 DEF HostsTaken
<1>9. ScanFollowed'
  <2>1. \A u \in Sessions : AskedFor(u) => AskedFor(u)'
    BY <1>1, <1>3 DEF AskedFor
  <2>2. view = "showing" => onScreen \in Sessions
    BY <1>0 DEF ScanShape
  <2>3. view' = "showing" => view = "showing" /\ onScreen' = onScreen
    OBVIOUS
  <2> QED BY <1>0, <2>1, <2>2, <2>3 DEF ScanFollowed
<1> QED BY <1>4, <1>5, <1>6, <1>7, <1>8, <1>9 DEF ScanInv

\* Every poll record that a step makes of another is one.
LEMMA PollTurns ==
    ASSUME ScanShape, NEW p \in Polls,
           NEW a \in {"consumes", "granted", "refused", "made", "expired", "connecting"},
           poll' = [poll EXCEPT ![p].at = a]
    PROVE  \E e \in PollRecords : poll' = [poll EXCEPT ![p] = e] /\ e.at = a /\ e.s = poll[p].s
<1> PICK e : e = [poll[p] EXCEPT !.at = a]
  OBVIOUS
<1>1. e \in PollRecords /\ e.at = a /\ e.s = poll[p].s
  BY DEF ScanShape, PollRecords
<1>2. poll' = [poll EXCEPT ![p] = e]
  OBVIOUS
<1> QED BY <1>1, <1>2

LEMMA PollEnds ==
    ASSUME NEW p, Over(p)
    PROVE  \E e \in PollRecords : poll' = [poll EXCEPT ![p] = e] /\ e.at = "idle" /\ e.s = NoSession
<1>1. NoPoll \in PollRecords /\ NoPoll.at = "idle" /\ NoPoll.s = NoSession
  BY DEF NoPoll, PollRecords
<1> QED BY <1>1 DEF Over

\* The steps of a poll between the plugin and the hub that make no host.
LEMMA PollSteps ==
    ASSUME ScanInv, NEW p \in Polls,
           \/ LearnsState(p) \/ ConsumeReads(p) \/ Bound(p) \/ ConsumeRefused(p)
           \/ HubFails(p) \/ PanelMisses(p)
    PROVE  ScanInv'
<1>0. ScanShape /\ NotMadeYet /\ HostForEach /\ ScanTold /\ HostsTaken /\ ScanFollowed
  BY DEF ScanInv
<1>1. UNCHANGED <<session, begun, view, onScreen, effect, strayed>>
  BY DEF LearnsState, ConsumeReads, Bound, ConsumeRefused, HubFails, PanelMisses
<1>2. poll[p].at # "idle" /\ poll[p].s \in Sessions
  BY <1>0 DEF LearnsState, ConsumeReads, Bound, ConsumeRefused, HubFails, PanelMisses, ScanShape
<1>3. ForgetBind(p) => bind' = NoSession /\ (crossed' \/ bind \in {poll[p].s, NoSession})
  BY DEF ForgetBind
<1>4. ForgetBind(p) => (crossed => crossed')
  BY DEF ForgetBind
<1>5. CASE LearnsState(p)
  <2>1. poll[p].at = "asks" /\ UNCHANGED <<hostToken, answerLost, overlapped>>
    BY <1>5 DEF LearnsState
  <2>2. CASE session[poll[p].s].st = "approved" /\ PollTo(p, "consumes") /\ UNCHANGED <<bind, crossed>>
    <3>1. PICK e \in PollRecords : poll' = [poll EXCEPT ![p] = e] /\ e.at = "consumes" /\ e.s = poll[p].s
      BY <2>2, <1>0, PollTurns DEF PollTo
    <3> QED BY <3>1, <2>1, <2>2, <1>1, <1>2, PollGoesOn
  <2>3. CASE session[poll[p].s].old /\ PollTo(p, "expired") /\ ForgetBind(p)
    <3>1. PICK e \in PollRecords : poll' = [poll EXCEPT ![p] = e] /\ e.at = "expired" /\ e.s = poll[p].s
      BY <2>3, <1>0, PollTurns DEF PollTo
    <3> QED BY <3>1, <2>1, <2>3, <1>1, <1>2, <1>3, <1>4, PollGoesOn
  <2>4. CASE Over(p) /\ UNCHANGED <<bind, crossed>>
    <3>1. PICK e \in PollRecords : poll' = [poll EXCEPT ![p] = e] /\ e.at = "idle" /\ e.s = NoSession
      BY <2>4, PollEnds
    <3> QED BY <3>1, <2>1, <2>4, <1>1, <1>2, PollGoesOn
  <2> QED BY <1>5, <2>2, <2>3, <2>4 DEF LearnsState
<1>6. CASE ConsumeReads(p)
  <2> DEFINE granted == session[poll[p].s].st = "approved" /\ ~session[poll[p].s].old
  <2>1. /\ poll[p].at = "consumes" /\ UNCHANGED <<bind, hostToken, answerLost, crossed>>
        /\ PollTo(p, IF granted THEN "granted" ELSE "refused")
        /\ overlapped' = (overlapped \/ session[poll[p].s].st = "consumed"
                           \/ \E q \in Polls \ {p} : poll[q].s = poll[p].s /\ poll[q].at # "asks")
    BY <1>6 DEF ConsumeReads
  <2>2. overlapped => overlapped'
    BY <2>1
  <2>3. session[poll[p].s].st \in {"approved", "consumed"}
    BY <1>0, <2>1 DEF ScanTold
  <2>4. CASE granted
    <3>1. PICK e \in PollRecords : poll' = [poll EXCEPT ![p] = e] /\ e.at = "granted" /\ e.s = poll[p].s
      BY <2>1, <2>4, <1>0, PollTurns DEF PollTo
    <3>2. \A q \in Polls \ {p} : poll[q].s = poll[p].s /\ poll[q].at = "granted" => overlapped'
      BY <2>1
    <3> HIDE DEF granted
    <3>3. session[poll[p].s].st = "approved"
      BY <2>4 DEF granted
    <3> QED BY <3>1, <3>2, <3>3, <2>1, <2>2, <1>1, <1>2, PollGoesOn
  <2>5. CASE ~granted
    <3>1. PICK e \in PollRecords : poll' = [poll EXCEPT ![p] = e] /\ e.at = "refused" /\ e.s = poll[p].s
      BY <2>1, <2>5, <1>0, PollTurns DEF PollTo
    <3>2. session[poll[p].s].old \/ overlapped'
      BY <2>1, <2>3, <2>5
    <3> HIDE DEF granted
    <3> QED BY <3>1, <3>2, <2>1, <2>2, <1>1, <1>2, PollGoesOn
  <2> QED BY <2>4, <2>5
<1>7. CASE Bound(p)
  <2>1. /\ PollTo(p, "connecting") /\ ForgetBind(p) /\ hostToken' \in Sessions
        /\ UNCHANGED <<answerLost, overlapped>>
    BY <1>7, <1>2 DEF Bound
  <2>2. hostToken' # NoSession
    BY <2>1, ScanAssumption DEF NoSession
  <2>3. PICK e \in PollRecords : poll' = [poll EXCEPT ![p] = e] /\ e.at = "connecting" /\ e.s = poll[p].s
    BY <2>1, <1>0, PollTurns DEF PollTo
  <2> QED BY <2>1, <2>2, <2>3, <1>1, <1>2, <1>3, <1>4, PollGoesOn
<1>8. CASE ConsumeRefused(p)
  <2>1. /\ poll[p].at = "refused" /\ PollTo(p, "expired") /\ ForgetBind(p)
        /\ UNCHANGED <<hostToken, answerLost, overlapped>>
    BY <1>8 DEF ConsumeRefused
  <2>2. session[poll[p].s].old \/ overlapped
    BY <2>1, <1>0 DEF ScanTold
  <2>3. PICK e \in PollRecords : poll' = [poll EXCEPT ![p] = e] /\ e.at = "expired" /\ e.s = poll[p].s
    BY <2>1, <1>0, PollTurns DEF PollTo
  <2> QED BY <2>1, <2>2, <2>3, <1>1, <1>2, <1>3, <1>4, PollGoesOn
<1>9. CASE HubFails(p) \/ PanelMisses(p)
  <2>1. Over(p) /\ UNCHANGED <<bind, hostToken, overlapped, crossed>>
    BY <1>9 DEF HubFails, PanelMisses
  <2>3. (answerLost => answerLost') /\ (poll[p].at = "made" => answerLost')
    <3>1. CASE HubFails(p)
      BY <3>1 DEF HubFails
    <3>2. CASE PanelMisses(p)
      BY <3>2 DEF PanelMisses
    <3> QED BY <1>9, <3>1, <3>2
  <2>2. PICK e \in PollRecords : poll' = [poll EXCEPT ![p] = e] /\ e.at = "idle" /\ e.s = NoSession
    BY <2>1, PollEnds
  <2> QED BY <2>1, <2>2, <2>3, <1>1, <1>2, PollGoesOn
<1> QED BY <1>5, <1>6, <1>7, <1>8, <1>9

\* The panel hears how a poll ended.
LEMMA HearStep ==
    ASSUME ScanInv, NEW p \in Polls, PanelHears(p)
    PROVE  ScanInv'
<1>0. ScanShape /\ ScanTold
  BY DEF ScanInv
<1>1. /\ poll[p].at \in {"expired", "connecting"} /\ Over(p)
      /\ UNCHANGED <<session, bind, hostToken, begun, effect, answerLost, overlapped, strayed>>
  BY DEF PanelHears
<1>2. PICK e \in PollRecords : poll' = [poll EXCEPT ![p] = e] /\ e.at = "idle" /\ e.s = NoSession
  BY <1>1, PollEnds
<1>3. CASE UNCHANGED <<view, onScreen, crossed>>
  BY <1>1, <1>2, <1>3, PollGoesOn
<1>4. CASE /\ view = "showing" /\ poll[p].at = "expired" /\ view' = "expired"
           /\ crossed' = (crossed \/ poll[p].s # onScreen) /\ UNCHANGED onScreen
  <2>1. session[onScreen].old \/ overlapped \/ crossed'
    BY <1>0, <1>4 DEF ScanTold
  <2>2. crossed => crossed'
    BY <1>4
  <2> QED BY <1>1, <1>2, <1>4, <2>1, <2>2, PollGoesOn
<1>5. CASE view' = "idle" /\ onScreen' = NoSession /\ UNCHANGED crossed
  BY <1>1, <1>2, <1>5, PollGoesOn
<1> QED BY <1>1, <1>3, <1>4, <1>5 DEF PanelHears

\* A poll begins: it asks for the session that the plugin holds.
LEMMA AskStep ==
    ASSUME ScanInv, NEW p \in Polls, PollBegins(p)
    PROVE  ScanInv'
<1>0. ScanShape /\ NotMadeYet /\ HostForEach /\ ScanTold /\ HostsTaken /\ ScanFollowed
  BY DEF ScanInv
<1>1. /\ poll[p].at = "idle" /\ bind # NoSession
      /\ poll' = [poll EXCEPT ![p] = [at |-> "asks", s |-> bind, effect |-> effect]]
      /\ UNCHANGED <<session, bind, hostToken, begun, view, onScreen, effect, answerLost, overlapped, crossed, strayed>>
  BY DEF PollBegins
<1> PICK e : e = [at |-> "asks", s |-> bind, effect |-> effect]
  OBVIOUS
<1>e. e \in PollRecords /\ e.at = "asks" /\ e.s = bind
  BY <1>0 DEF ScanShape, PollRecords
<1>2. \A q \in Polls : poll'[q] = IF q = p THEN e ELSE poll[q]
  BY <1>0, <1>1 DEF ScanShape
<1>3. ScanShape'
  <2>1. poll' \in [Polls -> PollRecords]
    BY <1>0, <1>1, <1>e DEF ScanShape
  <2>2. \A q \in Polls : poll'[q].at # "idle" => poll'[q].s \in Sessions
    BY <1>0, <1>1, <1>2, <1>e DEF ScanShape
  <2> QED BY <1>0, <1>1, <2>1, <2>2 DEF ScanShape
<1>4. NotMadeYet'
  BY <1>0, <1>1, <1>2, <1>e DEF NotMadeYet
<1>5. \A q \in Polls : poll'[q].at # "asks" => poll'[q] = poll[q]
  BY <1>2, <1>e
<1>6. HostForEach' /\ ScanTold'
  BY <1>0, <1>1, <1>5 DEF HostForEach, ScanTold
<1>7. HostsTaken'
  <2>1. (\E q \in Polls : poll[q].at = "made") => \E q \in Polls : poll'[q].at = "made"
    BY <1>1, <1>2
  <2> QED BY <1>0, <1>1, <2>1 DEF HostsTaken
<1>8. ScanFollowed'
  BY <1>0, <1>1 DEF ScanFollowed, AskedFor
<1> QED BY <1>3, <1>4, <1>6, <1>7, <1>8 DEF ScanInv

\* The hub makes the host, and marks the session consumed.
LEMMA HostStep ==
    ASSUME ScanInv, NEW p \in Polls, ConsumeMakes(p)
    PROVE  ScanInv'
<1>0. ScanShape /\ NotMadeYet /\ HostForEach /\ ScanTold /\ HostsTaken /\ ScanFollowed
  BY DEF ScanInv
<1> DEFINE s == poll[p].s
<1>1. /\ poll[p].at = "granted" /\ s \in Sessions
      /\ session' = [session EXCEPT ![s].st = "consumed", ![s].hosts = @ + 1]
      /\ PollTo(p, "made")
      /\ UNCHANGED <<bind, hostToken, begun, view, onScreen, effect, answerLost, overlapped, crossed, strayed>>
  BY <1>0 DEF ConsumeMakes, ScanShape
<1>2. PICK t : t = [session[s] EXCEPT !.st = "consumed", !.hosts = session[s].hosts + 1]
  OBVIOUS
<1>t. t \in BindSessions /\ t.st = "consumed" /\ t.old = session[s].old /\ t.hosts = session[s].hosts + 1
  BY <1>0, <1>1, <1>2 DEF ScanShape, BindSessions
<1>3. session' = [session EXCEPT ![s] = t]
  BY <1>0, <1>1, <1>2 DEF ScanShape, BindSessions
<1>4. PICK e \in PollRecords : poll' = [poll EXCEPT ![p] = e] /\ e.at = "made" /\ e.s = s
  BY <1>0, <1>1, PollTurns DEF PollTo
<1> HIDE DEF s
<1>5. /\ session' \in [Sessions -> BindSessions]
      /\ \A u \in Sessions : session'[u] = IF u = s THEN t ELSE session[u]
  BY <1>0, <1>1, <1>3, <1>t, OneSession
<1>6. \A q \in Polls : poll'[q] = IF q = p THEN e ELSE poll[q]
  BY <1>0, <1>4 DEF ScanShape
<1>7. \A u \in Sessions : session'[u].old = session[u].old
  BY <1>5, <1>t
<1>8. ScanShape'
  <2>1. poll' \in [Polls -> PollRecords]
    BY <1>0, <1>4 DEF ScanShape
  <2>2. \A q \in Polls : poll'[q].at # "idle" => poll'[q].s \in Sessions
    BY <1>0, <1>1, <1>4, <1>6 DEF ScanShape
  <2> QED BY <1>0, <1>1, <1>5, <2>1, <2>2 DEF ScanShape
<1>9. \A q \in Polls : poll'[q].s = poll[q].s
  BY <1>4, <1>6 DEF s
<1>10. NotMadeYet'
  <2>1. begun[s] \notin {"no", "asked"}
    BY <1>0, <1>1 DEF NotMadeYet, s
  <2> QED BY <1>0, <1>1, <1>5, <1>9, <2>1 DEF NotMadeYet
<1>11. HostForEach'
  <2> SUFFICES ASSUME ~overlapped PROVE HostForEach'
    BY <1>1 DEF HostForEach
  <2>1. session[s].st = "approved" /\ session[s].hosts = 0
    BY <1>0, <1>1 DEF HostForEach, s
  <2>2. t.hosts = 1
    BY <1>t, <2>1
  <2>3. \A u \in Sessions : session'[u].hosts = IF session'[u].st = "consumed" THEN 1 ELSE 0
    BY <1>0, <1>5, <1>t, <2>2 DEF HostForEach
  <2>4. \A q \in Polls : poll'[q].at = "granted" => q # p /\ poll[q].at = "granted" /\ poll[q].s # s
    BY <1>0, <1>1, <1>4, <1>6 DEF HostForEach, s
  <2>5. \A q \in Polls : poll'[q].at = "granted" => session'[poll'[q].s].st = "approved"
    BY <1>0, <1>5, <1>9, <2>4 DEF HostForEach, ScanShape
  <2>6. \A q, r \in Polls :
          poll'[q].at = "granted" /\ poll'[r].at = "granted" /\ poll'[q].s = poll'[r].s => q = r
    BY <1>0, <1>9, <2>4 DEF HostForEach
  <2> QED BY <2>3, <2>5, <2>6 DEF HostForEach
<1>12. ScanTold'
  <2>1. \A q \in Polls : poll'[q].at \in {"consumes", "refused", "expired"} =>
          q # p /\ poll'[q] = poll[q] /\ poll[q].s \in Sessions
    BY <1>0, <1>4, <1>6 DEF ScanShape
  <2>2. \A u \in Sessions : session[u].st \in {"approved", "consumed"} => session'[u].st \in {"approved", "consumed"}
    BY <1>5, <1>t
  <2>3. view = "expired" => onScreen \in Sessions
    BY <1>0 DEF ScanShape
  <2> QED BY <1>0, <1>1, <1>7, <2>1, <2>2, <2>3 DEF ScanTold
<1>13. HostsTaken'
  BY <1>4, <1>6 DEF HostsTaken
<1>14. ScanFollowed'
  <2>1. \A u \in Sessions : AskedFor(u) => AskedFor(u)'
    BY <1>1, <1>7 DEF AskedFor
  <2>2. view = "showing" => onScreen \in Sessions
    BY <1>0 DEF ScanShape
  <2> QED BY <1>0, <1>1, <2>1, <2>2 DEF ScanFollowed
<1> QED BY <1>8, <1>10, <1>11, <1>12, <1>13, <1>14 DEF ScanInv

LEMMA ScanStep == ScanInv /\ [ScanNext]_scanVars => ScanInv'
<1> SUFFICES ASSUME ScanInv, [ScanNext]_scanVars PROVE ScanInv'
  OBVIOUS
<1>1. CASE UNCHANGED scanVars
  BY <1>1, ScanIdle
<1>2. ASSUME NEW s \in Sessions, PressScan(s) \/ BeginFails(s) \/ PanelShows(s) PROVE ScanInv'
  BY <1>2, CodeSteps
<1>3. ASSUME NEW s \in Sessions, BeginScan(s) PROVE ScanInv'
  BY <1>3, BeginStep
<1>4. ASSUME NEW s \in Sessions, Approves(s) \/ GrowsOld(s) PROVE ScanInv'
  BY <1>4, SessionSteps
<1>5. ASSUME NEW p \in Polls, PollBegins(p) PROVE ScanInv'
  BY <1>5, AskStep
<1>6. ASSUME NEW p \in Polls,
             \/ LearnsState(p) \/ ConsumeReads(p) \/ Bound(p) \/ ConsumeRefused(p)
             \/ HubFails(p) \/ PanelMisses(p)
      PROVE  ScanInv'
  BY <1>6, PollSteps
<1>7. ASSUME NEW p \in Polls, ConsumeMakes(p) PROVE ScanInv'
  BY <1>7, HostStep
<1>8. ASSUME NEW p \in Polls, PanelHears(p) PROVE ScanInv'
  BY <1>8, HearStep
<1>9. CASE LeaveScan \/ CountdownEnds
  BY <1>9, ScreenSteps
<1> QED BY <1>1, <1>2, <1>3, <1>4, <1>5, <1>6, <1>7, <1>8, <1>9 DEF ScanNext

\* A scan ends as it looks, however many codes are renewed, polls overlap and
\* requests are lost: beginScan and scanState of the plugin, the polling of the
\* panel, and handleConsumeBindSession of the hub.  The invariant says which
\* session the plugin asks about at every moment between, and that a host which
\* was made is on its way to the machine.
THEOREM ScansEndWell == ScanSpec => []ScanEndsWell
<1>1. ScanInv => ScanEndsWell
  <2> SUFFICES ASSUME ScanInv PROVE ScanEndsWell
    OBVIOUS
  <2>0. ScanShape /\ HostForEach /\ ScanTold /\ HostsTaken /\ ScanFollowed
    BY DEF ScanInv
  <2>1. \A s \in Sessions : session[s].hosts > 1 => overlapped
    BY <2>0 DEF HostForEach
  <2>2. view = "expired" => session[onScreen].old \/ overlapped \/ crossed
    BY <2>0 DEF ScanTold
  <2>3. ASSUME ScanQuiet, \E s \in Sessions : session[s].hosts > 0
        PROVE  hostToken # NoSession \/ answerLost
    BY <2>0, <2>3 DEF HostsTaken, ScanQuiet
  <2>4. ASSUME ScanQuiet, view = "showing"
        PROVE  bind = onScreen \/ crossed \/ strayed \/ overlapped \/ hostToken # NoSession \/ session[onScreen].old
    BY <2>0, <2>4 DEF ScanFollowed, ScanQuiet, AskedFor
  <2> QED BY <2>1, <2>2, <2>3, <2>4 DEF ScanEndsWell
<1> QED BY ScanStart, ScanStep, <1>1, PTL DEF ScanSpec
-----------------------------------------------------------------------------
(* PayPages: as long as nothing moved the account, the page knows where it    *)
(* stands, and no clock finds anything.                                       *)

Bills ==
    [st : {"none", "asked", "drawing", "made", "failed"}, form : {"native", "jsapi"},
     before : Int, paid : BOOLEAN]
HasOrder(o) == bill[o].st \in {"drawing", "made"}

PayShape ==
    /\ bill \in [Purchases -> Bills] /\ known \in Int /\ account.value \in Nat /\ grown \in Nat
    /\ flow \in {"billing", "credits"}
    /\ clock \in [Purchases -> [on : BOOLEAN, found : BOOLEAN]]
    /\ check \in [Purchases -> BOOLEAN]
    /\ current \in Purchases \cup {NoBill}

\* Payments are of orders that were made, and so is what looks for them.
OfOrders ==
    /\ \A o \in Purchases : bill[o].paid => HasOrder(o)
    /\ \A o \in Purchases : clock[o].on \/ clock[o].found => bill[o].st = "made"
    /\ \A o \in Purchases : check[o] => bill[o].paid

Moved == grown > 0 \/ blind \/ \E o \in Purchases : bill[o].paid

Unmoved ==
    /\ known \in {Unknown, account.value} /\ ~mistaken
    /\ \A o \in Purchases : bill[o].st # "none" =>
         bill[o].before = account.value \/ (flow = "credits" /\ bill[o].before = Unknown)
    /\ \A o \in Purchases : ~clock[o].found

PayInv == PayShape /\ OfOrders /\ (~Moved => Unmoved)

LEMMA PayStart == PayInit => PayInv
<1> SUFFICES ASSUME PayInit PROVE PayInv
  OBVIOUS
<1> USE DEF PayInit
<1>1. NotOrdered \in Bills /\ NotOrdered.st = "none" /\ NotOrdered.paid = FALSE
  BY DEF NotOrdered, Bills, Unknown
<1>2. NoClock \in [on : BOOLEAN, found : BOOLEAN] /\ NoClock.on = FALSE /\ NoClock.found = FALSE
  BY DEF NoClock
<1>3. account.value \in Nat
  BY SMT
<1>4. PayShape
  BY <1>1, <1>2, <1>3 DEF PayShape, Unknown
<1>5. OfOrders /\ Unmoved
  BY <1>1, <1>2 DEF OfOrders, Unmoved
<1> QED BY <1>4, <1>5 DEF PayInv

LEMMA OneBill ==
    ASSUME PayShape, NEW o \in Purchases, NEW b \in Bills, bill' = [bill EXCEPT ![o] = b]
    PROVE  /\ bill' \in [Purchases -> Bills]
           /\ \A p \in Purchases : bill'[p] = IF p = o THEN b ELSE bill[p]
BY DEF PayShape

\* A bill that moves on keeps what it was compared with.
LEMMA BillMoves ==
    ASSUME PayShape, NEW o \in Purchases, NEW st \in {"drawing", "made", "failed"},
           bill' = [bill EXCEPT ![o].st = st]
    PROVE  \E b \in Bills : /\ bill' = [bill EXCEPT ![o] = b]
                            /\ b.st = st /\ b.before = bill[o].before /\ b.paid = bill[o].paid
<1> PICK b : b = [bill[o] EXCEPT !.st = st]
  OBVIOUS
<1>1. b \in Bills /\ b.st = st /\ b.before = bill[o].before /\ b.paid = bill[o].paid
  BY DEF PayShape, Bills
<1>2. bill' = [bill EXCEPT ![o] = b]
  OBVIOUS
<1> QED BY <1>1, <1>2

\* Steps that leave the orders and the clocks alone.
LEMMA AccountSteps ==
    ASSUME PayInv, LoadEnds \/ GrowsOtherwise \/ CancelPayment
    PROVE  PayInv'
<1>0. PayShape /\ OfOrders /\ (~Moved => Unmoved)
  BY DEF PayInv
<1>1. UNCHANGED <<flow, bill, clock, check, blind, mistaken>>
  BY DEF LoadEnds, GrowsOtherwise, CancelPayment
<1>2. /\ known' \in Int /\ account'.value \in Nat /\ grown' \in Nat
      /\ current' \in Purchases \cup {NoBill}
  BY <1>0 DEF LoadEnds, GrowsOtherwise, CancelPayment, PayShape
<1>3. PayShape' /\ OfOrders'
  BY <1>0, <1>1, <1>2 DEF PayShape, OfOrders, HasOrder
<1>4. ASSUME ~Moved' PROVE Unmoved'
  <2>1. ~(grown' > 0) /\ ~Moved
    <3>1. grown' = grown \/ grown' = grown + 1
      BY DEF LoadEnds, GrowsOtherwise, CancelPayment
    <3> QED BY <3>1, <1>0, <1>1, <1>4 DEF Moved, PayShape
  <2>2. ~GrowsOtherwise
    BY <2>1, <1>0 DEF GrowsOtherwise, PayShape
  <2>3. UNCHANGED account /\ known' \in {known, account.value}
    BY <2>2 DEF LoadEnds, CancelPayment
  <2> QED BY <1>0, <1>1, <2>1, <2>3 DEF Unmoved
<1> QED BY <1>3, <1>4 DEF PayInv

LEMMA PayStepPays ==
    ASSUME PayInv, NEW o \in Purchases, Pays(o)
    PROVE  PayInv'
<1>0. PayShape /\ OfOrders
  BY DEF PayInv
<1>1. /\ HasOrder(o) /\ bill' = [bill EXCEPT ![o].paid = TRUE]
      /\ UNCHANGED <<flow, known, current, clock, check, grown>>
  BY DEF Pays, HasOrder
<1> PICK b : b = [bill[o] EXCEPT !.paid = TRUE]
  OBVIOUS
<1>b. b \in Bills /\ b.st = bill[o].st /\ b.paid = TRUE
  BY <1>0 DEF PayShape, Bills
<1>2. /\ bill' \in [Purchases -> Bills]
      /\ \A p \in Purchases : bill'[p] = IF p = o THEN b ELSE bill[p]
  BY <1>0, <1>1, <1>b, OneBill
<1>3. account'.value \in Nat
  BY <1>0 DEF Pays, PayShape
<1>4. PayShape' /\ OfOrders'
  BY <1>0, <1>1, <1>b, <1>2, <1>3 DEF PayShape, OfOrders, HasOrder
<1>5. Moved'
  BY <1>2, <1>b DEF Moved
<1> QED BY <1>4, <1>5 DEF PayInv

LEMMA OrderSteps ==
    ASSUME PayInv, NEW o \in Purchases, Subscribe(o) \/ SubscribeInWechat(o)
    PROVE  PayInv'
<1>0. PayShape /\ OfOrders /\ (~Moved => Unmoved)
  BY DEF PayInv
<1>1. bill[o].st = "none" /\ UNCHANGED <<flow, account, known, current, clock, check, grown, mistaken>>
  BY DEF Subscribe, SubscribeInWechat
<1>2. PICK b \in Bills : bill' = [bill EXCEPT ![o] = b] /\ b.st = "asked" /\ b.paid = FALSE
                         /\ b.before \in {Before, 0} /\ (blind' \/ b.before = Before)
  <2>1. Before \in Int
    BY <1>0 DEF Before, PayShape
  <2>2. CASE Subscribe(o)
    <3>1. [st |-> "asked", form |-> "native", before |-> Before, paid |-> FALSE] \in Bills
      BY <2>1 DEF Bills
    <3> QED BY <3>1, <2>2 DEF Subscribe
  <2>3. CASE SubscribeInWechat(o)
    <3>1. [st |-> "asked", form |-> "jsapi", before |-> 0, paid |-> FALSE] \in Bills
      BY DEF Bills
    <3> QED BY <3>1, <2>3 DEF SubscribeInWechat
  <2> QED BY <2>2, <2>3
<1>3. blind => blind'
  BY DEF Subscribe, SubscribeInWechat
<1>4. (flow = "billing" /\ known = Unknown) => blind'
  BY DEF Subscribe, SubscribeInWechat
<1>5. /\ bill' \in [Purchases -> Bills]
      /\ \A p \in Purchases : bill'[p] = IF p = o THEN b ELSE bill[p]
  BY <1>0, <1>2, OneBill
<1>6. ~bill[o].paid /\ ~clock[o].on /\ ~clock[o].found /\ ~check[o]
  BY <1>0, <1>1 DEF OfOrders, HasOrder
<1>7. PayShape' /\ OfOrders'
  BY <1>0, <1>1, <1>2, <1>5, <1>6 DEF PayShape, OfOrders, HasOrder
<1>8. ASSUME ~Moved' PROVE Unmoved'
  <2>1. \A p \in Purchases : ~bill[p].paid
    BY <1>5, <1>6, <1>8 DEF Moved
  <2>2. ~Moved /\ ~blind'
    BY <2>1, <1>1, <1>3, <1>8 DEF Moved
  <2>3. b.before = known /\ (flow = "billing" => known # Unknown)
    BY <2>2, <1>2, <1>4 DEF Before
  <2>4. b.before = account.value \/ (flow = "credits" /\ b.before = Unknown)
    BY <2>2, <2>3, <1>0 DEF Unmoved, PayShape
  <2> QED BY <2>2, <2>4, <1>0, <1>1, <1>5 DEF Unmoved
<1> QED BY <1>7, <1>8 DEF PayInv

LEMMA OneClock ==
    ASSUME PayShape, NEW o \in Purchases, NEW c \in [on : BOOLEAN, found : BOOLEAN],
           clock' = [clock EXCEPT ![o] = c]
    PROVE  /\ clock' \in [Purchases -> [on : BOOLEAN, found : BOOLEAN]]
           /\ \A p \in Purchases : clock'[p] = IF p = o THEN c ELSE clock[p]
BY DEF PayShape

\* What the answer to an order, and drawing its code, do to the clocks.
LEMMA ClockStarts ==
    ASSUME PayShape, NEW o \in Purchases,
           \/ UNCHANGED clock
           \/ clock' = [clock EXCEPT ![o].on = TRUE]
           \/ clock' = [clock EXCEPT ![o].on = FALSE]
    PROVE  /\ clock' \in [Purchases -> [on : BOOLEAN, found : BOOLEAN]]
           /\ \A p \in Purchases : clock'[p].found = clock[p].found
           /\ \A p \in Purchases \ {o} : clock'[p] = clock[p]
<1>1. CASE UNCHANGED clock
  BY <1>1 DEF PayShape
<1>2. ASSUME NEW v \in BOOLEAN, clock' = [clock EXCEPT ![o].on = v]
      PROVE  \E c \in [on : BOOLEAN, found : BOOLEAN] :
               clock' = [clock EXCEPT ![o] = c] /\ c.found = clock[o].found
  <2> PICK c : c = [clock[o] EXCEPT !.on = v]
    OBVIOUS
  <2>1. c \in [on : BOOLEAN, found : BOOLEAN] /\ c.found = clock[o].found
    BY DEF PayShape
  <2> QED BY <1>2, <2>1
<1>3. ASSUME NEW c \in [on : BOOLEAN, found : BOOLEAN],
             clock' = [clock EXCEPT ![o] = c] /\ c.found = clock[o].found
      PROVE  /\ clock' \in [Purchases -> [on : BOOLEAN, found : BOOLEAN]]
             /\ \A p \in Purchases : clock'[p].found = clock[p].found
             /\ \A p \in Purchases \ {o} : clock'[p] = clock[p]
  BY <1>3, OneClock
<1>4. CASE clock' = [clock EXCEPT ![o].on = TRUE]
  BY <1>2, <1>3, <1>4
<1>5. CASE clock' = [clock EXCEPT ![o].on = FALSE]
  BY <1>2, <1>3, <1>5
<1> QED BY <1>1, <1>4, <1>5

LEMMA AnswerSteps ==
    ASSUME PayInv, NEW o \in Purchases, Ordered(o) \/ OrderFails(o) \/ Drawn(o)
    PROVE  PayInv'
<1>0. PayShape /\ OfOrders /\ (~Moved => Unmoved)
  BY DEF PayInv
<1>1. UNCHANGED <<flow, account, known, check, grown, blind, mistaken>>
  BY DEF Ordered, OrderFails, Drawn
<1>2. PICK st \in {"drawing", "made", "failed"} :
        /\ bill' = [bill EXCEPT ![o].st = st] /\ bill[o].st \in {"asked", "drawing"}
        /\ HasOrder(o) => st = "made"
        /\ clock' = clock \/ (clock' = [clock EXCEPT ![o].on = TRUE] /\ st = "made")
        /\ current' \in Purchases \cup {NoBill}
  <2>1. CASE Ordered(o)
    <3>1. CASE bill[o].form = "native"
      BY <1>0, <2>1, <3>1 DEF Ordered, HasOrder, PayShape
    <3>2. CASE bill[o].form # "native"
      BY <1>0, <2>1, <3>2 DEF Ordered, HasOrder, PayShape
    <3> QED BY <3>1, <3>2
  <2>2. CASE OrderFails(o)
    BY <1>0, <2>2 DEF OrderFails, HasOrder, PayShape
  <2>3. CASE Drawn(o)
    BY <1>0, <2>3 DEF Drawn, HasOrder, PayShape
  <2> QED BY <2>1, <2>2, <2>3
<1>3. PICK b \in Bills : /\ bill' = [bill EXCEPT ![o] = b]
                         /\ b.st = st /\ b.before = bill[o].before /\ b.paid = bill[o].paid
  BY <1>0, <1>2, BillMoves
<1>4. /\ bill' \in [Purchases -> Bills]
      /\ \A p \in Purchases : bill'[p] = IF p = o THEN b ELSE bill[p]
  BY <1>0, <1>3, OneBill
<1>5. /\ clock' \in [Purchases -> [on : BOOLEAN, found : BOOLEAN]]
      /\ \A p \in Purchases : clock'[p].found = clock[p].found
      /\ \A p \in Purchases \ {o} : clock'[p] = clock[p]
  BY <1>0, <1>2, ClockStarts
<1>6. PayShape'
  BY <1>0, <1>1, <1>2, <1>4, <1>5 DEF PayShape
<1>7. ~clock[o].on /\ ~clock[o].found
  BY <1>0, <1>2 DEF OfOrders
<1>8. OfOrders'
  <2>1. \A p \in Purchases : bill'[p].paid => bill[p].paid
    BY <1>3, <1>4
  <2>2. \A p \in Purchases : HasOrder(p) => HasOrder(p)'
    BY <1>2, <1>3, <1>4 DEF HasOrder
  <2>3. ASSUME NEW p \in Purchases, clock'[p].on \/ clock'[p].found PROVE bill'[p].st = "made"
    <3>1. CASE p = o
      BY <2>3, <3>1, <1>2, <1>3, <1>4, <1>5, <1>7
    <3>2. CASE p # o
      BY <2>3, <3>2, <1>0, <1>4, <1>5 DEF OfOrders
    <3> QED BY <3>1, <3>2
  <2>4. \A p \in Purchases : check'[p] => bill'[p].paid
    BY <1>0, <1>1, <1>3, <1>4 DEF OfOrders
  <2> QED BY <1>0, <2>1, <2>2, <2>3, <2>4 DEF OfOrders
<1>9. ASSUME ~Moved' PROVE Unmoved'
  <2>1. ~Moved
    BY <1>1, <1>3, <1>4, <1>9 DEF Moved
  <2>2. bill[o].st # "none"
    BY <1>2
  <2> QED BY <2>1, <2>2, <1>0, <1>1, <1>3, <1>4, <1>5 DEF Unmoved
<1> QED BY <1>6, <1>8, <1>9 DEF PayInv

\* The page says that it is paid, or is silent.
LEMMA Says ==
    ASSUME PayInv, NEW o \in Purchases, SayPaid(o),
           UNCHANGED <<flow, account, known, bill, grown, blind>>,
           Moved,
           clock' \in [Purchases -> [on : BOOLEAN, found : BOOLEAN]],
           check' \in [Purchases -> BOOLEAN],
           \A p \in Purchases : clock'[p].on \/ clock'[p].found => clock[p].on \/ clock[p].found,
           \A p \in Purchases : check'[p] => check[p]
    PROVE  PayInv'
<1>1. current' \in Purchases \cup {NoBill}
  BY DEF SayPaid, Say, Silent, PayInv, PayShape
<1>2. PayShape' /\ OfOrders'
  BY <1>1 DEF PayInv, PayShape, OfOrders, HasOrder
<1>3. Moved'
  BY DEF Moved
<1> QED BY <1>2, <1>3 DEF PayInv

LEMMA ClockSteps ==
    ASSUME PayInv, NEW o \in Purchases, ClockFinds(o) \/ ClockAnswered(o) \/ FiveMinutes(o)
    PROVE  PayInv'
<1>0. PayShape /\ OfOrders /\ (~Moved => Unmoved)
  BY DEF PayInv
<1>1. CASE ClockFinds(o)
  <2>1. /\ clock[o].on /\ Extended(o) /\ clock' = [clock EXCEPT ![o].found = TRUE]
        /\ UNCHANGED <<flow, account, known, bill, current, check, grown, blind, mistaken>>
    BY <1>1 DEF ClockFinds
  <2> PICK c : c = [clock[o] EXCEPT !.found = TRUE]
    OBVIOUS
  <2>c. c \in [on : BOOLEAN, found : BOOLEAN]
    BY <1>0 DEF PayShape
  <2>2. /\ clock' \in [Purchases -> [on : BOOLEAN, found : BOOLEAN]]
        /\ \A p \in Purchases : clock'[p] = IF p = o THEN c ELSE clock[p]
    BY <1>0, <2>1, <2>c, OneClock
  <2>3. bill[o].st = "made"
    BY <1>0, <2>1 DEF OfOrders
  <2>4. PayShape' /\ OfOrders'
    BY <1>0, <2>1, <2>2, <2>3 DEF PayShape, OfOrders, HasOrder
  <2>5. Moved
    <3>1. SUFFICES ASSUME Unmoved PROVE FALSE
      BY <1>0
    <3>2. bill[o].before = account.value \/ (flow = "credits" /\ bill[o].before = Unknown)
      BY <3>1, <2>3 DEF Unmoved
    <3>3. ~(account.value > account.value)
      BY <1>0 DEF PayShape
    <3> QED BY <2>1, <3>2, <3>3 DEF Extended
  <2>6. Moved'
    BY <2>1, <2>5 DEF Moved
  <2> QED BY <2>4, <2>6 DEF PayInv
<1>2. CASE ClockAnswered(o)
  <2>1. /\ clock[o].found /\ clock' = [clock EXCEPT ![o] = NoClock] /\ SayPaid(o)
        /\ UNCHANGED <<flow, account, known, bill, check, grown, blind>>
    BY <1>2 DEF ClockAnswered
  <2>2. NoClock \in [on : BOOLEAN, found : BOOLEAN] /\ ~NoClock.on /\ ~NoClock.found
    BY DEF NoClock
  <2>3. /\ clock' \in [Purchases -> [on : BOOLEAN, found : BOOLEAN]]
        /\ \A p \in Purchases : clock'[p] = IF p = o THEN NoClock ELSE clock[p]
    BY <1>0, <2>1, <2>2, OneClock
  <2>4. Moved
    BY <1>0, <2>1 DEF Unmoved
  <2>5. check' \in [Purchases -> BOOLEAN]
    BY <1>0, <2>1 DEF PayShape
  <2> QED BY <2>1, <2>2, <2>3, <2>4, <2>5, Says
<1>3. CASE FiveMinutes(o)
  <2>1. /\ clock[o].on /\ clock' = [clock EXCEPT ![o].on = FALSE]
        /\ UNCHANGED <<flow, account, known, bill, current, check, grown, blind, mistaken>>
    BY <1>3 DEF FiveMinutes
  <2>2. /\ clock' \in [Purchases -> [on : BOOLEAN, found : BOOLEAN]]
        /\ \A p \in Purchases : clock'[p].found = clock[p].found
        /\ \A p \in Purchases \ {o} : clock'[p] = clock[p]
    BY <1>0, <2>1, ClockStarts
  <2>3. \A p \in Purchases : clock'[p].on \/ clock'[p].found => clock[p].on \/ clock[p].found
    BY <2>1, <2>2
  <2>4. PayShape' /\ OfOrders'
    BY <1>0, <2>1, <2>2, <2>3 DEF PayShape, OfOrders, HasOrder
  <2>5. ~Moved' => Unmoved'
    BY <1>0, <2>1, <2>2 DEF Moved, Unmoved
  <2> QED BY <2>4, <2>5 DEF PayInv
<1> QED BY <1>1, <1>2, <1>3

LEMMA CheckSteps ==
    ASSUME PayInv, CheckFinds \/ \E o \in Purchases : CheckAnswered(o)
    PROVE  PayInv'
<1>0. PayShape /\ OfOrders /\ (~Moved => Unmoved)
  BY DEF PayInv
<1>1. CASE CheckFinds
  <2>1. /\ current \in Purchases /\ bill[current].paid /\ check' = [check EXCEPT ![current] = TRUE]
        /\ UNCHANGED <<flow, account, known, bill, current, clock, grown, blind, mistaken>>
    BY <1>0, <1>1 DEF CheckFinds, PayShape
  <2>2. \A p \in Purchases : check'[p] => check[p] \/ p = current
    BY <1>0, <2>1 DEF PayShape
  <2>3. PayShape' /\ OfOrders'
    BY <1>0, <2>1, <2>2 DEF PayShape, OfOrders, HasOrder
  <2>4. Moved'
    BY <2>1 DEF Moved
  <2> QED BY <2>3, <2>4 DEF PayInv
<1>2. ASSUME NEW o \in Purchases, CheckAnswered(o) PROVE PayInv'
  <2>1. /\ check[o] /\ check' = [check EXCEPT ![o] = FALSE] /\ SayPaid(o)
        /\ UNCHANGED <<flow, account, known, bill, clock, grown, blind>>
    BY <1>2 DEF CheckAnswered
  <2>2. Moved
    BY <1>0, <2>1 DEF Moved, OfOrders
  <2>3. check' \in [Purchases -> BOOLEAN] /\ \A p \in Purchases : check'[p] => check[p]
    BY <1>0, <2>1 DEF PayShape
  <2>4. clock' \in [Purchases -> [on : BOOLEAN, found : BOOLEAN]]
    BY <1>0, <2>1 DEF PayShape
  <2> QED BY <2>1, <2>2, <2>3, <2>4, Says
<1> QED BY <1>1, <1>2

LEMMA PayStep == PayInv /\ [PayNext]_payVars => PayInv'
<1> SUFFICES ASSUME PayInv, [PayNext]_payVars PROVE PayInv'
  OBVIOUS
<1>1. CASE UNCHANGED payVars
  BY <1>1 DEF payVars, PayInv, PayShape, OfOrders, HasOrder, Moved, Unmoved
<1>2. CASE LoadEnds \/ GrowsOtherwise \/ CancelPayment
  BY <1>2, AccountSteps
<1>3. ASSUME NEW o \in Purchases, Pays(o) PROVE PayInv'
  BY <1>3, PayStepPays
<1>4. ASSUME NEW o \in Purchases, Subscribe(o) \/ SubscribeInWechat(o) PROVE PayInv'
  BY <1>4, OrderSteps
<1>5. ASSUME NEW o \in Purchases, Ordered(o) \/ OrderFails(o) \/ Drawn(o) PROVE PayInv'
  BY <1>5, AnswerSteps
<1>6. ASSUME NEW o \in Purchases, ClockFinds(o) \/ ClockAnswered(o) \/ FiveMinutes(o) PROVE PayInv'
  BY <1>6, ClockSteps
<1>7. CASE CheckFinds \/ \E o \in Purchases : CheckAnswered(o)
  BY <1>7, CheckSteps
<1> QED BY <1>1, <1>2, <1>3, <1>4, <1>5, <1>6, <1>7 DEF PayNext

\* As long as the last order has not been called paid, one more message is
\* due: there are fewer of them than orders.
MadeBills == {o \in Purchases : HasOrder(o)}

NoticesCounted ==
    /\ notices \in Nat /\ notices <= Cardinality(MadeBills)
    /\ ~paid /\ MadeBills # {} => notices < Cardinality(MadeBills)

LEMMA BillsAreFinite == IsFiniteSet(MadeBills) /\ Cardinality(MadeBills) \in Nat
<1>1. MadeBills \subseteq Purchases
  BY DEF MadeBills
<1>2. IsFiniteSet(MadeBills)
  BY <1>1, PayAssumption, FS_Subset
<1> QED BY <1>2, FS_CardinalityType

LEMMA NoticesStart == PayInit => NoticesCounted
<1> SUFFICES ASSUME PayInit PROVE NoticesCounted
  OBVIOUS
<1>1. MadeBills = {}
  BY DEF PayInit, MadeBills, HasOrder, NotOrdered
<1>2. notices = 0
  BY DEF PayInit
<1> QED BY <1>1, <1>2, BillsAreFinite DEF NoticesCounted

LEMMA NoticesStep == PayInv /\ NoticesCounted /\ [PayNext]_payVars => NoticesCounted'
<1> SUFFICES ASSUME PayInv, NoticesCounted, [PayNext]_payVars PROVE NoticesCounted'
  OBVIOUS
<1>0. PayShape /\ OfOrders
  BY DEF PayInv
<1>1. ASSUME UNCHANGED <<notices, paid>>, \A o \in Purchases : HasOrder(o)' <=> HasOrder(o)
      PROVE  NoticesCounted'
  <2>1. MadeBills' = MadeBills
    BY <1>1 DEF MadeBills
  <2> QED BY <1>1, <2>1 DEF NoticesCounted
<1>2. ASSUME UNCHANGED <<notices, paid, bill>> PROVE NoticesCounted'
  BY <1>1, <1>2 DEF HasOrder
<1>3. ASSUME NEW o \in Purchases, HasOrder(o), SayPaid(o), UNCHANGED bill PROVE NoticesCounted'
  <2>1. MadeBills' = MadeBills /\ o \in MadeBills
    BY <1>3 DEF MadeBills, HasOrder
  <2>2. CASE paid
    <3>1. UNCHANGED <<notices, paid>>
      BY <1>3, <2>2 DEF SayPaid, Silent
    <3> QED BY <2>1, <3>1 DEF NoticesCounted
  <2>3. CASE ~paid
    <3>1. notices' = notices + 1 /\ paid'
      BY <1>3, <2>3 DEF SayPaid, Say
    <3> QED BY <2>1, <2>3, <3>1, BillsAreFinite DEF NoticesCounted
  <2> QED BY <2>2, <2>3
<1>4. CASE UNCHANGED payVars \/ LoadEnds \/ GrowsOtherwise \/ CheckFinds
  <2>1. UNCHANGED <<notices, paid, bill>>
    BY <1>4 DEF payVars, LoadEnds, GrowsOtherwise, CheckFinds
  <2> QED BY <1>2, <2>1
<1>5. CASE CancelPayment
  BY <1>2, <1>5 DEF CancelPayment
<1>6. ASSUME NEW o \in Purchases, Pays(o) PROVE NoticesCounted'
  <2>1. UNCHANGED <<notices, paid>> /\ bill' = [bill EXCEPT ![o].paid = TRUE]
    BY <1>6 DEF Pays
  <2> PICK b : b = [bill[o] EXCEPT !.paid = TRUE]
    OBVIOUS
  <2>b. b \in Bills /\ b.st = bill[o].st
    BY <1>0 DEF PayShape, Bills
  <2>2. \A p \in Purchases : bill'[p] = IF p = o THEN b ELSE bill[p]
    BY <1>0, <2>1, <2>b, OneBill
  <2>3. \A p \in Purchases : HasOrder(p)' <=> HasOrder(p)
    BY <2>2, <2>b DEF HasOrder
  <2> QED BY <1>1, <2>1, <2>3
<1>7. ASSUME NEW o \in Purchases, Subscribe(o) \/ SubscribeInWechat(o) PROVE NoticesCounted'
  <2>1. UNCHANGED <<notices, paid>> /\ bill[o].st = "none"
    BY <1>7 DEF Subscribe, SubscribeInWechat
  <2>2. PICK b : bill' = [bill EXCEPT ![o] = b] /\ b.st = "asked"
    <3>1. CASE Subscribe(o)
      <4> DEFINE b == [st |-> "asked", form |-> "native", before |-> Before, paid |-> FALSE]
      <4>1. bill' = [bill EXCEPT ![o] = b] /\ b.st = "asked"
        BY <3>1 DEF Subscribe
      <4> HIDE DEF b
      <4> QED BY <4>1
    <3>2. CASE SubscribeInWechat(o)
      <4> DEFINE b == [st |-> "asked", form |-> "jsapi", before |-> 0, paid |-> FALSE]
      <4>1. bill' = [bill EXCEPT ![o] = b] /\ b.st = "asked"
        BY <3>2 DEF SubscribeInWechat
      <4> HIDE DEF b
      <4> QED BY <4>1
    <3> QED BY <1>7, <3>1, <3>2
  <2>3. \A p \in Purchases : bill'[p] = IF p = o THEN b ELSE bill[p]
    BY <1>0, <2>2 DEF PayShape
  <2>4. \A p \in Purchases : HasOrder(p)' <=> HasOrder(p)
    BY <2>1, <2>2, <2>3 DEF HasOrder
  <2> QED BY <1>1, <2>1, <2>4
<1>8. ASSUME NEW o \in Purchases, NEW st \in {"made", "failed"},
             bill' = [bill EXCEPT ![o].st = st], UNCHANGED <<notices, paid>>,
             bill[o].st = IF st = "made" THEN "drawing" ELSE "asked"
      PROVE  NoticesCounted'
  <2>0. st \in {"drawing", "made", "failed"}
    OBVIOUS
  <2>1. PICK b \in Bills : bill' = [bill EXCEPT ![o] = b] /\ b.st = st
    <3> PICK b : b = [bill[o] EXCEPT !.st = st]
      OBVIOUS
    <3>1. b \in Bills /\ b.st = st
      BY <1>0, <2>0 DEF PayShape, Bills
    <3>2. bill' = [bill EXCEPT ![o] = b]
      BY <1>8
    <3> QED BY <3>1, <3>2
  <2>2. \A p \in Purchases : bill'[p] = IF p = o THEN b ELSE bill[p]
    BY <1>0, <2>1, OneBill
  <2>3. \A p \in Purchases : HasOrder(p)' <=> HasOrder(p)
    BY <1>8, <2>1, <2>2 DEF HasOrder
  <2> QED BY <1>1, <1>8, <2>3
<1>9. ASSUME NEW o \in Purchases, OrderFails(o) \/ Drawn(o) PROVE NoticesCounted'
  BY <1>8, <1>9 DEF OrderFails, Drawn
<1>10. ASSUME NEW o \in Purchases, Ordered(o) PROVE NoticesCounted'
  <2>1. PICK st \in {"drawing", "made"} : bill' = [bill EXCEPT ![o].st = st]
    BY <1>10 DEF Ordered
  <2>2. bill[o].st = "asked" /\ paid' = FALSE /\ notices' = notices
    BY <1>10 DEF Ordered
  <2>0. st \in {"drawing", "made", "failed"}
    OBVIOUS
  <2>3. PICK b \in Bills : bill' = [bill EXCEPT ![o] = b] /\ b.st = st
    BY <1>0, <2>0, <2>1, BillMoves, ZenonT(30)
  <2>4. \A p \in Purchases : bill'[p] = IF p = o THEN b ELSE bill[p]
    BY <1>0, <2>3, OneBill
  <2>5. MadeBills' = MadeBills \cup {o} /\ o \notin MadeBills
    BY <2>2, <2>3, <2>4 DEF MadeBills, HasOrder
  <2>6. Cardinality(MadeBills') = Cardinality(MadeBills) + 1
    BY <2>5, BillsAreFinite, FS_AddElement
  <2> QED BY <2>2, <2>6, BillsAreFinite DEF NoticesCounted
<1>11. ASSUME NEW o \in Purchases, ClockFinds(o) \/ FiveMinutes(o) PROVE NoticesCounted'
  BY <1>2, <1>11 DEF ClockFinds, FiveMinutes
<1>12. ASSUME NEW o \in Purchases, ClockAnswered(o) \/ CheckAnswered(o) PROVE NoticesCounted'
  <2>1. SayPaid(o) /\ UNCHANGED bill /\ (clock[o].found \/ check[o])
    BY <1>12 DEF ClockAnswered, CheckAnswered
  <2>2. HasOrder(o)
    BY <1>0, <2>1 DEF OfOrders, HasOrder
  <2> QED BY <1>3, <2>1, <2>2
<1> QED BY <1>4, <1>5, <1>6, <1>7, <1>9, <1>10, <1>11, <1>12 DEF PayNext

\* What the page calls paid is paid, unless the account moved for another
\* reason, and it says so at most once for an order: pollUntilPaid, checkNow and
\* onPaid of pages.tsx, for any number of orders, loads that fail, dialogs that
\* are closed and answers that come late.
THEOREM PaidMeansPaid == PaySpec => []PaidIsPaid
<1>1. PayInv /\ NoticesCounted => PaidIsPaid
  <2> SUFFICES ASSUME PayInv, NoticesCounted PROVE PaidIsPaid
    OBVIOUS
  <2>1. mistaken => grown > 0 \/ blind \/ \E o \in Purchases : bill[o].paid
    BY DEF PayInv, Unmoved, Moved
  <2>2. notices <= Cardinality({o \in Purchases : bill[o].st \in {"drawing", "made"}})
    BY DEF NoticesCounted, MadeBills, HasOrder
  <2> QED BY <2>1, <2>2 DEF PaidIsPaid
<1>2. PayInit => PayInv /\ NoticesCounted
  BY PayStart, NoticesStart
<1>3. PayInv /\ NoticesCounted /\ [PayNext]_payVars => (PayInv /\ NoticesCounted)'
  BY PayStep, NoticesStep
<1> QED BY <1>1, <1>2, <1>3, PTL DEF PaySpec
=============================================================================
