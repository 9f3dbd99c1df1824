------------------------------- MODULE Routers -------------------------------
(***************************************************************************)
(* The routers that serve the models and the voice of the hub, and the     *)
(* pool of upstream keys they are given (packages/hub/src/internal-llm.ts, *)
(* internal-voice.ts, llm-upstream-keys.ts, the routes of the administra-  *)
(* tor in api.ts and pg-store/llm-catalog.ts).                             *)
(*                                                                         *)
(* A router joins with a one-time token and gets a token of its own; an    *)
(* administrator approves it; it then fetches its configuration, with an   *)
(* upstream key, and reports what to charge.  Every request is a sequence  *)
(* of single statements, so that those of two requests interleave.         *)
(***************************************************************************)
EXTENDS Integers, FiniteSets

CONSTANTS RouterIds, UpstreamKeys, RouterCalls, Orders,
          Absent,        \* no router, no key
          MaxOrders,     \* bound: requests of administrators
          MaxHubCrashes  \* bound: crashes of the hub

ASSUME RoutersAssumption ==
    MaxOrders \in Nat /\ MaxHubCrashes \in Nat /\ Absent \notin UpstreamKeys \cup RouterIds

VARIABLES service,   \* what the join token, the routers and the pool are for
          joinToken,
          access,    \* the service token of each router
          status,    \* llm_routers.status
          pool,      \* llm_upstream_keys
          sticky,    \* the key a router keeps for ten minutes, in the hub's memory
          request,     \* the requests of routers
          order,     \* the requests of administrators
          ordered, hubCrashes,
          retired,   \* keys whose revocation was answered
          removed    \* routers whose deletion was answered

routersVars == <<service, joinToken, access, status, pool, sticky, request, order,
                 ordered, hubCrashes, retired, removed>>

NoVisit == [at |-> "idle", router |-> Absent, key |-> Absent, before |-> {}]
NoOrder == [at |-> "idle", on |-> Absent, set |-> "none"]

RoutersInit ==
    /\ service \in {"llm", "voice"}
    /\ joinToken = [used |-> FALSE, expired |-> FALSE]
    /\ access = [r \in RouterIds |-> "none"] /\ status = [r \in RouterIds |-> "none"]
    /\ pool = [k \in UpstreamKeys |-> [enabled |-> TRUE, revoked |-> FALSE]]
    /\ sticky = [r \in RouterIds |-> Absent]
    /\ request = [v \in RouterCalls |-> NoVisit] /\ order = [o \in Orders |-> NoOrder]
    /\ ordered = 0 /\ hubCrashes = 0 /\ retired = {} /\ removed = {}

Stands(v, at) == request' = [request EXCEPT ![v].at = at]
Leaves(v) == request' = [request EXCEPT ![v] = NoVisit]

(***************************************************************************)
(* Joining                                                                 *)
(***************************************************************************)
JoinTokenExpires ==
    /\ ~joinToken.expired
    /\ joinToken' = [joinToken EXCEPT !.expired = TRUE]
    /\ UNCHANGED <<service, access, status, pool, sticky, request, order, ordered, hubCrashes, retired, removed>>

FindJoinToken(v) ==
    /\ request[v].at = "idle" /\ ~joinToken.used /\ ~joinToken.expired
    /\ Stands(v, "mark")
    /\ UNCHANGED <<service, joinToken, access, status, pool, sticky, order, ordered, hubCrashes, retired, removed>>

MarkUsed(v) ==
    /\ request[v].at = "mark"
    /\ IF joinToken.used THEN Leaves(v) /\ UNCHANGED joinToken     \* 409
       ELSE joinToken' = [joinToken EXCEPT !.used = TRUE] /\ Stands(v, "token")
    /\ UNCHANGED <<service, access, status, pool, sticky, order, ordered, hubCrashes, retired, removed>>

MakeAccess(v) ==
    /\ request[v].at = "token"
    /\ \E r \in RouterIds :
          /\ access[r] = "none"
          /\ access' = [access EXCEPT ![r] = "live"]
          /\ request' = [request EXCEPT ![v].at = "router", ![v].router = r]
    /\ UNCHANGED <<service, joinToken, status, pool, sticky, order, ordered, hubCrashes, retired, removed>>

MakeRouter(v) ==
    /\ request[v].at = "router"
    /\ status' = [status EXCEPT ![request[v].router] = "pending"] /\ Leaves(v)
    /\ UNCHANGED <<service, joinToken, access, pool, sticky, order, ordered, hubCrashes, retired, removed>>

(***************************************************************************)
(* A router fetches its configuration                                      *)
(***************************************************************************)
(* authenticateService: only the service token is looked at.  A router that *)
(* reports (authorize, settle, release, voice usage) is then served; what   *)
(* that does to the balances is in Credits.                                 *)
Authenticate(v, r) ==
    /\ request[v].at = "idle" /\ access[r] = "live"
    /\ \E at \in {"status", "report"} :
          request' = [request EXCEPT ![v] = [at |-> at, router |-> r, key |-> Absent, before |-> retired]]
    /\ UNCHANGED <<service, joinToken, access, status, pool, sticky, order, ordered, hubCrashes, retired, removed>>

Report(v) ==
    /\ request[v].at = "report" /\ Leaves(v)
    /\ UNCHANGED <<service, joinToken, access, status, pool, sticky, order, ordered, hubCrashes, retired, removed>>

Approved(v) ==
    /\ request[v].at = "status"
    /\ IF status[request[v].router] = "active" THEN Stands(v, "keys") ELSE Leaves(v)   \* 403
    /\ UNCHANGED <<service, joinToken, access, status, pool, sticky, order, ordered, hubCrashes, retired, removed>>

(* (a form that asks only for enabled keys) *)

listEnabledKeys == {k \in UpstreamKeys : pool[k].enabled /\ ~pool[k].revoked}

(* (a form that serves the kept key without looking at the pool) *)
KeepsKey(r) == IF sticky[r] # Absent THEN {sticky[r]} ELSE listEnabledKeys

(* The keys that may be picked: the one the router holds on to while it is  *)
(* in the pool, else any (the weights decide which).  Voice holds on to none.*)
Candidates(r) ==
    IF service = "llm" /\ sticky[r] \in listEnabledKeys THEN {sticky[r]} ELSE listEnabledKeys

pickUpstreamKey(v) ==
    /\ request[v].at = "keys"
    /\ LET r == request[v].router IN
       IF listEnabledKeys = {} THEN Leaves(v) /\ UNCHANGED sticky    \* 503
       ELSE \E k \in Candidates(r) :
               /\ request' = [request EXCEPT ![v].at = "answer", ![v].key = k]
               /\ sticky' = IF service = "llm" THEN [sticky EXCEPT ![r] = k] ELSE sticky
    /\ UNCHANGED <<service, joinToken, access, status, pool, order, ordered, hubCrashes, retired, removed>>

Configured(v) ==
    /\ request[v].at = "answer" /\ Leaves(v)
    /\ UNCHANGED <<service, joinToken, access, status, pool, sticky, order, ordered, hubCrashes, retired, removed>>

StickyExpires(r) ==
    /\ sticky[r] # Absent
    /\ sticky' = [sticky EXCEPT ![r] = Absent]
    /\ UNCHANGED <<service, joinToken, access, status, pool, request, order, ordered, hubCrashes, retired, removed>>

(***************************************************************************)
(* The administrator                                                       *)
(***************************************************************************)
(* getLlmRouter: the row of the router is only looked for. *)
BeginRouter(o, r) ==
    /\ order[o].at = "idle" /\ ordered < MaxOrders /\ status[r] # "none"
    /\ \E set \in {"active", "disabled", "revoked"} :
          order' = [order EXCEPT ![o] = [at |-> "router", on |-> r, set |-> set]]
    /\ ordered' = ordered + 1
    /\ UNCHANGED <<service, joinToken, access, status, pool, sticky, request, hubCrashes, retired, removed>>

(* setLlmRouterStatus and setLlmRouterEnabled: whatever the status was. *)
SetStatus(o) ==
    /\ order[o].at = "router"
    /\ status' = [status EXCEPT ![order[o].on] = order[o].set]
    /\ order' = [order EXCEPT ![o] = IF order[o].set = "revoked" THEN [@ EXCEPT !.at = "token"] ELSE NoOrder]
    /\ UNCHANGED <<service, joinToken, access, pool, sticky, request, ordered, hubCrashes, retired, removed>>

RevokeAccess(o) ==
    /\ order[o].at = "token"
    /\ access' = [access EXCEPT ![order[o].on] = "revoked"]
    /\ removed' = removed \cup {order[o].on}
    /\ order' = [order EXCEPT ![o] = NoOrder]
    /\ UNCHANGED <<service, joinToken, status, pool, sticky, request, ordered, hubCrashes, retired>>

RevokeKey(k) ==
    /\ ordered < MaxOrders
    /\ pool' = [pool EXCEPT ![k] = [enabled |-> FALSE, revoked |-> TRUE]]
    /\ retired' = retired \cup {k} /\ ordered' = ordered + 1
    /\ UNCHANGED <<service, joinToken, access, status, sticky, request, order, hubCrashes, removed>>

(* updateLlmUpstreamKey reads the row, and writes back every field that the *)
(* request does not name.                                                   *)
BeginUpdate(o, k) ==
    /\ order[o].at = "idle" /\ ordered < MaxOrders /\ ~pool[k].revoked
    /\ \E set \in {"on", "off", IF pool[k].enabled THEN "on" ELSE "off"} :
          order' = [order EXCEPT ![o] = [at |-> "key", on |-> k, set |-> set]]
    /\ ordered' = ordered + 1
    /\ UNCHANGED <<service, joinToken, access, status, pool, sticky, request, hubCrashes, retired, removed>>

WriteUpdate(o) ==
    /\ order[o].at = "key"
    /\ pool' = [pool EXCEPT ![order[o].on].enabled = (order[o].set = "on")]
    /\ order' = [order EXCEPT ![o] = NoOrder]
    /\ UNCHANGED <<service, joinToken, access, status, sticky, request, ordered, hubCrashes, retired, removed>>

(* Requests end where they are, and what the hub remembered is gone. *)
HubCrashes ==
    /\ hubCrashes < MaxHubCrashes
    /\ hubCrashes' = hubCrashes + 1
    /\ request' = [v \in RouterCalls |-> NoVisit] /\ order' = [o \in Orders |-> NoOrder]
    /\ sticky' = [r \in RouterIds |-> Absent]
    /\ UNCHANGED <<service, joinToken, access, status, pool, ordered, retired, removed>>

RoutersNext ==
    \/ JoinTokenExpires
    \/ \E v \in RouterCalls :
          \/ FindJoinToken(v) \/ MarkUsed(v) \/ MakeAccess(v) \/ MakeRouter(v)
          \/ \E r \in RouterIds : Authenticate(v, r)
          \/ Report(v) \/ Approved(v) \/ pickUpstreamKey(v) \/ Configured(v)
    \/ \E r \in RouterIds : StickyExpires(r)
    \/ \E o \in Orders :
          \/ \E r \in RouterIds : BeginRouter(o, r)
          \/ SetStatus(o) \/ RevokeAccess(o)
          \/ \E k \in UpstreamKeys : BeginUpdate(o, k)
          \/ WriteUpdate(o)
    \/ \E k \in UpstreamKeys : RevokeKey(k)
    \/ HubCrashes

RoutersSpec == RoutersInit /\ [][RoutersNext]_routersVars

RoutersTypeOK ==
    /\ access \in [RouterIds -> {"none", "live", "revoked"}]
    /\ status \in [RouterIds -> {"none", "pending", "active", "disabled", "revoked"}]
    /\ sticky \in [RouterIds -> UpstreamKeys \cup {Absent}]
    /\ retired \subseteq UpstreamKeys /\ removed \subseteq RouterIds

(* A join token makes one router, however many requests present it at the   *)
(* same time and whenever the hub dies; and once the administrator was told *)
(* that a router is deleted its token opens nothing, and once told that a   *)
(* key is revoked no request begun later is given it: although approvals    *)
(* and updates that began before still write afterwards, and a router holds *)
(* on to its key.                                                           *)
RetiredOut ==
    /\ Cardinality({r \in RouterIds : access[r] # "none"}) <= 1
    /\ \A r \in removed : access[r] # "live"
    /\ \A v \in RouterCalls : request[v].at = "answer" => request[v].key \notin request[v].before
=============================================================================
