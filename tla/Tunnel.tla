------------------------------- MODULE Tunnel -------------------------------
(***************************************************************************)
(* The tunnel of one host: the gateway processes that may serve the host   *)
(* (startJoin of gateway/src/join.ts, one instance per process, all with   *)
(* the same host token and the same join lock file), the hub's tunnel      *)
(* endpoint and registry (handleTunnelUpgrade of hub/src/server.ts,        *)
(* TunnelConn and TunnelRegistry of hub/src/tunnel.ts), and the revocation *)
(* paths of hub/src/api.ts and hub-cli/src/bin.ts.                         *)
(*                                                                         *)
(* A connection is a slot of Conns.  Each end keeps its own view of the    *)
(* socket; a slot is free again when both ends have seen it close.  Every  *)
(* "await" of the hub's handshake is a step of its own, so the handshakes  *)
(* of several gateways, revocations and close callbacks interleave as the  *)
(* event loop lets them.  The streams the tunnel carries are in module     *)
(* StreamMux, the timing of the heartbeat in module Heartbeat, the files   *)
(* behind the lock in module JoinLock.                                     *)
(***************************************************************************)
EXTENDS Naturals

CONSTANTS
    Gateways,       \* processes that run startJoin for this host
    Conns,          \* connection slots
    None,           \* no connection, no lock holder
    DeadPid,        \* the lock file names a process that no longer exists
    Follow,         \* does the gateway send x-rdsh-relay-follow: 1
    HandshakeLoss,  \* may a link go silent before the upgrade is answered
    RevokePaths,    \* subset of {"user", "admin", "cli"}
    MaxFaults       \* bound on everything the environment does at will

ASSUME TunnelAssumption ==
    /\ None \notin Gateways \cup Conns \cup {DeadPid}
    /\ DeadPid \notin Gateways
    /\ Follow \in BOOLEAN
    /\ HandshakeLoss \in BOOLEAN
    /\ RevokePaths \subseteq {"user", "admin", "cli"}
    /\ MaxFaults \in Nat

VARIABLES
    gs,        \* state of each gateway instance, as onState reports it
    cur,       \* its currentClient
    redir,     \* redirectTarget is set (to a relay node)
    conn,      \* the connection slots
    lock,      \* whose pid the join lock file holds
    registry,  \* TunnelRegistry's entry for the host
    event,     \* the last event pushed to the owner's portal
    hostNode,  \* hosts.node_id is not null
    nodeAlive, \* the relay node is running (external)
    nodeOn,    \* nodes.status = "online", as the hub's database has it
    tokenOk,   \* the host token still resolves to a host
    rv,        \* progress of a revocation
    faults

vars == <<gs, cur, redir, conn, lock, registry, event, hostNode, nodeAlive,
          nodeOn, tokenOk, rv, faults>>
hubVars  == <<registry, event, hostNode, tokenOk, rv>>
nodeVars == <<nodeAlive, nodeOn>>

ActiveStates == {"connecting", "connected", "reconnecting"}
ShutStates   == {"rejected", "superseded", "stopped"}
GwStates     == {"idle", "dead"} \cup ActiveStates \cup ShutStates

\* The hub's side of a slot: request not yet read; awaiting pickNode and
\* setHostNode(node); awaiting setHostNode(null); ready for handleUpgrade;
\* upgraded; terminated with its close callback to come; gone.
HubEnds   == {"none", "assign", "clear", "upgrade", "open", "closing", "closed"}
GwEnds    == {"connecting", "open", "closing", "closed"}
Responses == {"none", "101", "307", "revoked", "transient"}

ConnRec == [via: {"hub", "node"}, ga: GwEnds, ha: HubEnds, resp: Responses,
            rej: {"none", "hub", "transient"}, up: BOOLEAN, node: BOOLEAN]

TypeOK ==
    /\ gs \in [Gateways -> GwStates]
    /\ cur \in [Gateways -> Conns \cup {None}]
    /\ redir \in [Gateways -> BOOLEAN]
    /\ conn \in [Conns -> ConnRec]
    /\ lock \in Gateways \cup {None, DeadPid}
    /\ registry \in Conns \cup {None}
    /\ event \in {"host.online", "host.offline"}
    /\ hostNode \in BOOLEAN
    /\ nodeAlive \in BOOLEAN /\ nodeOn \in BOOLEAN
    /\ tokenOk \in BOOLEAN
    /\ rv \in {"idle", "keys", "record", "done"}
    /\ faults \in 0..MaxFaults

FreeConn == [via |-> "hub", ga |-> "closed", ha |-> "closed", resp |-> "none",
             rej |-> "none", up |-> TRUE, node |-> FALSE]

Init ==
    /\ gs = [g \in Gateways |-> "idle"]
    /\ cur = [g \in Gateways |-> None]
    /\ redir = [g \in Gateways |-> FALSE]
    /\ conn = [c \in Conns |-> FreeConn]
    /\ lock = None
    /\ registry = None
    /\ event = "host.offline"
    /\ hostNode = FALSE
    /\ nodeAlive \in {Follow, FALSE}
    /\ nodeOn = nodeAlive
    /\ tokenOk = TRUE
    /\ rv = "idle"
    /\ faults = 0

Fault == faults < MaxFaults /\ faults' = faults + 1

Free(c)   == conn[c].ga = "closed" /\ conn[c].ha = "closed"
HubGone(c) == conn[c].ha \in {"closing", "closed"}
GwGone(c)  == conn[c].ga \in {"closing", "closed"}
Active(g) == gs[g] \in ActiveStates

-----------------------------------------------------------------------------
(* The gateway                                                             *)

\* The redirect target survives the dial that uses it.
DialSticky(g, c) ==
    /\ Free(c)
    /\ conn' = [conn EXCEPT ![c] =
                  [FreeConn EXCEPT !.via = IF redir[g] THEN "node" ELSE "hub",
                                   !.ga = "connecting", !.ha = "none"]]
    /\ cur' = [cur EXCEPT ![g] = c]
    /\ gs' = [gs EXCEPT ![g] = "connecting"]
    /\ UNCHANGED redir

\* connect(): the redirect target is consumed whether or not the dial works.
Dial(g, c) ==
    /\ Free(c)
    /\ conn' = [conn EXCEPT ![c] =
                  [FreeConn EXCEPT !.via = IF redir[g] THEN "node" ELSE "hub",
                                   !.ga = "connecting", !.ha = "none"]]
    /\ cur' = [cur EXCEPT ![g] = c]
    /\ redir' = [redir EXCEPT ![g] = FALSE]
    /\ gs' = [gs EXCEPT ![g] = "connecting"]

\* startJoin: take the lock (a lock left by a dead process is reaped), dial.
Start(g) ==
    /\ gs[g] \in {"idle"} \cup ShutStates
    /\ lock \in {None, DeadPid}
    /\ lock' = g
    /\ \E c \in Conns : Dial(g, c)
    /\ UNCHANGED <<hubVars, nodeVars, faults>>

\* The backoff timer of reconnectSoon fires.
Reconnect(g) ==
    /\ gs[g] = "reconnecting"
    /\ \E c \in Conns : Dial(g, c)
    /\ UNCHANGED <<lock, hubVars, nodeVars, faults>>

GwOpen(g, c) ==
    /\ cur[g] = c
    /\ conn[c].ga = "connecting" /\ conn[c].resp = "101" /\ conn[c].up
    /\ conn' = [conn EXCEPT ![c].ga = "open"]
    /\ gs' = [gs EXCEPT ![g] = "connected"]
    /\ UNCHANGED <<cur, redir, lock, hubVars, nodeVars, faults>>

\* Mutant: any 401/403 is taken as authoritative.
AnyRefusalIsFinal(resp) == IF resp \in {"revoked", "transient"} THEN "hub" ELSE "none"

\* 307 sets the one-shot target; 401/403 is authoritative only with the code
\* HOST_TOKEN_REVOKED.  The socket is then terminated by hand.
RejectSource(resp) == IF resp = "revoked" THEN "hub"
                      ELSE IF resp = "transient" THEN "transient" ELSE "none"

GwUnexpected(g, c) ==
    /\ cur[g] = c
    /\ conn[c].ga = "connecting" /\ conn[c].up
    /\ conn[c].resp \in {"307", "revoked", "transient"}
    /\ redir' = [redir EXCEPT ![g] = @ \/ conn[c].resp = "307"]
    /\ conn' = [conn EXCEPT ![c] =
                  [@ EXCEPT !.ga = "closing", !.rej = RejectSource(conn[c].resp)]]
    /\ UNCHANGED <<gs, cur, lock, hubVars, nodeVars, faults>>

\* A REDIRECT frame whose signature verifies: migrate to another node.
GwRedirectFrame(g, c) ==
    /\ cur[g] = c
    /\ conn[c].ga = "open" /\ conn[c].up /\ conn[c].via = "node"
    /\ conn[c].ha = "open"
    /\ Fault
    /\ redir' = [redir EXCEPT ![g] = TRUE]
    /\ conn' = [conn EXCEPT ![c].ga = "closing"]
    /\ UNCHANGED <<gs, cur, lock, hubVars, nodeVars>>

\* No frame within pongTimeoutMs of a PING (heartbeats start at "open").
GwDeadline(g, c) ==
    /\ cur[g] = c
    /\ conn[c].ga = "open" /\ (~conn[c].up \/ HubGone(c))
    /\ conn' = [conn EXCEPT ![c].ga = "closing"]
    /\ UNCHANGED <<gs, cur, redir, lock, hubVars, nodeVars, faults>>

\* The lock is left behind; the lock is not looked at before a retry.
LockKept(g) == lock
RetryBlindly(g, c) == IF conn[c].rej = "hub" THEN "rejected" ELSE "reconnecting"

Released(g) == IF lock = g THEN None ELSE lock

\* What the close handler decides, in the order of the code: an authoritative
\* refusal, then the lock, then another attempt.
AfterClose(g, c) ==
    IF conn[c].rej = "hub" THEN "rejected"
    ELSE IF lock # g THEN "superseded"
    ELSE "reconnecting"

\* The "close" event: after the gateway's own terminate, or because the hub's
\* end is gone.  A refusal that was written before it is read before it.
GwClose(g, c) ==
    /\ cur[g] = c
    /\ \/ conn[c].ga = "closing"
       \/ conn[c].ga = "open" /\ conn[c].up /\ HubGone(c)
       \/ conn[c].ga = "connecting" /\ conn[c].up /\ HubGone(c)
             /\ conn[c].resp \in {"none", "101"}
    /\ conn' = [conn EXCEPT ![c].ga = "closed"]
    /\ cur' = [cur EXCEPT ![g] = None]
    /\ gs' = [gs EXCEPT ![g] = AfterClose(g, c)]
    /\ lock' = IF AfterClose(g, c) \in ShutStates THEN Released(g) ELSE lock
    /\ redir' = [redir EXCEPT ![g] = @ /\ AfterClose(g, c) \notin ShutStates]
    /\ UNCHANGED <<hubVars, nodeVars, faults>>

DropClient(g) ==
    /\ conn' = [c \in Conns |-> IF cur[g] = c THEN [conn[c] EXCEPT !.ga = "closed"]
                                ELSE conn[c]]
    /\ cur' = [cur EXCEPT ![g] = None]

\* stop(): the pending timer is cancelled, the client terminated, the lock
\* released.  The close event that follows finds shuttingDown and does nothing.
Stop(g) ==
    /\ Active(g)
    /\ Fault
    /\ gs' = [gs EXCEPT ![g] = "stopped"]
    /\ DropClient(g)
    /\ lock' = Released(g)
    /\ redir' = [redir EXCEPT ![g] = FALSE]
    /\ UNCHANGED <<hubVars, nodeVars>>

\* The process dies; its lock file stays and names a dead pid.
Crash(g) ==
    /\ gs[g] # "dead"
    /\ Fault
    /\ gs' = [gs EXCEPT ![g] = "dead"]
    /\ DropClient(g)
    /\ lock' = IF lock = g THEN DeadPid ELSE lock
    /\ redir' = [redir EXCEPT ![g] = FALSE]
    /\ UNCHANGED <<hubVars, nodeVars>>

Restart(g) ==
    /\ gs[g] = "dead"
    /\ gs' = [gs EXCEPT ![g] = "idle"]
    /\ UNCHANGED <<cur, redir, conn, lock, hubVars, nodeVars, faults>>

\* The panel of g removes the lock of another, live process.
ForceUnlock(g) ==
    /\ gs[g] # "dead"
    /\ lock \in Gateways \ {g}
    /\ Fault
    /\ lock' = None
    /\ UNCHANGED <<gs, cur, redir, conn, hubVars, nodeVars>>

-----------------------------------------------------------------------------
(* The hub                                                                 *)

\* The handshake without its token check.
LookupUnchecked(c) ==
    /\ conn[c].ha = "none" /\ conn[c].up /\ conn[c].via = "hub"
    /\ conn' = [conn EXCEPT ![c].node = hostNode,
                            ![c].ha = IF Follow THEN "assign" ELSE "upgrade"]
    /\ UNCHANGED <<gs, cur, redir, lock, hubVars, nodeVars, faults>>

\* findHostByTokenHash, and what the row it returned decides next.
HubLookup(c) ==
    /\ conn[c].ha = "none" /\ conn[c].up /\ conn[c].via = "hub"
    /\ conn' = IF ~tokenOk
               THEN [conn EXCEPT ![c] = [@ EXCEPT !.ha = "closed", !.resp = "revoked"]]
               ELSE [conn EXCEPT ![c] = [@ EXCEPT !.node = hostNode,
                       !.ha = IF Follow THEN "assign"
                              ELSE IF hostNode THEN "clear" ELSE "upgrade"]]
    /\ UNCHANGED <<gs, cur, redir, lock, hubVars, nodeVars, faults>>

\* The sticky node if it is online, else pickNode; setHostNode; 307.  Without
\* a node the gateway is served by the hub itself.
HubAssign(c) ==
    /\ conn[c].ha = "assign"
    /\ IF nodeOn
       THEN /\ hostNode' = TRUE
            /\ conn' = [conn EXCEPT ![c] = [@ EXCEPT !.ha = "closed", !.resp = "307"]]
       ELSE /\ conn' = [conn EXCEPT ![c].ha = IF conn[c].node THEN "clear"
                                              ELSE "upgrade"]
            /\ UNCHANGED hostNode
    /\ UNCHANGED <<gs, cur, redir, lock, registry, event, tokenOk, rv,
                   nodeVars, faults>>

HubClearNode(c) ==
    /\ conn[c].ha = "clear"
    /\ hostNode' = FALSE
    /\ conn' = [conn EXCEPT ![c].ha = "upgrade"]
    /\ UNCHANGED <<gs, cur, redir, lock, registry, event, tokenOk, rv,
                   nodeVars, faults>>

\* TunnelRegistry.register: terminate the tunnel it replaces, then take over.
Register(c) ==
    /\ conn' = [d \in Conns |->
                  IF d = c THEN [conn[c] EXCEPT !.ha = "open", !.resp = "101"]
                  ELSE IF d = registry /\ conn[d].ha = "open"
                       THEN [conn[d] EXCEPT !.ha = "closing"]
                  ELSE conn[d]]
    /\ registry' = c

\* wss.handleUpgrade: a new TunnelConn, registered and announced; nothing at
\* all if the socket is already known to be dead.
HubUpgrade(c) ==
    /\ conn[c].ha = "upgrade"
    /\ \/ /\ Register(c)
          /\ event' = "host.online"
       \/ /\ conn[c].up /\ GwGone(c)
          /\ conn' = [conn EXCEPT ![c].ha = "closed"]
          /\ UNCHANGED <<registry, event>>
    /\ UNCHANGED <<gs, cur, redir, lock, hostNode, tokenOk, rv, nodeVars, faults>>

\* Whatever tunnel is on record leaves.
UnregisterAny(c) == None

\* TunnelRegistry.unregister(hostId, conn): only the tunnel on record leaves.
Unregister(c) == IF registry = c THEN None ELSE registry

\* The onClose callback of TunnelConn: unregister, and announce only if the
\* host is left without a tunnel.
OnClose(c) ==
    /\ registry' = Unregister(c)
    /\ event' = IF registry' = None THEN "host.offline" ELSE event

\* The "close" event on the hub's side.
HubClose(c) ==
    /\ conn[c].via = "hub"
    /\ \/ conn[c].ha = "closing"
       \/ conn[c].ha = "open" /\ conn[c].up /\ GwGone(c)
    /\ conn' = [conn EXCEPT ![c].ha = "closed"]
    /\ OnClose(c)
    /\ UNCHANGED <<gs, cur, redir, lock, hostNode, tokenOk, rv, nodeVars, faults>>

\* "error" precedes "close" when the peer resets: the callback runs twice.
HubError(c) ==
    /\ conn[c].via = "hub"
    /\ conn[c].ha = "open" /\ conn[c].up /\ GwGone(c)
    /\ conn' = [conn EXCEPT ![c].ha = "closing"]
    /\ OnClose(c)
    /\ UNCHANGED <<gs, cur, redir, lock, hostNode, tokenOk, rv, nodeVars, faults>>

\* The hub's own liveness deadline; terminate, the callback comes later.
HubDeadline(c) ==
    /\ conn[c].via = "hub"
    /\ conn[c].ha = "open" /\ (~conn[c].up \/ GwGone(c))
    /\ conn' = [conn EXCEPT ![c].ha = "closing"]
    /\ UNCHANGED <<gs, cur, redir, lock, hubVars, nodeVars, faults>>

\* registry.get(hostId)?.terminate()
Terminated == [c \in Conns |-> IF c = registry /\ conn[c].ha = "open"
                               THEN [conn[c] EXCEPT !.ha = "closing"]
                               ELSE conn[c]]

\* dropHosts of sweepBilling, and the account deletion: no event is pushed.
DropHost ==
    /\ registry # None
    /\ Fault
    /\ conn' = Terminated
    /\ registry' = None
    /\ UNCHANGED <<gs, cur, redir, lock, event, hostNode, tokenOk, rv, nodeVars>>

\* revokeHost of api.ts, before and after its awaits.
RevokeRecord ==
    /\ "user" \in RevokePaths /\ rv = "idle"
    /\ rv' = "keys"
    /\ tokenOk' = FALSE
    /\ hostNode' = FALSE
    /\ UNCHANGED <<gs, cur, redir, conn, lock, registry, event, nodeVars, faults>>

RevokeDrop ==
    /\ rv = "keys"
    /\ rv' = "done"
    /\ conn' = Terminated
    /\ registry' = None
    /\ event' = "host.offline"
    /\ UNCHANGED <<gs, cur, redir, lock, hostNode, tokenOk, nodeVars, faults>>

\* The admin console terminates first and writes the record afterwards.
AdminKick ==
    /\ "admin" \in RevokePaths /\ rv = "idle"
    /\ rv' = "record"
    /\ conn' = Terminated
    /\ UNCHANGED <<gs, cur, redir, lock, registry, event, hostNode, tokenOk,
                   nodeVars, faults>>

AdminRecord ==
    /\ rv = "record"
    /\ rv' = "done"
    /\ tokenOk' = FALSE
    /\ hostNode' = FALSE
    /\ UNCHANGED <<gs, cur, redir, conn, lock, registry, event, nodeVars, faults>>

\* rdsh-hub host revoke: another process, which only deletes the row.
CliRevoke ==
    /\ "cli" \in RevokePaths /\ rv = "idle"
    /\ rv' = "done"
    /\ tokenOk' = FALSE
    /\ hostNode' = FALSE
    /\ UNCHANGED <<gs, cur, redir, conn, lock, registry, event, nodeVars, faults>>

\* The hub process restarts: every socket is reset, memory is empty.
HubRestart ==
    /\ Fault
    /\ conn' = [c \in Conns |-> IF conn[c].via = "hub"
                                THEN [conn[c] EXCEPT !.ha = "closed"] ELSE conn[c]]
    /\ registry' = None
    /\ event' = "host.offline"
    /\ rv' = IF rv \in {"keys", "record"} THEN "done" ELSE rv
    /\ UNCHANGED <<gs, cur, redir, lock, hostNode, tokenOk, nodeVars>>

-----------------------------------------------------------------------------
(* Links and relay nodes (external)                                        *)

\* The link goes silent: no reset reaches either end.
LinkLost(c) ==
    /\ ~Free(c) /\ conn[c].up
    /\ HandshakeLoss \/ conn[c].ga # "connecting"
    /\ Fault
    /\ conn' = [conn EXCEPT ![c].up = FALSE]
    /\ UNCHANGED <<gs, cur, redir, lock, hubVars, nodeVars>>

\* A request that never reaches the server, or a node's end nobody will use.
RequestLost(c) ==
    /\ conn[c].ga = "closed"
    /\ \/ conn[c].ha = "none" /\ ~conn[c].up
       \/ conn[c].via = "node" /\ conn[c].ha \in {"none", "open"}
    /\ conn' = [conn EXCEPT ![c].ha = "closed"]
    /\ UNCHANGED <<gs, cur, redir, lock, hubVars, nodeVars, faults>>

\* A node accepts a tunnel, or refuses an assignment with a plain 401; a node
\* that is down refuses the connection.
NodeAnswer(c) ==
    /\ conn[c].ha = "none" /\ conn[c].up /\ conn[c].via = "node"
    /\ IF nodeAlive
       THEN \/ /\ conn' = [conn EXCEPT ![c] = [@ EXCEPT !.ha = "open", !.resp = "101"]]
               /\ UNCHANGED faults
            \/ /\ conn' = [conn EXCEPT ![c] = [@ EXCEPT !.ha = "closed", !.resp = "transient"]]
               /\ Fault
       ELSE /\ conn' = [conn EXCEPT ![c].ha = "closed"]
            /\ UNCHANGED faults
    /\ UNCHANGED <<gs, cur, redir, lock, hubVars, nodeVars>>

NodeFlip ==
    /\ Follow
    /\ Fault
    /\ nodeAlive' = ~nodeAlive
    /\ conn' = [c \in Conns |-> IF nodeAlive /\ conn[c].via = "node"
                                THEN [conn[c] EXCEPT !.ha = "closed"] ELSE conn[c]]
    /\ UNCHANGED <<gs, cur, redir, lock, hubVars, nodeOn>>

\* The node's heartbeat, or markNodesOffline.
NodeMark ==
    /\ nodeOn # nodeAlive
    /\ nodeOn' = nodeAlive
    /\ UNCHANGED <<gs, cur, redir, conn, lock, hubVars, nodeAlive, faults>>

-----------------------------------------------------------------------------
GatewayStep(g) ==
    \/ Reconnect(g)
    \/ \E c \in Conns : \/ GwOpen(g, c) \/ GwUnexpected(g, c)
                        \/ GwDeadline(g, c) \/ GwClose(g, c)

HubStep(c) ==
    \/ HubLookup(c) \/ HubAssign(c) \/ HubClearNode(c) \/ HubUpgrade(c)
    \/ HubClose(c) \/ HubDeadline(c) \/ RequestLost(c) \/ NodeAnswer(c)

Operator(g) == \/ Start(g) \/ Stop(g) \/ Crash(g) \/ Restart(g) \/ ForceUnlock(g)
               \/ \E c \in Conns : GwRedirectFrame(g, c)

Revocation == RevokeRecord \/ RevokeDrop \/ AdminKick \/ AdminRecord \/ CliRevoke

Environment == \/ DropHost \/ HubRestart \/ NodeFlip
               \/ \E c \in Conns : LinkLost(c) \/ HubError(c)

Next ==
    \/ \E g \in Gateways : GatewayStep(g) \/ Operator(g)
    \/ \E c \in Conns : HubStep(c)
    \/ Revocation
    \/ NodeMark
    \/ Environment

Spec == Init /\ [][Next]_vars

\* Timers, socket events and awaited queries all come; what a person or the
\* network does at will is never owed.
Fairness ==
    /\ \A g \in Gateways : WF_vars(GatewayStep(g))
    /\ \A c \in Conns : WF_vars(HubStep(c))
    /\ WF_vars(NodeMark)
    /\ WF_vars(RevokeDrop) /\ WF_vars(AdminRecord)

FairSpec == Spec /\ Fairness

-----------------------------------------------------------------------------
(* Properties                                                              *)

\* The registry points at a tunnel that is up or being closed, and a tunnel
\* that is up is the one the registry points at: a late close callback of a
\* replaced connection must not take its successor out of the registry (the
\* "false offline" of tunnel.ts), and no second tunnel stays up unseen.
RegistryMatchesTunnels ==
    /\ registry # None => /\ conn[registry].via = "hub"
                          /\ conn[registry].ha \in {"open", "closing"}
    /\ \A c \in Conns : conn[c].via = "hub" /\ conn[c].ha = "open" => registry = c

\* The portal, which sees only pushed events, never shows a connected host as
\* offline, and shows a disconnected one as online only while the callback
\* that will say otherwise is still to run.
PortalAgrees ==
    /\ registry # None => event = "host.online"
    /\ registry = None /\ event = "host.online" =>
          \E c \in Conns : conn[c].via = "hub" /\ conn[c].ha = "closing"

\* A gateway gives up for good only on the authoritative refusal: a refused
\* assignment, a dead node or a race never makes it stop retrying.
RejectedOnlyIfRevoked ==
    \A g \in Gateways : gs[g] = "rejected" => ~tokenOk

\* The lock file never names a gateway that has stopped, and a gateway with a
\* socket is one that is running: stop(), a refusal and a takeover all leave
\* the machine free for the next instance.
StoppedLeavesNothing ==
    \A g \in Gateways : ~Active(g) => lock # g /\ cur[g] = None

\* The token is revoked and nobody the hub let in before is left ...
LockedOut == /\ ~tokenOk
             /\ \A c \in Conns : /\ conn[c].ha \notin {"assign", "clear", "upgrade"}
                                 /\ conn[c].via = "hub" => conn[c].ha # "open"

\* ... then it stays so: whatever is dialled, redirected or restarted, no tunnel
\* of the host gets past the token check and into the registry again.
ReconnectRefused ==
    [][LockedOut => LockedOut' /\ registry' \in {registry, None}]_vars

\* Both ends of the gateway's connection are up and joined.
Served(g) == /\ gs[g] = "connected" /\ cur[g] # None
             /\ conn[cur[g]].ga = "open" /\ conn[cur[g]].ha = "open"
             /\ conn[cur[g]].up

\* A gateway that runs and holds the lock gets a working tunnel, whatever
\* replaced, redirected or silently cut the one before, unless it loses the
\* lock or is shut down: the close handler and the liveness deadline of join.ts
\* never leave it "connected" to nothing or waiting for no timer.
HolderConnects ==
    \A g \in Gateways :
        (Active(g) /\ lock = g) ~> (Served(g) \/ ~Active(g) \/ lock # g)

\* Served by a relay node, where the hub does not look.
AtNode(g) == cur[g] # None /\ conn[cur[g]].via = "node"

\* After a forced takeover the old instance stops once the new one is there:
\* the two never keep evicting each other.  (Only a relay node, which the hub
\* cannot see into, may keep one of them beside the other.)
TakeoverSettles ==
    \A g, h \in Gateways :
        (g # h /\ lock = h /\ Active(g))
            ~> (~Active(g) \/ lock # h \/ AtNode(g) \/ AtNode(h))

\* Revoking the host drops its tunnel (features.md: "a revoked host token
\* drops the tunnel and blocks reconnects").
RevokeDropsTunnel == ~tokenOk ~> registry = None
=============================================================================
