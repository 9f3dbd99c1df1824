------------------------------- MODULE Directory -------------------------------
(* Where a host is: the tables of relay nodes and the assignment of hosts to them,
   the in-memory directory of presence, and the hub's own tunnels.

   The relay nodes are programs of their own; here are the requests they make of
   the hub (register, heartbeat, host events, sync, leave, assign) and, marked
   external, the little of them that the hub relies on: a node that runs repeats
   its heartbeat with the list of the tunnels it has.  Each handler is a request
   in flight: one step per awaited statement.                                  *)
EXTENDS Naturals, FiniteSets

CONSTANTS
  RelayHosts,     \* hosts that connect
  Nodes,          \* relay nodes
  NoNode, Hub,    \* no assignment; the tunnel that ends at the hub itself
  Calls,          \* bound: requests in flight, 1 .. n
  Capacity,       \* per node; 0 is unlimited
  DirScenarios    \* bounds: which requests and faults come, how many of them

ASSUME DirectoryAssumption ==
  /\ IsFiniteSet(RelayHosts) /\ IsFiniteSet(Nodes)
  /\ NoNode \notin Nodes /\ Hub \notin Nodes /\ NoNode # Hub
  /\ Capacity \in [Nodes -> Nat] /\ Calls \subseteq Nat

VARIABLES
  node,        \* the table nodes: status, enabled, last_heartbeat
  home,        \* hosts.node_id
  byHost,      \* presence: the entry of a host
  byNode,      \* presence: the hosts of a node
  link,        \* where the tunnel of a host is (external, but for the hub's own)
  up,          \* the process of a node runs (external)
  call,        \* requests in flight
  faults,      \* bound: what went wrong so far
  dirUse,      \* the scenario
  stray        \* history: hosts whose assignment a late request took away

dirVars == <<node, home, byHost, byNode, link, up, call, faults, dirUse, stray>>
presence == <<byHost, byNode>>

Free == [op |-> "free", n |-> NoNode, h |-> CHOOSE h \in RelayHosts : TRUE, hs |-> {}, on |-> FALSE,
         row |-> NoNode, at |-> ""]
Absent == [n |-> NoNode, at |-> "fresh"]
Exists(n) == n \in Nodes /\ node[n].st \notin {"none", "gone"}
LinksAt(n) == {h \in RelayHosts : link[h] = n}

\* pickNode: online, enabled and with room; the weights order them in any way.
Eligible == {n \in Nodes : /\ node[n].st = "online" /\ node[n].on
                           /\ Capacity[n] # 0 => Cardinality({h \in RelayHosts : home[h] = n}) < Capacity[n]}

\* ---------------------------------------------------------------------------
\* Requests.
\* (the first free one: which it is does not matter)
Unused(c) == call[c] = Free /\ \A d \in Calls : d < c => call[d] # Free
Comes(c, op) == Unused(c) /\ op \in dirUse.ops
At(c, op, at) == call[c].op = op /\ call[c].at = at
Go(c, at) == call' = [call EXCEPT ![c].at = at]
Ends(c) == call' = [call EXCEPT ![c] = Free]
Fault(k) == k \in dirUse.ops /\ faults < dirUse.faults /\ faults' = faults + 1
NoFault == UNCHANGED <<faults, dirUse, stray>>

\* UPDATE nodes ... WHERE id = n: nothing without the row.
SetNode(n, f, v) == node' = IF Exists(n) THEN [node EXCEPT ![n][f] = v] ELSE node
Alive(n) == node' = IF Exists(n) /\ node[n].st = "offline" THEN [node EXCEPT ![n].st = "online"] ELSE node

\* ---------------------------------------------------------------------------
\* The directory of presence.
SetNodeHosts(n, hs) ==
  /\ byHost' = [h \in RelayHosts |-> IF h \in hs THEN [n |-> n, at |-> "fresh"]
                                     ELSE IF h \in byNode[n] /\ byHost[h].n = n THEN Absent ELSE byHost[h]]
  /\ byNode' = [byNode EXCEPT ![n] = hs]
SetPresence(h, n, on) ==
  /\ byHost' = [byHost EXCEPT ![h] = IF on THEN [n |-> n, at |-> "fresh"] ELSE Absent]
  /\ byNode' = [byNode EXCEPT ![n] = IF on THEN @ \cup {h} ELSE @ \ {h}]

\* An entry that was not renewed for the lifetime goes when it is read (isOnline)
\* or swept.
ExpirePresence ==
  /\ \E h \in RelayHosts : byHost[h].n # NoNode /\ byHost[h].at = "stale" /\ SetPresence(h, byHost[h].n, FALSE)
  /\ UNCHANGED <<node, home, link, up, call>> /\ NoFault

\* isHostOnline, and where handleHttp sends a browser.
Online(h) == IF home[h] # NoNode THEN byHost[h].n # NoNode /\ byHost[h].at = "fresh" ELSE link[h] = Hub
Route(h) == IF Exists(home[h]) /\ node[home[h]].st = "online" THEN home[h] ELSE Hub

\* ---------------------------------------------------------------------------
\* N1: a new node joins, disabled until an administrator enables it; a known one
\* comes back.
RegisterNew(c) ==
  \E n \in Nodes :
    /\ Comes(c, "join") /\ node[n].st = "none"
    /\ node' = [node EXCEPT ![n] = [st |-> "online", on |-> FALSE, hb |-> "never"]]
    /\ up' = [up EXCEPT ![n] = TRUE]
    /\ UNCHANGED <<home, presence, link, call>> /\ NoFault

NodeRegister(c) ==
  \/ /\ \E n \in Nodes : Comes(c, "register") /\ up[n] /\ Exists(n)
                         /\ call' = [call EXCEPT ![c] = [Free EXCEPT !.op = "register", !.n = n, !.at = "alive"]]
     /\ UNCHANGED <<node, home, presence, link, up>> /\ NoFault
  \/ /\ At(c, "register", "alive") /\ Alive(call[c].n) /\ Ends(c)
     /\ UNCHANGED <<home, presence, link, up>> /\ NoFault

\* N2: the node sends the list of its tunnels (one heartbeat at a time); the hub
\* writes the time, the status, reads the hosts that are assigned, replaces the
\* presence of the node, and writes the figures and once more the time.
Beating(n) == \E c \in Calls : call[c].op = "beat" /\ call[c].n = n

BeatSent(c) ==
  /\ \E n \in Nodes : /\ Unused(c) /\ up[n] /\ Exists(n) /\ ~Beating(n)
                      /\ call' = [call EXCEPT ![c] = [Free EXCEPT !.op = "beat", !.n = n, !.hs = LinksAt(n), !.at = "time"]]
  /\ UNCHANGED <<node, home, presence, link, up>> /\ NoFault

NodeHeartbeat(c) ==
  /\ \/ At(c, "beat", "time") /\ SetNode(call[c].n, "hb", "fresh") /\ Go(c, "alive") /\ UNCHANGED presence
     \/ At(c, "beat", "alive") /\ Alive(call[c].n) /\ Go(c, "list") /\ UNCHANGED presence
     \/ /\ At(c, "beat", "list")
        /\ call' = [call EXCEPT ![c].hs = {h \in @ : home[h] = call[c].n}, ![c].at = "set"]
        /\ UNCHANGED <<node, presence>>
     \/ /\ At(c, "beat", "set") /\ SetNodeHosts(call[c].n, call[c].hs) /\ Go(c, "metric") /\ UNCHANGED node
     \/ /\ At(c, "beat", "metric") /\ (SetNode(call[c].n, "hb", "fresh") \/ UNCHANGED node)     \* or it fails
        /\ Ends(c) /\ UNCHANGED presence
  /\ UNCHANGED <<home, link, up>> /\ NoFault

\* N4: one host came or went.  Answers 409 when the host belongs to another node;
\* adopts it when it belongs to none.
EventSent(c) ==
  /\ \E n \in Nodes, h \in RelayHosts :
       /\ Comes(c, "event") /\ up[n] /\ Exists(n)
       /\ call' = [call EXCEPT ![c] = [Free EXCEPT !.op = "event", !.n = n, !.h = h, !.on = (link[h] = n), !.at = "host"]]
  /\ Fault("event") /\ UNCHANGED <<node, home, presence, link, up, dirUse, stray>>

NodeHosts(c) ==
  /\ \/ /\ At(c, "event", "host")
        /\ IF home[call[c].h] \notin {NoNode, call[c].n} THEN Ends(c)
           ELSE Go(c, IF call[c].on /\ home[call[c].h] = NoNode THEN "adopt" ELSE "set")
        /\ UNCHANGED <<home, presence, stray>>
     \/ /\ At(c, "event", "adopt") /\ home' = [home EXCEPT ![call[c].h] = call[c].n] /\ Go(c, "set") /\ UNCHANGED presence
        /\ stray' = IF link[call[c].h] # call[c].n THEN stray \cup {call[c].h} ELSE stray
     \/ At(c, "event", "set") /\ SetPresence(call[c].h, call[c].n, call[c].on) /\ Ends(c) /\ UNCHANGED <<home, stray>>
  /\ UNCHANGED <<node, link, up, faults, dirUse>>

\* N5: a node that was read as draining gets, for each of its hosts, a ticket to
\* another node; its gateways end their tunnels (the node that they then dial
\* without an assignment refuses them, and they come back to the hub).
NodeSync ==
  /\ \E n \in Nodes : /\ up[n] /\ Exists(n) /\ node[n].st = "draining" /\ Eligible # {}
                      /\ \E h \in LinksAt(n) : home[h] = n /\ link' = [link EXCEPT ![h] = NoNode]
  /\ UNCHANGED <<node, home, presence, up, call>> /\ NoFault

\* leave by the node, revoke by an administrator: the hosts that are listed are
\* released one by one, then the row goes.
NodeLeave(c) ==
  /\ \E n \in Nodes : Comes(c, "leave") /\ Exists(n)
       /\ call' = [call EXCEPT ![c] = [Free EXCEPT !.op = "leave", !.n = n, !.at = "release", !.hs = {h \in RelayHosts : home[h] = n}]]
  /\ UNCHANGED <<node, home, presence, link, up>> /\ Fault("leave") /\ UNCHANGED <<dirUse, stray>>

RevokeNode(c) ==
  /\ At(c, "leave", "release")
  /\ IF call[c].hs = {} THEN /\ node' = [node EXCEPT ![call[c].n].st = "gone"] /\ Ends(c) /\ UNCHANGED <<home, stray>>
     ELSE \E h \in call[c].hs : /\ home' = [home EXCEPT ![h] = NoNode] /\ call' = [call EXCEPT ![c].hs = @ \ {h}]
                                /\ stray' = IF home[h] # call[c].n THEN stray \cup {h} ELSE stray
                                /\ UNCHANGED node
  /\ UNCHANGED <<presence, link, up, faults, dirUse>>

\* assign: the node shows the token of the redirect, and has the tunnel.
NodeAssign(c) ==
  /\ At(c, "dial", "redirected")
  /\ LET n == call[c].n IN link' = IF up[n] /\ Exists(n) THEN [link EXCEPT ![call[c].h] = n] ELSE link
  /\ Ends(c)
  /\ UNCHANGED <<node, home, presence, up>> /\ NoFault

\* ---------------------------------------------------------------------------
\* Administrators and the command line: two statements each.
CreateNode(c) ==
  \E n \in Nodes :
    /\ Comes(c, "create") /\ node[n].st = "none"
    /\ node' = [node EXCEPT ![n] = [st |-> "online", on |-> TRUE, hb |-> "never"]]
    /\ UNCHANGED <<home, presence, link, up, call>> /\ NoFault

Toggle(c, op, on, st) ==
  \/ /\ \E n \in Nodes : Comes(c, op) /\ Exists(n)
          /\ call' = [call EXCEPT ![c] = [Free EXCEPT !.op = op, !.n = n, !.at = "flag"]]
     /\ UNCHANGED <<node, home, presence, link, up>> /\ Fault(op) /\ UNCHANGED <<dirUse, stray>>
  \/ /\ \/ At(c, op, "flag") /\ SetNode(call[c].n, "on", on) /\ Go(c, "status")
        \/ At(c, op, "status") /\ SetNode(call[c].n, "st", st) /\ Ends(c)
     /\ UNCHANGED <<home, presence, link, up>> /\ NoFault

EnableNode(c) == Toggle(c, "enable", TRUE, "online")

DisableNode(c) == Toggle(c, "disable", FALSE, "draining")

\* ---------------------------------------------------------------------------
\* A gateway dials the hub: its node if that is online, else one that is picked,
\* else the hub itself.  Old gateways do not follow a redirect.
Dialling(h) == \E c \in Calls : call[c].op = "dial" /\ call[c].h = h

TunnelUpgrade(c) ==
  /\ \E h \in RelayHosts :
       /\ Unused(c) /\ link[h] = NoNode /\ ~Dialling(h)
       /\ call' = [call EXCEPT ![c] = [Free EXCEPT !.op = "dial", !.h = h, !.row = home[h],
                                        !.at = IF ~dirUse.follow THEN "direct" ELSE IF home[h] = NoNode THEN "pick" ELSE "node"]]
  /\ UNCHANGED <<node, home, presence, link, up>> /\ NoFault

PickNode(c) ==
  /\ \/ /\ At(c, "dial", "node")
        /\ IF Exists(call[c].row) /\ node[call[c].row].st = "online"
           THEN call' = [call EXCEPT ![c].n = call[c].row, ![c].at = "assign"] ELSE Go(c, "pick")
     \/ /\ At(c, "dial", "pick")
        /\ IF Eligible = {} THEN Go(c, "direct")
           ELSE \E n \in Eligible : call' = [call EXCEPT ![c].n = n, ![c].at = "assign"]
  /\ UNCHANGED <<node, home, presence, link, up>> /\ NoFault

\* Without a node the assignment that was read is taken back.
\* (a form that leaves it)
ReleasedNot(h, row) == home' = home

Released(h, row) == home' = IF row # NoNode THEN [home EXCEPT ![h] = NoNode] ELSE home

AssignNode(c) ==
  /\ \/ /\ At(c, "dial", "assign") /\ home' = [home EXCEPT ![call[c].h] = call[c].n] /\ Go(c, "redirected")
        /\ stray' = stray \ {call[c].h} /\ UNCHANGED link
     \/ At(c, "dial", "direct") /\ Released(call[c].h, call[c].row) /\ Go(c, "upgrade") /\ UNCHANGED <<link, stray>>
     \/ At(c, "dial", "upgrade") /\ link' = [link EXCEPT ![call[c].h] = Hub] /\ Ends(c) /\ UNCHANGED <<home, stray>>
  /\ UNCHANGED <<node, presence, up, faults, dirUse>>

\* ---------------------------------------------------------------------------
\* Time: a node that is not heard for 90 s, and the timer that marks it.
Ages ==
  /\ \E n \in Nodes :
       \/ /\ ~(up[n] /\ Exists(n)) /\ node[n].hb = "fresh"
          /\ node' = [node EXCEPT ![n].hb = "stale"] /\ UNCHANGED byHost
       \/ /\ \E h \in RelayHosts :
               /\ byHost[h] = [n |-> n, at |-> "fresh"]
               /\ ~(up[n] /\ Exists(n) /\ link[h] = n /\ home[h] = n)      \* no heartbeat renews it
               /\ byHost' = [byHost EXCEPT ![h].at = "stale"]
          /\ UNCHANGED node
  /\ UNCHANGED <<home, byNode, link, up, call>> /\ NoFault

\* The heartbeats of a node that runs are lost or late.
Unheard ==
  /\ Fault("unheard")
  /\ \E n \in Nodes :
       /\ up[n] /\ Exists(n) /\ ~Beating(n)
       /\ node' = IF node[n].hb = "fresh" THEN [node EXCEPT ![n].hb = "stale"] ELSE node
       /\ byHost' = [h \in RelayHosts |-> IF byHost[h].n = n THEN [byHost[h] EXCEPT !.at = "stale"] ELSE byHost[h]]
  /\ UNCHANGED <<home, byNode, link, up, call, dirUse, stray>>

MarkNodesOffline ==
  /\ \E n \in Nodes : node[n].st = "online" /\ node[n].hb = "stale"
  /\ node' = [n \in Nodes |-> IF node[n].st = "online" /\ node[n].hb = "stale" THEN [node[n] EXCEPT !.st = "offline"] ELSE node[n]]
  /\ UNCHANGED <<home, presence, link, up, call>> /\ NoFault

\* External: tunnels break, nodes stop and start.
LinkLost == /\ \E h \in RelayHosts : link[h] # NoNode /\ link' = [link EXCEPT ![h] = NoNode]
            /\ Fault("lost") /\ UNCHANGED <<node, home, presence, up, call, dirUse, stray>>

NodeStops == /\ \E n \in Nodes : /\ up[n] /\ up' = [up EXCEPT ![n] = FALSE]
                                 /\ link' = [h \in RelayHosts |-> IF link[h] = n THEN NoNode ELSE link[h]]
             /\ Fault("stop") /\ UNCHANGED <<node, home, presence, call, dirUse, stray>>

NodeStarts == /\ \E n \in Nodes : ~up[n] /\ Exists(n) /\ up' = [up EXCEPT ![n] = TRUE]
              /\ Fault("start") /\ UNCHANGED <<node, home, presence, link, call, dirUse, stray>>

\* The hub starts again: its tables stay, its memory and its sockets do not.  A
\* release of the hosts of a node ends half done.
HubRestarts ==
  /\ Fault("restart")
  /\ stray' = stray \cup {h \in RelayHosts : link[h] \in Nodes /\ home[h] # link[h]}
  /\ byHost' = [h \in RelayHosts |-> Absent] /\ byNode' = [n \in Nodes |-> {}]
  /\ link' = [h \in RelayHosts |-> IF link[h] = Hub THEN NoNode ELSE link[h]]
  /\ call' = [c \in Calls |-> Free]
  /\ UNCHANGED <<node, home, up, dirUse>>

\* ---------------------------------------------------------------------------
DirectoryInit ==
  /\ dirUse \in DirScenarios
  /\ node = [n \in Nodes |-> IF n \in dirUse.nodes THEN [st |-> "online", on |-> TRUE, hb |-> "fresh"]
                             ELSE [st |-> "none", on |-> FALSE, hb |-> "never"]]
  /\ home = [h \in RelayHosts |-> NoNode]
  /\ byHost = [h \in RelayHosts |-> Absent] /\ byNode = [n \in Nodes |-> {}]
  /\ link = [h \in RelayHosts |-> IF dirUse.dials THEN NoNode ELSE Hub]
  /\ up = [n \in Nodes |-> n \in dirUse.nodes]
  /\ call = [c \in Calls |-> Free]
  /\ faults = 0 /\ stray = {}

\* What goes on by itself once a request is there.
Handling(c) ==
  \/ NodeHeartbeat(c) \/ NodeHosts(c) \/ RevokeNode(c) \/ NodeAssign(c) \/ PickNode(c) \/ AssignNode(c)
  \/ (call[c].op \in {"register", "enable", "disable"} /\ (NodeRegister(c) \/ EnableNode(c) \/ DisableNode(c)))

DirectoryNext ==
  \/ \E c \in Calls : \/ RegisterNew(c) \/ NodeRegister(c) \/ BeatSent(c) \/ NodeHeartbeat(c) \/ EventSent(c) \/ NodeHosts(c)
                      \/ NodeLeave(c) \/ RevokeNode(c) \/ NodeAssign(c) \/ CreateNode(c) \/ EnableNode(c) \/ DisableNode(c)
                      \/ TunnelUpgrade(c) \/ PickNode(c) \/ AssignNode(c)
  \/ ExpirePresence \/ NodeSync \/ Ages \/ Unheard \/ MarkNodesOffline \/ LinkLost \/ NodeStops \/ NodeStarts \/ HubRestarts

\* The hub answers, its timers fire, nodes that run send heartbeats and poll for
\* what to migrate, gateways dial again: all of them repeat what they do.
DirectoryFairness ==
  /\ \A c \in Calls : WF_dirVars(Handling(c))
  /\ \A h \in RelayHosts : SF_dirVars(\E c \in Calls : TunnelUpgrade(c) /\ call'[c].h = h)
  /\ \A n \in Nodes : SF_dirVars(\E c \in Calls : BeatSent(c) /\ call'[c].n = n)
  /\ WF_dirVars(NodeSync) /\ WF_dirVars(ExpirePresence) /\ WF_dirVars(Ages) /\ WF_dirVars(MarkNodesOffline)

DirectorySpec == DirectoryInit /\ [][DirectoryNext]_dirVars /\ DirectoryFairness

\* ---------------------------------------------------------------------------
\* When requests and faults have ended, every host is shown as what it is and a
\* browser is sent to where its tunnel ends, whatever order heartbeats, events,
\* assignments, migrations and the timers had.  (Except a host that a late event or
\* release, or a release cut short by a crash, assigned elsewhere, one whose tunnel ends at a node that was revoked,
\* and one on a node that drains without another to go to.)
Settled(h) ==
  CASE link[h] = NoNode -> ~Online(h)
    [] link[h] # NoNode -> \/ Online(h) /\ Route(h) = link[h]
                           \/ link[h] # Hub /\ ~Exists(link[h])
                           \/ link[h] # Hub /\ node[link[h]].st = "draining" /\ Eligible = {}

DirectoryConverges == <>[](\A h \in RelayHosts : h \in stray \/ Settled(h))
================================================================================
