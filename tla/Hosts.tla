--------------------------------- MODULE Hosts ---------------------------------
(* The hosts of accounts: how one is bound (a code that is scanned and approved, or
   a join token), shared, renamed, given an LLM key, and revoked.

   A request in flight is a row of hostReq; a step is an awaited statement of the
   store.  The limits on requests per address only refuse requests and are left
   out; what a revocation does to the tunnel is in module Tunnel.               *)
EXTENDS Naturals, FiniteSets

CONSTANTS
  Owners, Nobody,   \* accounts
  Boxes,            \* ids of hosts, drawn in any order
  Scans,            \* bind sessions
  Invites,          \* join tokens
  HostQuota,        \* how many hosts an account may have
  HostCalls,        \* bound: requests in flight, 1 .. n
  HostScenarios     \* bounds: which requests come

ASSUME HostsAssumption == /\ HostQuota \in Nat /\ IsFiniteSet(Boxes) /\ HostCalls \subseteq Nat
                          /\ Nobody \notin Owners \cup Scans

VARIABLES
  box,      \* hosts: the row, its owner, the session or token it came from, its name
  scan,     \* bind_sessions: status, owner, whether it is past its time
  invite,   \* join_tokens
  shared,   \* host_share
  llmKey,   \* llm_keys: how many of a host are active
  hostReq,  \* requests in flight
  hostUse,  \* the scenario
  told,     \* history: accounts that were told that the session is theirs
  twice,    \* history: sessions consumed by requests that overlapped or crashed
  late      \* history: hosts revoked, or given another key, while a key was made

hostVars == <<box, scan, invite, shared, llmKey, hostReq, hostUse, told, twice, late>>
history == <<told, twice, late>>

FreeReq == [op |-> "free", at |-> "", b |-> CHOOSE b \in Boxes : TRUE, s |-> CHOOSE s \in Scans : TRUE,
            o |-> Nobody, seen |-> ""]
Idle(c) == hostReq[c] = FreeReq /\ \A d \in HostCalls : d < c => hostReq[d] # FreeReq
Asks(c, op) == Idle(c) /\ op \in hostUse.ops
In(c, op, at) == hostReq[c].op = op /\ hostReq[c].at = at
Step(c, at) == hostReq' = [hostReq EXCEPT ![c].at = at]
Replies(c) == hostReq' = [hostReq EXCEPT ![c] = FreeReq]
Request(c, r) == hostReq' = [hostReq EXCEPT ![c] = r]

Owned(o) == {b \in Boxes : box[b].st = "live" /\ box[b].owner = o}
Row(b) == box[b].st \in {"live", "revoked"}
FindHostByToken(b) == box[b].st = "live"

\* hostQuota, and the count of the account's hosts.
Full(o) == Cardinality(Owned(o)) >= HostQuota

CreateHost(o, from) ==
  \E b \in Boxes : box[b].st = "none" /\ box' = [box EXCEPT ![b] = [st |-> "live", owner |-> o, from |-> from, name |-> "given"]]

\* ---------------------------------------------------------------------------
\* The bind session: created for a box, approved by an account, consumed by the box.
CreateBindSession(c) ==
  /\ \E s \in Scans : Asks(c, "bind") /\ scan[s].st = "none" /\ scan' = [scan EXCEPT ![s].st = "pending"]
  /\ UNCHANGED <<box, invite, shared, llmKey, hostReq, hostUse, history>>

ApproveBindSession(c) ==
  \E s \in Scans, o \in Owners :
    /\ Asks(c, "approve") /\ scan[s].st \notin {"none", "gone"}
    /\ LET mine == scan[s].st = "approved" /\ scan[s].owner = o IN
       /\ told' = IF mine THEN told \cup {<<s, o>>} ELSE told
       /\ IF scan[s].st = "pending" /\ ~scan[s].old
          THEN Request(c, [FreeReq EXCEPT !.op = "approve", !.s = s, !.o = o, !.at = "quota"]) ELSE UNCHANGED hostReq
    /\ UNCHANGED <<box, scan, invite, shared, llmKey, hostUse, twice, late>>

\* UPDATE ... WHERE status = 'pending'
\* (a form without the guard)
AnyStatus(s) == scan[s].st # "gone"
StillPending(s) == scan[s].st = "pending"

ApproveRow(c) ==
  /\ \/ In(c, "approve", "quota") /\ (IF Full(hostReq[c].o) THEN Replies(c) ELSE Step(c, "write")) /\ UNCHANGED <<scan, told>>
     \/ /\ In(c, "approve", "write") /\ Replies(c)
        /\ LET s == hostReq[c].s  o == hostReq[c].o IN
           IF StillPending(s) THEN scan' = [scan EXCEPT ![s].st = "approved", ![s].owner = o] /\ told' = told \cup {<<s, o>>}
           ELSE UNCHANGED <<scan, told>>
  /\ UNCHANGED <<box, invite, shared, llmKey, hostUse, twice, late>>

\* The row is read, the host made, and the session marked; nobody looks whether the
\* mark was set.
ConsumeBindSession(c) ==
  /\ \/ \E s \in Scans :
          /\ Asks(c, "consume") /\ scan[s].st = "approved" /\ ~scan[s].old
          /\ Request(c, [FreeReq EXCEPT !.op = "consume", !.s = s, !.o = scan[s].owner, !.at = "create"])
          /\ twice' = IF \E d \in HostCalls : hostReq[d].op = "consume" /\ hostReq[d].s = s THEN twice \cup {s} ELSE twice
          /\ UNCHANGED <<box, scan>>
     \/ /\ In(c, "consume", "create") /\ CreateHost(hostReq[c].o, hostReq[c].s) /\ Step(c, "mark") /\ UNCHANGED <<scan, twice>>
     \/ /\ In(c, "consume", "mark") /\ Replies(c) /\ UNCHANGED <<box, twice>>
        /\ scan' = IF scan[hostReq[c].s].st = "approved" THEN [scan EXCEPT ![hostReq[c].s].st = "consumed"] ELSE scan
  /\ UNCHANGED <<invite, shared, llmKey, hostUse, told, late>>

\* Five minutes or the token's time pass; the timer deletes old sessions.
Expires ==
  /\ \/ \E s \in Scans : scan[s].st # "none" /\ ~scan[s].old /\ scan' = [scan EXCEPT ![s].old = TRUE] /\ UNCHANGED invite
     \/ \E j \in Invites : invite[j].st = "valid" /\ ~invite[j].old /\ invite' = [invite EXCEPT ![j].old = TRUE] /\ UNCHANGED scan
  /\ UNCHANGED <<box, shared, llmKey, hostReq, hostUse, history>>

PruneBindSessions ==
  /\ \E s \in Scans : scan[s].old /\ scan[s].st # "gone"
  /\ scan' = [s \in Scans |-> IF scan[s].old THEN [scan[s] EXCEPT !.st = "gone"] ELSE scan[s]]
  /\ UNCHANGED <<box, invite, shared, llmKey, hostReq, hostUse, history>>

\* ---------------------------------------------------------------------------
\* Join tokens: good for any number of hosts until they expire or are revoked.
CreateJoinToken(c) ==
  /\ \E j \in Invites, o \in Owners : /\ Asks(c, "invite") /\ invite[j].st = "none"
                                      /\ invite' = [invite EXCEPT ![j] = [st |-> "valid", owner |-> o, old |-> FALSE]]
  /\ UNCHANGED <<box, scan, shared, llmKey, hostReq, hostUse, history>>

RevokeJoinToken(c) ==
  /\ \E j \in Invites : Asks(c, "uninvite") /\ invite[j].st = "valid" /\ invite' = [invite EXCEPT ![j].st = "revoked"]
  /\ UNCHANGED <<box, scan, shared, llmKey, hostReq, hostUse, history>>

Register(c) ==
  /\ \/ \E j \in Invites : /\ Asks(c, "register") /\ invite[j].st = "valid" /\ ~invite[j].old
                           /\ Request(c, [FreeReq EXCEPT !.op = "register", !.o = invite[j].owner, !.at = "quota"]) /\ UNCHANGED box
     \/ In(c, "register", "quota") /\ (IF Full(hostReq[c].o) THEN Replies(c) ELSE Step(c, "create")) /\ UNCHANGED box
     \/ In(c, "register", "create") /\ CreateHost(hostReq[c].o, Nobody) /\ Replies(c)
  /\ UNCHANGED <<scan, invite, shared, llmKey, hostUse, history>>

\* ---------------------------------------------------------------------------
\* Name and reported type: the first also of a revoked host.
RenameHost(c) ==
  /\ \E b \in Boxes : Asks(c, "rename") /\ Row(b) /\ box' = [box EXCEPT ![b].name = "new"]
  /\ UNCHANGED <<scan, invite, shared, llmKey, hostReq, hostUse, history>>

HostMeta(c) ==
  /\ \/ \E b \in Boxes : /\ Asks(c, "meta") /\ FindHostByToken(b) /\ UNCHANGED box
                         /\ Request(c, [FreeReq EXCEPT !.op = "meta", !.b = b, !.at = "set"])
     \/ /\ In(c, "meta", "set") /\ Replies(c)
        /\ box' = IF box[hostReq[c].b].st = "live" THEN [box EXCEPT ![hostReq[c].b].name = "reported"] ELSE box
  /\ UNCHANGED <<scan, invite, shared, llmKey, hostUse, history>>

\* Shares: the owner is looked up first; the row may have been revoked since.
ShareHost(c) ==
  /\ \/ \E b \in Boxes, o \in Owners : /\ Asks(c, "share") /\ Row(b) /\ o # box[b].owner /\ UNCHANGED shared
                                       /\ Request(c, [FreeReq EXCEPT !.op = "share", !.b = b, !.o = o, !.at = "write"])
     \/ /\ In(c, "share", "write") /\ Replies(c)
        /\ shared' = IF Row(hostReq[c].b) THEN shared \cup {<<hostReq[c].b, hostReq[c].o>>} ELSE shared
  /\ UNCHANGED <<box, scan, invite, llmKey, hostUse, history>>

RevokeShare(c) ==
  /\ \E b \in Boxes, o \in Owners : Asks(c, "unshare") /\ Row(b) /\ shared' = shared \ {<<b, o>>}
  /\ UNCHANGED <<box, scan, invite, llmKey, hostReq, hostUse, history>>

\* ---------------------------------------------------------------------------
\* The LLM key that a host asks for with its token: the old ones go, then the new one.
KeyAsked(c) ==
  /\ \E b \in Boxes : /\ Asks(c, "key") /\ FindHostByToken(b)
                      /\ Request(c, [FreeReq EXCEPT !.op = "key", !.b = b, !.seen = box[b].st, !.at = "owner"])
                      /\ late' = IF \E d \in HostCalls : hostReq[d].op = "key" /\ hostReq[d].b = b THEN late \cup {b} ELSE late
  /\ UNCHANGED <<box, scan, invite, shared, llmKey, hostUse, told, twice>>

HostLlmKey(c) ==
  LET b == hostReq[c].b IN
  /\ \/ /\ In(c, "key", "owner") /\ UNCHANGED <<llmKey, late>>
        /\ IF box[b].owner \in hostUse.inactive THEN Replies(c) ELSE Step(c, "delete")
     \/ /\ In(c, "key", "delete") /\ llmKey' = [llmKey EXCEPT ![b] = 0] /\ Step(c, "create") /\ UNCHANGED late
     \/ /\ In(c, "key", "create") /\ llmKey' = [llmKey EXCEPT ![b] = @ + 1] /\ Replies(c)
        /\ late' = IF box[b].st # "live" /\ hostReq[c].seen = "live" THEN late \cup {b} ELSE late
  /\ UNCHANGED <<box, scan, invite, shared, hostUse, told, twice>>

\* ---------------------------------------------------------------------------
\* Revocation by the owner, by the host itself, or by an administrator: the row,
\* then its keys.
RevokeHost(c) ==
  \E b \in Boxes, by \in {"owner", "self", "admin"} :
    /\ Asks(c, "revoke") /\ IF by = "self" THEN FindHostByToken(b) ELSE Row(b)
    /\ Request(c, [FreeReq EXCEPT !.op = "revoke", !.b = b, !.at = "record"])
    /\ UNCHANGED <<box, scan, invite, shared, llmKey, hostUse, history>>

RevokeHostRecord(c) ==
  LET b == hostReq[c].b IN
  /\ \/ /\ In(c, "revoke", "record") /\ Step(c, "keys") /\ UNCHANGED llmKey
        /\ box' = IF box[b].st = "live" THEN [box EXCEPT ![b].st = "revoked"] ELSE box
     \/ In(c, "revoke", "keys") /\ llmKey' = [llmKey EXCEPT ![b] = 0] /\ Replies(c) /\ UNCHANGED box
  /\ UNCHANGED <<scan, invite, shared, hostUse, history>>

\* The command line, and the retention of free accounts, delete the row and its
\* shares; its keys stay.
RemoveHost(c) ==
  /\ \/ \E b \in Boxes : /\ Asks(c, "remove") /\ Row(b) /\ UNCHANGED <<box, shared>>
                         /\ Request(c, [FreeReq EXCEPT !.op = "remove", !.b = b, !.at = "shares"])
     \/ /\ In(c, "remove", "shares") /\ shared' = {p \in shared : p[1] # hostReq[c].b} /\ Step(c, "row") /\ UNCHANGED box
     \/ /\ In(c, "remove", "row") /\ UNCHANGED shared
        /\ Replies(c)      \* the foreign key refuses it when a share was added meanwhile
        /\ box' = IF \E p \in shared : p[1] = hostReq[c].b THEN box ELSE [box EXCEPT ![hostReq[c].b].st = "gone"]
  /\ UNCHANGED <<scan, invite, llmKey, hostUse, history>>

PurgeExpiredFreeHosts ==
  /\ \E o \in Owners : /\ "purge" \in hostUse.ops /\ Owned(o) # {}
                       /\ box' = [b \in Boxes |-> IF Row(b) /\ box[b].owner = o THEN [box[b] EXCEPT !.st = "gone"] ELSE box[b]]
                       /\ shared' = {p \in shared : box[p[1]].owner # o}
  /\ UNCHANGED <<scan, invite, llmKey, hostReq, hostUse, history>>

\* The hub dies: requests end where they are.
HostsCrash ==
  /\ "crash" \in hostUse.ops /\ hostReq' = [c \in HostCalls |-> FreeReq]
  /\ twice' = twice \cup {hostReq[c].s : c \in {d \in HostCalls : In(d, "consume", "mark")}}
  /\ late' = late \cup {hostReq[c].b : c \in {d \in HostCalls : In(d, "revoke", "keys")}}
  /\ UNCHANGED <<box, scan, invite, shared, llmKey, hostUse, told>>

\* ---------------------------------------------------------------------------
HostsInit ==
  /\ hostUse \in HostScenarios
  /\ box = [b \in Boxes |-> IF b \in hostUse.boxes THEN [st |-> "live", owner |-> CHOOSE o \in Owners : TRUE, from |-> Nobody, name |-> "given"]
                            ELSE [st |-> "none", owner |-> Nobody, from |-> Nobody, name |-> "given"]]
  /\ scan = [s \in Scans |-> [st |-> "none", owner |-> Nobody, old |-> FALSE]]
  /\ invite = [j \in Invites |-> [st |-> "none", owner |-> Nobody, old |-> FALSE]]
  /\ shared = {} /\ llmKey = [b \in Boxes |-> 0]
  /\ hostReq = [c \in HostCalls |-> FreeReq]
  /\ told = {} /\ twice = {} /\ late = {}

HostsNext ==
  \/ \E c \in HostCalls :
       \/ CreateBindSession(c) \/ ApproveBindSession(c) \/ ApproveRow(c) \/ ConsumeBindSession(c)
       \/ CreateJoinToken(c) \/ RevokeJoinToken(c) \/ Register(c) \/ RenameHost(c) \/ HostMeta(c)
       \/ ShareHost(c) \/ RevokeShare(c) \/ KeyAsked(c) \/ HostLlmKey(c)
       \/ RevokeHost(c) \/ RevokeHostRecord(c) \/ RemoveHost(c)
  \/ Expires \/ PruneBindSessions \/ PurgeExpiredFreeHosts \/ HostsCrash

HostsSpec == HostsInit /\ [][HostsNext]_hostVars

\* ---------------------------------------------------------------------------
\* A code on a screen makes one box the box of one account: two accounts are never
\* both told that it is theirs, the host belongs to the one that was told, and there
\* is one host (unless two requests of the box overlapped, or the hub died between
\* the host and the mark).
HostClaimed ==
  \A s \in Scans :
    /\ \A p, r \in told : p[1] = s /\ r[1] = s => p = r
    /\ \A b \in Boxes : box[b].from = s => <<s, box[b].owner>> \in told
    /\ s \in twice \/ Cardinality({b \in Boxes : box[b].from = s}) <= 1

\* An active LLM key belongs to a host that is not revoked, and there is one of each
\* host, when no revocation is under way.  (Except when the host was revoked, or
\* asked once more, between the look-up and the key, and after a crash in the middle;
\* the rows that the command line and the retention delete leave their key.)
KeysFollowHosts ==
  \A b \in Boxes \ late :
    /\ llmKey[b] <= 1
    /\ llmKey[b] > 0 => \/ box[b].st # "revoked"
                        \/ \E c \in HostCalls : In(c, "revoke", "keys") /\ hostReq[c].b = b

\* Hosts, the answers about them and their keys agree.
HostsConsistent == HostClaimed /\ KeysFollowHosts
================================================================================
