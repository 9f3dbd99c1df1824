------------------------------ MODULE Heartbeat ------------------------------
(***************************************************************************)
(* The heartbeat of one tunnel connection (hub/src/tunnel.ts and           *)
(* gateway/src/join.ts, the same on both sides), in time.  Every           *)
(* heartbeatMs a side sends a PING and, unless one is armed, arms a        *)
(* deadline of pongTimeoutMs; any binary frame disarms it, and a deadline  *)
(* that passes terminates the connection.                                  *)
(*                                                                         *)
(* Time is discrete, and timers hold what is left of them, so that the     *)
(* behaviours are not cut off.  What is due happens before time goes on,   *)
(* in any order.  A direction of the link can go dead without a word.      *)
(* Frames on their way are a set: two PONGs that would arrive at the same  *)
(* time say no more than one.                                              *)
(***************************************************************************)
EXTENDS Naturals, FiniteSets

CONSTANTS
    HeartbeatMs,    \* heartbeatMs
    PongTimeoutMs,  \* pongTimeoutMs
    Delay           \* what a frame takes at most

ASSUME HeartbeatAssumption ==
    /\ {HeartbeatMs, PongTimeoutMs} \subseteq Nat \ {0}
    /\ Delay \in Nat

Sides == {"hub", "gateway"}
Peer(s) == CHOOSE t \in Sides : t # s

Kinds == {"PING", "PONG", "FIN"}
Frames == [to : Sides, kind : Kinds, left : 0..Delay]

\* No deadline is armed.
Unarmed == PongTimeoutMs + 1

\* A side notices that its peer has become silent within this time.
Notice == HeartbeatMs + PongTimeoutMs

VARIABLES
    open,      \* the side's WebSocket is open
    beat,      \* time to its next heartbeat
    deadline,  \* time to its deadline, if armed
    frames,    \* frames on their way
    dead,      \* sides that nothing can reach any more
    quiet      \* for how long

beatVars == <<open, beat, deadline, frames, dead, quiet>>

BeatTypeOK ==
    /\ open \in [Sides -> BOOLEAN]
    /\ beat \in [Sides -> 0..HeartbeatMs]
    /\ deadline \in [Sides -> 0..Unarmed]
    /\ frames \subseteq Frames
    /\ dead \subseteq Sides
    /\ quiet \in [Sides -> 0..Notice + Delay + 1]

\* The two sides open at about the same time: their heartbeats have any phase.
BeatInit ==
    /\ open = [s \in Sides |-> TRUE]
    /\ beat \in [Sides -> 1..HeartbeatMs]
    /\ deadline = [s \in Sides |-> Unarmed]
    /\ frames = {}
    /\ dead = {}
    /\ quiet = [s \in Sides |-> 0]

\* What is sent to a side that nothing can reach is lost.
Send(s, k) ==
    IF s \in dead THEN {} ELSE {[to |-> s, kind |-> k, left |-> Delay]}

\* Mutant: every PING starts the deadline anew.
ArmAlways(d) == PongTimeoutMs

\* A deadline that is armed goes on.
Arm(d) == IF d = Unarmed THEN PongTimeoutMs ELSE d

Beat(s) ==
    /\ open[s] /\ beat[s] = 0
    /\ beat' = [beat EXCEPT ![s] = HeartbeatMs]
    /\ deadline' = [deadline EXCEPT ![s] = Arm(@)]
    /\ frames' = frames \cup Send(Peer(s), "PING")
    /\ UNCHANGED <<open, dead, quiet>>

\* Mutant: an answer does not disarm the deadline.
NeverDisarm(s, k) == deadline

\* Any frame is a sign of life.
Disarm(s, k) == [deadline EXCEPT ![s] = Unarmed]

Pong(s, k) == IF k = "PING" THEN Send(Peer(s), "PONG") ELSE {}

Receive(f) ==
    LET s == f.to
    IN  /\ f \in frames /\ f.kind # "FIN"
        /\ IF open[s]
           THEN /\ deadline' = Disarm(s, f.kind)
                /\ frames' = (frames \ {f}) \cup Pong(s, f.kind)
           ELSE /\ frames' = frames \ {f}
                /\ UNCHANGED deadline
        /\ UNCHANGED <<open, beat, dead, quiet>>

\* "close": both timers are cleared.
Closed(s) ==
    /\ open' = [open EXCEPT ![s] = FALSE]
    /\ deadline' = [deadline EXCEPT ![s] = Unarmed]

\* Mutant: the side forgets the connection without ending it.
Silent(s) == {}

\* terminate() destroys the socket, and TCP tells the peer if it can.
Terminated(s) == Send(Peer(s), "FIN")

Expire(s) ==
    /\ open[s] /\ deadline[s] = 0
    /\ Closed(s)
    /\ frames' = frames \cup Terminated(s)
    /\ UNCHANGED <<beat, dead, quiet>>

\* The peer has closed the connection.
Hangup(f) ==
    /\ f \in frames /\ f.kind = "FIN"
    /\ Closed(f.to)
    /\ frames' = frames \ {f}
    /\ UNCHANGED <<beat, dead, quiet>>

-----------------------------------------------------------------------------
(* The link and the time                                                   *)

\* From now on nothing reaches these sides, and they are not told.
Cut(S) ==
    /\ dead = {}
    /\ dead' = S
    /\ frames' = {f \in frames : f.to \notin S}
    /\ UNCHANGED <<open, beat, deadline, quiet>>

Due ==
    \/ \E s \in Sides : open[s] /\ (beat[s] = 0 \/ deadline[s] = 0)
    \/ \E f \in frames : f.left = 0

Tick ==
    /\ ~Due
    /\ beat' = [s \in Sides |-> IF open[s] THEN beat[s] - 1 ELSE beat[s]]
    /\ deadline' = [s \in Sides |->
          IF deadline[s] = Unarmed THEN Unarmed ELSE deadline[s] - 1]
    /\ frames' = {[f EXCEPT !.left = @ - 1] : f \in frames}
    /\ quiet' = [s \in Sides |->
          IF s \in dead /\ quiet[s] <= Notice + Delay THEN quiet[s] + 1 ELSE quiet[s]]
    /\ UNCHANGED <<open, dead>>

BeatNext ==
    \/ \E s \in Sides : Beat(s) \/ Expire(s)
    \/ \E f \in frames : Receive(f) \/ Hangup(f)
    \/ \E S \in (SUBSET Sides) \ {{}} : Cut(S)
    \/ Tick

BeatSpec == BeatInit /\ [][BeatNext]_beatVars

-----------------------------------------------------------------------------
(* Properties                                                              *)

\* A side that nothing reaches any more closes within a heartbeat and a
\* timeout, also when heartbeats are closer together than the timeout, so that
\* its deadline is still armed when it sends the next PING.
SilenceNoticed == \A s \in Sides : open[s] => quiet[s] <= Notice

\* A side that still receives, while its own frames are lost, is told by the
\* other side's termination.
HalfOpenEnds ==
    \A s \in Sides :
        dead = {Peer(s)} /\ open[s] => quiet[Peer(s)] <= Notice + Delay

\* A link that answers in time is never given up, whatever the phases of the
\* two heartbeats.
LiveLinkKept == dead = {} => \A s \in Sides : open[s]
=============================================================================
