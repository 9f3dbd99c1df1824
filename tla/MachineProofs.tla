---------------------------- MODULE MachineProofs ----------------------------
(***************************************************************************)
(* Proofs about what runs on the machine of a gateway: the lock of join,   *)
(* for every set of processes and inodes and both kinds of file system,    *)
(* the heartbeat, for every interval, timeout and delay, and the usage     *)
(* reporter, for any number of hubs, days, bytes and flushes, and the      *)
(* processes `rdsh serve` and `rdsh join`, for any number of restarts.     *)
(* The modules share no state.                                             *)
(***************************************************************************)
EXTENDS JoinLock, Heartbeat, UsageReporter, Launcher, TLAPS
-----------------------------------------------------------------------------
(* JoinLock: at most one process owns the lock.                            *)

\* What is written under the lock's path is a lock file.
LEMMA FileTypes ==
    ASSUME LockTypeOK
    PROVE  /\ \A p \in Pids, i \in Inodes, b \in BOOLEAN : NewFile(p, i, b) \in LockFile
           /\ file # None => /\ [file EXCEPT !.full = TRUE] \in LockFile
                             /\ [file EXCEPT !.fresh = FALSE] \in LockFile
BY DEF LockTypeOK, NewFile, LockFile

LEMMA NoneIsNoFile == None \notin LockFile
BY JoinLockAssumption DEF LockFile

\* The end of a deletion, and of an attempt.
LEMMA RetryType ==
    ASSUME LockTypeOK, NEW p \in Pids, Retry(p)
    PROVE  /\ pc' \in [Pids -> Calls]
           /\ tries' \in [Pids -> 0..2]
           /\ snap' \in [Pids -> LockFile \cup {None}]
<1>1. pc' \in [Pids -> Calls]
  BY DEF Retry, LockTypeOK, Calls
<1>2. tries' \in [Pids -> 0..2]
  <2> DEFINE n == IF AttemptsLeft(p) THEN tries[p] + 1 ELSE 0
  <2>1. n \in 0..2
    BY DEF AttemptsLeft, Attempts, LockTypeOK
  <2>2. tries' = [tries EXCEPT ![p] = n]
    BY DEF Retry
  <2> QED
    BY <2>1, <2>2 DEF LockTypeOK
<1>3. snap' \in [Pids -> LockFile \cup {None}]
  BY DEF Retry, LockTypeOK
<1> QED
  BY <1>1, <1>2, <1>3

LEMMA AfterDeleteType ==
    ASSUME LockTypeOK, NEW p \in Pids, NEW removed \in BOOLEAN, AfterDelete(p, removed)
    PROVE  /\ pc' \in [Pids -> Calls]
           /\ op' \in [Pids -> {"acquire", "narrow", "wide"}]
           /\ tries' \in [Pids -> 0..2]
           /\ snap' \in [Pids -> LockFile \cup {None}]
<1>1. CASE op[p] = "acquire"
  BY <1>1, RetryType DEF AfterDelete, LockTypeOK
<1>2. CASE op[p] # "acquire"
  BY <1>2 DEF AfterDelete, LockTypeOK, Calls
<1> QED
  BY <1>1, <1>2

\* Every variable keeps its type; in particular no caller makes a fourth attempt.
THEOREM LockTypes == LockSpec => []LockTypeOK
<1>1. LockInit => LockTypeOK
  BY JoinLockAssumption DEF LockInit, LockTypeOK, Calls
<1>2. LockTypeOK /\ [LockNext]_lockVars => LockTypeOK'
  <2> SUFFICES ASSUME LockTypeOK, [LockNext]_lockVars PROVE LockTypeOK'
    OBVIOUS
  <2> USE DEF LockTypeOK, Calls
  <2>1. CASE Age
    BY <2>1, FileTypes DEF Age
  <2>2. ASSUME NEW p \in Pids, Running(p) PROVE LockTypeOK'
    <3>1. CASE Link(p)
      <4>1. CASE file = None
        <5>1. file' \in LockFile
          <6>1. PICK i \in Inodes : file' = NewFile(p, i, TRUE)
            BY <3>1, <4>1 DEF Link
          <6>2. NewFile(p, i, TRUE) \in LockFile
            BY FileTypes
          <6> QED
            BY <6>1, <6>2
        <5>2. held' \in [Pids -> BOOLEAN]
          BY <3>1, <4>1 DEF Link
        <5> QED
          BY <3>1, <4>1, <5>1, <5>2 DEF Link
      <4>2. CASE file # None
        BY <3>1, <4>2 DEF Link
      <4> QED
        BY <4>1, <4>2
    <3>2. CASE Create(p)
      BY <3>2, FileTypes, ZenonT(30) DEF Create
    <3>3. CASE Write(p)
      BY <3>3, FileTypes DEF Write
    <3>4. CASE Read(p)
      BY <3>4 DEF Read
    <3>5. CASE Snapshot(p)
      BY <3>5, RetryType DEF Snapshot
    <3>6. CASE Compare(p)
      BY <3>6, AfterDeleteType DEF Compare
    <3>7. CASE Delete(p)
      BY <3>7, AfterDeleteType DEF Delete
    <3>8. CASE ReleaseFile(p)
      BY <3>8 DEF ReleaseFile
    <3>9. CASE Probe(p)
      BY <3>9, AfterDeleteType DEF Probe
    <3> QED
      BY <2>2, <3>1, <3>2, <3>3, <3>4, <3>5, <3>6, <3>7, <3>8, <3>9 DEF Running
  <2>3. ASSUME NEW p \in Pids, Acquire(p) PROVE LockTypeOK'
    BY <2>3 DEF Acquire
  <2>4. ASSUME NEW p \in Pids, Release(p) PROVE LockTypeOK'
    BY <2>4 DEF Release
  <2>5. ASSUME NEW p \in Pids, ForceUnlock(p) PROVE LockTypeOK'
    <3>1. PICK gate \in Gates : op' = [op EXCEPT ![p] = gate]
      BY <2>5 DEF ForceUnlock
    <3>2. op' \in [Pids -> {"acquire", "narrow", "wide"}]
      BY <3>1, JoinLockAssumption
    <3>3. snap' \in [Pids -> LockFile \cup {None}] /\ pc' \in [Pids -> Calls]
      BY <2>5 DEF ForceUnlock
    <3> QED
      BY <2>5, <3>2, <3>3 DEF ForceUnlock
  <2>6. ASSUME NEW p \in Pids, Crash(p) PROVE LockTypeOK'
    <3>1. inc' \in [Pids -> 0..MaxCrashes]
      BY <2>6, JoinLockAssumption DEF Crash
    <3> QED
      BY <2>6, <3>1 DEF Crash
  <2>7. ASSUME NEW p \in Pids, Reuse(p) PROVE LockTypeOK'
    BY <2>7, JoinLockAssumption DEF Reuse
  <2>8. CASE UNCHANGED lockVars
    BY <2>8 DEF lockVars
  <2>9. CASE \E p \in Pids : \/ Running(p)
                             \/ Acquire(p) \/ Release(p) \/ ForceUnlock(p)
                             \/ Crash(p) \/ Reuse(p)
    BY <2>2, <2>3, <2>4, <2>5, <2>6, <2>7, <2>9, Zenon
  <2> QED
    BY <2>1, <2>8, <2>9, Zenon DEF LockNext
<1> QED
  BY <1>1, <1>2, PTL DEF LockSpec
-----------------------------------------------------------------------------
\* While nobody dies, a file without its content is one that its creator is
\* about to fill, so nothing is ever reaped; and who has the lock, fills it or
\* is about to remove it has its own file at the path.
NothingReaped ==
    /\ \A p \in Pids : pc[p] \notin {"compare", "delete"}
    /\ \A p \in Pids : pc[p] = "probe" => op[p] = "narrow" /\ snap[p] # None
    /\ file # None /\ ~file.full => file.fresh /\ pc[file.pid] = "write"

OwnFile ==
    \A p \in Pids :
        /\ held[p] => file # None /\ file.pid = p /\ file.full
        /\ pc[p] = "write" => file # None /\ file.pid = p /\ ~file.full
        /\ pc[p] = "release" => file # None /\ file.pid = p /\ file.full /\ ~held[p]

LockInv == /\ \A p \in Pids : life[p] = "rdsh" /\ inc[p] = 0
           /\ NothingReaped
           /\ OwnFile

\* A step that touches neither the file nor heldPaths and enters none of the
\* calls the invariant looks at.
LEMMA LockFrame ==
    ASSUME LockTypeOK, LockInv, UNCHANGED <<life, inc, file, held>>, NEW p \in Pids,
           UNCHANGED op \/ pc'[p] # "probe", UNCHANGED snap \/ pc'[p] # "probe",
           \A q \in Pids \ {p} : op'[q] = op[q] /\ snap'[q] = snap[q] /\ pc'[q] = pc[q],
           pc[p] \notin {"write", "release"},
           pc'[p] \in {"idle", "publish", "read", "snapshot"}
    PROVE  LockInv'
<1>1. NothingReaped'
  <2>1. ASSUME NEW q \in Pids
        PROVE  /\ pc'[q] \notin {"compare", "delete"}
               /\ pc'[q] = "probe" => op'[q] = "narrow" /\ snap'[q] # None
    <3>1. CASE q = p
      BY <3>1
    <3>2. CASE q # p
      BY <3>2 DEF LockInv, NothingReaped
    <3> QED
      BY <3>1, <3>2
  <2>2. ASSUME file' # None, ~file'.full PROVE file'.fresh /\ pc'[file'.pid] = "write"
    <3>1. file.fresh /\ pc[file.pid] = "write" /\ file.pid \in Pids
      BY <2>2 DEF LockInv, NothingReaped, LockTypeOK, LockFile
    <3> QED
      BY <3>1
  <2> QED
    BY <2>1, <2>2 DEF NothingReaped
<1>2. ASSUME NEW q \in Pids
      PROVE  /\ held'[q] => file' # None /\ file'.pid = q /\ file'.full
             /\ pc'[q] = "write" => file' # None /\ file'.pid = q /\ ~file'.full
             /\ pc'[q] = "release" => /\ file' # None /\ file'.pid = q /\ file'.full
                                      /\ ~held'[q]
  BY DEF LockInv, OwnFile
<1> QED
  BY <1>1, <1>2 DEF LockInv, OwnFile

\* As long as no process dies and only the plugin's start forces the lock open,
\* the machine has one holder at most, whatever the file system and however the
\* calls interleave.
THEOREM OneHolder ==
    ASSUME MaxCrashes = 0, Gates \subseteq {"narrow"}
    PROVE  LockSpec => []Exclusive
<1>1. LockInit => LockInv
  BY DEF LockInit, LockInv, NothingReaped, OwnFile
<1>2. LockTypeOK /\ LockInv /\ [LockNext]_lockVars => LockInv'
  <2> SUFFICES ASSUME LockTypeOK, LockInv, [LockNext]_lockVars PROVE LockInv'
    OBVIOUS
  <2>0. \A p \in Pids : IsAlive(p)
    BY DEF LockInv, IsAlive
  <2>1. CASE Age
    <3>1. file \in LockFile /\ file.full
      BY <2>1 DEF Age, LockInv, NothingReaped, LockTypeOK, LockFile
    <3>2. /\ file' \in LockFile /\ file' # None
          /\ file'.pid = file.pid /\ file'.full
      BY <2>1, <3>1, NoneIsNoFile DEF Age, LockFile
    <3> QED
      BY <2>1, <3>1, <3>2 DEF Age, LockInv, NothingReaped, OwnFile
  <2>2. ASSUME NEW p \in Pids, Running(p) PROVE LockInv'
    <3>1. CASE Link(p) \/ Create(p)
      <4>1. CASE file = None
        <5>1. PICK i \in Inodes, b \in BOOLEAN :
                /\ file' = NewFile(p, i, b)
                /\ b = (pc'[p] # "write")
                /\ pc' = [pc EXCEPT ![p] = IF b THEN "idle" ELSE "write"]
                /\ held' = IF b THEN [held EXCEPT ![p] = TRUE] ELSE held
                /\ UNCHANGED <<life, inc, op, snap>>
          BY <3>1, <4>1 DEF Link, Create, LockTypeOK, Calls
        <5>2. file' \in LockFile
          BY <5>1, FileTypes
        <5>3. /\ file' # None
              /\ file'.pid = p /\ file'.full = b /\ file'.fresh
          BY <5>1, <5>2, NoneIsNoFile DEF NewFile
        <5> QED
          BY <4>1, <5>1, <5>3 DEF LockInv, NothingReaped, OwnFile, LockTypeOK
      <4>2. CASE file # None
        BY <3>1, <4>2, LockFrame DEF Link, Create, LockTypeOK, Calls
      <4> QED
        BY <4>1, <4>2
    <3>2. CASE Write(p)
      <4>1. file \in LockFile /\ file.pid = p /\ ~file.full
        BY <3>2 DEF Write, LockInv, OwnFile, LockTypeOK
      <4>2. file' = [file EXCEPT !.full = TRUE]
        <5>1. file # None /\ file.pid = p /\ file.inc = inc[p] /\ ~file.full
          BY <4>1, NoneIsNoFile DEF LockInv, LockFile
        <5> QED
          BY <3>2, <5>1, Zenon DEF Write
      <4>3. file' \in LockFile /\ file' # None /\ file'.pid = p /\ file'.full
        BY <4>1, <4>2, NoneIsNoFile DEF LockFile
      <4>4. /\ held' = [held EXCEPT ![p] = TRUE] /\ pc' = [pc EXCEPT ![p] = "idle"]
            /\ UNCHANGED <<life, inc, op, snap>>
        BY <3>2 DEF Write
      <4> QED
        BY <4>1, <4>3, <4>4 DEF LockInv, NothingReaped, OwnFile, LockTypeOK
    <3>3. CASE Read(p)
      BY <3>3, LockFrame DEF Read, LockTypeOK, Calls
    <3>4. CASE Snapshot(p)
      <4>1. ~(file # None /\ Dead(file))
        BY <2>0 DEF Dead, LockInv, NothingReaped, LockTypeOK, LockFile
      <4>2. Retry(p) /\ UNCHANGED <<life, inc, file, held, op>> /\ pc[p] = "snapshot"
        BY <3>4, <4>1 DEF Snapshot
      <4> QED
        BY <4>2, LockFrame DEF Retry, LockTypeOK, Calls
    <3>5. CASE Compare(p) \/ Delete(p)
      BY <3>5 DEF Compare, Delete, LockInv, NothingReaped
    <3>6. CASE ReleaseFile(p)
      BY <3>6 DEF ReleaseFile, LockInv, NothingReaped, OwnFile, LockTypeOK
    <3>7. CASE Probe(p)
      <4>1. op[p] = "narrow" /\ snap[p] \in LockFile /\ pc[p] = "probe"
        BY <3>7 DEF Probe, LockInv, NothingReaped, LockTypeOK
      <4>2. snap[p].inc = inc[snap[p].pid]
        BY <4>1 DEF LockInv, LockTypeOK, LockFile
      <4>3. \A reason \in Reasons(p, snap[p]) : ~Passes(op[p], reason)
        BY <2>0, <4>1, <4>2 DEF Reasons, Passes, LockFile
      <4>4. AfterDelete(p, FALSE) /\ UNCHANGED <<life, inc, file, held>>
        BY <3>7, <4>3 DEF Probe
      <4> QED
        BY <4>1, <4>4, LockFrame DEF AfterDelete, LockTypeOK, Calls
    <3> QED
      BY <2>2, <3>1, <3>2, <3>3, <3>4, <3>5, <3>6, <3>7 DEF Running
  <2>3. ASSUME NEW p \in Pids, Acquire(p) PROVE LockInv'
    BY <2>3, LockFrame DEF Acquire, LockTypeOK, Calls
  <2>4. ASSUME NEW p \in Pids, Release(p) PROVE LockInv'
    BY <2>4 DEF Release, LockInv, NothingReaped, OwnFile, LockTypeOK
  <2>5. ASSUME NEW p \in Pids, ForceUnlock(p) PROVE LockInv'
    <3>1. op' = [op EXCEPT ![p] = "narrow"] /\ file # None
      BY <2>5 DEF ForceUnlock
    <3>2. /\ pc[p] = "idle" /\ pc' = [pc EXCEPT ![p] = "probe"]
          /\ snap' = [snap EXCEPT ![p] = file]
          /\ UNCHANGED <<life, inc, file, held>>
      BY <2>5 DEF ForceUnlock
    <3>3. NothingReaped'
      BY <3>1, <3>2 DEF LockInv, NothingReaped, LockTypeOK, LockFile
    <3>4. OwnFile'
      BY <3>2 DEF LockInv, OwnFile, LockTypeOK
    <3> QED
      BY <3>2, <3>3, <3>4 DEF LockInv
  <2>6. ASSUME NEW p \in Pids, Crash(p) PROVE FALSE
    BY <2>6 DEF Crash, LockInv
  <2>7. ASSUME NEW p \in Pids, Reuse(p) PROVE FALSE
    BY <2>7 DEF Reuse, LockInv
  <2>8. CASE UNCHANGED lockVars
    BY <2>8 DEF lockVars, LockInv, NothingReaped, OwnFile
  <2>9. CASE \E p \in Pids : \/ Running(p)
                             \/ Acquire(p) \/ Release(p) \/ ForceUnlock(p)
                             \/ Crash(p) \/ Reuse(p)
    BY <2>2, <2>3, <2>4, <2>5, <2>6, <2>7, <2>9, Zenon
  <2> QED
    BY <2>1, <2>8, <2>9, Zenon DEF LockNext
<1>3. LockInv => Exclusive
  BY DEF LockInv, OwnFile, Exclusive
<1> QED
  BY <1>1, <1>2, <1>3, LockTypes, PTL DEF LockSpec
-----------------------------------------------------------------------------
(* Heartbeat: a link that is cut is noticed on both sides, and in time.    *)

\* The two sides are each other's peers.
LEMMA PeerFact ==
    \A s \in Sides : Peer(s) \in Sides /\ Peer(s) # s /\ Peer(Peer(s)) = s
<1>1. Peer("hub") = "gateway"
  BY DEF Peer, Sides
<1>2. Peer("gateway") = "hub"
  BY DEF Peer, Sides
<1> QED BY <1>1, <1>2 DEF Sides

\* A frame that is sent is a frame, and is not for a side that is cut off.
LEMMA SendFact ==
    ASSUME NEW s \in Sides, NEW k \in Kinds
    PROVE  /\ Send(s, k) \subseteq Frames
           /\ \A f \in Send(s, k) : f.to = s /\ f.kind = k /\ f.left = Delay
           /\ s \in dead => Send(s, k) = {}
           /\ s \notin dead => [to |-> s, kind |-> k, left |-> Delay] \in Send(s, k)
BY HeartbeatAssumption DEF Send, Frames

-----------------------------------------------------------------------------
(* What every step keeps                                                   *)

\* A side that has closed has no deadline left.
ClosedUnarmed == \A s \in Sides : ~open[s] => deadline[s] = Unarmed

\* Nothing is on its way to a side that is cut off.
DeadSilent == \A f \in frames : f.to \notin dead

\* Only a side that is cut off has not been reached for some time.
AliveHeard == \A s \in Sides : s \notin dead => quiet[s] = 0

\* What an open side has left before it gives up, if nothing reaches it.
Left(s) == IF deadline[s] = Unarmed THEN beat[s] + PongTimeoutMs ELSE deadline[s]

\* Together with the silence so far that is never more than is allowed.
Watched == \A s \in Sides : open[s] => quiet[s] + Left(s) <= Notice

HeartbeatInv ==
    BeatTypeOK /\ ClosedUnarmed /\ DeadSilent /\ AliveHeard /\ Watched

LEMMA InvInit == BeatInit => HeartbeatInv
BY HeartbeatAssumption
DEF BeatInit, HeartbeatInv, BeatTypeOK, ClosedUnarmed, DeadSilent, AliveHeard, Watched, Left,
    Unarmed, Notice

\* The silence that is allowed is kept when only one side's timers change.
LEMMA WatchedStep ==
    ASSUME HeartbeatInv, NEW t \in Sides, quiet' = quiet,
           \A s \in Sides \ {t} :
               open'[s] = open[s] /\ deadline'[s] = deadline[s] /\ beat'[s] = beat[s],
           open'[t] => quiet[t] + Left(t)' <= Notice
    PROVE  Watched'
BY DEF HeartbeatInv, Watched, Left

\* What is sent now to a side that can be reached is a frame like the others.
LEMMA NetStep ==
    ASSUME frames \subseteq Frames, DeadSilent, dead' = dead,
           NEW t \in Sides, NEW k \in Kinds, frames' \subseteq frames \cup Send(t, k)
    PROVE  frames' \subseteq Frames /\ DeadSilent'
<1>1. Send(t, k) \subseteq Frames /\ \A f \in Send(t, k) : f.to = t
  BY SendFact
<1>2. t \in dead => Send(t, k) = {}
  BY SendFact
<1>3. \A f \in Send(t, k) : f.to \notin dead
  BY <1>1, <1>2
<1> QED BY <1>1, <1>3 DEF DeadSilent

LEMMA BeatInv ==
    ASSUME HeartbeatInv, NEW s \in Sides, Beat(s) PROVE HeartbeatInv'
<1>a. /\ frames \subseteq Frames /\ DeadSilent /\ dead' = dead
      /\ frames' = frames \cup Send(Peer(s), "PING")
  BY DEF Beat, HeartbeatInv, BeatTypeOK
<1>1. frames' \subseteq Frames /\ DeadSilent'
  BY <1>a, PeerFact, NetStep DEF Kinds
<1> USE HeartbeatAssumption DEF HeartbeatInv, BeatTypeOK, Unarmed, Notice
<1>2. deadline' \in [Sides -> 0..Unarmed] /\ ClosedUnarmed'
  BY DEF Beat, Arm, ClosedUnarmed
<1>3. Watched'
  <2>1. quiet[s] + Left(s)' <= Notice
    BY DEF Beat, Arm, Watched, Left
  <2> QED BY <2>1, WatchedStep DEF Beat
<1> QED BY <1>1, <1>2, <1>3 DEF Beat, AliveHeard

LEMMA ClosedInv ==
    ASSUME HeartbeatInv, NEW s \in Sides, Closed(s),
           frames' \subseteq Frames, DeadSilent', UNCHANGED <<beat, dead, quiet>>
    PROVE  HeartbeatInv'
<1> USE HeartbeatAssumption DEF HeartbeatInv, BeatTypeOK, Unarmed, Notice
<1>1. ClosedUnarmed'
  BY DEF Closed, ClosedUnarmed
<1>2. Watched'
  BY WatchedStep DEF Closed
<1> QED BY <1>1, <1>2 DEF Closed, AliveHeard

LEMMA ExpireInv ==
    ASSUME HeartbeatInv, NEW s \in Sides, Expire(s) PROVE HeartbeatInv'
<1>1. /\ frames \subseteq Frames /\ DeadSilent /\ dead' = dead
      /\ frames' = frames \cup Send(Peer(s), "FIN")
  BY DEF Expire, Terminated, HeartbeatInv, BeatTypeOK
<1>2. frames' \subseteq Frames /\ DeadSilent'
  BY <1>1, PeerFact, NetStep DEF Kinds
<1> QED BY <1>2, ClosedInv DEF Expire

LEMMA HangupInv ==
    ASSUME HeartbeatInv, NEW f \in frames, Hangup(f) PROVE HeartbeatInv'
<1>1. f.to \in Sides
  BY DEF HeartbeatInv, BeatTypeOK, Frames
<1>2. frames' \subseteq Frames /\ DeadSilent'
  BY DEF Hangup, DeadSilent, HeartbeatInv, BeatTypeOK
<1> QED BY <1>1, <1>2, ClosedInv DEF Hangup

LEMMA ReceiveInv ==
    ASSUME HeartbeatInv, NEW f \in frames, Receive(f) PROVE HeartbeatInv'
<1>1. f.to \in Sides /\ f.to \notin dead
  BY DEF HeartbeatInv, BeatTypeOK, Frames, DeadSilent
<1>2. /\ frames \subseteq Frames /\ DeadSilent /\ dead' = dead
      /\ frames' \subseteq frames \cup Send(Peer(f.to), "PONG")
  BY DEF Receive, Pong, HeartbeatInv, BeatTypeOK
<1>3. frames' \subseteq Frames /\ DeadSilent'
  BY <1>1, <1>2, PeerFact, NetStep DEF Kinds
<1> USE HeartbeatAssumption DEF HeartbeatInv, BeatTypeOK, Unarmed, Notice
<1>4. deadline' \in [Sides -> 0..Unarmed] /\ ClosedUnarmed'
  BY <1>1 DEF Receive, Disarm, ClosedUnarmed
<1>5. Watched'
  <2>1. open[f.to] => quiet[f.to] + Left(f.to)' <= Notice
    BY <1>1 DEF Receive, Disarm, AliveHeard, Left
  <2> QED BY <1>1, <2>1, WatchedStep DEF Receive, Disarm
<1> QED BY <1>3, <1>4, <1>5 DEF Receive, AliveHeard

LEMMA CutInv ==
    ASSUME HeartbeatInv, NEW S \in SUBSET Sides, Cut(S) PROVE HeartbeatInv'
BY DEF Cut, HeartbeatInv, BeatTypeOK, ClosedUnarmed, DeadSilent, AliveHeard, Watched, Left

LEMMA TickInv == ASSUME HeartbeatInv, Tick PROVE HeartbeatInv'
<1> USE HeartbeatAssumption DEF HeartbeatInv, BeatTypeOK, Unarmed, Notice
<1>1. frames' \subseteq Frames /\ DeadSilent'
  <2> SUFFICES ASSUME NEW f \in frames
               PROVE  /\ [f EXCEPT !.left = @ - 1] \in Frames
                      /\ [f EXCEPT !.left = @ - 1].to \notin dead
    BY DEF Tick, DeadSilent
  <2>1. f \in Frames /\ f.left \in 0..Delay /\ f.left # 0 /\ f.to \notin dead
    BY DEF Tick, Due, Frames, DeadSilent
  <2>2. f.left - 1 \in 0..Delay
    BY <2>1
  <2> QED BY <2>1, <2>2 DEF Frames
<1>2. \A s \in Sides : /\ open[s] => beat[s] # 0 /\ beat'[s] = beat[s] - 1
                       /\ ~open[s] => beat'[s] = beat[s]
  BY DEF Tick, Due
<1>3. \A s \in Sides : /\ deadline[s] = Unarmed => deadline'[s] = Unarmed
                       /\ deadline[s] # Unarmed =>
                            /\ open[s] /\ deadline[s] # 0
                            /\ deadline'[s] = deadline[s] - 1
  BY DEF Tick, Due, ClosedUnarmed
<1>4. beat' \in [Sides -> 0..HeartbeatMs]
  BY <1>2 DEF Tick
<1>5. deadline' \in [Sides -> 0..Unarmed] /\ ClosedUnarmed'
  BY <1>3 DEF Tick, ClosedUnarmed
<1>6. quiet' \in [Sides -> 0..Notice + Delay + 1] /\ AliveHeard'
  BY DEF Tick, AliveHeard
<1>7. Watched'
  <2> SUFFICES ASSUME NEW s \in Sides, open[s] PROVE quiet'[s] + Left(s)' <= Notice
    BY DEF Watched, Tick
  <2>1. quiet'[s] <= quiet[s] + 1
    BY DEF Tick
  <2>2. Left(s)' = Left(s) - 1
    BY <1>2, <1>3 DEF Left
  <2>3. quiet[s] + Left(s) <= Notice
    BY DEF Watched
  <2>4. Left(s) \in Nat /\ quiet[s] \in Nat /\ quiet'[s] \in Nat
    BY <1>6 DEF Left
  <2> QED BY <2>1, <2>2, <2>3, <2>4
<1> QED BY <1>1, <1>4, <1>5, <1>6, <1>7 DEF Tick

LEMMA InvNext == HeartbeatInv /\ [BeatNext]_beatVars => HeartbeatInv'
<1>1. ASSUME HeartbeatInv, UNCHANGED beatVars PROVE HeartbeatInv'
  BY <1>1 DEF beatVars, HeartbeatInv, BeatTypeOK, ClosedUnarmed, DeadSilent, AliveHeard,
              Watched, Left
<1> QED BY <1>1, BeatInv, ExpireInv, HangupInv, ReceiveInv, CutInv, TickInv DEF BeatNext

LEMMA InvAlways == BeatSpec => []HeartbeatInv
BY InvInit, InvNext, PTL DEF BeatSpec

\* Every variable keeps its type.
THEOREM BeatTypes == BeatSpec => []BeatTypeOK
<1>1. HeartbeatInv => BeatTypeOK
  BY DEF HeartbeatInv
<1> QED BY <1>1, InvAlways, PTL

\* Whatever the heartbeat, the timeout and the delay: a side that nothing
\* reaches closes within a heartbeat and a timeout (the deadline of
\* hub/src/tunnel.ts and gateway/src/join.ts that an earlier PING armed goes on).
THEOREM DeadLinkNoticed == BeatSpec => []SilenceNoticed
<1>1. HeartbeatInv => SilenceNoticed
  <2> SUFFICES ASSUME HeartbeatInv, NEW s \in Sides, open[s] PROVE quiet[s] <= Notice
    BY DEF SilenceNoticed
  <2>1. Left(s) \in Nat /\ quiet[s] \in Nat /\ Notice \in Nat
    BY HeartbeatAssumption DEF HeartbeatInv, BeatTypeOK, Left, Notice, Unarmed
  <2>2. quiet[s] + Left(s) <= Notice
    BY DEF HeartbeatInv, Watched
  <2> QED BY <2>1, <2>2
<1> QED BY <1>1, InvAlways, PTL
-----------------------------------------------------------------------------
(* A link that answers within the timeout                                  *)

\* The PING or the PONG that will disarm the deadline of s in time.
OnTheWay(s) ==
    \E f \in frames :
        \/ f.to = Peer(s) /\ f.kind = "PING" /\ f.left + Delay < deadline[s]
        \/ f.to = s /\ f.kind = "PONG" /\ f.left < deadline[s]

\* As long as the link is alive, nobody closes and every deadline will be met.
Answered ==
    dead = {} =>
        /\ \A s \in Sides : open[s] /\ (deadline[s] # Unarmed => OnTheWay(s))
        /\ \A f \in frames : f.kind # "FIN"

LEMMA AnsweredBeat ==
    ASSUME 2 * Delay < PongTimeoutMs, HeartbeatInv, Answered, NEW s \in Sides, Beat(s)
    PROVE  Answered'
<1> SUFFICES ASSUME dead = {} PROVE Answered'
  BY DEF Answered, Beat
<1> USE HeartbeatAssumption DEF HeartbeatInv, BeatTypeOK, Unarmed
<1> DEFINE ping == [to |-> Peer(s), kind |-> "PING", left |-> Delay]
<1>1. Peer(s) \in Sides /\ Peer(s) # s
  BY PeerFact
<1>2. frames' = frames \cup {ping} /\ open' = open
  BY <1>1 DEF Beat, Send
<1>3. \A f \in frames' : f.kind # "FIN"
  BY <1>2 DEF Answered
<1>4. ASSUME NEW t \in Sides, deadline'[t] # Unarmed PROVE OnTheWay(t)'
  <2>1. CASE deadline[t] # Unarmed
    <3>1. deadline'[t] = deadline[t]
      BY <2>1 DEF Beat, Arm
    <3> QED BY <1>2, <2>1, <3>1 DEF OnTheWay, Answered
  <2>2. CASE deadline[t] = Unarmed
    <3>1. t = s /\ deadline'[t] = PongTimeoutMs
      BY <1>4, <2>2 DEF Beat, Arm
    <3>2. ping.left + Delay < deadline'[t]
      BY <3>1
    <3> QED BY <1>2, <3>1, <3>2 DEF OnTheWay
  <2> QED BY <2>1, <2>2
<1> QED BY <1>2, <1>3, <1>4 DEF Answered

LEMMA AnsweredReceive ==
    ASSUME HeartbeatInv, Answered, NEW f \in frames, Receive(f) PROVE Answered'
<1> SUFFICES ASSUME dead = {} PROVE Answered'
  BY DEF Answered, Receive
<1> USE HeartbeatAssumption DEF HeartbeatInv, BeatTypeOK, Unarmed
<1> DEFINE t == f.to
           pong == [to |-> Peer(t), kind |-> "PONG", left |-> Delay]
<1>1. t \in Sides /\ Peer(t) \in Sides /\ Peer(t) # t /\ Peer(Peer(t)) = t
  BY PeerFact DEF Frames
<1>2. /\ open' = open /\ open[t]
      /\ deadline' = [deadline EXCEPT ![t] = Unarmed]
      /\ frames' = (frames \ {f}) \cup Pong(t, f.kind)
  BY <1>1 DEF Receive, Disarm, Answered
<1>3. Pong(t, f.kind) = IF f.kind = "PING" THEN {pong} ELSE {}
  BY DEF Pong, Send
<1>4. \A g \in frames' : g.kind # "FIN"
  BY <1>2, <1>3 DEF Answered
<1>5. ASSUME NEW s \in Sides, deadline'[s] # Unarmed PROVE OnTheWay(s)'
  <2>1. s # t /\ s = Peer(t) /\ deadline'[s] = deadline[s]
    BY <1>1, <1>2, <1>5, PeerFact DEF Sides
  <2>2. PICK g \in frames :
           \/ g.to = Peer(s) /\ g.kind = "PING" /\ g.left + Delay < deadline[s]
           \/ g.to = s /\ g.kind = "PONG" /\ g.left < deadline[s]
    BY <1>5, <2>1 DEF OnTheWay, Answered
  <2>3. CASE g # f
    BY <1>2, <2>1, <2>2, <2>3 DEF OnTheWay
  <2>4. CASE g = f
    <3>1. f.kind = "PING" /\ f.left + Delay < deadline[s] /\ f.left \in Nat
      BY <2>1, <2>2, <2>4 DEF Frames
    <3>2. pong \in frames' /\ pong.left < deadline'[s]
      BY <1>2, <1>3, <2>1, <3>1
    <3> QED BY <2>1, <3>2 DEF OnTheWay
  <2> QED BY <2>3, <2>4
<1> QED BY <1>2, <1>4, <1>5 DEF Answered

LEMMA AnsweredTick ==
    ASSUME HeartbeatInv, Answered, Tick PROVE Answered'
<1> SUFFICES ASSUME dead = {} PROVE Answered'
  BY DEF Answered, Tick
<1> USE HeartbeatAssumption DEF HeartbeatInv, BeatTypeOK, Unarmed
<1>1. ASSUME NEW g \in frames
      PROVE  LET h == [g EXCEPT !.left = @ - 1]
             IN  /\ h.to = g.to /\ h.kind = g.kind /\ h.left = g.left - 1
                 /\ g.kind # "FIN" /\ g.left \in Nat
  BY DEF Frames, Answered
<1>2. open' = open /\ frames' = {[f EXCEPT !.left = @ - 1] : f \in frames}
  BY DEF Tick
<1>3. ASSUME NEW s \in Sides, deadline'[s] # Unarmed PROVE OnTheWay(s)'
  <2>1. deadline[s] # Unarmed /\ deadline'[s] = deadline[s] - 1
    BY <1>3 DEF Tick
  <2>2. PICK g \in frames :
           \/ g.to = Peer(s) /\ g.kind = "PING" /\ g.left + Delay < deadline[s]
           \/ g.to = s /\ g.kind = "PONG" /\ g.left < deadline[s]
    BY <2>1 DEF OnTheWay, Answered
  <2> DEFINE h == [g EXCEPT !.left = @ - 1]
  <2>3. h \in frames'
    BY <1>2
  <2>4. h.to = g.to /\ h.kind = g.kind /\ h.left = g.left - 1 /\ g.left \in Nat
    BY <1>1
  <2>5. deadline[s] \in Nat /\ Delay \in Nat
    OBVIOUS
  <2>6. \/ h.to = Peer(s) /\ h.kind = "PING" /\ h.left + Delay < deadline'[s]
        \/ h.to = s /\ h.kind = "PONG" /\ h.left < deadline'[s]
    <3> HIDE DEF h
    <3> QED BY <2>1, <2>2, <2>4, <2>5
  <2> QED BY <2>3, <2>6 DEF OnTheWay
<1>4. \A g \in frames' : g.kind # "FIN"
  <2> SUFFICES ASSUME NEW g \in frames PROVE [g EXCEPT !.left = @ - 1].kind # "FIN"
    BY <1>2
  <2> QED BY <1>1
<1> QED BY <1>2, <1>3, <1>4 DEF Answered

\* No deadline passes on a link that is alive, and so nobody hangs up.
LEMMA AnsweredEnd ==
    ASSUME HeartbeatInv, Answered, dead = {}
    PROVE  /\ \A s \in Sides : ~Expire(s)
           /\ \A f \in frames : ~Hangup(f)
<1>1. ASSUME NEW s \in Sides, Expire(s) PROVE FALSE
  <2>1. deadline[s] # Unarmed /\ deadline[s] = 0
    BY <1>1, HeartbeatAssumption DEF Expire, Unarmed
  <2>2. PICK g \in frames : g.left + Delay < deadline[s] \/ g.left < deadline[s]
    BY <2>1 DEF Answered, OnTheWay
  <2>3. g.left \in Nat
    BY DEF HeartbeatInv, BeatTypeOK, Frames
  <2> QED BY <2>1, <2>2, <2>3, HeartbeatAssumption
<1> QED BY <1>1 DEF Hangup, Answered

LEMMA AnsweredNext ==
    ASSUME 2 * Delay < PongTimeoutMs
    PROVE  HeartbeatInv /\ Answered /\ [BeatNext]_beatVars => Answered'
<1> SUFFICES ASSUME HeartbeatInv, Answered, [BeatNext]_beatVars, dead' = {} PROVE Answered'
  BY DEF Answered
<1>1. dead = {}
  BY DEF BeatNext, beatVars, Beat, Expire, Receive, Hangup, Cut, Tick
<1>2. ASSUME NEW S \in (SUBSET Sides) \ {{}}, Cut(S) PROVE FALSE
  BY <1>2 DEF Cut
<1>3. CASE UNCHANGED beatVars
  BY <1>3 DEF beatVars, Answered, OnTheWay
<1> QED BY <1>1, <1>2, <1>3, AnsweredBeat, AnsweredReceive, AnsweredTick, AnsweredEnd
        DEF BeatNext

\* Whatever the heartbeat and its phases: a link on which a PING and its PONG
\* take less than pongTimeoutMs is never given up.
THEOREM LiveLinkNotKilled ==
    ASSUME 2 * Delay < PongTimeoutMs PROVE BeatSpec => []LiveLinkKept
<1>1. BeatInit => Answered
  BY DEF BeatInit, Answered
<1>2. HeartbeatInv /\ Answered /\ [BeatNext]_beatVars => Answered'
  BY AnsweredNext
<1>3. Answered => LiveLinkKept
  BY DEF Answered, LiveLinkKept
<1> QED BY <1>1, <1>2, <1>3, InvAlways, PTL DEF BeatSpec
-----------------------------------------------------------------------------
(* A side that is told                                                        *)

\* Whoever is told of a termination, the other side has closed.
FinsAreTrue == \A f \in frames : f.kind = "FIN" => ~open[Peer(f.to)]

\* A side that can be reached and is open although its peer has closed is being
\* told, soon enough after its peer was last heard.
ToldInTime ==
    \A s \in Sides \ dead :
        open[s] /\ ~open[Peer(s)] =>
            \E f \in frames :
                f.to = s /\ f.kind = "FIN" /\ quiet[Peer(s)] + f.left <= Notice + Delay

LEMMA ToldInit == BeatInit => FinsAreTrue /\ ToldInTime
BY PeerFact DEF BeatInit, FinsAreTrue, ToldInTime

\* Steps that close nobody and leave the FIN frames as they are.
LEMMA ToldSame ==
    ASSUME FinsAreTrue, ToldInTime, UNCHANGED <<open, dead, quiet>>,
           \A f \in frames : f.kind = "FIN" => f \in frames',
           \A f \in frames' : f.kind = "FIN" => f \in frames
    PROVE  FinsAreTrue' /\ ToldInTime'
BY DEF FinsAreTrue, ToldInTime

LEMMA ToldBeat ==
    ASSUME HeartbeatInv, FinsAreTrue, ToldInTime, NEW s \in Sides, Beat(s)
    PROVE  FinsAreTrue' /\ ToldInTime'
<1>1. frames' = frames \cup Send(Peer(s), "PING") /\ UNCHANGED <<open, dead, quiet>>
  BY DEF Beat
<1>2. \A f \in Send(Peer(s), "PING") : f.kind = "PING"
  BY SendFact, PeerFact DEF Kinds
<1> QED BY <1>1, <1>2, ToldSame

LEMMA ToldReceive ==
    ASSUME HeartbeatInv, FinsAreTrue, ToldInTime, NEW f \in frames, Receive(f)
    PROVE  FinsAreTrue' /\ ToldInTime'
<1>1. f.to \in Sides
  BY DEF HeartbeatInv, BeatTypeOK, Frames
<1>2. /\ f.kind # "FIN" /\ UNCHANGED <<open, dead, quiet>>
      /\ frames' = (frames \ {f}) \cup Pong(f.to, f.kind) \/ frames' = frames \ {f}
  BY DEF Receive
<1>3. \A g \in Pong(f.to, f.kind) : g.kind = "PONG"
  BY <1>1, SendFact, PeerFact DEF Kinds, Pong
<1> QED BY <1>2, <1>3, ToldSame

LEMMA ToldExpire ==
    ASSUME HeartbeatInv, FinsAreTrue, ToldInTime, NEW s \in Sides, Expire(s)
    PROVE  FinsAreTrue' /\ ToldInTime'
<1>0. /\ open \in [Sides -> BOOLEAN] /\ frames \subseteq Frames /\ Watched
      /\ quiet \in [Sides -> 0..Notice + Delay + 1]
  BY DEF HeartbeatInv, BeatTypeOK
<1>1. /\ open[s] /\ deadline[s] = 0 /\ open' = [open EXCEPT ![s] = FALSE]
      /\ frames' = frames \cup Send(Peer(s), "FIN") /\ UNCHANGED <<dead, quiet>>
  BY DEF Expire, Closed, Terminated
<1>2. Peer(s) \in Sides /\ Peer(s) # s /\ Peer(Peer(s)) = s
  BY PeerFact
<1>3. \A t \in Sides : t # s => t = Peer(s)
  BY <1>2 DEF Sides
<1>4. FinsAreTrue'
  <2>1. \A f \in Send(Peer(s), "FIN") : f.to = Peer(s)
    BY <1>2, SendFact DEF Kinds
  <2> QED BY <1>0, <1>1, <1>2, <2>1, PeerFact DEF FinsAreTrue, Frames
<1>5. ASSUME Peer(s) \notin dead
      PROVE  \E f \in frames' : f.to = Peer(s) /\ f.kind = "FIN" /\ quiet[s] + f.left <= Notice + Delay
  <2> DEFINE fin == [to |-> Peer(s), kind |-> "FIN", left |-> Delay]
  <2>1. fin \in frames'
    BY <1>1, <1>2, <1>5, SendFact DEF Kinds
  <2>2. Left(s) = 0
    BY <1>1, HeartbeatAssumption DEF Left, Unarmed
  <2>3. quiet[s] <= Notice
    BY <1>0, <1>1, <2>2, HeartbeatAssumption DEF Watched, Notice
  <2>4. quiet[s] + Delay <= Notice + Delay
    BY <1>0, <2>3, HeartbeatAssumption DEF Notice
  <2> QED BY <2>1, <2>4
<1>6. ToldInTime'
  BY <1>0, <1>1, <1>2, <1>3, <1>5 DEF ToldInTime
<1> QED BY <1>4, <1>6

\* The side that is told closes; its peer had closed before.
LEMMA ToldHangup ==
    ASSUME HeartbeatInv, FinsAreTrue, ToldInTime, NEW f \in frames, Hangup(f)
    PROVE  FinsAreTrue' /\ ToldInTime'
<1>0. open \in [Sides -> BOOLEAN] /\ f.to \in Sides
  BY DEF HeartbeatInv, BeatTypeOK, Frames
<1>1. /\ f.kind = "FIN" /\ open' = [open EXCEPT ![f.to] = FALSE]
      /\ frames' = frames \ {f} /\ UNCHANGED <<dead, quiet>>
  BY DEF Hangup, Closed
<1>2. ~open[Peer(f.to)]
  BY <1>1 DEF FinsAreTrue
<1>3. \A s \in Sides : ~open'[s]
  BY <1>0, <1>1, <1>2, PeerFact DEF Sides
<1>4. \A g \in frames : g.to \in Sides
  BY DEF HeartbeatInv, BeatTypeOK, Frames
<1>5. FinsAreTrue'
  BY <1>1, <1>3, <1>4, PeerFact DEF FinsAreTrue
<1>6. ToldInTime'
  BY <1>3 DEF ToldInTime
<1> QED BY <1>5, <1>6

LEMMA ToldCut ==
    ASSUME HeartbeatInv, FinsAreTrue, ToldInTime, NEW S \in SUBSET Sides, Cut(S)
    PROVE  FinsAreTrue' /\ ToldInTime'
BY DEF Cut, FinsAreTrue, ToldInTime

LEMMA ToldTick ==
    ASSUME HeartbeatInv, FinsAreTrue, ToldInTime, Tick
    PROVE  FinsAreTrue' /\ ToldInTime'
<1>0. /\ frames \subseteq Frames /\ quiet \in [Sides -> 0..Notice + Delay + 1]
  BY DEF HeartbeatInv, BeatTypeOK
<1>1. /\ frames' = {[f EXCEPT !.left = @ - 1] : f \in frames}
      /\ UNCHANGED <<open, dead>> /\ \A f \in frames : f.left # 0
  BY DEF Tick, Due
<1>2. ASSUME NEW g \in frames
      PROVE  LET h == [g EXCEPT !.left = @ - 1]
             IN  h.to = g.to /\ h.kind = g.kind /\ h.left = g.left - 1
  BY <1>0 DEF Frames
<1>3. \A s \in Sides : quiet'[s] \in Nat /\ quiet[s] \in Nat /\ quiet'[s] <= quiet[s] + 1
  BY <1>0, HeartbeatAssumption DEF Tick, Notice
<1>4. FinsAreTrue'
  <2> SUFFICES ASSUME NEW g \in frames, [g EXCEPT !.left = @ - 1].kind = "FIN"
               PROVE  ~open[Peer([g EXCEPT !.left = @ - 1].to)]
    BY <1>1 DEF FinsAreTrue
  <2> QED BY <1>2 DEF FinsAreTrue
<1>5. ToldInTime'
  <2> SUFFICES ASSUME NEW s \in Sides \ dead, open[s], ~open[Peer(s)]
               PROVE  \E f \in frames' :
                          f.to = s /\ f.kind = "FIN" /\ quiet'[Peer(s)] + f.left <= Notice + Delay
    BY <1>1 DEF ToldInTime
  <2>1. PICK g \in frames : g.to = s /\ g.kind = "FIN" /\ quiet[Peer(s)] + g.left <= Notice + Delay
    BY DEF ToldInTime
  <2> DEFINE h == [g EXCEPT !.left = @ - 1]
  <2>2. h \in frames' /\ h.to = s /\ h.kind = "FIN" /\ h.left = g.left - 1
    BY <1>1, <1>2, <2>1
  <2>3. g.left \in Nat /\ g.left # 0
    BY <1>0, <1>1, HeartbeatAssumption DEF Frames
  <2>4. Peer(s) \in Sides
    BY PeerFact
  <2>5. Notice + Delay \in Nat
    BY HeartbeatAssumption DEF Notice
  <2> HIDE DEF h
  <2>6. quiet'[Peer(s)] + h.left <= Notice + Delay
    <3> DEFINE q == quiet[Peer(s)]  r == quiet'[Peer(s)]  n == Notice + Delay
    <3>1. q \in Nat /\ r \in Nat /\ r <= q + 1
      BY <1>3, <2>4
    <3>2. q + g.left <= n /\ n \in Nat
      BY <2>1, <2>5
    <3> HIDE DEF q, r, n
    <3>3. r + h.left <= n
      BY <3>1, <3>2, <2>2, <2>3
    <3> QED BY <3>3 DEF r, n
  <2> QED BY <2>2, <2>6
<1> QED BY <1>4, <1>5

LEMMA ToldNext ==
    HeartbeatInv /\ FinsAreTrue /\ ToldInTime /\ [BeatNext]_beatVars => FinsAreTrue' /\ ToldInTime'
<1>1. ASSUME FinsAreTrue, ToldInTime, UNCHANGED beatVars PROVE FinsAreTrue' /\ ToldInTime'
  BY <1>1 DEF beatVars, FinsAreTrue, ToldInTime
<1> QED BY <1>1, ToldBeat, ToldExpire, ToldHangup, ToldReceive, ToldCut, ToldTick DEF BeatNext

\* Whatever the heartbeat, the timeout and the delay: when only one direction of
\* the link is dead, the side that still receives closes within a heartbeat, a
\* timeout and a delay, because the other one ends the connection and says so
\* (terminate() of hub/src/tunnel.ts and gateway/src/join.ts).
THEOREM HalfOpenLinkEnds == BeatSpec => []HalfOpenEnds
<1>1. HeartbeatInv /\ ToldInTime => HalfOpenEnds
  <2> SUFFICES ASSUME HeartbeatInv, ToldInTime, NEW s \in Sides, dead = {Peer(s)}, open[s]
               PROVE  quiet[Peer(s)] <= Notice + Delay
    BY DEF HalfOpenEnds
  <2>0. Peer(s) \in Sides /\ s \notin dead
    BY PeerFact
  <2>1. CASE open[Peer(s)]
    <3>1. Left(Peer(s)) \in Nat /\ quiet[Peer(s)] \in Nat /\ Notice \in Nat
      BY <2>0, HeartbeatAssumption DEF HeartbeatInv, BeatTypeOK, Left, Notice, Unarmed
    <3>2. quiet[Peer(s)] + Left(Peer(s)) <= Notice
      BY <2>0, <2>1 DEF HeartbeatInv, Watched
    <3> QED BY <3>1, <3>2, HeartbeatAssumption
  <2>2. CASE ~open[Peer(s)]
    <3>1. PICK f \in frames : quiet[Peer(s)] + f.left <= Notice + Delay
      BY <2>0, <2>2 DEF ToldInTime
    <3>2. f.left \in Nat /\ quiet[Peer(s)] \in Nat /\ Notice + Delay \in Nat
      BY <2>0, HeartbeatAssumption DEF HeartbeatInv, BeatTypeOK, Frames, Notice
    <3> DEFINE q == quiet[Peer(s)]  n == Notice + Delay
    <3> HIDE DEF q, n
    <3>3. q \in Nat /\ n \in Nat /\ q + f.left <= n
      BY <3>1, <3>2 DEF q, n
    <3>4. q <= n
      BY <3>2, <3>3
    <3> QED BY <3>4 DEF q, n
  <2> QED BY <2>1, <2>2
<1> QED BY <1>1, ToldInit, ToldNext, InvAlways, PTL DEF BeatSpec

-----------------------------------------------------------------------------
(* UsageReporter: a stop that nothing went wrong for has reported everything, *)
(* and a short one waits for no long request.                                 *)

Covers(r, goal) == r.hub = goal.hub /\ r.day = goal.day /\ r.bytes >= goal.bytes

Told == [hub : Hubs, day : Days, bytes : Nat]
Flight == [report : Told, old : BOOLEAN, patience : Patience]
Stopped == [phase : {"waiting", "done"}, goal : Told, patience : Patience, clean : BOOLEAN]

\* The types, without the bound on the bytes.
ReporterTypes ==
    /\ today \in Days /\ meterDay \in Days /\ count \in Nat /\ hub \in Hubs
    /\ req \in {NoReport} \cup Flight
    /\ again \in BOOLEAN /\ patience \in Patience
    /\ stop \in {NoStop} \cup Stopped
    /\ net \subseteq Told
    /\ stored \in [Hubs -> [Days -> Nat]]

LEMMA FlightIsFlight == \A r \in Flight : r # NoReport
BY DEF Flight, NoReport

LEMMA StopIs == NoStop.phase = "no" /\ \A s \in Stopped : s.phase \in {"waiting", "done"}
BY DEF NoStop, Stopped

\* A round: either the meter is empty, or its content is on the way.
LEMMA FlushOnceIs ==
    ASSUME ReporterTypes, NEW c \in Nat, NEW d \in Days, NEW p \in Patience,
           FlushOnce(c, d, p)
    PROVE  /\ count' \in Nat /\ meterDay' \in Days /\ req' \in {NoReport} \cup Flight
           /\ net' \subseteq Told
           /\ \/ c = 0 /\ req' = NoReport
              \/ /\ req' \in Flight /\ req'.patience = p /\ count' = c /\ meterDay' = d
                 /\ req'.report = [hub |-> hub, day |-> d, bytes |-> c]
<1>1. CASE c = 0
  BY <1>1 DEF FlushOnce, ReporterTypes
<1>2. CASE c # 0
  <2> DEFINE r == [hub |-> hub, day |-> d, bytes |-> c]
  <2>1. r \in Told
    BY DEF ReporterTypes, Told
  <2>2. /\ req' = [report |-> r, old |-> d # today, patience |-> p]
        /\ net' = net \cup {r} /\ count' = c /\ meterDay' = d
    BY <1>2 DEF FlushOnce, ReportDay
  <2>3. req' \in Flight /\ req'.patience = p /\ req'.report = r
    BY <2>1, <2>2 DEF Flight
  <2> QED
    BY <2>1, <2>2, <2>3 DEF ReporterTypes
<1> QED
  BY <1>1, <1>2

\* What the meter is after the wait for the answer of a report.
Kept == IF req.old THEN 0 ELSE count
KeptDay == IF req.old THEN today ELSE meterDay

LEMMA EndOfWaitIs ==
    ASSUME ReporterTypes, Flushing, NEW more \in BOOLEAN, NEW p \in Patience,
           EndOfWait(more, p)
    PROVE  /\ Kept \in Nat /\ KeptDay \in Days
           /\ \/ more /\ FlushOnce(Kept, KeptDay, Shorter(req.patience, p)) /\ again' = FALSE
              \/ /\ ~more /\ req' = NoReport /\ count' = Kept /\ meterDay' = KeptDay
                 /\ net' = net /\ again' = again
BY DEF EndOfWait, Kept, KeptDay, AnotherRound, PendingTaken, ReporterTypes

LEMMA ShorterIs ==
    ASSUME NEW p \in Patience, NEW q \in Patience
    PROVE  /\ Shorter(p, q) \in Patience
           /\ p = "short" \/ q = "short" => Shorter(p, q) = "short"
BY DEF Shorter, Patience

\* The hub has what is to be reported, or the meter and the request have it.
ReportFits(goal) ==
    \/ Stored(goal)
    \/ /\ hub = goal.hub /\ meterDay = goal.day /\ count >= goal.bytes
       /\ again \/ Covers(req.report, goal)
       /\ req.old => Covers(req.report, goal)

LEMMA RoundKeeps ==
    ASSUME ReporterTypes, NEW p \in Patience, NEW goal \in Told,
           hub = goal.hub, meterDay = goal.day, count >= goal.bytes,
           hub' = hub, stored' = stored, FlushOnce(count, meterDay, p)
    PROVE  /\ ReportFits(goal)'
           /\ req' = NoReport => Stored(goal)'
<1>1. goal.hub \in Hubs /\ goal.day \in Days /\ goal.bytes \in Nat
  BY DEF Told
<1>2. stored[goal.hub][goal.day] \in Nat /\ count \in Nat /\ meterDay \in Days
  BY <1>1 DEF ReporterTypes
<1>3. CASE count = 0
  <2>1. goal.bytes = 0
    BY <1>1, <1>3
  <2>2. Stored(goal)'
    BY <1>1, <1>2, <2>1 DEF Stored
  <2> QED
    BY <2>2 DEF ReportFits
<1>4. CASE count # 0
  <2>1. /\ req' \in Flight /\ count' = count /\ meterDay' = meterDay
        /\ req'.report = [hub |-> hub, day |-> meterDay, bytes |-> count]
    BY <1>2, <1>4, FlushOnceIs
  <2>2. Covers(req.report, goal)'
    BY <2>1 DEF Covers
  <2>3. req' # NoReport
    BY <2>1, FlightIsFlight
  <2> QED
    BY <2>1, <2>2, <2>3 DEF ReportFits
<1> QED
  BY <1>3, <1>4

LEMMA WaitKeeps ==
    ASSUME ReporterTypes, Flushing, NEW more \in BOOLEAN, NEW p \in Patience,
           EndOfWait(more, p), NEW goal \in Told, hub' = hub, stored' = stored,
           ReportFits(goal), again => more, Stored(goal) \/ ~req.old,
           Stored(goal) \/ more \/ ~Covers(req.report, goal)
    PROVE  /\ ReportFits(goal)'
           /\ req' = NoReport => Stored(goal)'
<1>1. CASE Stored(goal)
  <2>1. Stored(goal)'
    BY <1>1 DEF Stored
  <2> QED
    BY <2>1 DEF ReportFits
<1>2. CASE ~Stored(goal)
  <2>1. ~req.old /\ more
    BY <1>2 DEF ReportFits
  <2>2. FlushOnce(count, meterDay, Shorter(req.patience, p))
    BY <2>1, EndOfWaitIs DEF Kept, KeptDay
  <2>3. Shorter(req.patience, p) \in Patience
    <3>1. req \in Flight
      BY DEF Flushing, ReporterTypes
    <3>2. req.patience \in Patience
      BY <3>1 DEF Flight
    <3> QED
      BY <3>2, ShorterIs
  <2> QED
    BY <1>2, <2>2, <2>3, RoundKeeps DEF ReportFits
<1> QED
  BY <1>1, <1>2

\* The chain of requests after a flush or an answer.
ChainTypes == /\ count \in Nat /\ meterDay \in Days /\ req \in {NoReport} \cup Flight
              /\ net \subseteq Told /\ again \in BOOLEAN
ChainPatient == Flushing /\ patience = "short" => req.patience = "short"

LEMMA WaitTypes ==
    ASSUME ReporterTypes, Flushing, NEW more \in BOOLEAN, NEW p \in Patience,
           EndOfWait(more, p)
    PROVE  /\ ChainTypes'
           /\ p = "short" \/ req.patience = "short" =>
                 req' = NoReport \/ req'.patience = "short"
<1>1. Kept \in Nat /\ KeptDay \in Days /\ again \in BOOLEAN /\ net \subseteq Told
  BY EndOfWaitIs DEF ReporterTypes
<1>2. req.patience \in Patience
  <2>1. req \in Flight
    BY DEF Flushing, ReporterTypes
  <2> QED
    BY <2>1 DEF Flight
<1>3. CASE ~more
  BY <1>1, <1>3, EndOfWaitIs DEF ChainTypes
<1>4. CASE more
  <2>1. FlushOnce(Kept, KeptDay, Shorter(req.patience, p)) /\ again' = FALSE
    BY <1>4, EndOfWaitIs
  <2>2. Shorter(req.patience, p) \in Patience
    BY <1>2, ShorterIs
  <2>3. ChainTypes'
    BY <1>1, <2>1, <2>2, FlushOnceIs DEF ChainTypes
  <2>4. req' = NoReport \/ req'.patience = Shorter(req.patience, p)
    BY <1>1, <2>1, <2>2, FlushOnceIs
  <2> QED
    BY <1>2, <2>3, <2>4, ShorterIs
<1> QED
  BY <1>3, <1>4

LEMMA FlushTypes ==
    ASSUME ReporterTypes, ChainPatient, NEW p \in Patience, StartFlush(p)
    PROVE  /\ ChainTypes' /\ patience' \in Patience /\ ChainPatient'
           /\ p = "short" => patience' = "short"
           /\ patience = "short" => patience' = "short" \/ ~Flushing
<1>1. CASE ~Flushing /\ patience' = p /\ FlushOnce(count, meterDay, p) /\ UNCHANGED again
  <2>1. count \in Nat /\ meterDay \in Days /\ again \in BOOLEAN
    BY DEF ReporterTypes
  <2>2. ChainTypes' /\ (req' = NoReport \/ req'.patience = p)
    BY <1>1, <2>1, FlushOnceIs DEF ChainTypes
  <2> QED
    BY <1>1, <2>2 DEF ChainPatient, Flushing
<1>2. CASE Aborts(p) /\ patience' = p /\ EndOfWait(TRUE, p)
  <2>1. Flushing /\ p = "short"
    BY <1>2 DEF Aborts
  <2>2. ChainTypes' /\ (req' = NoReport \/ req'.patience = "short")
    BY <1>2, <2>1, WaitTypes
  <2> QED
    BY <1>2, <2>1, <2>2 DEF ChainPatient, Flushing
<1>3. CASE Flushing /\ ~Aborts(p) /\ again' = TRUE /\ UNCHANGED <<req, patience, meter, net>>
  <2>1. ChainTypes' /\ patience' \in Patience
    BY <1>3 DEF ReporterTypes, ChainTypes, meter
  <2>2. p = "short" => patience = "short"
    BY <1>3 DEF Aborts, Patience, ReporterTypes
  <2> QED
    BY <1>3, <2>1, <2>2 DEF ChainPatient, Flushing
<1> QED
  BY <1>1, <1>2, <1>3 DEF StartFlush

LEMMA ProceedsIs ==
    ASSUME ReporterTypes, NEW good \in BOOLEAN, StopProceeds(good)
    PROVE  /\ stop' \in {NoStop} \cup Stopped
           /\ stop.phase # "waiting" => stop' = stop
           /\ stop.phase = "waiting" =>
                 /\ stop \in Stopped
                 /\ stop'.goal = stop.goal /\ stop'.patience = stop.patience
                 /\ stop'.clean => stop.clean /\ good
                 /\ stop'.phase = IF req' = NoReport THEN "done" ELSE "waiting"
<1>1. CASE stop.phase # "waiting"
  BY <1>1 DEF StopProceeds, ReporterTypes
<1>2. CASE stop.phase = "waiting"
  <2>1. stop \in Stopped
    BY <1>2, StopIs DEF ReporterTypes
  <2>2. PICK ph \in {"waiting", "done"} : ph = IF req' = NoReport THEN "done" ELSE "waiting"
    OBVIOUS
  <2>3. PICK cl \in BOOLEAN : cl = (stop.clean /\ good)
    OBVIOUS
  <2>4. stop' = [stop EXCEPT !.phase = ph, !.clean = cl]
    BY <1>2, <2>2, <2>3 DEF StopProceeds
  <2>5. /\ stop' \in Stopped /\ stop'.goal = stop.goal /\ stop'.patience = stop.patience
        /\ stop'.clean = cl /\ stop'.phase = ph
    BY <2>1, <2>4 DEF Stopped
  <2> QED
    BY <1>2, <2>1, <2>2, <2>3, <2>5
<1> QED
  BY <1>1, <1>2

LEMMA ReporterTypesStep ==
    ReporterTypes /\ ChainPatient /\ [ReporterNext]_reporterVars
       => ReporterTypes' /\ ChainPatient'
<1> SUFFICES ASSUME ReporterTypes, ChainPatient, [ReporterNext]_reporterVars
             PROVE  ReporterTypes' /\ ChainPatient'
  OBVIOUS
<1>1. CASE Count
  BY <1>1 DEF Count, ReporterTypes, ChainPatient, Flushing, chain
<1>2. ASSUME NEW h \in Hubs, SetTarget(h) PROVE ReporterTypes' /\ ChainPatient'
  BY <1>2 DEF SetTarget, ResetMeter, ReporterTypes, ChainPatient, Flushing, chain
<1>3. ASSUME NEW p \in Patience, Flush(p) PROVE ReporterTypes' /\ ChainPatient'
  <2>1. ChainTypes' /\ patience' \in Patience /\ ChainPatient'
    BY <1>3, FlushTypes DEF Flush
  <2>2. stop' \in {NoStop} \cup Stopped
    <3>1. PICK good \in BOOLEAN : good = ~(Aborts(p) /\ req.old)
      OBVIOUS
    <3> QED
      BY <1>3, <3>1, ProceedsIs DEF Flush
  <2> QED
    BY <1>3, <2>1, <2>2 DEF Flush, ReporterTypes, ChainTypes
<1>4. ASSUME NEW p \in Patience, Stop(p) PROVE ReporterTypes' /\ ChainPatient'
  <2>1. ChainTypes' /\ patience' \in Patience /\ ChainPatient'
    BY <1>4, FlushTypes DEF Stop
  <2>2. stop' \in Stopped
    <3>1. [hub |-> hub, day |-> meterDay, bytes |-> count] \in Told
      BY DEF Told, ReporterTypes
    <3>2. PICK cl \in BOOLEAN : cl = (meterDay = today /\ ~(Flushing /\ req.old))
      OBVIOUS
    <3> QED
      BY <1>4, <3>1, <3>2 DEF Stop, Stopped
  <2> QED
    BY <1>4, <2>1, <2>2 DEF Stop, ReporterTypes, ChainTypes
<1>5. ASSUME NEW r \in net, Deliver(r) PROVE ReporterTypes' /\ ChainPatient'
  <2>1. r \in Told
    BY DEF ReporterTypes
  <2>2. r.hub \in Hubs /\ r.day \in Days /\ r.bytes \in Nat
    BY <2>1 DEF Told
  <2>3. stored' \in [Hubs -> [Days -> Nat]] /\ net' \subseteq Told
    BY <1>5, <2>2 DEF Deliver, ReporterTypes
  <2> QED
    BY <1>5, <2>3 DEF Deliver, ReporterTypes, ChainPatient, Flushing, chain, meter
<1>6. ASSUME NEW good \in BOOLEAN, Answer(good) PROVE ReporterTypes' /\ ChainPatient'
  <2>1. again \in BOOLEAN /\ patience \in Patience
    BY DEF ReporterTypes
  <2>2. /\ ChainTypes'
        /\ patience = "short" \/ req.patience = "short" =>
              req' = NoReport \/ req'.patience = "short"
    BY <1>6, <2>1, WaitTypes DEF Answer
  <2>3. stop' \in {NoStop} \cup Stopped
    BY <1>6, ProceedsIs DEF Answer
  <2> QED
    BY <1>6, <2>2, <2>3 DEF Answer, ReporterTypes, ChainTypes, ChainPatient, Flushing
<1>7. CASE Midnight
  <2>1. today' \in Days
    BY <1>7, UsageReporterAssumption DEF Midnight, ReporterTypes, Days
  <2> QED
    BY <1>7, <2>1 DEF Midnight, ReporterTypes, ChainPatient, Flushing, chain, meter
<1>8. CASE UNCHANGED reporterVars
  BY <1>8 DEF reporterVars, ReporterTypes, ChainPatient, Flushing, chain, meter
<1> QED
  BY <1>1, <1>2, <1>3, <1>4, <1>5, <1>6, <1>7, <1>8 DEF ReporterNext

\* The stop that waits, and the one that is over.
StopRight ==
    /\ stop.phase = "waiting" => /\ Flushing
                                 /\ stop.patience = "short" => patience = "short"
                                 /\ stop.clean => ReportFits(stop.goal)
    /\ StopReports

LEMMA StopRightStep ==
    ReporterTypes /\ ChainPatient /\ StopRight /\ [ReporterNext]_reporterVars => StopRight'
<1> SUFFICES ASSUME ReporterTypes, ChainPatient, StopRight, [ReporterNext]_reporterVars
             PROVE  StopRight'
  OBVIOUS
<1>0. stop.phase \in {"waiting", "done"} => stop \in Stopped /\ stop.goal \in Told
  <2>1. stop.phase \in {"waiting", "done"} => stop \in Stopped
    BY StopIs DEF ReporterTypes
  <2> QED
    BY <2>1 DEF Stopped
<1>1. CASE Count
  <2>1. ASSUME stop.phase = "waiting", stop.clean PROVE ReportFits(stop.goal)'
    <3>1. ReportFits(stop.goal) /\ stop.goal.bytes \in Nat /\ count \in Nat
      BY <1>0, <2>1 DEF StopRight, Told, ReporterTypes
    <3>2. count' = count + 1 /\ stop' = stop /\ meterDay' = meterDay /\ hub' = hub
          /\ req' = req /\ again' = again /\ stored' = stored
      BY <1>1 DEF Count, chain
    <3> QED
      BY <3>1, <3>2 DEF ReportFits, Stored, Covers
  <2> QED
    BY <1>1, <2>1 DEF Count, StopRight, StopReports, Flushing, chain, Stored
<1>2. ASSUME NEW h \in Hubs, SetTarget(h) PROVE StopRight'
  BY <1>2, StopIs DEF SetTarget, StopRight, StopReports
<1>3. ASSUME NEW good \in BOOLEAN, StopProceeds(good), stored' = stored,
             stop.phase = "waiting" => /\ stop.patience = "short" => patience' = "short"
                                       /\ stop.clean /\ good =>
                                             /\ ReportFits(stop.goal)'
                                             /\ req' = NoReport => Stored(stop.goal)'
      PROVE  StopRight'
  <2>1. CASE stop.phase = "waiting"
    <3>1. /\ stop'.goal = stop.goal /\ stop'.patience = stop.patience
          /\ stop'.clean => stop.clean /\ good
          /\ stop'.phase = IF req' = NoReport THEN "done" ELSE "waiting"
      BY <1>3, <2>1, ProceedsIs
    <3>2. stop'.clean => ReportFits(stop.goal)' /\ (req' = NoReport => Stored(stop.goal)')
      BY <1>3, <2>1, <3>1 DEF ReportFits, Stored, Covers
    <3> QED
      BY <1>3, <2>1, <3>1, <3>2 DEF StopRight, StopReports, Flushing, ReportFits, Stored, Covers
  <2>2. CASE stop.phase # "waiting"
    <3>1. stop' = stop
      BY <1>3, <2>2, ProceedsIs
    <3> QED
      BY <1>3, <2>2, <3>1 DEF StopRight, StopReports, Stored
  <2> QED
    BY <2>1, <2>2
<1>4. ASSUME NEW p \in Patience, Flush(p) PROVE StopRight'
  <2>1. PICK good \in BOOLEAN : good = ~(Aborts(p) /\ req.old)
    OBVIOUS
  <2>2. StopProceeds(good) /\ stored' = stored /\ hub' = hub /\ StartFlush(p)
    BY <1>4, <2>1 DEF Flush
  <2>3. ASSUME stop.phase = "waiting"
        PROVE  /\ stop.patience = "short" => patience' = "short"
               /\ stop.clean /\ good => /\ ReportFits(stop.goal)'
                                        /\ req' = NoReport => Stored(stop.goal)'
    <3>1. Flushing /\ (stop.patience = "short" => patience = "short") /\ stop.goal \in Told
      BY <1>0, <2>3 DEF StopRight
    <3>2. stop.patience = "short" => patience' = "short"
      BY <2>2, <3>1, FlushTypes
    <3>3. ASSUME stop.clean, good
          PROVE  ReportFits(stop.goal)' /\ (req' = NoReport => Stored(stop.goal)')
      <4>1. ReportFits(stop.goal)
        BY <2>3, <3>3 DEF StopRight
      <4>2. CASE Aborts(p) /\ EndOfWait(TRUE, p)
        <5>1. ~req.old
          BY <2>1, <3>3, <4>2
        <5>2. PICK goal \in Told : goal = stop.goal
          BY <3>1
        <5>3. ReportFits(goal)' /\ (req' = NoReport => Stored(goal)')
          BY <2>2, <3>1, <4>1, <4>2, <5>1, <5>2, WaitKeeps
        <5>4. stop'.goal = stop.goal
          BY <2>2, <2>3, ProceedsIs
        <5> QED
          BY <5>2, <5>3, <5>4
      <4>3. CASE again' = TRUE /\ UNCHANGED <<req, patience, meter, net>>
        <5>1. stop'.goal = stop.goal
          BY <2>2, <2>3, ProceedsIs
        <5> QED
          BY <2>2, <3>1, <4>1, <4>3, <5>1 DEF ReportFits, Stored, Covers, meter, Flushing
      <4> QED
        BY <2>2, <3>1, <4>2, <4>3 DEF StartFlush
    <3> QED
      BY <3>2, <3>3
  <2> QED
    BY <1>3, <2>2, <2>3
<1>5. ASSUME NEW good \in BOOLEAN, Answer(good) PROVE StopRight'
  <2>1. StopProceeds(good) /\ stored' = stored /\ hub' = hub /\ Flushing /\ patience' = patience
        /\ EndOfWait(again, patience) /\ (good => Stored(req.report))
    BY <1>5 DEF Answer
  <2>2. ASSUME stop.phase = "waiting", stop.clean, good
        PROVE  ReportFits(stop.goal)' /\ (req' = NoReport => Stored(stop.goal)')
    <3>1. PICK goal \in Told : goal = stop.goal
      BY <1>0, <2>2
    <3>2. ReportFits(goal)
      BY <2>2, <3>1 DEF StopRight
    <3>3. Covers(req.report, goal) => Stored(goal)
      <4>1. req \in Flight
        BY <2>1 DEF Flushing, ReporterTypes
      <4>2. req.report.hub \in Hubs /\ req.report.day \in Days /\ req.report.bytes \in Nat
        BY <4>1 DEF Flight, Told
      <4>3. stored[req.report.hub][req.report.day] \in Nat /\ goal.bytes \in Nat
        BY <4>2 DEF ReporterTypes, Told
      <4> QED
        BY <2>1, <2>2, <4>2, <4>3 DEF Covers, Stored
    <3>4. again \in BOOLEAN /\ patience \in Patience
      BY DEF ReporterTypes
    <3>5. Stored(goal) \/ (~req.old /\ again)
      BY <3>2, <3>3, <3>4 DEF ReportFits
    <3>6. ReportFits(goal)' /\ (req' = NoReport => Stored(goal)')
      BY <2>1, <3>2, <3>4, <3>5, WaitKeeps
    <3>7. stop'.goal = goal
      BY <2>1, <2>2, <3>1, ProceedsIs
    <3> QED
      BY <3>6, <3>7
  <2>3. stop.phase = "waiting" => (stop.patience = "short" => patience' = "short")
    BY <2>1 DEF StopRight
  <2> QED
    BY <1>3, <2>1, <2>2, <2>3
<1>6. ASSUME NEW p \in Patience, Stop(p) PROVE StopRight'
  <2>1. PICK goal \in Told : goal = [hub |-> hub, day |-> meterDay, bytes |-> count]
    BY DEF Told, ReporterTypes
  <2>2. /\ stop'.phase = IF req' = NoReport THEN "done" ELSE "waiting"
        /\ stop'.goal = goal /\ stop'.patience = p
        /\ stop'.clean => ~(Flushing /\ req.old)
        /\ StartFlush(p) /\ hub' = hub /\ stored' = stored
    BY <1>6, <2>1 DEF Stop
  <2>3. p = "short" => patience' = "short"
    BY <2>2, FlushTypes
  <2>4. ASSUME stop'.clean PROVE ReportFits(goal)' /\ (req' = NoReport => Stored(goal)')
    <3>1. hub = goal.hub /\ meterDay = goal.day /\ count >= goal.bytes
      BY <2>1 DEF ReporterTypes
    <3>2. CASE ~Flushing /\ FlushOnce(count, meterDay, p)
      BY <2>2, <3>1, <3>2, RoundKeeps
    <3>3. CASE Aborts(p) /\ EndOfWait(TRUE, p)
      <4>1. Flushing /\ ~req.old
        BY <2>2, <2>4, <3>3 DEF Aborts
      <4>2. FlushOnce(count, meterDay, Shorter(req.patience, p))
        BY <3>3, <4>1, EndOfWaitIs DEF Kept, KeptDay
      <4>3. Shorter(req.patience, p) \in Patience
        <5>1. req \in Flight
          BY <4>1 DEF Flushing, ReporterTypes
        <5>2. req.patience \in Patience
          BY <5>1 DEF Flight
        <5> QED
          BY <5>2, ShorterIs
      <4> QED
        BY <2>2, <3>1, <4>2, <4>3, RoundKeeps
    <3>4. CASE Flushing /\ again' = TRUE /\ UNCHANGED <<req, patience, meter, net>>
      BY <2>2, <2>4, <3>1, <3>4 DEF ReportFits, Covers, meter, Flushing
    <3> QED
      BY <2>2, <3>2, <3>3, <3>4 DEF StartFlush
  <2>5. stop'.clean => ReportFits(stop.goal)' /\ (req' = NoReport => Stored(stop.goal)')
    BY <2>2, <2>4
  <2> QED
    BY <2>2, <2>3, <2>5 DEF StopRight, StopReports, Flushing, ReportFits, Stored, Covers
<1>7. ASSUME NEW r \in net, Deliver(r) PROVE StopRight'
  <2>1. ASSUME NEW goal \in Told, Stored(goal) PROVE Stored(goal)'
    <3>1. r \in Told
      BY DEF ReporterTypes
    <3>2. /\ r.hub \in Hubs /\ r.day \in Days /\ r.bytes \in Nat
          /\ goal.hub \in Hubs /\ goal.day \in Days /\ goal.bytes \in Nat
      BY <3>1 DEF Told
    <3>3. stored[goal.hub][goal.day] \in Nat
      BY <3>2 DEF ReporterTypes
    <3>4. stored' = [stored EXCEPT ![r.hub][r.day] = IF r.bytes > @ THEN r.bytes ELSE @]
      BY <1>7 DEF Deliver
    <3>5. stored'[goal.hub][goal.day] >= stored[goal.hub][goal.day]
      BY <3>2, <3>3, <3>4 DEF ReporterTypes
    <3>6. stored'[goal.hub][goal.day] \in Nat
      BY <3>2, <3>3, <3>4 DEF ReporterTypes
    <3> QED
      BY <2>1, <3>2, <3>3, <3>5, <3>6 DEF Stored
  <2>2. /\ hub' = hub /\ meterDay' = meterDay /\ count' = count /\ req' = req
        /\ again' = again /\ patience' = patience /\ stop' = stop
    BY <1>7 DEF Deliver, meter, chain
  <2>3. stop.phase \in {"waiting", "done"} /\ Stored(stop.goal) => Stored(stop.goal)'
    <3>1. ASSUME stop.phase \in {"waiting", "done"}, Stored(stop.goal)
          PROVE  Stored(stop.goal)'
      <4>1. PICK goal \in Told : goal = stop.goal
        BY <1>0, <3>1
      <4> QED
        BY <2>1, <2>2, <3>1, <4>1 DEF Stored
    <3> QED
      BY <3>1
  <2> QED
    BY <2>2, <2>3 DEF StopRight, StopReports, ReportFits, Flushing, Covers
<1>8. CASE Midnight
  BY <1>8 DEF Midnight, StopRight, StopReports, ReportFits, Stored, Covers, Flushing, chain, meter
<1>9. CASE UNCHANGED reporterVars
  BY <1>9 DEF reporterVars, StopRight, StopReports, ReportFits, Stored, Covers, Flushing, chain,
     meter
<1> QED
  BY <1>1, <1>2, <1>4, <1>5, <1>6, <1>7, <1>8, <1>9 DEF ReporterNext

\* A stop whose requests all went well has reported everything that was counted
\* before it, and a stop that may wait only briefly waits for no long request:
\* whatever flushes, changes of hub and midnights it meets.
THEOREM StopsReport == ReporterSpec => [](StopReports /\ StopIsBounded)
<1>1. ReporterInit => ReporterTypes /\ ChainPatient /\ StopRight
  <2> SUFFICES ASSUME ReporterInit PROVE ReporterTypes /\ ChainPatient /\ StopRight
    OBVIOUS
  <2>1. 0 \in Days
    BY UsageReporterAssumption DEF Days
  <2>2. stored \in [Hubs -> [Days -> Nat]]
    BY DEF ReporterInit
  <2>3. ReporterTypes
    BY <2>1, <2>2, UsageReporterAssumption DEF ReporterInit, ReporterTypes, Patience
  <2>4. stop.phase = "no" /\ ~Flushing
    BY StopIs DEF ReporterInit, Flushing
  <2> QED
    BY <2>3, <2>4 DEF ChainPatient, StopRight, StopReports
<1>2. ReporterTypes /\ ChainPatient /\ StopRight /\ [ReporterNext]_reporterVars
         => (ReporterTypes /\ ChainPatient /\ StopRight)'
  BY ReporterTypesStep, StopRightStep
<1>3. ChainPatient /\ StopRight => StopReports /\ StopIsBounded
  BY DEF ChainPatient, StopRight, StopIsBounded
<1> QED
  BY <1>1, <1>2, <1>3, PTL DEF ReporterSpec
-----------------------------------------------------------------------------
(* Launcher: no dsh is left behind but for a cause that is recorded.       *)

\* A process that has ended while its child runs has recorded why.
OrphansCounted == stage \in {"exited", "failed"} /\ Alive => orphans # {}

LauncherInv == LauncherTypeOK /\ OrphansCounted /\ NoOrphanDsh

\* An end is recorded whenever it leaves a child.
LEMMA EndIsCounted ==
    ASSUME LauncherInv, NEW code \in {0, 1}, NEW cause \in {"early", "join", "tdz", "other"},
           Ends(code, cause), cause = "other" => ~Alive, UNCHANGED dsh
    PROVE  /\ stage' \in {"exited", "failed"} /\ exit' \in {0, 1, NotYet}
           /\ orphans' \subseteq {"early", "join", "tdz", "other"}
           /\ OrphansCounted' /\ NoOrphanDsh'
BY DEF LauncherInv, LauncherTypeOK, OrphansCounted, NoOrphanDsh, Ends, Alive

\* A step that ends neither the process nor leaves anything uncounted.
LEMMA GoesOnCounted ==
    ASSUME LauncherInv, UNCHANGED orphans, stage' \notin {"exited", "failed"} \/ ~Alive'
    PROVE  OrphansCounted' /\ NoOrphanDsh'
BY DEF LauncherInv, OrphansCounted, NoOrphanDsh

LEMMA StepsGoOn ==
    ASSUME LauncherInv, NEW from, NEW to \in Setup \cup {"up", "closing", "flushing", "stopping"},
           Step(from, to)
    PROVE  LauncherInv'
<1>1. LauncherTypeOK'
  BY DEF LauncherInv, LauncherTypeOK, Step
<1> QED BY <1>1, GoesOnCounted DEF LauncherInv, Step, Setup

LEMMA StopsGoOn ==
    ASSUME LauncherInv, NEW from, StopAndThrow(from)
    PROVE  LauncherInv'
<1>1. LauncherTypeOK'
  BY DEF LauncherInv, LauncherTypeOK, StopAndThrow, Alive
<1> QED BY <1>1, GoesOnCounted DEF LauncherInv, StopAndThrow

LEMMA LauncherStep ==
    ASSUME LauncherInv, [LauncherNext]_launcher
    PROVE  LauncherInv'
<1> USE DEF NotYet
<1>1. CASE DshReady
  <2>1. LauncherTypeOK'
    BY <1>1 DEF LauncherInv, LauncherTypeOK, DshReady, Setup
  <2> QED BY <1>1, <2>1, GoesOnCounted DEF LauncherInv, DshReady
<1>2. CASE ReadyTimeout
  <2>1. LauncherTypeOK' /\ ~Alive'
    BY <1>2 DEF LauncherInv, LauncherTypeOK, ReadyTimeout, Setup, Alive
  <2> QED BY <1>2, <2>1, GoesOnCounted DEF LauncherInv, ReadyTimeout
<1>3. CASE DshDies
  <2>1. /\ dsh' \in [state : {"none", "starting", "up", "dead"}, how : {"code", "signal"}]
        /\ dsh'.state = "dead"
    BY <1>3 DEF DshDies
  <2>2. /\ stage' \in {stage, "failed", "closing"} /\ exit' \in {exit, 1}
        /\ UNCHANGED <<mode, term, watched, asked, orphans, restarts>>
    BY <1>3 DEF DshDies
  <2>3. missed' \in BOOLEAN
    BY <1>3 DEF DshDies, LauncherInv, LauncherTypeOK
  <2>4. LauncherTypeOK' /\ ~Alive'
    BY <2>1, <2>2, <2>3 DEF LauncherInv, LauncherTypeOK, Setup, Alive
  <2> QED BY <2>2, <2>4, GoesOnCounted DEF LauncherInv
<1>4. CASE Exchange
  BY <1>4, StepsGoOn, StopsGoOn DEF Exchange, Setup
<1>5. CASE CheckPicker
  BY <1>5, StepsGoOn DEF CheckPicker, Setup
<1>6. CASE RegisterToken
  <2>1. CASE Step("token", "listen")
    BY <2>1, StepsGoOn DEF Setup
  <2>2. CASE Ends(1, "join") /\ UNCHANGED <<mode, dsh, term, watched, asked, missed, restarts>>
    <3>1. LauncherTypeOK'
      BY <2>2, EndIsCounted DEF LauncherInv, LauncherTypeOK
    <3> QED BY <2>2, <3>1, EndIsCounted DEF LauncherInv
  <2> QED BY <1>6, <2>1, <2>2 DEF RegisterToken
<1>7. CASE LoadTls
  BY <1>7, StepsGoOn, StopsGoOn DEF LoadTls, Setup
<1>8. CASE Listen
  <2>1. CASE StopAndThrow("listen")
    BY <2>1, StopsGoOn
  <2>2. CASE Ends(1, "join") /\ UNCHANGED <<mode, dsh, term, watched, asked, missed, restarts>>
    <3>1. LauncherTypeOK'
      BY <2>2, EndIsCounted DEF LauncherInv, LauncherTypeOK
    <3> QED BY <2>2, <3>1, EndIsCounted DEF LauncherInv
  <2>3. CASE Step("listen", "direct")
    BY <2>3, StepsGoOn DEF Setup
  <2>4. CASE /\ stage' = "up" /\ watched' = TRUE
             /\ UNCHANGED <<mode, dsh, term, exit, asked, missed, orphans, restarts>>
    <3>1. LauncherTypeOK'
      BY <2>4 DEF LauncherInv, LauncherTypeOK
    <3> QED BY <2>4, <3>1, GoesOnCounted DEF LauncherInv
  <2> QED BY <1>8, <2>1, <2>2, <2>3, <2>4 DEF Listen
<1>9. CASE DirectUp
  <2>1. LauncherTypeOK'
    BY <1>9 DEF LauncherInv, LauncherTypeOK, DirectUp
  <2> QED BY <1>9, <2>1, GoesOnCounted DEF LauncherInv, DirectUp
<1>10. CASE HubRejects
  <2>1. CASE Ends(1, "tdz")
    <3>1. LauncherTypeOK'
      BY <1>10, <2>1, EndIsCounted DEF LauncherInv, LauncherTypeOK, HubRejects
    <3> QED BY <1>10, <2>1, <3>1, EndIsCounted DEF LauncherInv, HubRejects
  <2>2. CASE stage' = "closing" /\ exit' = 1 /\ UNCHANGED orphans
    <3>1. LauncherTypeOK'
      BY <1>10, <2>2 DEF LauncherInv, LauncherTypeOK, HubRejects
    <3> QED BY <2>2, <3>1, GoesOnCounted DEF LauncherInv
  <2> QED BY <1>10, <2>1, <2>2 DEF HubRejects
<1>11. CASE Signal
  <2>1. CASE watched
    <3>1. /\ UNCHANGED orphans /\ UNCHANGED <<mode, dsh, watched, missed, restarts>>
          /\ asked' = TRUE
          /\ exit' \in {0, 1, NotYet} /\ term' \in BOOLEAN
          /\ stage' \in {stage, "stopping", "closing"} /\ stage \notin {"exited", "failed"}
      BY <1>11, <2>1 DEF LauncherInv, LauncherTypeOK, Signal, Alive
    <3>2. LauncherTypeOK'
      BY <3>1 DEF LauncherInv, LauncherTypeOK
    <3> QED BY <3>1, <3>2, GoesOnCounted DEF LauncherInv
  <2>2. CASE ~watched
    <3>1. Ends(0, "early") /\ asked' = TRUE /\ UNCHANGED <<mode, dsh, term, watched, missed, restarts>>
      BY <1>11, <2>2 DEF Signal
    <3>2. LauncherTypeOK'
      BY <3>1, EndIsCounted DEF LauncherInv, LauncherTypeOK
    <3> QED BY <3>1, <3>2, EndIsCounted DEF LauncherInv
  <2> QED BY <2>1, <2>2
<1>12. CASE CloseDirect
  BY <1>12, StepsGoOn DEF CloseDirect
<1>13. CASE CloseJoin
  <2>1. LauncherTypeOK'
    BY <1>13 DEF LauncherInv, LauncherTypeOK, CloseJoin, Alive
  <2> QED BY <1>13, <2>1, GoesOnCounted DEF LauncherInv, CloseJoin
<1>14. CASE Exit
  <2>1. PICK code \in {exit, 0, 1} : Ends(code, "other")
    BY <1>14 DEF Exit
  <2>2. stage = "stopping" /\ ~Alive /\ UNCHANGED <<mode, dsh, term, watched, asked, missed, restarts>>
    BY <1>14 DEF Exit, Gone
  <2>3. /\ stage' \in {"exited", "failed"} /\ exit' \in {0, 1, NotYet} /\ UNCHANGED orphans
        /\ ~Alive'
    BY <2>1, <2>2 DEF LauncherInv, LauncherTypeOK, Ends, Alive
  <2>4. LauncherTypeOK'
    BY <2>2, <2>3 DEF LauncherInv, LauncherTypeOK
  <2> QED BY <2>3, <2>4, GoesOnCounted DEF LauncherInv
<1>15. CASE Restart
  <2>1. /\ stage' = "spawning" /\ exit' = NotYet /\ UNCHANGED <<mode, orphans>>
        /\ {term', watched', asked', missed'} \subseteq BOOLEAN
        /\ dsh' \in [state : {"none", "starting", "up", "dead"}, how : {"code", "signal"}]
    BY <1>15 DEF Restart
  <2>2. restarts' \in 0..MaxRestarts
    BY <1>15, LauncherAssumption DEF LauncherInv, LauncherTypeOK, Restart
  <2>3. LauncherTypeOK'
    BY <2>1, <2>2 DEF LauncherInv, LauncherTypeOK, Setup
  <2> QED BY <2>1, <2>3, GoesOnCounted DEF LauncherInv
<1>16. CASE UNCHANGED launcher
  BY <1>16 DEF LauncherInv, LauncherTypeOK, OrphansCounted, NoOrphanDsh, Alive, launcher
<1> QED BY <1>1, <1>2, <1>3, <1>4, <1>5, <1>6, <1>7, <1>8, <1>9, <1>10, <1>11, <1>12, <1>13, <1>14,
           <1>15, <1>16 DEF LauncherNext

\* The safety part of EndsClean: wherever serve() or join() ends, by any error,
\* signal, rejection or death of dsh, it leaves no dsh behind, but for the three
\* recorded causes; and no child is left that those do not count.
THEOREM NoOrphans == LauncherSpec => [](NoOrphanDsh /\ OrphansCounted)
<1>1. LauncherInit => LauncherInv
  <2> SUFFICES ASSUME LauncherInit PROVE LauncherInv
    OBVIOUS
  <2>1. /\ mode \in {"serve", "join"} /\ stage \in Setup /\ stage \notin {"exited", "failed"}
        /\ {term, watched, asked, missed} \subseteq BOOLEAN /\ orphans = {} /\ exit = NotYet
        /\ dsh \in [state : {"none", "starting", "up", "dead"}, how : {"code", "signal"}]
    BY DEF LauncherInit, Setup
  <2>2. restarts \in 0..MaxRestarts
    BY LauncherAssumption DEF LauncherInit
  <2> QED BY <2>1, <2>2 DEF LauncherInv, LauncherTypeOK, OrphansCounted, NoOrphanDsh, NotYet
<1>2. LauncherInv /\ [LauncherNext]_launcher => LauncherInv'
  BY LauncherStep
<1>3. LauncherInv => NoOrphanDsh /\ OrphansCounted
  BY DEF LauncherInv
<1> QED BY <1>1, <1>2, <1>3, PTL DEF LauncherSpec
==============================================================================
