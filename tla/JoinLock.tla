------------------------------ MODULE JoinLock ------------------------------
(***************************************************************************)
(* The lock file ~/.rdsh/join.lock that keeps one machine to one tunnel:   *)
(* gateway/src/lock.ts (acquire, reap, release) and forceUnlockJoinLock of *)
(* gateway/src/lock-report.ts, with the narrow gate of the plugin's        *)
(* autoConnect and the wide one of its panel.                              *)
(*                                                                         *)
(* A process runs its own code without interruption but another process    *)
(* may run between any two of its file system calls; those are the steps.  *)
(* The temporary file of a publication is private to its process and left  *)
(* out.                                                                    *)
(***************************************************************************)
EXTENDS Naturals, FiniteSets

CONSTANTS
    Pids,         \* process ids
    None,         \* no file
    Inodes,       \* inode numbers, which the file system uses again
    FileSystems,  \* subset of {"link", "wx"}: with hard links, or without
    Gates,        \* subset of {"narrow", "wide"}: the forced unlocks in use
    Successors,   \* subset of {"rdsh", "other"}: who gets a dead one's id
    MaxCrashes    \* bound on the deaths of each process

ASSUME JoinLockAssumption ==
    /\ None \notin [pid : Pids, ino : Inodes, full : BOOLEAN, fresh : BOOLEAN,
                    inc : 0..MaxCrashes]
    /\ FileSystems \subseteq {"link", "wx"}
    /\ Gates \subseteq {"narrow", "wide"}
    /\ Successors \subseteq {"rdsh", "other"}
    /\ MaxCrashes \in Nat

VARIABLES
    fs,     \* does the file system have hard links
    life,   \* who has the process id now: rdsh, another program, nobody
    inc,    \* how many processes had it before
    file,   \* the lock file
    held,   \* heldPaths: the process believes that it has the lock
    pc,     \* its next file system call
    op,     \* what it is doing: "acquire", or a forced unlock
    tries,  \* attempts of the current acquire
    snap    \* the snapshot that the next deletion rests on

lockVars == <<fs, life, inc, file, held, pc, op, tries, snap>>

\* full: the content is complete; fresh: younger than FRESH_LOCK_MS.
LockFile == [pid : Pids, ino : Inodes, full : BOOLEAN, fresh : BOOLEAN,
             inc : 0..MaxCrashes]

Calls == {"idle", "publish", "write", "read", "snapshot", "probe", "compare",
          "delete", "release"}

LockTypeOK ==
    /\ fs \in FileSystems
    /\ life \in [Pids -> {"rdsh", "other", "dead"}]
    /\ inc \in [Pids -> 0..MaxCrashes]
    /\ file \in LockFile \cup {None}
    /\ held \in [Pids -> BOOLEAN]
    /\ pc \in [Pids -> Calls]
    /\ op \in [Pids -> {"acquire", "narrow", "wide"}]
    /\ tries \in [Pids -> 0..2]
    /\ snap \in [Pids -> LockFile \cup {None}]

LockInit ==
    /\ fs \in FileSystems
    /\ life = [p \in Pids |-> "rdsh"]
    /\ inc = [p \in Pids |-> 0]
    /\ file = None
    /\ held = [p \in Pids |-> FALSE]
    /\ pc = [p \in Pids |-> "idle"]
    /\ op = [p \in Pids |-> "acquire"]
    /\ tries = [p \in Pids |-> 0]
    /\ snap = [p \in Pids |-> None]

IsAlive(p) == life[p] # "dead"

NewFile(p, i, full) ==
    [pid |-> p, ino |-> i, full |-> full, fresh |-> TRUE, inc |-> inc[p]]

-----------------------------------------------------------------------------
(* acquireJoinLock                                                         *)

Attempts == 3

\* Mutant: a single attempt.
OneAttempt(p) == FALSE

AttemptsLeft(p) == tries[p] + 1 < Attempts

\* The next attempt, or {ok: false, contended: true}.
Retry(p) ==
    /\ pc' = [pc EXCEPT ![p] = IF AttemptsLeft(p) THEN "publish" ELSE "idle"]
    /\ tries' = [tries EXCEPT ![p] = IF AttemptsLeft(p) THEN @ + 1 ELSE 0]
    /\ snap' = [snap EXCEPT ![p] = None]

\* A process that has the lock already is refused at once and does nothing.
Acquire(p) ==
    /\ life[p] = "rdsh" /\ pc[p] = "idle" /\ ~held[p]
    /\ pc' = [pc EXCEPT ![p] = "publish"]
    /\ op' = [op EXCEPT ![p] = "acquire"]
    /\ tries' = [tries EXCEPT ![p] = 0]
    /\ UNCHANGED <<fs, life, inc, file, held, snap>>

\* link() of a complete temporary file: it fails if there is a lock file.
Link(p) ==
    /\ pc[p] = "publish" /\ fs = "link"
    /\ IF file = None
       THEN /\ \E i \in Inodes : file' = NewFile(p, i, TRUE)
            /\ held' = [held EXCEPT ![p] = TRUE]
            /\ pc' = [pc EXCEPT ![p] = "idle"]
       ELSE /\ pc' = [pc EXCEPT ![p] = "read"]
            /\ UNCHANGED <<file, held>>
    /\ UNCHANGED <<fs, life, inc, op, tries, snap>>

\* Without hard links: exclusive creation, and the content after it.
Create(p) ==
    /\ pc[p] = "publish" /\ fs = "wx"
    /\ IF file = None
       THEN /\ \E i \in Inodes : file' = NewFile(p, i, FALSE)
            /\ pc' = [pc EXCEPT ![p] = "write"]
       ELSE /\ pc' = [pc EXCEPT ![p] = "read"]
            /\ UNCHANGED file
    /\ UNCHANGED <<fs, life, inc, held, op, tries, snap>>

\* The content goes into the file that was created, if that is still linked.
Write(p) ==
    /\ pc[p] = "write"
    /\ file' = IF file # None /\ file.pid = p /\ file.inc = inc[p] /\ ~file.full
               THEN [file EXCEPT !.full = TRUE] ELSE file
    /\ held' = [held EXCEPT ![p] = TRUE]
    /\ pc' = [pc EXCEPT ![p] = "idle"]
    /\ UNCHANGED <<fs, life, inc, op, tries, snap>>

\* readJoinLock: a lock of a live process refuses the caller.
Read(p) ==
    /\ pc[p] = "read"
    /\ IF file # None /\ file.full /\ IsAlive(file.pid)
       THEN pc' = [pc EXCEPT ![p] = "idle"]
       ELSE pc' = [pc EXCEPT ![p] = "snapshot"]
    /\ UNCHANGED <<fs, life, inc, file, held, op, tries, snap>>

\* Mutant: an unreadable lock is reaped however young it is.
DeadWithoutAge(f) == ~f.full \/ ~IsAlive(f.pid)

\* reapDeadLock reaps the lock of a dead process and an unreadable old one.
Dead(f) == IF f.full THEN ~IsAlive(f.pid) ELSE ~f.fresh

Snapshot(p) ==
    /\ pc[p] = "snapshot"
    /\ IF file # None /\ Dead(file)
       THEN /\ snap' = [snap EXCEPT ![p] = file]
            /\ pc' = [pc EXCEPT ![p] = "compare"]
            /\ UNCHANGED tries
       ELSE Retry(p)
    /\ UNCHANGED <<fs, life, inc, file, held, op>>

-----------------------------------------------------------------------------
(* removeJoinLockIfUnchanged                                               *)

\* How a deletion ends: acquire tries again; autoConnect goes on to acquire
\* once it has removed the lock; the panel is done.
AfterDelete(p, removed) ==
    IF op[p] = "acquire" THEN Retry(p) /\ UNCHANGED op
    ELSE /\ pc' = [pc EXCEPT ![p] = IF removed /\ op[p] = "narrow"
                                    THEN "publish" ELSE "idle"]
         /\ op' = [op EXCEPT ![p] = "acquire"]
         /\ snap' = [snap EXCEPT ![p] = None]
         /\ tries' = [tries EXCEPT ![p] = 0]

Same(f, g) == f.ino = g.ino /\ f.full = g.full /\ f.pid = g.pid

\* The second snapshot: same inode, same content.
Compare(p) ==
    /\ pc[p] = "compare"
    /\ IF file # None /\ Same(file, snap[p])
       THEN /\ pc' = [pc EXCEPT ![p] = "delete"]
            /\ UNCHANGED <<op, tries, snap>>
       ELSE AfterDelete(p, FALSE)
    /\ UNCHANGED <<fs, life, inc, file, held>>

\* rmSync removes whatever has the path by now.
Delete(p) ==
    /\ pc[p] = "delete"
    /\ file' = None
    /\ AfterDelete(p, TRUE)
    /\ UNCHANGED <<fs, life, inc, held>>

-----------------------------------------------------------------------------
(* releaseJoinLock and forceUnlockJoinLock                                 *)

\* The record of the process goes first, then the file if it names the process.
Release(p) ==
    /\ life[p] = "rdsh" /\ pc[p] = "idle" /\ held[p]
    /\ held' = [held EXCEPT ![p] = FALSE]
    /\ pc' = [pc EXCEPT ![p] = IF file # None /\ file.full /\ file.pid = p
                               THEN "release" ELSE "idle"]
    /\ UNCHANGED <<fs, life, inc, file, op, tries, snap>>

ReleaseFile(p) ==
    /\ pc[p] = "release"
    /\ file' = None
    /\ pc' = [pc EXCEPT ![p] = "idle"]
    /\ UNCHANGED <<fs, life, inc, held, op, tries, snap>>

\* autoConnect reaps only for a process without a tunnel that sees a live lock.
ForceUnlock(p) ==
    /\ life[p] = "rdsh" /\ pc[p] = "idle"
    /\ file # None
    /\ \E gate \in Gates :
         /\ gate = "narrow" => ~held[p] /\ file.full /\ IsAlive(file.pid)
         /\ op' = [op EXCEPT ![p] = gate]
    /\ snap' = [snap EXCEPT ![p] = file]
    /\ pc' = [pc EXCEPT ![p] = "probe"]
    /\ UNCHANGED <<fs, life, inc, file, held, tries>>

\* describeLock: the reasons a lock may get; a process id that was taken over
\* is recognised only if ps answers and it started later than the lock by more
\* than the slack.
Reasons(p, f) ==
    IF ~f.full THEN {IF f.fresh THEN "fresh-corrupt" ELSE "damaged"}
    ELSE IF ~IsAlive(f.pid) THEN {"dead"}
    ELSE (IF f.inc # inc[f.pid] THEN {"pid-reuse"} ELSE {})
         \cup {IF f.pid = p THEN "self" ELSE "alive"}

Passes(gate, reason) ==
    IF gate = "narrow" THEN reason = "pid-reuse"
    ELSE reason \notin {"self", "fresh-corrupt"}

\* The awaited probe judges the snapshot.
Probe(p) ==
    /\ pc[p] = "probe"
    /\ \E reason \in Reasons(p, snap[p]) :
         IF Passes(op[p], reason)
         THEN /\ pc' = [pc EXCEPT ![p] = "compare"]
              /\ UNCHANGED <<op, tries, snap>>
         ELSE AfterDelete(p, FALSE)
    /\ UNCHANGED <<fs, life, inc, file, held>>

-----------------------------------------------------------------------------
(* Processes and time                                                      *)

Crash(p) ==
    /\ life[p] = "rdsh" /\ inc[p] < MaxCrashes
    /\ life' = [life EXCEPT ![p] = "dead"]
    /\ inc' = [inc EXCEPT ![p] = @ + 1]
    /\ held' = [held EXCEPT ![p] = FALSE]
    /\ pc' = [pc EXCEPT ![p] = "idle"]
    /\ op' = [op EXCEPT ![p] = "acquire"]
    /\ tries' = [tries EXCEPT ![p] = 0]
    /\ snap' = [snap EXCEPT ![p] = None]
    /\ UNCHANGED <<fs, file>>

\* Somebody gets the process id: rdsh again, or another program.
Reuse(p) ==
    /\ life[p] = "dead"
    /\ \E l \in Successors : life' = [life EXCEPT ![p] = l]
    /\ UNCHANGED <<fs, inc, file, held, pc, op, tries, snap>>

\* A second passes; a process that lives writes its content within that time.
Age ==
    /\ file # None /\ file.fresh
    /\ \A p \in Pids : pc[p] # "write"
    /\ file' = [file EXCEPT !.fresh = FALSE]
    /\ UNCHANGED <<fs, life, inc, held, pc, op, tries, snap>>

-----------------------------------------------------------------------------
\* What a process does once it has begun.
Running(p) ==
    \/ Link(p) \/ Create(p) \/ Write(p) \/ Read(p) \/ Snapshot(p)
    \/ Compare(p) \/ Delete(p) \/ ReleaseFile(p) \/ Probe(p)

LockNext ==
    \/ Age
    \/ \E p \in Pids : \/ Running(p)
                       \/ Acquire(p) \/ Release(p) \/ ForceUnlock(p)
                       \/ Crash(p) \/ Reuse(p)

LockSpec == LockInit /\ [][LockNext]_lockVars

\* A running process makes its next call; callers, deaths and users owe nothing.
LockFairness == /\ \A p \in Pids : WF_lockVars(Running(p))
                /\ WF_lockVars(Age)

-----------------------------------------------------------------------------
(* Properties                                                              *)

\* The machine's one identity (lock.ts, top): never two processes that both
\* believe that they have the lock.
Exclusive == \A p, q \in Pids : held[p] /\ held[q] => p = q

\* A complete lock of a living process leaves the disk only by its own hand.
LiveLockKept ==
    [][\A p \in Pids :
          held[p] /\ life[p] = "rdsh" /\ file # None /\ file.pid = p /\ file.full
             => \/ file' # None /\ file'.pid = p /\ file'.full
                \/ ~held'[p]]_lockVars

\* No caller loops: every attempt ends.
AttemptEnds == \A p \in Pids : pc[p] # "idle" ~> pc[p] = "idle"

\* The lock of a dead process does not keep out a process that comes alone.
Alone(p) == \A q \in Pids \ {p} : pc[q] = "idle"

Leftover == file # None /\ file.full /\ ~IsAlive(file.pid)

StaleIsTaken ==
    \A p \in Pids :
        pc[p] = "publish" /\ tries[p] = 0 /\ Leftover /\ Alone(p)
            ~> \/ held[p] \/ life[p] = "dead" \/ ~Alone(p)
               \/ file # None /\ IsAlive(file.pid)

\* The lock goes from hand to hand: from the living only by their own hand, from
\* the dead to the next that comes, and no caller is kept for ever.
LockHandedOn == LiveLockKept /\ StaleIsTaken /\ AttemptEnds
=============================================================================
