----------------------------- MODULE RelayUsage -----------------------------
(***************************************************************************)
(* The hub's usage accumulator (UsageAccumulator of hub/src/relay-usage.ts *)
(* with the timer of hub/src/server.ts): bytes that the hub relays and     *)
(* cumulative reports of gateways are kept in memory, by day, and flushed  *)
(* to the database, where relayed bytes are charged and daily usage is     *)
(* kept as a maximum.                                                      *)
(*                                                                         *)
(* JavaScript runs a flush up to its next await: traffic, reports, other   *)
(* flushes (the timer does not look whether one is running) and midnight   *)
(* come in between.  One host; a row is its source and its date.           *)
(***************************************************************************)
EXTENDS Naturals, FiniteSets

CONSTANTS
    Sources,       \* subset of {"relay", "gateway"}
    Flushes,       \* flushes that may run at the same time
    LastDay,       \* bound on the days
    MaxBytes,      \* bound on the bytes of a row
    MaxReport,     \* bound on the value of a gateway's report
    MaxErrors,     \* bound on failures of the database
    CalmMidnight   \* no flush is running when the day changes

ASSUME RelayUsageAssumption ==
    /\ Sources \subseteq {"relay", "gateway"}
    /\ {LastDay, MaxBytes, MaxErrors} \subseteq Nat
    /\ MaxReport \in 0..MaxBytes
    /\ CalmMidnight \in BOOLEAN

Days == 0..LastDay

Keys == Sources \X Days

Source(k) == k[1]
Date(k) == k[2]

\* What AccRow says, and UsageBatchRow.
Rows == [key : Keys, bytes : 1..MaxBytes]

VARIABLES
    today,    \* localDate()
    day,      \* the day that the accumulator is on
    rows,     \* bytes of each row in memory; 0: no row
    dirty,    \* rows to write
    pending,  \* rows of earlier days to write
    pc,       \* where each flush is
    batch,    \* what it writes
    todo,     \* what of it is still to be charged
    mark,     \* relay_charge: bytes charged
    daily,    \* usage_daily
    seen,     \* bytes relayed, or reported by the gateway
    errors

memory == <<day, rows, dirty, pending>>
flushing == <<pc, batch, todo>>
database == <<mark, daily>>
vars == <<today, memory, flushing, database, seen, errors>>

TypeOK ==
    /\ today \in Days /\ day \in Days
    /\ rows \in [Keys -> 0..MaxBytes]
    /\ dirty \subseteq Keys
    /\ pending \subseteq Rows
    /\ pc \in [Flushes -> {"idle", "charge", "clear"}]
    /\ batch \in [Flushes -> SUBSET Rows]
    /\ todo \in [Flushes -> SUBSET Rows]
    /\ mark \in [Keys -> 0..MaxBytes]
    /\ daily \in [Keys -> 0..MaxBytes]
    /\ seen \in [Keys -> 0..MaxBytes]
    /\ errors \in 0..MaxErrors

Init ==
    /\ today = 0 /\ day = 0
    /\ rows = [k \in Keys |-> 0]
    /\ dirty = {} /\ pending = {}
    /\ pc = [f \in Flushes |-> "idle"]
    /\ batch = [f \in Flushes |-> {}]
    /\ todo = [f \in Flushes |-> {}]
    /\ mark = [k \in Keys |-> 0]
    /\ daily = [k \in Keys |-> 0]
    /\ seen = [k \in Keys |-> 0]
    /\ errors = 0

Larger(i, j) == IF i > j THEN i ELSE j

\* relay_charge: the watermark is a maximum.
Watermark(old, new) == Larger(old, new)

UsageRow(k, n) == [key |-> k, bytes |-> n]

-----------------------------------------------------------------------------
(* rollDayIfNeeded, which every operation begins with                      *)

\* Mutant: a flush with nothing to write leaves before it looks at the day.
NewDayIfDirty == today # day /\ dirty # {}

NewDay == today # day

\* The rows that become pending at a new day.
OldRows == {k \in Keys : rows[k] > 0}

RolledRows == IF NewDay THEN [k \in Keys |-> 0] ELSE rows
RolledDirty == IF NewDay THEN {} ELSE dirty
RolledPending ==
    IF NewDay THEN pending \cup {UsageRow(k, rows[k]) : k \in OldRows} ELSE pending

-----------------------------------------------------------------------------
(* Traffic and reports                                                     *)

AddRelayBytes ==
    LET k == <<"relay", today>>
    IN  /\ "relay" \in Sources
        /\ seen[k] < MaxBytes
        /\ day' = today
        /\ pending' = RolledPending
        /\ rows' = [RolledRows EXCEPT ![k] = @ + 1]
        /\ dirty' = RolledDirty \cup {k}
        /\ seen' = [seen EXCEPT ![k] = @ + 1]
        /\ UNCHANGED <<today, flushing, database, errors>>

\* mergeMax
Merge(old, new) == Larger(old, new)

\* reportHostUsage: reports repeat, come late, for an earlier day too, and in
\* any order.
ReportHostUsage(d, n) ==
    LET k == <<"gateway", d>>
    IN  /\ "gateway" \in Sources
        /\ d <= today
        /\ day' = today
        /\ pending' = RolledPending
        /\ rows' = [RolledRows EXCEPT ![k] = Merge(@, n)]
        /\ dirty' = RolledDirty \cup {k}
        /\ seen' = [seen EXCEPT ![k] = Larger(@, n)]
        /\ UNCHANGED <<today, flushing, database, errors>>

-----------------------------------------------------------------------------
(* flush                                                                   *)

\* The rows are copied: what changes afterwards is not in this batch.
FlushRows ==
    RolledPending \cup {UsageRow(k, RolledRows[k]) : k \in RolledDirty}

StartFlush(f) ==
    /\ pc[f] = "idle"
    /\ day' = today
    /\ pending' = RolledPending
    /\ rows' = RolledRows
    /\ dirty' = RolledDirty
    /\ IF FlushRows = {} THEN UNCHANGED flushing
       ELSE /\ pc' = [pc EXCEPT ![f] = "charge"]
            /\ batch' = [batch EXCEPT ![f] = FlushRows]
            /\ todo' = [todo EXCEPT ![f] =
                           {r \in FlushRows : Source(r.key) = "relay"}]
    /\ UNCHANGED <<today, database, seen, errors>>

Charge(f, r) ==
    /\ pc[f] = "charge" /\ r \in todo[f]
    /\ mark' = [mark EXCEPT ![r.key] = Watermark(@, r.bytes)]
    /\ todo' = [todo EXCEPT ![f] = @ \ {r}]
    /\ UNCHANGED <<today, memory, pc, batch, daily, seen, errors>>

Charged(f) == todo[f] = {}

\* upsertUsageDailyBatch: GREATEST, row by row, in one transaction.
Upsert(f) ==
    /\ pc[f] = "charge" /\ Charged(f)
    /\ daily' = [k \in Keys |->
          IF \E r \in batch[f] : r.key = k /\ r.bytes > daily[k]
          THEN CHOOSE n \in 1..MaxBytes :
                  /\ UsageRow(k, n) \in batch[f]
                  /\ \A r \in batch[f] : r.key = k => r.bytes <= n
          ELSE daily[k]]
    /\ pc' = [pc EXCEPT ![f] = "clear"]
    /\ UNCHANGED <<today, memory, batch, todo, mark, seen, errors>>

EndFlush(f) ==
    /\ pc' = [pc EXCEPT ![f] = "idle"]
    /\ batch' = [batch EXCEPT ![f] = {}]
    /\ todo' = [todo EXCEPT ![f] = {}]

\* After the last await: everything pending and dirty by now is forgotten.
ClearFlushed(f) ==
    /\ pc[f] = "clear"
    /\ pending' = {} /\ dirty' = {}
    /\ EndFlush(f)
    /\ UNCHANGED <<today, day, rows, database, seen, errors>>

\* What a failed flush leaves for the next one.
FailedKeeps == UNCHANGED <<pending, dirty>>

FailFlush(f) ==
    /\ pc[f] = "charge"
    /\ errors < MaxErrors
    /\ errors' = errors + 1
    /\ FailedKeeps
    /\ EndFlush(f)
    /\ UNCHANGED <<today, day, rows, database, seen>>

-----------------------------------------------------------------------------

Midnight ==
    /\ today < LastDay
    /\ CalmMidnight => \A f \in Flushes : pc[f] = "idle"
    /\ today' = today + 1
    /\ UNCHANGED <<memory, flushing, database, seen, errors>>

FlushStep(f) ==
    \/ StartFlush(f) \/ Upsert(f) \/ ClearFlushed(f) \/ FailFlush(f)
    \/ \E r \in todo[f] : Charge(f, r)

Next ==
    \/ AddRelayBytes
    \/ \E d \in Days, n \in 1..MaxReport : ReportHostUsage(d, n)
    \/ \E f \in Flushes : FlushStep(f)
    \/ Midnight

Spec == Init /\ [][Next]_vars

\* The timer comes every minute, and queries end.
FairSpec == Spec /\ \A f \in Flushes : WF_vars(FlushStep(f))

-----------------------------------------------------------------------------
(* Properties                                                              *)

Kept(k) == {n \in 1..MaxBytes : rows[k] >= n \/ \E r \in pending : r.key = k /\ r.bytes >= n}

\* Nothing that was relayed or reported is forgotten: it is in the database, or
\* in memory where a flush will find it, also while flushes overlap and fail.
NothingLost == \A k \in Keys : \A n \in 1..seen[k] : daily[k] >= n \/ n \in Kept(k)

\* Usage that the owner can see has been charged before: a failure between the
\* two never leaves bytes that are displayed and not paid.
ChargedFirst == \A k \in Keys : Source(k) = "relay" => daily[k] <= mark[k]

\* However often cumulative values are repeated and flushed, nothing is charged
\* or displayed that did not happen.
NeverTooMuch == \A k \in Keys : mark[k] <= seen[k] /\ daily[k] <= seen[k]

\* The traffic of a day that has ended gets into the database, although a flush
\* forgets that a row became dirty again while it was running.
DayStored ==
    \A k \in {"relay"} \X (Days \ {LastDay}) : \A n \in 1..MaxBytes :
        Date(k) < today /\ seen[k] >= n ~> daily[k] >= n

\* Usage is neither lost nor shown unpaid nor invented, and that of a day gets
\* into the database after the day.
UsageKept == []NothingLost /\ []ChargedFirst /\ []NeverTooMuch /\ DayStored
=============================================================================
