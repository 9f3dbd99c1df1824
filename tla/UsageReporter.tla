---------------------------- MODULE UsageReporter ----------------------------
(***************************************************************************)
(* The gateway's usage reporter (UsageReporter of gateway/src/join.ts with *)
(* the UsageMeter of gateway/src/usage.ts): cumulative bytes of a day are  *)
(* reported to the hub every minute, when the tunnel ends and when the     *)
(* process stops; the hub keeps the maximum of what a process reports for  *)
(* a day (see RelayUsage).                                                 *)
(*                                                                         *)
(* A flush runs up to the answer of the hub; bytes, midnight, a change of  *)
(* hub and further flushes come in between.  A request whose answer is     *)
(* given up may still arrive.                                              *)
(***************************************************************************)
EXTENDS Naturals, FiniteSetsExt

CONSTANTS
    Hubs,
    Home,        \* the hub of the first tunnel
    LastDay,     \* bound on the days
    MaxBytes,    \* bound on the bytes counted
    MaxFlushes   \* bound on flushes that are asked for, the last one apart

ASSUME UsageReporterAssumption ==
    /\ Home \in Hubs
    /\ {LastDay, MaxBytes, MaxFlushes} \subseteq Nat

Days == 0..LastDay
Bytes == 0..MaxBytes

Reports == [hub : Hubs, day : Days, bytes : Bytes]

\* How long a request is waited for: 10 s, or 1.5 s when the process ends.
Patience == {"long", "short"}

NoReport == [sent |-> FALSE]
NoStop == [phase |-> "no"]

VARIABLES
    today,     \* localDate()
    meterDay,  \* UsageMeter.day
    count,     \* UsageMeter: bytes since the last reset
    hub,       \* hubUrl
    req,       \* the report that the flush in flight waits for
    again,     \* pendingFlush
    patience,  \* inFlightTimeoutMs
    stop,      \* stop(): what there was to report, and whether all answers were good
    net,       \* reports on their way
    stored,    \* what each hub has for each day
    counted,   \* bytes counted while a hub was the target
    flushes    \* flushes asked for

meter == <<meterDay, count>>
chain == <<req, again, patience>>
history == <<counted, flushes>>
reporterVars == <<today, meter, hub, chain, stop, net, stored, history>>

Flushing == req # NoReport

ReporterTypeOK ==
    /\ today \in Days /\ meterDay \in Days
    /\ count \in Bytes
    /\ hub \in Hubs
    /\ req \in {NoReport} \cup
           [report : Reports, old : BOOLEAN, patience : Patience]
    /\ again \in BOOLEAN
    /\ patience \in Patience
    /\ stop \in {NoStop} \cup
           [phase : {"waiting", "done"}, goal : Reports,
            patience : Patience, clean : BOOLEAN]
    /\ net \subseteq Reports
    /\ stored \in [Hubs -> [Days -> Bytes]]
    /\ counted \in [Hubs -> Bytes]
    /\ flushes \in 0..MaxFlushes

ReporterInit ==
    /\ today = 0 /\ meterDay = 0 /\ count = 0
    /\ hub = Home
    /\ req = NoReport /\ again = FALSE /\ patience = "long"
    /\ stop = NoStop
    /\ net = {}
    /\ stored = [h \in Hubs |-> [d \in Days |-> 0]]
    /\ counted = [h \in Hubs |-> 0]
    /\ flushes = 0

-----------------------------------------------------------------------------
(* The meter                                                               *)

Total(f) == MapThenSumSet(LAMBDA x : f[x], DOMAIN f)

Count ==
    /\ stop.phase # "done"
    /\ Total(counted) < MaxBytes
    /\ count' = count + 1
    /\ counted' = [counted EXCEPT ![hub] = @ + 1]
    /\ UNCHANGED <<today, meterDay, hub, chain, stop, net, stored, flushes>>

\* UsageMeter.reset
ResetMeter == count' = 0 /\ meterDay' = today

\* Another tunnel of the process, maybe to another hub.
SetTarget(h) ==
    /\ stop = NoStop
    /\ h # hub
    /\ hub' = h
    /\ ResetMeter
    /\ UNCHANGED <<today, chain, stop, net, stored, counted, flushes>>

-----------------------------------------------------------------------------
(* flush                                                                   *)

\* A meter of an earlier day is reported for that day.
ReportDay(d) == d

\* flushOnce: a meter with nothing in it has no report, and is put on today.
FlushOnce(c, d, p) ==
    IF c = 0
    THEN /\ req' = NoReport
         /\ count' = 0 /\ meterDay' = today
         /\ UNCHANGED net
    ELSE LET r == [hub |-> hub, day |-> ReportDay(d), bytes |-> c]
         IN  /\ req' = [report |-> r, old |-> d # today, patience |-> p]
             /\ net' = net \cup {r}
             /\ count' = c /\ meterDay' = d

\* flushLoop: the next round uses the shorter timeout.
Shorter(p, q) == IF "short" \in {p, q} THEN "short" ELSE "long"

\* The while condition of flushLoop.
AnotherRound(more) == more

\* Mutant: pendingFlush is not taken back.
PendingStays == again' = again

\* flushLoop takes pendingFlush back before each round.
PendingTaken == again' = FALSE

\* The wait for an answer is over, whatever it was: a meter that was of an
\* earlier day is reset, and a flush that came meanwhile gets its round.
EndOfWait(more, p) ==
    LET c == IF req.old THEN 0 ELSE count
        d == IF req.old THEN today ELSE meterDay
    IN  IF AnotherRound(more)
        THEN /\ FlushOnce(c, d, Shorter(req.patience, p))
             /\ PendingTaken
        ELSE /\ req' = NoReport
             /\ count' = c /\ meterDay' = d
             /\ UNCHANGED <<net, again>>

\* A flush with a shorter timeout aborts the request in flight.
Aborts(p) == Flushing /\ p = "short" /\ patience = "long"

\* flush: at most one chain of requests.
StartFlush(p) ==
    \/ /\ ~Flushing
       /\ patience' = p
       /\ FlushOnce(count, meterDay, p)
       /\ UNCHANGED again
    \/ /\ Aborts(p)
       /\ patience' = p
       /\ EndOfWait(TRUE, p)
    \/ /\ Flushing /\ ~Aborts(p)
       /\ again' = TRUE
       /\ UNCHANGED <<req, patience, meter, net>>

\* A stop() that waits is over when the chain is.
StopProceeds(good) ==
    stop' = IF stop.phase # "waiting" THEN stop
            ELSE [stop EXCEPT !.phase = IF req' = NoReport THEN "done" ELSE @,
                              !.clean = @ /\ good]

\* The timer, the end of a tunnel, or a tunnel's handle.stop().
Flush(p) ==
    /\ flushes < MaxFlushes
    /\ flushes' = flushes + 1
    /\ StartFlush(p)
    /\ StopProceeds(~(Aborts(p) /\ req.old))
    /\ UNCHANGED <<today, hub, stored, counted>>

\* stop
Stop(p) ==
    /\ stop = NoStop
    /\ StartFlush(p)
    /\ stop' = [phase |-> IF req' = NoReport THEN "done" ELSE "waiting",
                goal |-> [hub |-> hub, day |-> meterDay, bytes |-> count],
                patience |-> p,
                clean |-> meterDay = today /\ ~(Flushing /\ req.old)]
    /\ UNCHANGED <<today, hub, stored, history>>

-----------------------------------------------------------------------------
(* The hub                                                                 *)

\* The hub keeps the maximum, so that late reports do no harm.
Deliver(r) ==
    /\ r \in net
    /\ net' = net \ {r}
    /\ stored' = [stored EXCEPT ![r.hub][r.day] = IF r.bytes > @ THEN r.bytes ELSE @]
    /\ UNCHANGED <<today, meter, hub, chain, stop, history>>

\* The hub has the report.
Stored(r) == stored[r.hub][r.day] >= r.bytes

\* hubRequest ends: an answer that the report is stored, or else an error
\* status, which nobody looks at, a broken connection or the timeout.
Answer(good) ==
    /\ Flushing
    /\ good => Stored(req.report)
    /\ EndOfWait(again, patience)
    /\ StopProceeds(good)
    /\ UNCHANGED <<today, hub, patience, stored, history>>

Midnight ==
    /\ today < LastDay
    /\ today' = today + 1
    /\ UNCHANGED <<meter, hub, chain, stop, net, stored, history>>

ReporterNext ==
    \/ Count
    \/ \E h \in Hubs : SetTarget(h)
    \/ \E p \in Patience : Flush(p) \/ Stop(p)
    \/ \E r \in net : Deliver(r)
    \/ \E good \in BOOLEAN : Answer(good)
    \/ Midnight

ReporterSpec == ReporterInit /\ [][ReporterNext]_reporterVars

\* Every request ends, by its timeout at the latest.
ReporterFairness == WF_reporterVars(\E good \in BOOLEAN : Answer(good))

-----------------------------------------------------------------------------
(* Properties                                                              *)

\* A hub is never told of more than went to it: not of another hub's bytes,
\* and not of the same bytes for two days.
NeverTooMuch == \A h \in Hubs : Total(stored[h]) <= counted[h]

\* A stop whose reports were all accepted leaves nothing behind that had been
\* counted when it was called, also when it met a flush with older numbers.
\* (A meter of an earlier day is reset after its report, whether that arrives or
\* not, with whatever has been counted meanwhile: such a stop is not clean.)
StopReports == stop.phase = "done" /\ stop.clean => Stored(stop.goal)

\* A process that may only wait briefly is not held up by a long request that
\* was in flight, or by the rounds after it.
StopIsBounded ==
    stop.phase = "waiting" /\ stop.patience = "short" => req.patience = "short"

\* stop() returns, whatever flushes it meets.
StopEnds == stop.phase = "waiting" ~> stop.phase = "done"

\* What is reported is right, and a stop reports the rest and returns.
ReportsRight == []NeverTooMuch /\ []StopReports /\ []StopIsBounded /\ StopEnds
=============================================================================
