------------------------------ MODULE Credits -------------------------------
(***************************************************************************)
(* The credit account of one user on a hub that keeps its data in          *)
(* PostgreSQL: hub/src/pg-store/credits.ts and hub/src/credits.ts.  Three  *)
(* buckets are spent by LLM requests (reserve, then settle or release), by *)
(* the bytes of relayed tunnels and by voice units (cumulative reports     *)
(* with a watermark), and filled by recharges and subscription bonuses.    *)
(*                                                                         *)
(* A worker is a request that the hub is serving, in a transaction of its  *)
(* own connection at READ COMMITTED: a step is a statement that reads what *)
(* others can change, or the locked rest of the transaction.  Row locks    *)
(* are not variables: a row is locked while a worker stands where its      *)
(* transaction has the lock.  One micro-credit buys one byte or unit.  The *)
(* settled hold that spendCreditsTx inserts for a relay charge says what   *)
(* the relay row says and is left out.                                     *)
(***************************************************************************)
EXTENDS Integers, FiniteSets, FiniteSetsExt

CONSTANTS
    Workers,        \* requests served at the same time
    None,           \* no target
    Requests,       \* request ids of holds
    Relays, Voices, \* rows of relay_charge and of voice_usage_daily
    Recharges,      \* payments to be credited
    Refunds,        \* payments to be taken back
    Periods,        \* renewals of the subscription
    Ops,            \* the operations in use
    MaxHold,        \* bound on what a request reserves or costs
    MaxUnits,       \* bound on a cumulative report
    Payment,        \* credits of a payment
    Bonus,          \* credits of a renewal
    StartPurchased, StartCarried, StartCurrent,
    Overdraft       \* how far relays and voice may overdraw it

Meters == Relays \cup Voices

Payments == Recharges \cup Refunds

Floor == -Overdraft

AllOps == {"reserve", "settle", "relay", "voice", "post", "renew", "clear"}

ASSUME CreditsAssumption ==
    /\ Ops \subseteq AllOps
    /\ {MaxHold, MaxUnits, Payment, Bonus, StartPurchased, StartCarried,
        StartCurrent, Overdraft} \subseteq Nat
    /\ IsFiniteSet(Requests) /\ IsFiniteSet(Meters)
    /\ Requests \cap Meters = {}

VARIABLES
    bal,      \* the three buckets of the user's row
    hold,     \* credit_holds
    over,     \* holds whose expires_at has passed
    mark,     \* the watermark of each meter: last_up + last_down, cumulative
    charged,  \* charged_micro of each meter
    ledger,   \* idempotency keys in credits_ledger
    posted,   \* sum of the ledger's deltas
    carried,  \* periods whose bonus_carry marker is set
    pc,       \* what each worker does next
    op, target, amount,  \* its call
    view,     \* the balances it has read
    due       \* what it has found to charge

account == <<bal, hold, over, mark, charged, ledger, posted, carried>>
workers == <<pc, op, target, amount, view, due>>
vars == <<account, workers>>

Buckets == {"purchased", "carried", "current"}
Balances == [Buckets -> Int]
Zero == [b \in Buckets |-> 0]

Holds == [status : {"none", "held", "expired", "settled", "released"},
          reserved : 0..MaxHold, settled : 0..MaxHold]

Targets == Requests \cup Meters \cup Payments \cup Periods \cup {None}

TypeOK ==
    /\ bal \in Balances
    /\ hold \in [Requests -> Holds]
    /\ over \subseteq Requests
    /\ mark \in [Meters -> 0..MaxUnits]
    /\ charged \in [Meters -> Nat]
    /\ ledger \subseteq Payments \cup Periods
    /\ posted \in Int
    /\ carried \subseteq Periods
    /\ pc \in [Workers -> {"idle", "user", "commit", "parts", "apply"}]
    /\ op \in [Workers -> AllOps]
    /\ target \in [Workers -> Targets]
    /\ amount \in [Workers -> Nat]
    /\ view \in [Workers -> Balances]
    /\ due \in [Workers -> Nat]

Init ==
    /\ bal = [b \in Buckets |-> CASE b = "purchased" -> StartPurchased
                                  [] b = "carried" -> StartCarried
                                  [] OTHER -> StartCurrent]
    /\ hold = [r \in Requests |->
                  [status |-> "none", reserved |-> 0, settled |-> 0]]
    /\ over = {}
    /\ mark = [m \in Meters |-> 0]
    /\ charged = [m \in Meters |-> 0]
    /\ ledger = {}
    /\ posted = 0
    /\ carried = {}
    /\ pc = [w \in Workers |-> "idle"]
    /\ op = [w \in Workers |-> "reserve"]
    /\ target = [w \in Workers |-> None]
    /\ amount = [w \in Workers |-> 0]
    /\ view = [w \in Workers |-> Zero]
    /\ due = [w \in Workers |-> 0]

-----------------------------------------------------------------------------
(* Balances                                                                *)

Total(b) == b["purchased"] + b["carried"] + b["current"]

Positive(i) == IF i > 0 THEN i ELSE 0
Least(i, j) == IF i < j THEN i ELSE j

\* What the holds of R keep from being spent.
HeldBy(R) ==
    MapThenSumSet(LAMBDA r : hold[r].reserved,
                  {r \in R \ over : hold[r].status = "held"})

\* Mutant: the first bucket that has credit pays everything.
PartsFromFirst(b, n) ==
    [k \in Buckets |->
        IF k = (CASE b["carried"] > 0 -> "carried"
                  [] b["current"] > 0 -> "current"
                  [] OTHER -> "purchased") THEN n ELSE 0]

\* Carried bonus first, then the current one; purchased credits go into debt.
Parts(b, n) ==
    LET c == Least(Positive(b["carried"]), n)
        d == Least(Positive(b["current"]), n - c)
    IN  [k \in Buckets |-> CASE k = "carried" -> c
                             [] k = "current" -> d
                             [] OTHER -> n - c - d]

\* SET column = column - part: relative to the row as it is now.
Minus(b, parts) == [k \in Buckets |-> b[k] - parts[k]]

-----------------------------------------------------------------------------
(* Transactions                                                            *)

\* Mutant: SELECT without FOR UPDATE.
AnyRow(t) == TRUE

\* SELECT ... FROM users FOR UPDATE: the rest of the transaction has the row.
UserFree == \A w \in Workers : pc[w] # "commit"

\* A hold is locked by its settlement, a meter by its charge.
RowFree(t) ==
    \A w \in Workers : pc[w] = "idle" \/ op[w] = "reserve" \/ target[w] # t

Call(w, o, t, n) ==
    /\ o \in Ops
    /\ pc[w] = "idle"
    /\ op' = [op EXCEPT ![w] = o]
    /\ target' = [target EXCEPT ![w] = t]
    /\ amount' = [amount EXCEPT ![w] = n]

\* Mutant: the transaction of a settlement stays open.
EndUnlessSettle(w) ==
    IF op[w] = "settle" THEN UNCHANGED workers
    ELSE /\ pc' = [pc EXCEPT ![w] = "idle"]
         /\ UNCHANGED <<op, target, amount, view, due>>

\* COMMIT or ROLLBACK: the locks are gone.
End(w) ==
    /\ pc' = [pc EXCEPT ![w] = "idle"]
    /\ op' = [op EXCEPT ![w] = "reserve"]
    /\ target' = [target EXCEPT ![w] = None]
    /\ amount' = [amount EXCEPT ![w] = 0]
    /\ view' = [view EXCEPT ![w] = Zero]
    /\ due' = [due EXCEPT ![w] = 0]

\* A lock_timeout, a lost connection, a hub that dies: nothing has happened.
Rollback(w) ==
    /\ pc[w] # "idle"
    /\ End(w)
    /\ UNCHANGED account

LockUser(w) ==
    /\ pc[w] = "user" /\ UserFree
    /\ pc' = [pc EXCEPT ![w] = "commit"]
    /\ view' = [view EXCEPT ![w] = bal]
    /\ UNCHANGED <<account, op, target, amount, due>>

-----------------------------------------------------------------------------
(* Holds: LLM requests                                                     *)

\* reserveCreditHold: a request id that has a hold gets that hold.
Reserve(w, r, n) ==
    /\ Call(w, "reserve", r, n)
    /\ hold[r].status = "none"
    /\ pc' = [pc EXCEPT ![w] = "user"]
    /\ UNCHANGED <<account, view, due>>

\* Refused for want of credit, or by the unique index on request_id.
CommitReserve(w) ==
    LET r == target[w]
    IN  /\ pc[w] = "commit" /\ op[w] = "reserve"
        /\ IF /\ amount[w] <= Total(view[w]) - HeldBy(Requests)
              /\ hold[r].status = "none"
           THEN hold' = [hold EXCEPT ![r].status = "held",
                                     ![r].reserved = amount[w]]
           ELSE UNCHANGED hold
        /\ End(w)
        /\ UNCHANGED <<bal, over, mark, charged, ledger, posted, carried>>

\* settleCreditHold: the hold's row first, then the user's.
Settle(w, r, n) ==
    /\ Call(w, "settle", r, n)
    /\ hold[r].status # "none"
    /\ RowFree(r)
    /\ pc' = [pc EXCEPT ![w] = "user"]
    /\ UNCHANGED <<account, view, due>>

Others(r) == {}

\* Open: neither settled nor released; an expired hold may still be settled.
Open(r) == hold[r].status \in {"held", "expired"}

\* The holds that must stay covered when r is settled.
OtherHolds(r) == Requests \ {r}

\* debitBucketsTx cannot refuse: the amount is within the total.
CommitSettle(w) ==
    LET r == target[w]
    IN  /\ pc[w] = "commit" /\ op[w] = "settle"
        /\ IF /\ Open(r)
              /\ amount[w] <= Total(view[w]) - HeldBy(OtherHolds(r))
           THEN /\ bal' = Minus(bal, Parts(bal, amount[w]))
                /\ hold' = [hold EXCEPT ![r].status = "settled",
                                        ![r].settled = amount[w]]
           ELSE UNCHANGED <<bal, hold>>
        /\ End(w)
        /\ UNCHANGED <<over, mark, charged, ledger, posted, carried>>

\* releaseCreditHold
Release(r) ==
    /\ "settle" \in Ops
    /\ RowFree(r) /\ Open(r)
    /\ hold' = [hold EXCEPT ![r].status = "released"]
    /\ UNCHANGED <<bal, over, mark, charged, ledger, posted, carried, workers>>

\* expires_at passes.
Expire(r) ==
    /\ r \notin over /\ hold[r].status = "held"
    /\ over' = over \cup {r}
    /\ UNCHANGED <<bal, hold, mark, charged, ledger, posted, carried, workers>>

Lapsed(r) == r \in over /\ hold[r].status = "held"

\* sweepExpiredCreditHolds, row by row.
Sweep(r) ==
    /\ RowFree(r) /\ Lapsed(r)
    /\ hold' = [hold EXCEPT ![r].status = "expired"]
    /\ UNCHANGED <<bal, over, mark, charged, ledger, posted, carried, workers>>

-----------------------------------------------------------------------------
(* Meters: relayed bytes and voice units                                   *)

\* The unpaid part of a report, clamped to the overdraft limit.
Due(m, n) == Least(Positive(n - mark[m]), Positive(Total(bal) - Floor))

\* The watermark only advances.
Advance(m, n, c) ==
    /\ mark' = [mark EXCEPT ![m] = IF n > @ THEN n ELSE @]
    /\ charged' = [charged EXCEPT ![m] = @ + c]

\* chargeRelayBytes, chargeVoiceUsage: the row is made if need be and
\* locked; the balance is read without a lock.
Report(w, o, m, n) ==
    /\ Call(w, o, m, n)
    /\ RowFree(m)
    /\ due' = [due EXCEPT ![w] = Due(m, n)]
    /\ pc' = [pc EXCEPT ![w] = IF o = "relay" THEN "user" ELSE "parts"]
    /\ Due(m, n) > 0
    /\ UNCHANGED <<account, view>>

\* Nothing to pay: the report only moves the watermark.
ReportFree(o, m, n) ==
    /\ o \in Ops
    /\ RowFree(m)
    /\ Due(m, n) = 0
    /\ Advance(m, n, 0)
    /\ UNCHANGED <<bal, hold, over, ledger, posted, carried, workers>>

\* spendCreditsTx with overdraft.
CommitRelay(w) ==
    /\ pc[w] = "commit" /\ op[w] = "relay"
    /\ bal' = Minus(bal, Parts(bal, due[w]))
    /\ Advance(target[w], amount[w], due[w])
    /\ End(w)
    /\ UNCHANGED <<hold, over, ledger, posted, carried>>

\* debitVoiceTx reads the buckets without a lock ...
ReadParts(w) ==
    /\ pc[w] = "parts"
    /\ view' = [view EXCEPT ![w] = bal]
    /\ pc' = [pc EXCEPT ![w] = "apply"]
    /\ UNCHANGED <<account, op, target, amount, due>>

\* Mutant: the row is written as it was read.
SpentFrom(b, old, n) == Minus(old, Parts(old, n))

\* The buckets after a debit whose parts were computed from old.
Spent(b, old, n) == Minus(b, Parts(old, n))

\* ... and its updates wait for the user's row.
CommitVoice(w) ==
    /\ pc[w] = "apply" /\ op[w] = "voice" /\ UserFree
    /\ bal' = Spent(bal, view[w], due[w])
    /\ Advance(target[w], amount[w], due[w])
    /\ End(w)
    /\ UNCHANGED <<hold, over, ledger, posted, carried>>

-----------------------------------------------------------------------------
(* The ledger: payments and bonuses                                        *)

\* The unique index on credits_ledger.idempotency_key.
NewKey(k) == k \notin ledger

\* appendCreditLedger looks for the key before its transaction.
Post(w, p) ==
    /\ Call(w, "post", p, 0)
    /\ p \notin ledger
    /\ pc' = [pc EXCEPT ![w] = "apply"]
    /\ UNCHANGED <<account, view, due>>

CommitPost(w) ==
    LET delta == IF target[w] \in Refunds THEN -Payment ELSE Payment
    IN  /\ pc[w] = "apply" /\ op[w] = "post" /\ UserFree
        /\ IF NewKey(target[w])
           THEN /\ bal' = [bal EXCEPT !["purchased"] = @ + delta]
                /\ ledger' = ledger \cup {target[w]}
                /\ posted' = posted + delta
           ELSE UNCHANGED <<bal, ledger, posted>>
        /\ End(w)
        /\ UNCHANGED <<hold, over, mark, charged, carried>>

\* carryOverUserBonus and the grant of the next period, in the transaction
\* that has updated, and so locked, the row of the subscription.
Renew(w, p) ==
    /\ Call(w, "renew", p, 0)
    /\ \A v \in Workers : op[v] # "renew"
    /\ p \notin carried
    /\ view' = [view EXCEPT ![w] = bal]
    /\ pc' = [pc EXCEPT ![w] = "apply"]
    /\ UNCHANGED <<account, due>>

CommitRenew(w) ==
    LET c == Positive(view[w]["carried"])
        d == Positive(view[w]["current"])
    IN  /\ pc[w] = "apply" /\ op[w] = "renew" /\ UserFree
        /\ bal' = [bal EXCEPT !["carried"] = @ - c + d,
                              !["current"] = @ - d + Bonus]
        /\ ledger' = ledger \cup {target[w]}
        /\ posted' = posted - c + Bonus
        /\ carried' = carried \cup {target[w]}
        /\ End(w)
        /\ UNCHANGED <<hold, over, mark, charged>>

\* clearUserBonus reads the balances before its transaction.
Clear(w) ==
    /\ Call(w, "clear", None, 0)
    /\ view' = [view EXCEPT ![w] = bal]
    /\ pc' = [pc EXCEPT ![w] = "apply"]
    /\ UNCHANGED <<account, due>>

CommitClear(w) ==
    LET c == Positive(view[w]["carried"])
        d == Positive(view[w]["current"])
    IN  /\ pc[w] = "apply" /\ op[w] = "clear" /\ UserFree
        /\ bal' = [bal EXCEPT !["carried"] = @ - c, !["current"] = @ - d]
        /\ posted' = posted - c - d
        /\ End(w)
        /\ UNCHANGED <<hold, over, mark, charged, ledger, carried>>

-----------------------------------------------------------------------------

\* What a worker does once its call has begun.
Progress(w) ==
    \/ LockUser(w)
    \/ CommitReserve(w)
    \/ CommitSettle(w)
    \/ CommitRelay(w)
    \/ ReadParts(w)
    \/ CommitVoice(w)
    \/ CommitPost(w)
    \/ CommitRenew(w)
    \/ CommitClear(w)

Begin(w) ==
    \/ \E r \in Requests, n \in 1..MaxHold : Reserve(w, r, n)
    \/ \E r \in Requests, n \in 0..MaxHold : Settle(w, r, n)
    \/ \E m \in Relays, n \in 0..MaxUnits : Report(w, "relay", m, n)
    \/ \E m \in Voices, n \in 0..MaxUnits : Report(w, "voice", m, n)
    \/ \E p \in Payments : Post(w, p)
    \/ \E p \in Periods : Renew(w, p)
    \/ Clear(w)

Background ==
    \/ \E r \in Requests : Release(r) \/ Expire(r) \/ Sweep(r)
    \/ \E m \in Relays, n \in 1..MaxUnits : ReportFree("relay", m, n)
    \/ \E m \in Voices, n \in 1..MaxUnits : ReportFree("voice", m, n)

Next ==
    \/ \E w \in Workers : Begin(w) \/ Progress(w) \/ Rollback(w)
    \/ Background

Spec == Init /\ [][Next]_vars

\* PostgreSQL gives a lock to those who wait for it in turn.
Fairness == \A w \in Workers : SF_vars(Progress(w))

FairSpec == Spec /\ Fairness

-----------------------------------------------------------------------------
(* Properties                                                              *)

\* What has gone out of the account.
Outflow ==
    MapThenSumSet(LAMBDA r : hold[r].settled, Requests)
      + MapThenSumSet(LAMBDA m : charged[m], Meters)

\* What the user has is what was posted to the ledger less what the settled
\* holds, the relay rows and the voice rows say was charged.
Balanced == Total(bal) = StartPurchased + StartCarried + StartCurrent
                           + posted - Outflow

\* A payment is in the books at most once, though its webhook and the app's
\* verification may both post it.
PostedOnce ==
    posted + Payment * Cardinality(ledger \cap Refunds)
        <= Payment * Cardinality(ledger \cap Recharges)
             + Bonus * Cardinality(ledger \cap Periods)

\* The books balance whatever interleaves: no update is lost and no payment
\* counts twice.
Books == Balanced /\ PostedOnce

\* No unit that a relay or a voice router reports is charged twice, however
\* often and in whatever order its cumulative counts arrive.
NoDoubleCharge == \A m \in Meters : charged[m] <= mark[m]

\* The end of a hold is final: it is never paid twice, nor paid after its
\* release.
HoldFinal ==
    [][\A r \in Requests : hold[r].status \in {"settled", "released"}
          => hold'[r] = hold[r]]_vars

\* Debits that hold the user's row never take more from a bonus bucket than
\* it has: only purchased credits go into debt.
BonusNotOverdrawn == bal["carried"] >= 0 /\ bal["current"] >= 0

\* Every call ends, without the help of a timeout: locks are taken in one
\* order, so no two transactions wait for each other.
CallEnds == \A w \in Workers : pc[w] # "idle" ~> pc[w] = "idle"

-----------------------------------------------------------------------------
(* Credits as an implementation of Ledger: the variables of the account    *)
(* are the same, the transactions under way have not happened yet.         *)

L == INSTANCE Ledger WITH
        Start <- [purchased |-> StartPurchased, carried |-> StartCarried,
                  current |-> StartCurrent]

\* The transactions of PostgreSQL do what the synchronous methods of SQLite
\* do at once: reservations, settlements, releases, the sweep, relay charges
\* and payments of several workers appear to happen one after the other, each
\* on the account as the one before has left it.  (The one exception is the
\* overdraft limit, which a relay charge compares with a balance that no lock
\* protects: the run stays clear of it.)
ActsLikeLedger == L!LedgerSpec
=============================================================================
