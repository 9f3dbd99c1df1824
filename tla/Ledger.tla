-------------------------------- MODULE Ledger --------------------------------
(* What the credit account of one user promises to its callers: every operation is
   one atomic step.  This is the account of a hub that keeps its data in SQLite
   (hub/src/db.ts), where an operation is a synchronous method between SAVEPOINT
   and RELEASE; Credits is the same account in PostgreSQL, where an operation is a
   transaction of several statements beside others.                            *)
EXTENDS Integers, FiniteSets, FiniteSetsExt

CONSTANTS
  Requests,            \* request ids of holds
  Meters,              \* rows of relay_charge
  Recharges, Refunds,  \* payments to be credited, to be taken back
  MaxHold, MaxUnits,   \* bounds on an amount and on a cumulative report
  Payment,             \* credits of a payment
  Overdraft,           \* how far relays may overdraw the account
  Start                \* the three buckets at first

VARIABLES
  bal,      \* purchased_credits, bonus_carried, bonus_current of the user's row
  hold,     \* credit_holds
  over,     \* holds whose expires_at has passed
  mark,     \* last_up + last_down of a meter
  charged,  \* charged_micro of a meter
  ledger    \* idempotency keys of credits_ledger

ledgerVars == <<bal, hold, over, mark, charged, ledger>>

Balance == bal["purchased"] + bal["carried"] + bal["current"]

AtLeastZero(i) == IF i > 0 THEN i ELSE 0
Lower(i, j) == IF i < j THEN i ELSE j

ActiveHeld(R) == MapThenSumSet(LAMBDA r : hold[r].reserved, {r \in R \ over : hold[r].status = "held"})

\* Carried bonus, current bonus, purchased credits; what is left is a debt of the last.
DebitBuckets(n) ==
  LET c == Lower(AtLeastZero(bal["carried"]), n)
      d == Lower(AtLeastZero(bal["current"]), n - c)
  IN  bal' = [bal EXCEPT !["carried"] = @ - c, !["current"] = @ - d, !["purchased"] = @ - (n - c - d)]

\* A request id has one hold; a hold is within what other holds leave.
ReserveCreditHold(r, n) ==
  /\ hold[r].status = "none" /\ n <= Balance - ActiveHeld(Requests)
  /\ hold' = [hold EXCEPT ![r].status = "held", ![r].reserved = n]
  /\ UNCHANGED <<bal, over, mark, charged, ledger>>

\* Also of a hold that has expired, but not of one that was released or settled.
SettleCreditHold(r, n) ==
  /\ hold[r].status \in {"held", "expired"} /\ n <= Balance - ActiveHeld(Requests \ {r})
  /\ DebitBuckets(n)
  /\ hold' = [hold EXCEPT ![r].status = "settled", ![r].settled = n]
  /\ UNCHANGED <<over, mark, charged, ledger>>

ReleaseCreditHold(r) ==
  /\ hold[r].status \in {"held", "expired"}
  /\ hold' = [hold EXCEPT ![r].status = "released"]
  /\ UNCHANGED <<bal, over, mark, charged, ledger>>

ExpiresAtPasses(r) ==
  /\ r \notin over /\ hold[r].status = "held" /\ over' = over \cup {r}
  /\ UNCHANGED <<bal, hold, mark, charged, ledger>>

SweepExpiredCreditHolds(r) ==
  /\ r \in over /\ hold[r].status = "held"
  /\ hold' = [hold EXCEPT ![r].status = "expired"]
  /\ UNCHANGED <<bal, over, mark, charged, ledger>>

\* The unpaid part of a cumulative report, no further than the overdraft goes.
ChargeRelayBytes(m, n) ==
  LET c == Lower(AtLeastZero(n - mark[m]), AtLeastZero(Balance + Overdraft)) IN
  /\ DebitBuckets(c)
  /\ mark' = [mark EXCEPT ![m] = IF n > @ THEN n ELSE @]
  /\ charged' = [charged EXCEPT ![m] = @ + c]
  /\ UNCHANGED <<hold, over, ledger>>

AppendCreditLedger(p) ==
  /\ p \notin ledger /\ ledger' = ledger \cup {p}
  /\ bal' = [bal EXCEPT !["purchased"] = IF p \in Refunds THEN @ - Payment ELSE @ + Payment]
  /\ UNCHANGED <<hold, over, mark, charged>>

LedgerInit ==
  /\ bal = Start
  /\ hold = [r \in Requests |-> [status |-> "none", reserved |-> 0, settled |-> 0]]
  /\ over = {} /\ mark = [m \in Meters |-> 0] /\ charged = [m \in Meters |-> 0] /\ ledger = {}

LedgerNext ==
  \/ \E r \in Requests : \/ \E n \in 0 .. MaxHold : (n > 0 /\ ReserveCreditHold(r, n)) \/ SettleCreditHold(r, n)
                         \/ ReleaseCreditHold(r) \/ ExpiresAtPasses(r) \/ SweepExpiredCreditHolds(r)
  \/ \E m \in Meters, n \in 0 .. MaxUnits : ChargeRelayBytes(m, n)
  \/ \E p \in Recharges \cup Refunds : AppendCreditLedger(p)

LedgerSpec == LedgerInit /\ [][LedgerNext]_ledgerVars
================================================================================
