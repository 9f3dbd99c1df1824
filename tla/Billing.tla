-------------------------------- MODULE Billing --------------------------------
(* Orders, payments, subscriptions and the plan of one account, over the payment
   platform (unicpay) and its webhooks.

   A request in flight is a row of bill; a step is an awaited statement, or the rest
   of a transaction up to its commit.  The platform delivers an event at least once,
   in any order, and again when the answer is not 2xx or is lost.  A month, the
   grace period and the retention are one unit of time; the ledger of credits is in
   module Credits and stands here for its idempotency keys.  Signatures, the check
   of fields and the audit log are left out.                                     *)
EXTENDS Naturals

CONSTANTS
  PlanOrders, CreditOrders,  \* what can be ordered
  Receipts,                  \* transactions of the app stores
  Subs,                      \* subscriptions at the platform
  MaxClock,                  \* bound on time
  BillCalls,                 \* bound: requests in flight, 1 .. n
  BillScenarios              \* bounds: which requests and events come

ASSUME BillingAssumption == MaxClock \in Nat /\ BillCalls \subseteq Nat

Orders == PlanOrders \cup CreditOrders
Goods == Orders \cup Receipts

VARIABLES
  clock,     \* time
  order,     \* orders.status, channel, and whether ticket and payment id are stored
  paid,      \* what the platform knows of an order or a receipt (external)
  payments,  \* rows of payments per order
  entries,    \* idempotency keys of the ledger: a recharge, or its reversal
  plan,      \* users.plan_status, plan_expires_at
  subs,      \* subscriptions by subscription_id: a set of rows
  own,       \* subscriptions of orders
  bill,      \* requests in flight
  billUse,   \* the scenario
  delivered, \* history: how often the goods were given
  acked,     \* history: refunds that were answered with 2xx
  excused,   \* history: orders that an administrator refunded, or whose refund read too early
  stale      \* history: subscriptions that an event wrote which had read before another

billVars == <<clock, order, paid, payments, entries, plan, subs, own, bill, billUse, delivered, acked, excused, stale>>
hist == <<delivered, acked, excused, stale>>
goods == <<order, paid, payments, entries>>
titles == <<plan, subs, own>>

NoGood == CHOOSE x \in Goods : TRUE
NoEvent == [st |-> "none", until |-> 0]
NoCall == [op |-> "free", at |-> "", x |-> NoGood, s |-> CHOOSE s \in Subs : TRUE, row |-> "", y |-> NoGood, seen |-> NoEvent, ev |-> NoEvent,
           base |-> 0]
Ready(c) == bill[c] = NoCall /\ \A d \in BillCalls : d < c => bill[d] # NoCall
Asked(c, op) == Ready(c) /\ op \in billUse.ops
Is(c, op, at) == bill[c].op = op /\ bill[c].at = at
To(c, at) == bill' = [bill EXCEPT ![c].at = at]
Done(c) == bill' = [bill EXCEPT ![c] = NoCall]
Called(c, r) == bill' = [bill EXCEPT ![c] = r]

Later(a, b) == IF a > b THEN a ELSE b
SetPlan(st, until) == plan' = [st |-> st, until |-> until]

\* ---------------------------------------------------------------------------
\* An order: the row, the platform's ticket and payment id, the payment parameters.
\* The platform may fail or time out after each.
Initiate(c) ==
  /\ \E o \in Orders : /\ Asked(c, "order") /\ order[o].st = "none"
                       /\ order' = [order EXCEPT ![o].st = "created"]
                       /\ Called(c, [NoCall EXCEPT !.op = "order", !.at = "initiate", !.x = o])
  /\ UNCHANGED <<clock, paid, payments, entries, titles, billUse, hist>>

InitiateAnswer(c) ==
  /\ \/ /\ Is(c, "order", "initiate")
        /\ \/ paid' = [paid EXCEPT ![bill[c].x] = "open"] /\ (To(c, "refs") \/ Done(c))     \* its answer may be lost
           \/ Done(c) /\ UNCHANGED paid
        /\ UNCHANGED order
     \/ /\ Is(c, "order", "refs") /\ order' = [order EXCEPT ![bill[c].x].refs = TRUE] /\ Done(c) /\ UNCHANGED paid
  /\ UNCHANGED <<clock, payments, entries, titles, billUse, hist>>

\* External: the customer pays, the platform refunds.
PlatformMoves ==
  /\ \E x \in Goods :
       \/ paid[x] = "open" /\ paid' = [paid EXCEPT ![x] = "paid"]
       \/ paid[x] = "paid" /\ "refund" \in billUse.ops /\ paid' = [paid EXCEPT ![x] = "refunded"]
  /\ UNCHANGED <<clock, order, payments, entries, titles, bill, billUse, hist>>

Was(x) == paid[x] \in {"paid", "refunded"}

\* ---------------------------------------------------------------------------
\* The webhook of a payment, and the check that the customer asks for: both end in
\* deliverUnicpayPaidOrder, with the row of the order as they read it.
PaymentSucceeded(c) ==
  /\ \/ \E o \in Orders : /\ Asked(c, "paid") /\ Was(o) /\ payments[o] = 0
                          /\ Called(c, [NoCall EXCEPT !.op = "paid", !.at = "order", !.x = o])
     \/ /\ Is(c, "paid", "order")
        /\ IF order[bill[c].x].st = "created" THEN To(c, "mark") ELSE Done(c)
  /\ UNCHANGED <<clock, goods, titles, billUse, hist>>

OrderCheck(c) ==
  /\ \/ \E o \in Orders : /\ Asked(c, "check") /\ order[o].st = "created" /\ order[o].refs
                          /\ Called(c, [NoCall EXCEPT !.op = "paid", !.at = "query", !.x = o])
     \/ Is(c, "paid", "query") /\ (IF paid[bill[c].x] = "paid" THEN To(c, "mark") \/ Done(c) ELSE Done(c))
  /\ UNCHANGED <<clock, goods, titles, billUse, hist>>

\* UPDATE ... SET status = 'paid' WHERE status = 'created': waits for a transaction
\* that holds the row.
Held(o) == \E d \in BillCalls : bill[d].x = o /\ bill[d].op = "paid" /\ bill[d].at \in {"base", "commit"}
\* (a form that marks it whatever it is)
AnyOrder(o) == order[o].st # "none"
StillCreated(o) == order[o].st = "created"

MarkOrderPaidIfCreated(c) ==
  /\ Is(c, "paid", "mark") /\ ~Held(bill[c].x)
  /\ IF StillCreated(bill[c].x) THEN To(c, "base") ELSE Done(c)
  /\ UNCHANGED <<clock, goods, titles, billUse, hist>>

\* The rest of the transaction: the payment, and credits or a subscription that
\* begins where the plan ends that was read.
DeliverPaidOrder(c) ==
  LET o == bill[c].x IN
  /\ \/ /\ Is(c, "paid", "base") /\ bill' = [bill EXCEPT ![c].base = Later(clock, plan.until), ![c].at = "commit"]
        /\ UNCHANGED <<order, payments, entries, plan, own, delivered>>
     \/ /\ Is(c, "paid", "commit") /\ Done(c)
        /\ order' = [order EXCEPT ![o].st = "paid", ![o].by = "unicpay"] /\ payments' = [payments EXCEPT ![o] = @ + 1]
        /\ IF o \in CreditOrders
           THEN /\ entries' = entries \cup {<<"recharge", o>>} /\ UNCHANGED <<plan, own>>
                /\ delivered' = IF <<"recharge", o>> \in entries THEN delivered ELSE [delivered EXCEPT ![o] = @ + 1]
           ELSE /\ SetPlan("subscribed", bill[c].base + 1) /\ own' = [own EXCEPT ![o] = [st |-> "active", until |-> bill[c].base + 1]]
                /\ delivered' = [delivered EXCEPT ![o] = @ + 1] /\ UNCHANGED entries
  /\ UNCHANGED <<clock, paid, subs, billUse, acked, excused, stale>>

\* ---------------------------------------------------------------------------
\* The receipt of an app store: credited by the answer to the app and by the webhook,
\* under one key.
StorePurchase(c) ==
  /\ \E x \in Receipts : /\ Asked(c, "store") /\ Was(x) /\ entries' = entries \cup {<<"recharge", x>>}
                         /\ delivered' = IF <<"recharge", x>> \in entries THEN delivered ELSE [delivered EXCEPT ![x] = @ + 1]
  /\ UNCHANGED <<clock, order, paid, payments, titles, bill, billUse, acked, excused, stale>>

Recharged(x) == <<"recharge", x>> \in entries

\* ---------------------------------------------------------------------------
\* The webhook of a refund: the order is read, then the entry of the recharge; 503
\* when that is not there yet.  Orders of a plan are only recorded.
Refunded(c) ==
  \/ /\ \E x \in CreditOrders \cup Receipts :
          /\ Asked(c, "refund") /\ paid[x] = "refunded"
          /\ Called(c, [NoCall EXCEPT !.op = "refund", !.at = "entry", !.x = x, !.row = IF x \in Orders THEN order[x].st ELSE "paid"])
     /\ UNCHANGED <<clock, goods, titles, billUse, hist>>
  \/ /\ Is(c, "refund", "entry")
     /\ LET x == bill[c].x IN
        IF ~Recharged(x) THEN Done(c) /\ UNCHANGED <<acked, excused>>
        ELSE IF bill[c].row = "paid" THEN To(c, "reverse") /\ UNCHANGED <<acked, excused>>
        ELSE Done(c) /\ acked' = acked \cup {x} /\ excused' = IF bill[c].row = "created" THEN excused \cup {x} ELSE excused
     /\ UNCHANGED <<clock, goods, titles, billUse, delivered, stale>>
  \/ /\ Is(c, "refund", "reverse") /\ To(c, "mark")
     /\ entries' = IF Recharged(bill[c].x) THEN entries \cup {<<"reversal", bill[c].x>>} ELSE entries
     /\ UNCHANGED <<clock, order, paid, payments, titles, billUse, hist>>
  \/ /\ Is(c, "refund", "mark") /\ Done(c) /\ acked' = acked \cup {bill[c].x}
     /\ order' = IF bill[c].x \in Orders THEN [order EXCEPT ![bill[c].x].st = "refunded"] ELSE order
     /\ UNCHANGED <<clock, paid, payments, entries, titles, billUse, delivered, excused, stale>>

\* getActiveSubscription, then setSubscriptionStatus of the row that was found.
ActiveSub(s) == \E r \in subs[s] : r.st = "active"
ActiveAny == (\E o \in Orders : own[o].st = "active") \/ \E s \in Subs : ActiveSub(s)

FindActive(c) ==
  \/ \E o \in Orders : own[o].st = "active" /\ bill' = [bill EXCEPT ![c].row = "own", ![c].y = o, ![c].at = "end"]
  \/ \E s \in Subs : ActiveSub(s) /\ bill' = [bill EXCEPT ![c].row = "sub", ![c].s = s, ![c].at = "end"]
  \/ ~ActiveAny /\ bill' = [bill EXCEPT ![c].row = "", ![c].at = "end"]

EndFound(c, st) ==
  /\ own' = IF bill[c].row = "own" THEN [own EXCEPT ![bill[c].y].st = st] ELSE own
  /\ subs' = IF bill[c].row = "sub" THEN [subs EXCEPT ![bill[c].s] = {[r EXCEPT !.st = st] : r \in @}] ELSE subs
  /\ stale' = IF bill[c].row = "sub" /\ ~ActiveSub(bill[c].s) THEN stale \cup {bill[c].s} ELSE stale

\* An administrator's refund: the status that was read is not asked for again; the
\* plan ends, whatever was ordered.
RefundOrder(c) ==
  /\ \/ \E o \in Orders : /\ Asked(c, "manual") /\ order[o].st = "paid"
                          /\ Called(c, [NoCall EXCEPT !.op = "manual", !.at = "mark", !.x = o])
                          /\ UNCHANGED <<order, titles, excused, stale>>
     \/ /\ Is(c, "manual", "mark") /\ order' = [order EXCEPT ![bill[c].x].st = "refunded"] /\ To(c, "cancel")
        /\ excused' = excused \cup {bill[c].x} /\ UNCHANGED <<titles, stale>>
     \/ Is(c, "manual", "cancel") /\ FindActive(c) /\ UNCHANGED <<order, titles, excused, stale>>
     \/ Is(c, "manual", "end") /\ EndFound(c, "canceled") /\ To(c, "plan") /\ UNCHANGED <<order, plan, excused>>
     \/ Is(c, "manual", "plan") /\ SetPlan("free", 0) /\ Done(c) /\ UNCHANGED <<order, subs, own, excused, stale>>
  /\ UNCHANGED <<clock, paid, payments, entries, billUse, delivered, acked>>

\* ---------------------------------------------------------------------------
\* An event of a subscription.  Its row is read before the transaction; a revoked
\* one takes no other event; the time of expiry is only put off.  A new row is
\* active, whatever the event says.
\* (a form without the guard)
NeverStale(row, ev) == row.st = "revoked" /\ ev.st = "none"
StaleRevival(row, ev) == row.st = "revoked" /\ ev.st # "revoked"

SubscriptionEvent(c) ==
  /\ \E s \in Subs, st \in billUse.events, until \in {clock, clock + 1} :
       /\ Asked(c, "event")
       /\ \E seen \in (IF subs[s] = {} THEN {NoEvent} ELSE subs[s]) :
            Called(c, [NoCall EXCEPT !.op = "event", !.at = "commit", !.s = s, !.ev = [st |-> st, until |-> until], !.seen = seen])
  /\ UNCHANGED <<clock, goods, titles, billUse, hist>>

SubscriptionCommit(c) ==
  LET s == bill[c].s  ev == bill[c].ev  seen == bill[c].seen
      until == IF seen = NoEvent THEN ev.until ELSE Later(seen.until, ev.until)
      st == IF StaleRevival(seen, ev) THEN "revoked" ELSE ev.st IN
  /\ Is(c, "event", "commit") /\ Done(c)
  /\ subs' = IF seen = NoEvent THEN [subs EXCEPT ![s] = @ \cup {[st |-> "active", until |-> until]}]
             ELSE IF StaleRevival(seen, ev) THEN subs
             ELSE [subs EXCEPT ![s] = IF @ = {} THEN {} ELSE {[st |-> st, until |-> until]}]
  /\ CASE st \in {"active", "grace"} -> SetPlan("subscribed", until)
       [] st = "expired" -> SetPlan("grace", clock + 1)
       [] OTHER -> UNCHANGED plan
  /\ stale' = IF (IF seen = NoEvent THEN subs[s] # {} ELSE subs[s] # {seen}) THEN stale \cup {s} ELSE stale
  /\ UNCHANGED <<clock, goods, own, billUse, delivered, acked, excused>>

\* ---------------------------------------------------------------------------
\* Administrators and registration: the plan is read, then written.
AdjustPlan(c) ==
  /\ \/ \E st \in {"internal", "trial", "subscribed", "grace", "free"} :
          /\ Asked(c, "adjust")
          /\ st = "subscribed" => ActiveAny
          /\ Called(c, [NoCall EXCEPT !.op = "adjust", !.at = "write", !.row = st]) /\ UNCHANGED plan
     \/ /\ Is(c, "adjust", "write") /\ Done(c)
        /\ \E until \in IF bill[c].row = "internal" THEN {0} ELSE {0, clock + 1} : SetPlan(bill[c].row, until)
  /\ UNCHANGED <<clock, goods, subs, own, billUse, hist>>

GrantTrial(c) ==
  /\ \/ /\ Asked(c, "trial") /\ ~ActiveAny /\ plan.until <= MaxClock      \* bound: how far it is put off
        /\ Called(c, [NoCall EXCEPT !.op = "trial", !.at = "write", !.base = Later(clock, plan.until)]) /\ UNCHANGED plan
     \/ Is(c, "trial", "write") /\ SetPlan("trial", bill[c].base + 1) /\ Done(c)
  /\ UNCHANGED <<clock, goods, subs, own, billUse, hist>>

\* A manual order: no transaction around its statements.
CreditOrder(c) ==
  /\ \/ \E o \in PlanOrders : /\ Asked(c, "credit") /\ order[o].st = "none"
                              /\ Called(c, [NoCall EXCEPT !.op = "credit", !.at = "cancel", !.x = o, !.base = Later(clock, plan.until)])
                              /\ UNCHANGED <<order, titles, stale>>
     \/ Is(c, "credit", "cancel") /\ FindActive(c) /\ UNCHANGED <<order, titles, stale>>
     \/ Is(c, "credit", "end") /\ EndFound(c, "canceled") /\ To(c, "order") /\ UNCHANGED <<order, plan>>
     \/ /\ Is(c, "credit", "order") /\ To(c, "plan") /\ UNCHANGED <<titles, stale>>
        /\ order' = [order EXCEPT ![bill[c].x].st = "paid", ![bill[c].x].by = "manual"]
     \/ Is(c, "credit", "plan") /\ SetPlan("subscribed", bill[c].base + 1) /\ To(c, "row") /\ UNCHANGED <<order, subs, own, stale>>
     \/ /\ Is(c, "credit", "row") /\ own' = [own EXCEPT ![bill[c].x] = [st |-> "active", until |-> bill[c].base + 1]] /\ Done(c)
        /\ UNCHANGED <<order, plan, subs, stale>>
  /\ UNCHANGED <<clock, paid, payments, entries, billUse, delivered, acked, excused>>

\* ---------------------------------------------------------------------------
\* The sweep: the list of users is read once; each is then moved on by what was read.
SweepBilling(c) ==
  /\ \/ /\ Asked(c, "sweep") /\ plan.st \in {"none", "trial", "subscribed", "grace"} /\ plan.until \in 1 .. clock
        /\ Called(c, [NoCall EXCEPT !.op = "sweep", !.at = "write", !.row = plan.st]) /\ UNCHANGED <<titles, stale>>
     \/ /\ Is(c, "sweep", "write") /\ UNCHANGED <<subs, own, stale>>
        /\ CASE bill[c].row = "grace" -> SetPlan("free", 0) /\ To(c, "find")
             [] bill[c].row = "none" -> SetPlan("free", 0) /\ Done(c)
             [] OTHER -> SetPlan("grace", clock + 1) /\ Done(c)
     \/ Is(c, "sweep", "find") /\ FindActive(c) /\ UNCHANGED <<titles, stale>>
     \/ Is(c, "sweep", "end") /\ EndFound(c, "expired") /\ Done(c) /\ UNCHANGED plan
  /\ UNCHANGED <<clock, goods, billUse, delivered, acked, excused>>

Time == /\ billUse.ops # {} /\ clock < MaxClock /\ clock' = clock + 1
        /\ UNCHANGED <<goods, titles, bill, billUse, hist>>

\* The hub dies: transactions roll back, everything else stays where it is.
BillingCrash == /\ "crash" \in billUse.ops /\ bill' = [c \in BillCalls |-> NoCall]
                /\ UNCHANGED <<clock, goods, titles, billUse, hist>>

\* ---------------------------------------------------------------------------
BillingInit ==
  /\ billUse \in BillScenarios
  /\ clock = 1
  /\ order = [o \in Orders |-> [st |-> "none", by |-> "none", refs |-> FALSE]]
  /\ paid = [x \in Goods |-> IF x \in Receipts THEN "paid" ELSE "none"]
  /\ payments = [o \in Orders |-> 0] /\ entries = {}
  /\ plan = billUse.plan /\ subs = [s \in Subs |-> {}] /\ own = [o \in Orders |-> NoEvent]
  /\ bill = [c \in BillCalls |-> NoCall]
  /\ delivered = [x \in Goods |-> 0] /\ acked = {} /\ excused = {} /\ stale = {}

BillingNext ==
  \/ \E c \in BillCalls :
       \/ Initiate(c) \/ InitiateAnswer(c) \/ PaymentSucceeded(c) \/ OrderCheck(c)
       \/ MarkOrderPaidIfCreated(c) \/ DeliverPaidOrder(c) \/ StorePurchase(c) \/ Refunded(c) \/ RefundOrder(c)
       \/ SubscriptionEvent(c) \/ SubscriptionCommit(c) \/ AdjustPlan(c) \/ GrantTrial(c) \/ CreditOrder(c) \/ SweepBilling(c)
  \/ PlatformMoves \/ Time \/ BillingCrash

BillingSpec == BillingInit /\ [][BillingNext]_billVars

\* ---------------------------------------------------------------------------
\* What was paid is delivered at most once, whatever webhooks, repeated webhooks,
\* checks and crashes meet; nothing is delivered that was not paid; and an order
\* that says it is paid has its payment and its goods.
DeliveredOnce ==
  /\ \A x \in Goods : delivered[x] <= 1 /\ (delivered[x] > 0 => Was(x))
  /\ \A o \in Orders : /\ payments[o] <= 1
                       /\ order[o].st = "paid" /\ order[o].by = "unicpay" => delivered[o] = 1 /\ payments[o] = 1

\* A refund that the hub acknowledged has been taken back, also when its webhook
\* came before that of the payment; nothing is taken back that was not given.
\* (Except when an administrator had recorded a refund of the order, or the order
\* was read before the payment and its entry after it.)
RefundTakesBack ==
  /\ \A x \in acked \ excused : <<"reversal", x>> \in entries
  /\ \A x \in Goods : <<"reversal", x>> \in entries => delivered[x] = 1

\* A subscription that was revoked stays revoked and the end of one is never moved
\* back, in whatever order its events come (unless an event had read the row before
\* another one wrote it).
SubscriptionAdvances ==
  [][\A s \in Subs : (subs'[s] # subs[s] /\ s \notin stale') =>
       \A r \in subs[s], n \in subs'[s] : (r.st = "revoked" => n.st = "revoked") /\ n.until >= r.until]_billVars

\* Every payment is worth its goods once, every refund takes them back.
PaymentsExact == DeliveredOnce /\ RefundTakesBack
================================================================================
