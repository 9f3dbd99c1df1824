------------------------------ MODULE HubProofs ------------------------------
(***************************************************************************)
(* Proofs about the hub's shop, its hosts and its meters, for any number   *)
(* of orders, receipts, hosts, accounts, requests, flushes and crashes:    *)
(* what a payment is worth, how far a subscription reaches, what the       *)
(* statements of connect sessions and bind sessions agree on, and what is  *)
(* displayed of the traffic.  The first part holds the invariants of       *)
(* Billing, the second those of Hosts, the third those of RelayUsage; in   *)
(* each, one lemma per kind of step comes before the theorem that puts     *)
(* them together.                                                          *)
(***************************************************************************)
EXTENDS Billing, Hosts, RelayUsage, FiniteSetTheorems, TLAPS
-----------------------------------------------------------------------------
(* Billing: every payment is worth its goods once, every refund takes them    *)
(* back.                                                                      *)

\* A request in flight is a record of these fields.
IsCall(r) ==
    r = [op |-> r.op, at |-> r.at, x |-> r.x, s |-> r.s, row |-> r.row, y |-> r.y,
         seen |-> r.seen, ev |-> r.ev, base |-> r.base]

BillShape ==
    /\ bill = [c \in BillCalls |-> bill[c]]
    /\ \A c \in BillCalls : IsCall(bill[c])
    /\ order \in [Orders -> [st : {"none", "created", "paid", "refunded"},
                             by : {"none", "unicpay", "manual"}, refs : BOOLEAN]]
    /\ paid \in [Goods -> {"none", "open", "paid", "refunded"}]
    /\ payments \in [Orders -> Nat]
    /\ delivered \in [Goods -> Nat]

Reversed(x) == <<"reversal", x>> \in entries

Recharges == CreditOrders \cup Receipts

\* What a request in flight may rely on.
CallKnows(r) ==
    /\ r.op = "order" =>
          /\ r.x \in Orders /\ order[r.x].st # "none"
          /\ r.at = "initiate" => paid[r.x] = "none"
    /\ r.op = "paid" => r.x \in Orders /\ (r.at # "query" => Was(r.x))
    /\ r.op = "refund" =>
          /\ r.x \in Recharges
          /\ r.at = "entry" /\ r.row \notin {"paid", "created"} =>
                r.x \in excused \/ Reversed(r.x)
          /\ r.at = "reverse" => Recharged(r.x)
          /\ r.at = "mark" => Reversed(r.x)
    /\ r.op \in {"manual", "credit"} => r.x \in Orders

CallsKnow == \A c \in BillCalls : CallKnows(bill[c])

\* r initiates its order, or is in the transaction that delivers it.
Initiating(r) == r.op = "order" /\ r.at = "initiate"
Paying(r) == r.op = "paid" /\ r.at \in {"base", "commit"}

\* An order is initiated by one request, and delivered in one transaction.
OneEach ==
    \A c, d \in BillCalls :
        /\ Initiating(bill[c]) /\ Initiating(bill[d]) /\ bill[c].x = bill[d].x => c = d
        /\ Paying(bill[c]) /\ Paying(bill[d]) /\ bill[c].x = bill[d].x => c = d

\* Nothing has been given for an order until its transaction has committed.
NothingYet ==
    /\ \A o \in Orders : /\ order[o].st = "none" => paid[o] = "none"
                         /\ order[o].st \in {"none", "created"} =>
                               delivered[o] = 0 /\ payments[o] = 0
    /\ \A c \in BillCalls : Paying(bill[c]) =>
          delivered[bill[c].x] = 0 /\ payments[bill[c].x] = 0

\* The ledger has what was given, and an order is refunded when it was taken back.
EntriesKnow ==
    /\ \A x \in Recharges : delivered[x] = 1 <=> Recharged(x)
    /\ \A o \in Orders : order[o].st = "refunded" => o \in excused \/ Reversed(o)

BillInv ==
    BillShape /\ CallsKnow /\ OneEach /\ NothingYet /\ EntriesKnow /\ PaymentsExact

LEMMA NoCallIs == NoCall.op = "free" /\ IsCall(NoCall)
  BY DEF NoCall, IsCall

\* What a request relies on is never taken from it, so a step of one request leaves
\* what the others know.
LEMMA OthersKnow ==
    ASSUME BillShape, CallsKnow, OneEach, NEW c \in BillCalls, NEW r,
           bill' = [bill EXCEPT ![c] = r], IsCall(r),
           \A o \in Orders : order[o].st # "none" => order'[o].st # "none",
           \A x \in Goods : paid[x] \in {"paid", "refunded"} => paid'[x] \in {"paid", "refunded"},
           entries \subseteq entries', excused \subseteq excused',
           \A d \in BillCalls \ {c} : Initiating(bill[d]) => paid'[bill[d].x] = paid[bill[d].x],
           CallKnows(r)',
           Initiating(r) => \A d \in BillCalls \ {c} : Initiating(bill[d]) => bill[d].x # r.x,
           Paying(r) => \A d \in BillCalls \ {c} : Paying(bill[d]) => bill[d].x # r.x
    PROVE  /\ bill' = [d \in BillCalls |-> bill'[d]]
           /\ \A d \in BillCalls : bill'[d] = IF d = c THEN r ELSE bill[d]
           /\ \A d \in BillCalls : IsCall(bill'[d])
           /\ CallsKnow' /\ OneEach'
<1>1. /\ bill' = [d \in BillCalls |-> bill'[d]]
      /\ \A d \in BillCalls : bill'[d] = IF d = c THEN r ELSE bill[d]
  BY DEF BillShape
<1>2. \A d \in BillCalls : IsCall(bill'[d])
  BY <1>1 DEF BillShape
<1>3. ASSUME NEW d \in BillCalls PROVE CallKnows(bill[d])'
  <2>1. CASE d = c
    BY <2>1, <1>1 DEF CallKnows, Was, Recharged, Reversed
  <2>2. CASE d # c
    <3>1. bill'[d] = bill[d] /\ CallKnows(bill[d])
      BY <2>2, <1>1 DEF CallsKnow
    <3>2. Initiating(bill[d]) => paid'[bill[d].x] = paid[bill[d].x]
      BY <2>2
    <3>. QED  BY <3>1, <3>2 DEF CallKnows, Was, Recharged, Reversed, Initiating, Recharges, Goods
  <2>. QED  BY <2>1, <2>2
<1>4. OneEach'
  BY <1>1 DEF OneEach, Initiating, Paying
<1>. QED  BY <1>1, <1>2, <1>3, <1>4 DEF CallsKnow

\* A step that only moves a request.
LEMMA JustMoves ==
    ASSUME BillInv, NEW c \in BillCalls, NEW r,
           bill' = [bill EXCEPT ![c] = r], IsCall(r),
           UNCHANGED <<order, paid, payments, entries, delivered, acked, excused>>,
           CallKnows(r), ~Initiating(r),
           Paying(r) => /\ \A d \in BillCalls \ {c} : Paying(bill[d]) => bill[d].x # r.x
                        /\ delivered[r.x] = 0 /\ payments[r.x] = 0
    PROVE  BillInv'
<1>1. CallKnows(r)'
  BY DEF CallKnows, Was, Recharged, Reversed
<1>2. /\ bill' = [d \in BillCalls |-> bill'[d]]
      /\ \A d \in BillCalls : bill'[d] = IF d = c THEN r ELSE bill[d]
      /\ \A d \in BillCalls : IsCall(bill'[d])
      /\ CallsKnow' /\ OneEach'
  <2>1. \A d \in BillCalls \ {c} : Initiating(bill[d]) => paid'[bill[d].x] = paid[bill[d].x]
    OBVIOUS
  <2>. QED  BY OthersKnow, <1>1, <2>1 DEF BillInv
<1>3. BillShape'
  BY <1>2 DEF BillInv, BillShape
<1>4. NothingYet'
  BY <1>2 DEF BillInv, NothingYet
<1>5. EntriesKnow' /\ PaymentsExact'
  BY DEF BillInv, EntriesKnow, PaymentsExact, DeliveredOnce, RefundTakesBack, Was, Recharged, Reversed
<1>. QED  BY <1>2, <1>3, <1>4, <1>5 DEF BillInv

\* ... to a place where nothing is known, or out.
LEMMA MovesQuietly ==
    ASSUME BillInv, NEW c \in BillCalls, NEW r,
           bill' = [bill EXCEPT ![c] = r], IsCall(r),
           r.op \notin {"order", "paid", "refund", "manual", "credit"},
           UNCHANGED <<order, paid, payments, entries, delivered, acked, excused>>
    PROVE  BillInv'
<1>1. CallKnows(r) /\ ~Initiating(r) /\ ~Paying(r)
  BY DEF CallKnows, Initiating, Paying
<1>. QED  BY <1>1, JustMoves

\* Where To, Done and FindActive take a request.
LEMMA Ways ==
    ASSUME bill = [d \in BillCalls |-> bill[d]], \A d \in BillCalls : IsCall(bill[d]),
           NEW c \in BillCalls
    PROVE  /\ \A at : To(c, at) =>
                 \E r : /\ bill' = [bill EXCEPT ![c] = r] /\ IsCall(r)
                        /\ r.op = bill[c].op /\ r.x = bill[c].x /\ r.row = bill[c].row /\ r.at = at
                        /\ r.ev = bill[c].ev /\ r.seen = bill[c].seen
           /\ Done(c) => \E r : bill' = [bill EXCEPT ![c] = r] /\ IsCall(r) /\ r.op = "free"
           /\ FindActive(c) =>
                 \E r : /\ bill' = [bill EXCEPT ![c] = r] /\ IsCall(r)
                        /\ r.op = bill[c].op /\ r.x = bill[c].x /\ r.at = "end"
                        /\ r.ev = bill[c].ev /\ r.seen = bill[c].seen
<1>1. IsCall(bill[c])
  OBVIOUS
<1>2. ASSUME NEW at, To(c, at)
      PROVE  \E r : /\ bill' = [bill EXCEPT ![c] = r] /\ IsCall(r)
                    /\ r.op = bill[c].op /\ r.x = bill[c].x /\ r.row = bill[c].row /\ r.at = at
                    /\ r.ev = bill[c].ev /\ r.seen = bill[c].seen
  <2>. PICK r : r = [bill[c] EXCEPT !.at = at]
    OBVIOUS
  <2>1. bill' = [bill EXCEPT ![c] = r]
    BY <1>2 DEF To
  <2>2. /\ IsCall(r) /\ r.op = bill[c].op /\ r.x = bill[c].x /\ r.row = bill[c].row /\ r.at = at
        /\ r.ev = bill[c].ev /\ r.seen = bill[c].seen
    BY <1>1 DEF IsCall
  <2>. QED  BY <2>1, <2>2
<1>3. Done(c) => \E r : bill' = [bill EXCEPT ![c] = r] /\ IsCall(r) /\ r.op = "free"
  BY NoCallIs DEF Done
<1>4. ASSUME FindActive(c)
      PROVE  \E r : /\ bill' = [bill EXCEPT ![c] = r] /\ IsCall(r)
                    /\ r.op = bill[c].op /\ r.x = bill[c].x /\ r.at = "end"
                    /\ r.ev = bill[c].ev /\ r.seen = bill[c].seen
  <2>1. CASE \E o \in Orders : bill' = [bill EXCEPT ![c].row = "own", ![c].y = o, ![c].at = "end"]
    <3>. PICK o \in Orders : bill' = [bill EXCEPT ![c].row = "own", ![c].y = o, ![c].at = "end"]
      BY <2>1
    <3>. PICK r : r = [bill[c] EXCEPT !.row = "own", !.y = o, !.at = "end"]
      OBVIOUS
    <3>1. bill' = [bill EXCEPT ![c] = r]
      OBVIOUS
    <3>2. /\ IsCall(r) /\ r.op = bill[c].op /\ r.x = bill[c].x /\ r.at = "end"
          /\ r.ev = bill[c].ev /\ r.seen = bill[c].seen
      BY <1>1 DEF IsCall
    <3>. QED  BY <3>1, <3>2
  <2>2. CASE \E s \in Subs : bill' = [bill EXCEPT ![c].row = "sub", ![c].s = s, ![c].at = "end"]
    <3>. PICK s \in Subs : bill' = [bill EXCEPT ![c].row = "sub", ![c].s = s, ![c].at = "end"]
      BY <2>2
    <3>. PICK r : r = [bill[c] EXCEPT !.row = "sub", !.s = s, !.at = "end"]
      OBVIOUS
    <3>1. bill' = [bill EXCEPT ![c] = r]
      OBVIOUS
    <3>2. /\ IsCall(r) /\ r.op = bill[c].op /\ r.x = bill[c].x /\ r.at = "end"
          /\ r.ev = bill[c].ev /\ r.seen = bill[c].seen
      BY <1>1 DEF IsCall
    <3>. QED  BY <3>1, <3>2
  <2>3. CASE bill' = [bill EXCEPT ![c].row = "", ![c].at = "end"]
    <3>. PICK r : r = [bill[c] EXCEPT !.row = "", !.at = "end"]
      OBVIOUS
    <3>1. bill' = [bill EXCEPT ![c] = r]
      BY <2>3
    <3>2. /\ IsCall(r) /\ r.op = bill[c].op /\ r.x = bill[c].x /\ r.at = "end"
          /\ r.ev = bill[c].ev /\ r.seen = bill[c].seen
      BY <1>1 DEF IsCall
    <3>. QED  BY <3>1, <3>2
  <2>. QED  BY <1>4, <2>1, <2>2, <2>3, Zenon DEF FindActive
<1>. QED  BY <1>2, <1>3, <1>4

GoodsStay == UNCHANGED <<order, paid, payments, entries, delivered, acked, excused>>

LEMMA DoneQuietly ==
    ASSUME BillInv, NEW c \in BillCalls, Done(c), GoodsStay PROVE BillInv'
<1>. PICK r : bill' = [bill EXCEPT ![c] = r] /\ IsCall(r) /\ r.op = "free"
  BY Ways DEF BillInv, BillShape
<1>. QED  BY MovesQuietly DEF GoodsStay

\* A request that relies on nothing but its order goes on.
LEMMA GoesOn ==
    ASSUME BillInv, NEW c \in BillCalls, bill[c].op \notin {"order", "paid", "refund"},
           (\E at : To(c, at)) \/ FindActive(c), GoodsStay
    PROVE  BillInv'
<1>. PICK r : /\ bill' = [bill EXCEPT ![c] = r] /\ IsCall(r)
              /\ r.op = bill[c].op /\ r.x = bill[c].x
  BY Ways DEF BillInv, BillShape
<1>1. CallKnows(r) /\ ~Initiating(r) /\ ~Paying(r)
  BY DEF BillInv, CallsKnow, CallKnows, Initiating, Paying
<1>. QED  BY <1>1, JustMoves DEF GoodsStay

LEMMA BillInitiate == ASSUME BillInv, NEW c \in BillCalls, Initiate(c) PROVE BillInv'
<1>. PICK o \in Orders : /\ Asked(c, "order") /\ order[o].st = "none"
                         /\ order' = [order EXCEPT ![o].st = "created"]
                         /\ Called(c, [NoCall EXCEPT !.op = "order", !.at = "initiate", !.x = o])
  BY DEF Initiate
<1>. UNCHANGED <<paid, payments, entries, delivered, acked, excused>>
  BY DEF Initiate, hist
<1>. PICK r : r = [NoCall EXCEPT !.op = "order", !.at = "initiate", !.x = o]
  OBVIOUS
<1>1. /\ bill' = [bill EXCEPT ![c] = r] /\ IsCall(r)
      /\ r.op = "order" /\ r.at = "initiate" /\ r.x = o
  BY DEF Called, NoCall, IsCall
<1>2. order' \in [Orders -> [st : {"none", "created", "paid", "refunded"},
                             by : {"none", "unicpay", "manual"}, refs : BOOLEAN]]
  BY DEF BillInv, BillShape
<1>3. \A q \in Orders : order'[q].st = IF q = o THEN "created" ELSE order[q].st
  BY DEF BillInv, BillShape
<1>4. \A q \in Orders : order'[q].by = order[q].by
  BY DEF BillInv, BillShape
<1>5. CallKnows(r)'
  BY <1>1, <1>3 DEF CallKnows, BillInv, NothingYet
<1>6. \A d \in BillCalls \ {c} : Initiating(bill[d]) => bill[d].x # o
  BY DEF BillInv, CallsKnow, CallKnows, Initiating
<1>7. /\ bill' = [d \in BillCalls |-> bill'[d]]
      /\ \A d \in BillCalls : bill'[d] = IF d = c THEN r ELSE bill[d]
      /\ \A d \in BillCalls : IsCall(bill'[d])
      /\ CallsKnow' /\ OneEach'
  <2>1. BillShape /\ CallsKnow /\ OneEach
    BY DEF BillInv
  <2>2. \A q \in Orders : order[q].st # "none" => order'[q].st # "none"
    BY <1>3
  <2>3. ~Paying(r) /\ r.x = o
    BY <1>1 DEF Paying
  <2>. QED  BY OthersKnow, <1>1, <1>5, <1>6, <2>1, <2>2, <2>3
<1>8. BillShape'
  BY <1>2, <1>7 DEF BillInv, BillShape
<1>9. NothingYet'
  BY <1>1, <1>3, <1>7 DEF BillInv, NothingYet, Paying
<1>10. EntriesKnow' /\ PaymentsExact'
  BY <1>3, <1>4 DEF BillInv, EntriesKnow, PaymentsExact, DeliveredOnce, RefundTakesBack, Was, Recharged, Reversed
<1>. QED  BY <1>7, <1>8, <1>9, <1>10 DEF BillInv

LEMMA BillInitiateAnswer ==
    ASSUME Receipts \cap Orders = {}, BillInv, NEW c \in BillCalls, InitiateAnswer(c) PROVE BillInv'
<1>. UNCHANGED <<payments, entries, delivered, acked, excused>>
  BY DEF InitiateAnswer, hist
<1>. DEFINE o == bill[c].x
<1>1. bill[c].op = "order" /\ o \in Orders /\ order[o].st # "none"
  BY DEF InitiateAnswer, Is, BillInv, CallsKnow, CallKnows
<1>2. \E r : /\ bill' = [bill EXCEPT ![c] = r] /\ IsCall(r) /\ CallKnows(r)
             /\ ~Initiating(r) /\ ~Paying(r)
  <2>1. CASE To(c, "refs")
    <3>. PICK r : /\ bill' = [bill EXCEPT ![c] = r] /\ IsCall(r)
                  /\ r.op = bill[c].op /\ r.x = bill[c].x /\ r.at = "refs"
      BY <2>1, Ways DEF BillInv, BillShape
    <3>1. CallKnows(r) /\ ~Initiating(r) /\ ~Paying(r)
      BY <1>1 DEF CallKnows, Initiating, Paying
    <3>. QED  BY <3>1
  <2>2. CASE Done(c)
    <3>. PICK r : bill' = [bill EXCEPT ![c] = r] /\ IsCall(r) /\ r.op = "free"
      BY <2>2, Ways DEF BillInv, BillShape
    <3>1. CallKnows(r) /\ ~Initiating(r) /\ ~Paying(r)
      BY DEF CallKnows, Initiating, Paying
    <3>. QED  BY <3>1
  <2>. QED  BY <2>1, <2>2 DEF InitiateAnswer
<1>. PICK r : /\ bill' = [bill EXCEPT ![c] = r] /\ IsCall(r) /\ CallKnows(r)
              /\ ~Initiating(r) /\ ~Paying(r)
  BY <1>2
<1>3. CASE UNCHANGED <<order, paid>>
  BY <1>3, JustMoves
<1>4. CASE Is(c, "order", "initiate") /\ paid' = [paid EXCEPT ![o] = "open"] /\ UNCHANGED order
  <2>1. paid[o] = "none" /\ o \in Goods
    BY <1>1, <1>4 DEF Is, BillInv, CallsKnow, CallKnows, Goods
  <2>2. /\ paid' \in [Goods -> {"none", "open", "paid", "refunded"}]
        /\ \A x \in Goods : paid'[x] = IF x = o THEN "open" ELSE paid[x]
    BY <1>4, <2>1 DEF BillInv, BillShape
  <2>3. \A x \in Goods : paid[x] \in {"paid", "refunded"} => paid'[x] \in {"paid", "refunded"}
    BY <2>1, <2>2
  <2>4. \A d \in BillCalls \ {c} : Initiating(bill[d]) => paid'[bill[d].x] = paid[bill[d].x]
    <3>1. ASSUME NEW d \in BillCalls \ {c}, Initiating(bill[d]) PROVE bill[d].x # o /\ bill[d].x \in Goods
      BY <1>4, <3>1 DEF Is, BillInv, OneEach, Initiating, CallsKnow, CallKnows, Goods
    <3>. QED  BY <3>1, <2>2
  <2>5. CallKnows(r)'
    BY <1>4, <2>2, <2>3 DEF CallKnows, Initiating, Was, Recharged, Reversed, Goods
  <2>6. /\ bill' = [d \in BillCalls |-> bill'[d]]
        /\ \A d \in BillCalls : bill'[d] = IF d = c THEN r ELSE bill[d]
        /\ \A d \in BillCalls : IsCall(bill'[d])
        /\ CallsKnow' /\ OneEach'
    <3>1. BillShape /\ CallsKnow /\ OneEach
      BY DEF BillInv
    <3>. QED  BY OthersKnow, <1>4, <2>3, <2>4, <2>5, <3>1
  <2>7. BillShape'
    BY <1>4, <2>2, <2>6 DEF BillInv, BillShape
  <2>8. NothingYet'
    BY <1>1, <1>4, <2>2, <2>6 DEF BillInv, NothingYet, Goods
  <2>9. EntriesKnow' /\ PaymentsExact'
    BY <1>4, <2>2, <2>3 DEF BillInv, EntriesKnow, PaymentsExact, DeliveredOnce, RefundTakesBack, Was, Recharged, Reversed
  <2>. QED  BY <2>6, <2>7, <2>8, <2>9 DEF BillInv
<1>5. CASE Is(c, "order", "refs") /\ order' = [order EXCEPT ![o].refs = TRUE] /\ UNCHANGED paid
  <2>1. order' \in [Orders -> [st : {"none", "created", "paid", "refunded"},
                               by : {"none", "unicpay", "manual"}, refs : BOOLEAN]]
    BY <1>1, <1>5, ZenonT(30) DEF BillInv, BillShape
  <2>2. \A q \in Orders : order'[q].st = order[q].st /\ order'[q].by = order[q].by
    BY <1>5 DEF BillInv, BillShape
  <2>3. CallKnows(r)'
    BY <1>5, <2>2 DEF CallKnows, Was, Recharged, Reversed
  <2>4. /\ bill' = [d \in BillCalls |-> bill'[d]]
        /\ \A d \in BillCalls : bill'[d] = IF d = c THEN r ELSE bill[d]
        /\ \A d \in BillCalls : IsCall(bill'[d])
        /\ CallsKnow' /\ OneEach'
    <3>1. BillShape /\ CallsKnow /\ OneEach
      BY DEF BillInv
    <3>. QED  BY OthersKnow, <1>5, <2>2, <2>3, <3>1
  <2>5. BillShape'
    BY <1>5, <2>1, <2>4 DEF BillInv, BillShape
  <2>6. NothingYet'
    BY <1>5, <2>2, <2>4 DEF BillInv, NothingYet
  <2>7. EntriesKnow' /\ PaymentsExact'
    BY <1>5, <2>2 DEF BillInv, EntriesKnow, PaymentsExact, DeliveredOnce, RefundTakesBack, Was, Recharged, Reversed
  <2>. QED  BY <2>4, <2>5, <2>6, <2>7 DEF BillInv
<1>. QED  BY <1>3, <1>4, <1>5 DEF InitiateAnswer

LEMMA BillPlatform ==
    ASSUME Receipts \cap Orders = {}, BillInv, PlatformMoves PROVE BillInv'
<1>. UNCHANGED <<order, payments, entries, bill, delivered, acked, excused>>
  BY DEF PlatformMoves, hist
<1>. PICK x \in Goods : /\ paid[x] \in {"open", "paid"}
                        /\ \E v \in {"paid", "refunded"} : paid' = [paid EXCEPT ![x] = v]
  BY DEF PlatformMoves
<1>1. /\ paid' \in [Goods -> {"none", "open", "paid", "refunded"}]
      /\ \A y \in Goods : y # x => paid'[y] = paid[y]
      /\ paid'[x] \in {"paid", "refunded"}
  BY DEF BillInv, BillShape
<1>2. \A y \in Goods : paid[y] \in {"paid", "refunded"} => paid'[y] \in {"paid", "refunded"}
  BY <1>1
<1>3. BillShape'
  BY <1>1 DEF BillInv, BillShape
<1>4. \A y \in Goods : paid[y] = "none" => paid'[y] = "none"
  BY <1>1
<1>5. ASSUME NEW c \in BillCalls PROVE CallKnows(bill[c])'
  <2>1. CallKnows(bill[c])
    BY DEF BillInv, CallsKnow
  <2>. QED  BY <1>2, <1>4, <2>1 DEF CallKnows, Was, Recharged, Reversed, Goods
<1>6. OneEach' /\ CallsKnow'
  BY <1>5 DEF BillInv, OneEach, CallsKnow
<1>7. NothingYet'
  BY <1>4 DEF BillInv, NothingYet, Goods
<1>8. EntriesKnow' /\ PaymentsExact'
  BY <1>2 DEF BillInv, EntriesKnow, PaymentsExact, DeliveredOnce, RefundTakesBack, Was, Recharged, Reversed
<1>. QED  BY <1>3, <1>6, <1>7, <1>8 DEF BillInv

\* The ways of a request for which To says where it goes.
LEMMA PaidGoes ==
    ASSUME BillInv, NEW c \in BillCalls, bill[c].op = "paid", NEW at, at # "query",
           To(c, at), Was(bill[c].x), GoodsStay,
           at \in {"base", "commit"} =>
               /\ \A d \in BillCalls \ {c} : Paying(bill[d]) => bill[d].x # bill[c].x
               /\ delivered[bill[c].x] = 0 /\ payments[bill[c].x] = 0
    PROVE  BillInv'
<1>. PICK r : /\ bill' = [bill EXCEPT ![c] = r] /\ IsCall(r)
              /\ r.op = bill[c].op /\ r.x = bill[c].x /\ r.at = at
  BY Ways DEF BillInv, BillShape
<1>1. CallKnows(r) /\ ~Initiating(r)
  BY DEF BillInv, CallsKnow, CallKnows, Initiating
<1>. QED  BY <1>1, JustMoves DEF GoodsStay, Paying

LEMMA BillPaymentSucceeded == ASSUME BillInv, NEW c \in BillCalls, PaymentSucceeded(c) PROVE BillInv'
<1>. GoodsStay
  BY DEF PaymentSucceeded, GoodsStay, goods, hist
<1>1. CASE \E o \in Orders : /\ Was(o)
                             /\ Called(c, [NoCall EXCEPT !.op = "paid", !.at = "order", !.x = o])
  <2>. PICK o \in Orders : Was(o) /\ Called(c, [NoCall EXCEPT !.op = "paid", !.at = "order", !.x = o])
    BY <1>1
  <2>. PICK r : r = [NoCall EXCEPT !.op = "paid", !.at = "order", !.x = o]
    OBVIOUS
  <2>1. bill' = [bill EXCEPT ![c] = r] /\ IsCall(r) /\ r.op = "paid" /\ r.at = "order" /\ r.x = o
    BY DEF Called, NoCall, IsCall
  <2>2. CallKnows(r) /\ ~Initiating(r) /\ ~Paying(r)
    BY <2>1 DEF CallKnows, Initiating, Paying
  <2>. QED  BY <2>1, <2>2, JustMoves DEF GoodsStay
<1>2. CASE Is(c, "paid", "order") /\ (Done(c) \/ To(c, "mark"))
  <2>1. bill[c].op = "paid" /\ Was(bill[c].x)
    BY <1>2 DEF Is, BillInv, CallsKnow, CallKnows
  <2>2. Done(c) \/ To(c, "mark")
    BY <1>2
  <2>. QED  BY <2>1, <2>2, PaidGoes, DoneQuietly
<1>. QED  BY <1>1, <1>2 DEF PaymentSucceeded

LEMMA BillOrderCheck == ASSUME BillInv, NEW c \in BillCalls, OrderCheck(c) PROVE BillInv'
<1>. GoodsStay
  BY DEF OrderCheck, GoodsStay, goods, hist
<1>1. CASE \E o \in Orders : Called(c, [NoCall EXCEPT !.op = "paid", !.at = "query", !.x = o])
  <2>. PICK o \in Orders : Called(c, [NoCall EXCEPT !.op = "paid", !.at = "query", !.x = o])
    BY <1>1
  <2>. PICK r : r = [NoCall EXCEPT !.op = "paid", !.at = "query", !.x = o]
    OBVIOUS
  <2>1. bill' = [bill EXCEPT ![c] = r] /\ IsCall(r) /\ r.op = "paid" /\ r.at = "query" /\ r.x = o
    BY DEF Called, NoCall, IsCall
  <2>2. CallKnows(r) /\ ~Initiating(r) /\ ~Paying(r)
    BY <2>1 DEF CallKnows, Initiating, Paying
  <2>. QED  BY <2>1, <2>2, JustMoves DEF GoodsStay
<1>2. CASE Is(c, "paid", "query") /\ (IF paid[bill[c].x] = "paid" THEN To(c, "mark") \/ Done(c) ELSE Done(c))
  <2>1. bill[c].op = "paid" /\ (Done(c) \/ (To(c, "mark") /\ Was(bill[c].x)))
    BY <1>2 DEF Is, Was
  <2>. QED  BY <2>1, PaidGoes, DoneQuietly
<1>. QED  BY <1>1, <1>2 DEF OrderCheck

LEMMA BillMark == ASSUME BillInv, NEW c \in BillCalls, MarkOrderPaidIfCreated(c) PROVE BillInv'
<1>. GoodsStay
  BY DEF MarkOrderPaidIfCreated, GoodsStay, goods, hist
<1>1. bill[c].op = "paid" /\ bill[c].x \in Orders /\ Was(bill[c].x)
  BY DEF MarkOrderPaidIfCreated, Is, BillInv, CallsKnow, CallKnows
<1>2. \A d \in BillCalls \ {c} : Paying(bill[d]) => bill[d].x # bill[c].x
  BY DEF MarkOrderPaidIfCreated, Held, Paying
<1>3. StillCreated(bill[c].x) => delivered[bill[c].x] = 0 /\ payments[bill[c].x] = 0
  BY <1>1 DEF StillCreated, BillInv, NothingYet
<1>4. Done(c) \/ (To(c, "base") /\ StillCreated(bill[c].x))
  BY DEF MarkOrderPaidIfCreated
<1>. QED  BY <1>1, <1>2, <1>3, <1>4, PaidGoes, DoneQuietly

LEMMA BillDeliver ==
    ASSUME Receipts \cap Orders = {}, BillInv, NEW c \in BillCalls, DeliverPaidOrder(c) PROVE BillInv'
<1>. DEFINE o == bill[c].x
<1>1. /\ bill[c].op = "paid" /\ o \in Orders /\ o \in Goods /\ Was(o)
      /\ delivered[o] = 0 /\ payments[o] = 0
      /\ \A d \in BillCalls \ {c} : Paying(bill[d]) => bill[d].x # o
  BY Zenon DEF DeliverPaidOrder, Is, BillInv, CallsKnow, CallKnows, NothingYet, OneEach, Paying, Goods
<1>. UNCHANGED <<paid, acked, excused>>
  BY DEF DeliverPaidOrder
<1>2. CASE Is(c, "paid", "base") /\ bill' = [bill EXCEPT ![c].base = Later(clock, plan.until), ![c].at = "commit"]
           /\ UNCHANGED <<order, payments, entries, delivered>>
  <2>. PICK r : r = [bill[c] EXCEPT !.base = Later(clock, plan.until), !.at = "commit"]
    OBVIOUS
  <2>1. IsCall(bill[c])
    BY DEF BillInv, BillShape
  <2>2. bill' = [bill EXCEPT ![c] = r] /\ IsCall(r) /\ r.op = "paid" /\ r.at = "commit" /\ r.x = o
    BY <1>1, <1>2, <2>1 DEF BillInv, BillShape, IsCall
  <2>3. CallKnows(r) /\ ~Initiating(r)
    BY <1>1, <2>2 DEF CallKnows, Initiating
  <2>4. \A d \in BillCalls \ {c} : Paying(bill[d]) => bill[d].x # r.x
    BY <1>1, <2>2
  <2>5. delivered[r.x] = 0 /\ payments[r.x] = 0
    BY <1>1, <2>2
  <2>6. UNCHANGED <<order, paid, payments, entries, delivered, acked, excused>>
    BY <1>2
  <2>. QED  BY <2>2, <2>3, <2>4, <2>5, <2>6, JustMoves
<1>3. CASE Is(c, "paid", "commit") /\ Done(c)
           /\ order' = [order EXCEPT ![o].st = "paid", ![o].by = "unicpay"] /\ payments' = [payments EXCEPT ![o] = @ + 1]
  <2>. PICK r : bill' = [bill EXCEPT ![c] = r] /\ IsCall(r) /\ r.op = "free"
    BY <1>3, Ways DEF BillInv, BillShape
  <2>1. o \in Recharges <=> o \in CreditOrders
    BY <1>1 DEF Recharges, Orders
  <2>2. o \in Recharges => ~Recharged(o)
    BY <1>1 DEF BillInv, EntriesKnow
  <2>3. IF o \in Recharges
        THEN entries' = entries \cup {<<"recharge", o>>} /\ delivered' = [delivered EXCEPT ![o] = @ + 1]
        ELSE entries' = entries /\ delivered' = [delivered EXCEPT ![o] = @ + 1]
    <3>1. Is(c, "paid", "commit") => ~Is(c, "paid", "base")
      BY DEF Is
    <3>. QED  BY <1>3, <2>1, <2>2, <3>1 DEF DeliverPaidOrder, Recharged
  <2>4. /\ delivered' \in [Goods -> Nat]
        /\ \A x \in Goods : delivered'[x] = IF x = o THEN 1 ELSE delivered[x]
    BY <1>1, <2>3 DEF BillInv, BillShape
  <2>5. /\ payments' \in [Orders -> Nat]
        /\ \A q \in Orders : payments'[q] = IF q = o THEN 1 ELSE payments[q]
    BY <1>1, <1>3 DEF BillInv, BillShape
  <2>6. /\ order' \in [Orders -> [st : {"none", "created", "paid", "refunded"},
                                  by : {"none", "unicpay", "manual"}, refs : BOOLEAN]]
        /\ \A q \in Orders : q # o => order'[q] = order[q]
        /\ order'[o].st = "paid"
    BY <1>1, <1>3 DEF BillInv, BillShape
  <2>7. \A x : /\ (<<"recharge", x>> \in entries') <=> (<<"recharge", x>> \in entries \/ (x = o /\ o \in Recharges))
               /\ (<<"reversal", x>> \in entries') <=> (<<"reversal", x>> \in entries)
    <3>1. ASSUME NEW x PROVE /\ <<"recharge", x>> = <<"recharge", o>> <=> x = o
                             /\ <<"reversal", x>> # <<"recharge", o>>
      BY SMT
    <3>. QED  BY <2>3, <3>1
  <2>8. \A q \in Orders : order[q].st # "none" => order'[q].st # "none"
    BY <2>6
  <2>9. CallKnows(r)' /\ ~Initiating(r) /\ ~Paying(r)
    BY DEF CallKnows, Initiating, Paying
  <2>10. /\ bill' = [d \in BillCalls |-> bill'[d]]
         /\ \A d \in BillCalls : bill'[d] = IF d = c THEN r ELSE bill[d]
         /\ \A d \in BillCalls : IsCall(bill'[d])
         /\ CallsKnow' /\ OneEach'
    <3>1. BillShape /\ CallsKnow /\ OneEach
      BY DEF BillInv
    <3>2. entries \subseteq entries'
      BY <2>3
    <3>. QED  BY OthersKnow, <2>8, <2>9, <3>1, <3>2
  <2>11. BillShape'
    BY <2>4, <2>5, <2>6, <2>10 DEF BillInv, BillShape
  <2>12. NothingYet'
    <3>1. ASSUME NEW d \in BillCalls, Paying(bill'[d]) PROVE d # c /\ bill'[d] = bill[d] /\ bill[d].x # o
                                                         /\ bill[d].x \in Orders /\ bill[d].x \in Goods
      BY <1>1, <2>9, <2>10, <3>1 DEF Paying, BillInv, CallsKnow, CallKnows, Goods
    <3>2. \A d \in BillCalls : Paying(bill'[d]) => delivered'[bill'[d].x] = 0 /\ payments'[bill'[d].x] = 0
      BY <2>4, <2>5, <3>1 DEF BillInv, NothingYet
    <3>3. \A q \in Orders : /\ order'[q].st = "none" => paid'[q] = "none"
                            /\ order'[q].st \in {"none", "created"} => delivered'[q] = 0 /\ payments'[q] = 0
      BY <2>4, <2>5, <2>6 DEF BillInv, NothingYet, Goods
    <3>. QED  BY <3>2, <3>3 DEF NothingYet, Paying
  <2>13. EntriesKnow'
    BY <1>1, <2>2, <2>4, <2>6, <2>7 DEF BillInv, EntriesKnow, Recharged, Reversed, Recharges, Goods, Orders
  <2>14. DeliveredOnce'
    BY <1>1, <2>4, <2>5, <2>6 DEF BillInv, PaymentsExact, DeliveredOnce, Was, Goods
  <2>15. RefundTakesBack'
    BY <1>1, <2>4, <2>7 DEF BillInv, PaymentsExact, RefundTakesBack
  <2>. QED  BY <2>10, <2>11, <2>12, <2>13, <2>14, <2>15 DEF BillInv, PaymentsExact
<1>. QED  BY <1>2, <1>3 DEF DeliverPaidOrder

LEMMA BillStorePurchase ==
    ASSUME Receipts \cap Orders = {}, BillInv, NEW c \in BillCalls, StorePurchase(c) PROVE BillInv'
<1>. UNCHANGED <<order, paid, payments, bill, acked, excused>>
  BY DEF StorePurchase, titles
<1>. PICK x \in Receipts :
        /\ Was(x) /\ entries' = entries \cup {<<"recharge", x>>}
        /\ delivered' = IF <<"recharge", x>> \in entries THEN delivered ELSE [delivered EXCEPT ![x] = @ + 1]
  BY DEF StorePurchase
<1>1. x \in Goods /\ x \in Recharges /\ x \notin Orders
  BY DEF Goods, Recharges
<1>2. \A y : /\ (<<"recharge", y>> \in entries') <=> (<<"recharge", y>> \in entries \/ y = x)
             /\ (<<"reversal", y>> \in entries') <=> (<<"reversal", y>> \in entries)
  <2>1. ASSUME NEW y PROVE /\ <<"recharge", y>> = <<"recharge", x>> <=> y = x
                           /\ <<"reversal", y>> # <<"recharge", x>>
    BY SMT
  <2>. QED  BY <2>1
<1>3. delivered[x] \in Nat /\ delivered[x] <= 1 /\ (delivered[x] = 1 <=> <<"recharge", x>> \in entries)
  BY <1>1 DEF BillInv, BillShape, EntriesKnow, PaymentsExact, DeliveredOnce, Recharged
<1>4. /\ delivered' \in [Goods -> Nat]
      /\ \A y \in Goods : delivered'[y] = IF y = x THEN 1 ELSE delivered[y]
  <2>1. CASE <<"recharge", x>> \in entries
    BY <1>1, <1>3, <2>1 DEF BillInv, BillShape
  <2>2. CASE <<"recharge", x>> \notin entries
    <3>1. delivered[x] = 0
      BY <1>3, <2>2
    <3>. QED  BY <1>1, <2>2, <3>1 DEF BillInv, BillShape
  <2>. QED  BY <2>1, <2>2
<1>5. BillShape'
  BY <1>4 DEF BillInv, BillShape
<1>6. ASSUME NEW c0 \in BillCalls PROVE CallKnows(bill[c0])'
  <2>1. CallKnows(bill[c0])
    BY DEF BillInv, CallsKnow
  <2>. QED  BY <2>1 DEF CallKnows, Was, Recharged, Reversed
<1>7. OneEach' /\ CallsKnow'
  BY <1>6 DEF BillInv, OneEach, CallsKnow
<1>8. \A o \in Orders : o \in Goods /\ delivered'[o] = delivered[o]
  BY <1>1, <1>4 DEF Goods
<1>9. NothingYet'
  <2>1. \A d \in BillCalls : Paying(bill[d]) => bill[d].x \in Orders
    BY DEF BillInv, CallsKnow, CallKnows, Paying
  <2>. QED  BY <1>8, <2>1 DEF BillInv, NothingYet
<1>10. EntriesKnow'
  BY <1>1, <1>2, <1>4 DEF BillInv, EntriesKnow, Recharged, Reversed, Recharges, Goods, Orders
<1>11. DeliveredOnce'
  BY <1>4, <1>8 DEF BillInv, PaymentsExact, DeliveredOnce, Was
<1>12. RefundTakesBack'
  BY <1>2, <1>4 DEF BillInv, PaymentsExact, RefundTakesBack
<1>. QED  BY <1>5, <1>7, <1>9, <1>10, <1>11, <1>12 DEF BillInv, PaymentsExact

\* A request that goes on or ends while an order, the entries or the acknowledged
\* refunds change, but no goods are given.
LEMMA TakesBack ==
    ASSUME BillInv, NEW c \in BillCalls, NEW r, bill' = [bill EXCEPT ![c] = r], IsCall(r),
           ~Initiating(r), ~Paying(r), CallKnows(r)',
           UNCHANGED <<paid, payments, delivered>>,
           order' \in [Orders -> [st : {"none", "created", "paid", "refunded"},
                                  by : {"none", "unicpay", "manual"}, refs : BOOLEAN]],
           \A o \in Orders :
              \/ order'[o] = order[o]
              \/ order'[o].st = "paid" /\ order'[o].by = "manual"
              \/ order'[o].st = "refunded" /\ (o \in excused' \/ Reversed(o)'),
           entries \subseteq entries', excused \subseteq excused',
           \A x \in Recharges : Recharged(x)' => Recharged(x),
           \A x : <<"reversal", x>> \in entries' \ entries => x \in Recharges /\ Recharged(x),
           \A x \in acked' \ acked : x \in excused' \/ Reversed(x)'
    PROVE  BillInv'
<1>1. /\ bill' = [d \in BillCalls |-> bill'[d]]
      /\ \A d \in BillCalls : bill'[d] = IF d = c THEN r ELSE bill[d]
      /\ \A d \in BillCalls : IsCall(bill'[d])
      /\ CallsKnow' /\ OneEach'
  <2>1. BillShape /\ CallsKnow /\ OneEach
    BY DEF BillInv
  <2>2. \A o \in Orders : order[o].st # "none" => order'[o].st # "none"
    OBVIOUS
  <2>. QED  BY OthersKnow, <2>1, <2>2
<1>2. BillShape'
  BY <1>1 DEF BillInv, BillShape
<1>3. NothingYet'
  BY <1>1 DEF BillInv, NothingYet
<1>4. EntriesKnow'
  <2>1. \A x \in Recharges : Recharged(x) => Recharged(x)'
    BY DEF Recharged
  <2>2. \A o \in Orders : order'[o].st = "refunded" => o \in excused' \/ Reversed(o)'
    BY DEF BillInv, EntriesKnow, Reversed
  <2>. QED  BY <2>1, <2>2 DEF BillInv, EntriesKnow
<1>5. DeliveredOnce'
  BY DEF BillInv, PaymentsExact, DeliveredOnce, Was
<1>6. RefundTakesBack'
  <2>1. \A x \in acked' \ excused' : <<"reversal", x>> \in entries'
    BY DEF BillInv, PaymentsExact, RefundTakesBack, Reversed
  <2>2. \A x \in Goods : <<"reversal", x>> \in entries' => delivered'[x] = 1
    BY DEF BillInv, PaymentsExact, RefundTakesBack, EntriesKnow
  <2>. QED  BY <2>1, <2>2 DEF RefundTakesBack
<1>. QED  BY <1>1, <1>2, <1>3, <1>4, <1>5, <1>6 DEF BillInv, PaymentsExact

LEMMA BillRefunded == ASSUME Receipts \cap Orders = {}, BillInv, NEW c \in BillCalls, Refunded(c) PROVE BillInv'
<1>. UNCHANGED <<paid, payments, delivered>>
  BY Zenon DEF Refunded, goods, hist
<1>. PICK y : y = bill[c].x
  OBVIOUS
<1>0. order \in [Orders -> [st : {"none", "created", "paid", "refunded"},
                            by : {"none", "unicpay", "manual"}, refs : BOOLEAN]]
  BY DEF BillInv, BillShape
<1>1. CASE /\ \E x \in CreditOrders \cup Receipts :
                /\ paid[x] = "refunded"
                /\ Called(c, [NoCall EXCEPT !.op = "refund", !.at = "entry", !.x = x, !.row = IF x \in Orders THEN order[x].st ELSE "paid"])
           /\ UNCHANGED <<goods, hist>>
  <2>. GoodsStay
    BY <1>1 DEF GoodsStay, goods, hist
  <2>. PICK x \in CreditOrders \cup Receipts :
                /\ paid[x] = "refunded"
                /\ Called(c, [NoCall EXCEPT !.op = "refund", !.at = "entry", !.x = x, !.row = IF x \in Orders THEN order[x].st ELSE "paid"])
    BY <1>1
  <2>. PICK row : row = IF x \in Orders THEN order[x].st ELSE "paid"
    OBVIOUS
  <2>. PICK r : r = [NoCall EXCEPT !.op = "refund", !.at = "entry", !.x = x, !.row = row]
    OBVIOUS
  <2>1. bill' = [bill EXCEPT ![c] = r] /\ IsCall(r) /\ r.op = "refund" /\ r.at = "entry" /\ r.x = x /\ r.row = row
    BY DEF Called, NoCall, IsCall
  <2>2. row \notin {"paid", "created"} => x \in excused \/ Reversed(x)
    BY <1>0 DEF BillInv, NothingYet, EntriesKnow
  <2>3. CallKnows(r) /\ ~Initiating(r) /\ ~Paying(r)
    BY <2>1, <2>2 DEF CallKnows, Initiating, Paying, Recharges
  <2>. QED  BY <2>1, <2>3, JustMoves DEF GoodsStay
<1>2. ASSUME bill[c].op = "refund", NEW at, To(c, at)
      PROVE  \E r : /\ bill' = [bill EXCEPT ![c] = r] /\ IsCall(r)
                    /\ r.op = "refund" /\ r.x = y /\ r.at = at
                    /\ ~Initiating(r) /\ ~Paying(r)
  <2>. PICK r : /\ bill' = [bill EXCEPT ![c] = r] /\ IsCall(r)
                /\ r.op = bill[c].op /\ r.x = bill[c].x /\ r.at = at
    BY <1>2, Ways DEF BillInv, BillShape
  <2>. QED  BY <1>2 DEF Initiating, Paying
<1>3. ASSUME Done(c)
      PROVE  \E r : /\ bill' = [bill EXCEPT ![c] = r] /\ IsCall(r)
                    /\ ~Initiating(r) /\ ~Paying(r) /\ CallKnows(r)'
  <2>. PICK r : bill' = [bill EXCEPT ![c] = r] /\ IsCall(r) /\ r.op = "free"
    BY <1>3, Ways DEF BillInv, BillShape
  <2>. QED  BY DEF CallKnows, Initiating, Paying
<1>4. bill[c].op = "refund" =>
        /\ y \in Recharges
        /\ bill[c].at = "entry" /\ bill[c].row \notin {"paid", "created"} => y \in excused \/ Reversed(y)
        /\ bill[c].at = "reverse" => Recharged(y)
        /\ bill[c].at = "mark" => Reversed(y)
  BY DEF BillInv, CallsKnow, CallKnows
<1>5. CASE /\ Is(c, "refund", "entry")
           /\ IF ~Recharged(y) THEN Done(c) /\ UNCHANGED <<acked, excused>>
              ELSE IF bill[c].row = "paid" THEN To(c, "reverse") /\ UNCHANGED <<acked, excused>>
              ELSE Done(c) /\ acked' = acked \cup {y} /\ excused' = IF bill[c].row = "created" THEN excused \cup {y} ELSE excused
           /\ UNCHANGED <<order, entries>>
  <2>1. CASE UNCHANGED <<acked, excused>> /\ Done(c)
    <3>. GoodsStay
      BY <1>5, <2>1 DEF GoodsStay
    <3>. QED  BY <2>1, DoneQuietly
  <2>2. CASE Recharged(y) /\ To(c, "reverse") /\ UNCHANGED <<acked, excused>>
    <3>. PICK r : /\ bill' = [bill EXCEPT ![c] = r] /\ IsCall(r)
                  /\ r.op = "refund" /\ r.x = y /\ r.at = "reverse"
                  /\ ~Initiating(r) /\ ~Paying(r)
      BY <1>2, <1>5, <2>2 DEF Is
    <3>1. CallKnows(r)
      BY <1>4, <1>5, <2>2 DEF CallKnows, Is
    <3>. QED  BY <1>5, <2>2, <3>1, JustMoves
  <2>3. CASE /\ Done(c) /\ bill[c].row # "paid" /\ acked' = acked \cup {y}
             /\ excused' = IF bill[c].row = "created" THEN excused \cup {y} ELSE excused
    <3>1. y \in excused' \/ Reversed(y)'
      BY <1>4, <1>5, <2>3 DEF Is, Reversed
    <3>2. excused \subseteq excused' /\ \A x \in acked' \ acked : x = y
      BY <2>3
    <3>3. \A x \in Recharges : Recharged(x)' => Recharged(x)
      BY <1>5 DEF Recharged
    <3>4. \A x \in acked' \ acked : x \in excused' \/ Reversed(x)'
      BY <3>1, <3>2
    <3>. PICK r : /\ bill' = [bill EXCEPT ![c] = r] /\ IsCall(r)
                  /\ ~Initiating(r) /\ ~Paying(r) /\ CallKnows(r)'
      BY <2>3, <1>3
    <3>. QED  BY <1>0, <1>5, <3>2, <3>3, <3>4, TakesBack
  <2>. QED  BY <1>5, <2>1, <2>2, <2>3
<1>6. CASE /\ Is(c, "refund", "reverse") /\ To(c, "mark")
           /\ entries' = IF Recharged(y) THEN entries \cup {<<"reversal", y>>} ELSE entries
           /\ UNCHANGED <<order, hist>>
  <2>1. bill[c].op = "refund" /\ Recharged(y) /\ y \in Recharges /\ entries' = entries \cup {<<"reversal", y>>}
    BY <1>4, <1>6 DEF Is
  <2>2. UNCHANGED <<acked, excused>>
    BY <1>6 DEF hist
  <2>. PICK r : /\ bill' = [bill EXCEPT ![c] = r] /\ IsCall(r)
                /\ r.op = "refund" /\ r.x = y /\ r.at = "mark"
                /\ ~Initiating(r) /\ ~Paying(r)
    BY <1>2, <1>6, <2>1
  <2>3. CallKnows(r)'
    BY <2>1 DEF CallKnows, Reversed
  <2>4. \A x : /\ <<"recharge", x>> # <<"reversal", y>>
               /\ <<"reversal", x>> = <<"reversal", y>> => x = y
    BY SMT
  <2>5. \A x \in Recharges : Recharged(x)' => Recharged(x)
    BY <2>1, <2>4 DEF Recharged
  <2>6. \A x : <<"reversal", x>> \in entries' \ entries => x \in Recharges /\ Recharged(x)
    BY <2>1, <2>4
  <2>7. entries \subseteq entries'
    BY <2>1
  <2>. QED  BY <1>0, <1>6, <2>2, <2>3, <2>5, <2>6, <2>7, TakesBack
<1>7. CASE /\ Is(c, "refund", "mark") /\ Done(c) /\ acked' = acked \cup {y}
           /\ order' = IF y \in Orders THEN [order EXCEPT ![y].st = "refunded"] ELSE order
           /\ UNCHANGED <<entries, excused>>
  <2>1. Reversed(y)'
    BY <1>4, <1>7 DEF Is, Reversed
  <2>2. /\ order' \in [Orders -> [st : {"none", "created", "paid", "refunded"},
                                  by : {"none", "unicpay", "manual"}, refs : BOOLEAN]]
        /\ \A o \in Orders : order'[o] = order[o] \/ (order'[o].st = "refunded" /\ Reversed(o)')
    <3>1. CASE y \in Orders
      <4>1. order' = [order EXCEPT ![y].st = "refunded"]
        BY <1>7, <3>1
      <4>. QED  BY <1>0, <2>1, <3>1, <4>1
    <3>2. CASE y \notin Orders
      BY <1>0, <1>7, <3>2
    <3>. QED  BY <3>1, <3>2
  <2>3. \A x \in acked' \ acked : Reversed(x)'
    BY <1>7, <2>1
  <2>4. \A x \in Recharges : Recharged(x)' => Recharged(x)
    BY <1>7 DEF Recharged
  <2>. PICK r : /\ bill' = [bill EXCEPT ![c] = r] /\ IsCall(r)
                /\ ~Initiating(r) /\ ~Paying(r) /\ CallKnows(r)'
    BY <1>7, <1>3
  <2>. QED  BY <1>7, <2>2, <2>3, <2>4, TakesBack, Zenon
<1>. QED  BY <1>1, <1>5, <1>6, <1>7, Zenon DEF Refunded, goods, hist

\* A request of these begins with a record of its own.
LEMMA BeginsQuietly ==
    ASSUME BillInv, NEW c \in BillCalls, NEW r, Called(c, r), IsCall(r),
           r.op \notin {"order", "paid", "refund"}, r.op \in {"manual", "credit"} => r.x \in Orders,
           GoodsStay
    PROVE  BillInv'
<1>1. CallKnows(r) /\ ~Initiating(r) /\ ~Paying(r)
  BY DEF CallKnows, Initiating, Paying
<1>. QED  BY <1>1, JustMoves DEF Called, GoodsStay

\* The order of a request that an administrator made is marked.
LEMMA MarksByHand ==
    ASSUME BillInv, NEW c \in BillCalls, bill[c].op \in {"manual", "credit"}, NEW at, To(c, at),
           NEW x, x = bill[c].x,
           UNCHANGED <<paid, payments, entries, delivered, acked>>,
           \/ order' = [order EXCEPT ![x].st = "refunded"] /\ excused' = excused \cup {x}
           \/ order' = [order EXCEPT ![x].st = "paid", ![x].by = "manual"] /\ excused' = excused
    PROVE  BillInv'
<1>1. x \in Orders
  BY DEF BillInv, CallsKnow, CallKnows
<1>. PICK r : /\ bill' = [bill EXCEPT ![c] = r] /\ IsCall(r) /\ r.op = bill[c].op /\ r.x = x
  BY Ways DEF BillInv, BillShape
<1>2. CallKnows(r)' /\ ~Initiating(r) /\ ~Paying(r)
  BY <1>1 DEF CallKnows, Initiating, Paying
<1>3. order \in [Orders -> [st : {"none", "created", "paid", "refunded"},
                            by : {"none", "unicpay", "manual"}, refs : BOOLEAN]]
  BY DEF BillInv, BillShape
<1>4. order' \in [Orders -> [st : {"none", "created", "paid", "refunded"},
                             by : {"none", "unicpay", "manual"}, refs : BOOLEAN]]
  BY <1>1, <1>3
<1>5. \A o \in Orders :
         \/ order'[o] = order[o]
         \/ order'[o].st = "paid" /\ order'[o].by = "manual"
         \/ order'[o].st = "refunded" /\ o \in excused'
  BY <1>1, <1>3
<1>6. \A y \in Recharges : Recharged(y)' => Recharged(y)
  BY DEF Recharged
<1>7. excused \subseteq excused'
  OBVIOUS
<1>. QED  BY <1>2, <1>4, <1>5, <1>6, <1>7, TakesBack

LEMMA BillRefundOrder == ASSUME BillInv, NEW c \in BillCalls, RefundOrder(c) PROVE BillInv'
<1>. UNCHANGED <<paid, payments, entries, delivered, acked>>
  BY Zenon DEF RefundOrder
<1>1. CASE /\ \E o \in Orders : Called(c, [NoCall EXCEPT !.op = "manual", !.at = "mark", !.x = o])
           /\ UNCHANGED <<order, excused>>
  <2>. PICK o \in Orders : Called(c, [NoCall EXCEPT !.op = "manual", !.at = "mark", !.x = o])
    BY <1>1
  <2>. PICK r : r = [NoCall EXCEPT !.op = "manual", !.at = "mark", !.x = o]
    OBVIOUS
  <2>1. IsCall(r) /\ r.op = "manual" /\ r.x = o
    BY DEF NoCall, IsCall
  <2>. QED  BY <1>1, <2>1, BeginsQuietly DEF GoodsStay
<1>2. CASE /\ Is(c, "manual", "mark") /\ order' = [order EXCEPT ![bill[c].x].st = "refunded"] /\ To(c, "cancel")
           /\ excused' = excused \cup {bill[c].x}
  <2>. PICK x : x = bill[c].x
    OBVIOUS
  <2>. QED  BY <1>2, MarksByHand DEF Is
<1>3. CASE /\ Is(c, "manual", "cancel") \/ Is(c, "manual", "end")
           /\ FindActive(c) \/ To(c, "plan")
           /\ UNCHANGED <<order, excused>>
  <2>1. bill[c].op = "manual"
    BY <1>3 DEF Is
  <2>. QED  BY <1>3, <2>1, GoesOn DEF GoodsStay
<1>4. CASE Done(c) /\ UNCHANGED <<order, excused>>
  BY <1>4, DoneQuietly DEF GoodsStay
<1>. QED  BY <1>1, <1>2, <1>3, <1>4, Zenon DEF RefundOrder

LEMMA BillCreditOrder == ASSUME BillInv, NEW c \in BillCalls, CreditOrder(c) PROVE BillInv'
<1>. UNCHANGED <<paid, payments, entries, delivered, acked, excused>>
  BY Zenon DEF CreditOrder
<1>1. CASE /\ \E o \in PlanOrders : Called(c, [NoCall EXCEPT !.op = "credit", !.at = "cancel", !.x = o, !.base = Later(clock, plan.until)])
           /\ UNCHANGED order
  <2>. PICK o \in PlanOrders : Called(c, [NoCall EXCEPT !.op = "credit", !.at = "cancel", !.x = o, !.base = Later(clock, plan.until)])
    BY <1>1
  <2>. PICK r : r = [NoCall EXCEPT !.op = "credit", !.at = "cancel", !.x = o, !.base = Later(clock, plan.until)]
    OBVIOUS
  <2>1. IsCall(r) /\ r.op = "credit" /\ r.x \in Orders
    BY DEF NoCall, IsCall, Orders
  <2>. QED  BY <1>1, <2>1, BeginsQuietly DEF GoodsStay
<1>2. CASE /\ Is(c, "credit", "order") /\ To(c, "plan")
           /\ order' = [order EXCEPT ![bill[c].x].st = "paid", ![bill[c].x].by = "manual"]
  <2>. PICK x : x = bill[c].x
    OBVIOUS
  <2>. QED  BY <1>2, MarksByHand, Zenon DEF Is
<1>3. CASE /\ Is(c, "credit", "cancel") \/ Is(c, "credit", "end") \/ Is(c, "credit", "plan")
           /\ FindActive(c) \/ To(c, "order") \/ To(c, "row")
           /\ UNCHANGED order
  <2>1. bill[c].op = "credit"
    BY <1>3 DEF Is
  <2>. QED  BY <1>3, <2>1, GoesOn DEF GoodsStay
<1>4. CASE Done(c) /\ UNCHANGED order
  BY <1>4, DoneQuietly DEF GoodsStay
<1>. QED  BY <1>1, <1>2, <1>3, <1>4, Zenon DEF CreditOrder

\* Events of a subscription, the plan and the sweep leave the goods alone.
LEMMA BillTheRest ==
    ASSUME BillInv, NEW c \in BillCalls,
           \/ SubscriptionEvent(c) \/ SubscriptionCommit(c) \/ AdjustPlan(c)
           \/ GrantTrial(c) \/ SweepBilling(c)
    PROVE  BillInv'
<1>1. GoodsStay
  BY Zenon DEF SubscriptionEvent, SubscriptionCommit, AdjustPlan, GrantTrial, SweepBilling, GoodsStay, goods, hist
<1>2. CASE Done(c)
  BY <1>1, <1>2, DoneQuietly
<1>3. CASE bill[c].op = "sweep" /\ (FindActive(c) \/ \E at : To(c, at))
  BY <1>1, <1>3, GoesOn
<1>4. CASE \E r : Called(c, r) /\ IsCall(r) /\ r.op \in {"event", "adjust", "trial", "sweep"}
  BY <1>1, <1>4, BeginsQuietly
<1>5. CASE SubscriptionEvent(c)
  <2>. PICK s \in Subs, st \in billUse.events, until \in {clock, clock + 1} :
          \E old \in (IF subs[s] = {} THEN {NoEvent} ELSE subs[s]) :
             Called(c, [NoCall EXCEPT !.op = "event", !.at = "commit", !.s = s, !.ev = [st |-> st, until |-> until], !.seen = old])
    BY <1>5, Zenon DEF SubscriptionEvent
  <2>. PICK old : Called(c, [NoCall EXCEPT !.op = "event", !.at = "commit", !.s = s, !.ev = [st |-> st, until |-> until], !.seen = old])
    OBVIOUS
  <2>. PICK r : r = [NoCall EXCEPT !.op = "event", !.at = "commit", !.s = s, !.ev = [st |-> st, until |-> until], !.seen = old]
    OBVIOUS
  <2>1. Called(c, r)
    OBVIOUS
  <2>2. IsCall(r) /\ r.op = "event"
    BY DEF NoCall, IsCall
  <2>. QED  BY <1>4, <2>1, <2>2
<1>6. CASE SubscriptionCommit(c)
  BY <1>2, <1>6 DEF SubscriptionCommit
<1>7. CASE AdjustPlan(c)
  <2>1. CASE \E st : Called(c, [NoCall EXCEPT !.op = "adjust", !.at = "write", !.row = st])
    <3>. PICK r, st : Called(c, r) /\ r = [NoCall EXCEPT !.op = "adjust", !.at = "write", !.row = st]
      BY <2>1
    <3>1. IsCall(r) /\ r.op = "adjust"
      BY DEF NoCall, IsCall
    <3>. QED  BY <1>4, <3>1
  <2>. QED  BY <1>2, <1>7, <2>1 DEF AdjustPlan
<1>8. CASE GrantTrial(c)
  <2>1. CASE \E b : Called(c, [NoCall EXCEPT !.op = "trial", !.at = "write", !.base = b])
    <3>. PICK r, b : Called(c, r) /\ r = [NoCall EXCEPT !.op = "trial", !.at = "write", !.base = b]
      BY <2>1
    <3>1. IsCall(r) /\ r.op = "trial"
      BY DEF NoCall, IsCall
    <3>. QED  BY <1>4, <3>1
  <2>. QED  BY <1>2, <1>8, <2>1 DEF GrantTrial
<1>9. CASE SweepBilling(c)
  <2>1. CASE \E st : Called(c, [NoCall EXCEPT !.op = "sweep", !.at = "write", !.row = st])
    <3>. PICK r, st : Called(c, r) /\ r = [NoCall EXCEPT !.op = "sweep", !.at = "write", !.row = st]
      BY <2>1
    <3>1. IsCall(r) /\ r.op = "sweep"
      BY DEF NoCall, IsCall
    <3>. QED  BY <1>4, <3>1
  <2>2. CASE Is(c, "sweep", "write") /\ (Done(c) \/ To(c, "find"))
    BY <1>2, <1>3, <2>2 DEF Is
  <2>3. CASE Is(c, "sweep", "find") /\ FindActive(c)
    BY <1>3, <2>3 DEF Is
  <2>4. CASE Done(c)
    BY <1>2, <2>4
  <2>5. ASSUME Is(c, "sweep", "write") /\ (CASE bill[c].row = "grace" -> SetPlan("free", 0) /\ To(c, "find")
                                    [] bill[c].row = "none" -> SetPlan("free", 0) /\ Done(c)
                                    [] OTHER -> SetPlan("grace", clock + 1) /\ Done(c))
        PROVE  Done(c) \/ To(c, "find")
    BY <2>5
  <2>. QED  BY <1>9, <2>1, <2>2, <2>3, <2>4, <2>5 DEF SweepBilling
<1>. QED  BY <1>5, <1>6, <1>7, <1>8, <1>9

LEMMA BillCrashes == ASSUME BillInv, BillingCrash PROVE BillInv'
<1>1. GoodsStay /\ bill' = [c \in BillCalls |-> NoCall]
  BY DEF BillingCrash, GoodsStay, goods, hist
<1>2. \A c \in BillCalls : bill'[c] = NoCall
  BY <1>1
<1>3. BillShape'
  BY <1>1, <1>2, NoCallIs DEF GoodsStay, BillInv, BillShape
<1>4. CallsKnow' /\ OneEach'
  BY <1>2, NoCallIs DEF CallsKnow, CallKnows, OneEach, Initiating, Paying
<1>5. NothingYet'
  BY <1>1, <1>2, NoCallIs DEF GoodsStay, BillInv, NothingYet, Paying
<1>6. EntriesKnow' /\ PaymentsExact'
  BY <1>1 DEF GoodsStay, BillInv, EntriesKnow, PaymentsExact, DeliveredOnce, RefundTakesBack, Was, Recharged, Reversed
<1>. QED  BY <1>3, <1>4, <1>5, <1>6 DEF BillInv

LEMMA BillStays == ASSUME BillInv, GoodsStay, UNCHANGED bill PROVE BillInv'
<1>1. BillShape' /\ OneEach' /\ NothingYet'
  BY DEF GoodsStay, BillInv, BillShape, OneEach, NothingYet
<1>2. \A c \in BillCalls : CallKnows(bill[c])'
  BY DEF GoodsStay, BillInv, CallsKnow, CallKnows, Was, Recharged, Reversed
<1>3. EntriesKnow' /\ PaymentsExact'
  BY DEF GoodsStay, BillInv, EntriesKnow, PaymentsExact, DeliveredOnce, RefundTakesBack, Was, Recharged, Reversed
<1>. QED  BY <1>1, <1>2, <1>3 DEF BillInv, CallsKnow

LEMMA BillBegins == ASSUME Receipts \cap Orders = {}, BillingInit PROVE BillInv
<1>1. BillShape
  BY NoCallIs DEF BillingInit, BillShape, Goods
<1>2. CallsKnow /\ OneEach
  BY NoCallIs DEF BillingInit, CallsKnow, CallKnows, OneEach, Initiating, Paying
<1>3. NothingYet
  BY NoCallIs DEF BillingInit, NothingYet, Paying, Goods
<1>4. EntriesKnow
  BY DEF BillingInit, EntriesKnow, Recharged, Reversed, Recharges, Goods, Orders
<1>5. PaymentsExact
  BY DEF BillingInit, PaymentsExact, DeliveredOnce, RefundTakesBack
<1>. QED  BY <1>1, <1>2, <1>3, <1>4, <1>5 DEF BillInv

LEMMA BillSteps ==
    ASSUME Receipts \cap Orders = {}, BillInv, [BillingNext]_billVars PROVE BillInv'
<1>1. ASSUME NEW c \in BillCalls,
             \/ Initiate(c) \/ InitiateAnswer(c) \/ PaymentSucceeded(c) \/ OrderCheck(c)
             \/ MarkOrderPaidIfCreated(c) \/ DeliverPaidOrder(c) \/ StorePurchase(c)
             \/ Refunded(c) \/ RefundOrder(c) \/ CreditOrder(c)
      PROVE  BillInv'
  BY <1>1, BillInitiate, BillInitiateAnswer, BillPaymentSucceeded, BillOrderCheck, BillMark,
     BillDeliver, BillStorePurchase, BillRefunded, BillRefundOrder, BillCreditOrder
<1>2. ASSUME Time \/ UNCHANGED billVars PROVE BillInv'
  BY <1>2, BillStays DEF Time, billVars, goods, hist, GoodsStay
<1>. QED  BY <1>1, <1>2, BillTheRest, BillPlatform, BillCrashes DEF BillingNext

\* Whatever webhooks, repeated webhooks, checks, refunds, administrators and crashes
\* meet, every payment is worth its goods once and every refund that was acknowledged
\* takes them back (deliverUnicpayPaidOrder, applyRefund and the ledger's keys).  The
\* transactions of a store are no orders: the key of one begins with the store, that
\* of an order with unicpay.
THEOREM PaymentsAreExact ==
    ASSUME Receipts \cap Orders = {} PROVE BillingSpec => []PaymentsExact
<1>1. BillingInit => BillInv
  BY BillBegins
<1>2. BillInv /\ [BillingNext]_billVars => BillInv'
  BY BillSteps
<1>3. BillInv => PaymentsExact
  BY DEF BillInv
<1>. QED  BY <1>1, <1>2, <1>3, PTL DEF BillingSpec
-----------------------------------------------------------------------------
(* A subscription that was revoked stays revoked, and its end is only put off.  *)

\* Rows and events have times, and a subscription of which no event has read too
\* early has one row.
SubsRows ==
    /\ clock \in Nat
    /\ subs = [s \in Subs |-> subs[s]]
    /\ \A s \in Subs : /\ \A r \in subs[s] : r.until \in Nat /\ r = [st |-> r.st, until |-> r.until]
                       /\ s \notin stale => \A r, q \in subs[s] : r = q

EventTimes(r) == r.op = "event" => r.ev.until \in Nat /\ r.seen.until \in Nat

EventCalls ==
    /\ bill = [c \in BillCalls |-> bill[c]]
    /\ \A c \in BillCalls : IsCall(bill[c]) /\ EventTimes(bill[c])

SubsInv == SubsRows /\ EventCalls

\* What SubscriptionAdvances says of a step.
Advances ==
    \A s \in Subs : (subs'[s] # subs[s] /\ s \notin stale') =>
       \A r \in subs[s], n \in subs'[s] : (r.st = "revoked" => n.st = "revoked") /\ n.until >= r.until

LEMMA CallMoves ==
    ASSUME EventCalls, NEW c \in BillCalls, NEW r, bill' = [bill EXCEPT ![c] = r],
           IsCall(r), EventTimes(r)
    PROVE  EventCalls'
BY DEF EventCalls, EventTimes, IsCall

LEMMA CallGoes ==
    ASSUME EventCalls, NEW c \in BillCalls, (\E at : To(c, at)) \/ Done(c) \/ FindActive(c)
    PROVE  EventCalls'
<1>1. EventTimes(bill[c])
  BY DEF EventCalls
<1>2. PICK r : /\ bill' = [bill EXCEPT ![c] = r] /\ IsCall(r)
               /\ r.op = "free" \/ (r.op = bill[c].op /\ r.ev = bill[c].ev /\ r.seen = bill[c].seen)
  BY Ways DEF EventCalls
<1>3. EventTimes(r)
  BY <1>1, <1>2 DEF EventTimes
<1>. QED  BY <1>2, <1>3, CallMoves

LEMMA CallBegins ==
    ASSUME EventCalls, NEW c \in BillCalls, NEW r, Called(c, r), IsCall(r), r.op # "event"
    PROVE  EventCalls'
BY CallMoves DEF Called, EventTimes

\* The requests of every action but the events of subscriptions.
LEMMA CallsMove ==
    ASSUME EventCalls, NEW c \in BillCalls,
           \/ Initiate(c) \/ InitiateAnswer(c) \/ PaymentSucceeded(c) \/ OrderCheck(c)
           \/ MarkOrderPaidIfCreated(c) \/ DeliverPaidOrder(c) \/ StorePurchase(c) \/ Refunded(c)
           \/ RefundOrder(c) \/ AdjustPlan(c) \/ GrantTrial(c) \/ CreditOrder(c) \/ SweepBilling(c)
    PROVE  EventCalls'
<1>1. ASSUME NEW r, Called(c, r), IsCall(r), r.op # "event" PROVE EventCalls'
  BY <1>1, CallBegins
<1>2. CASE Initiate(c)
  <2>1. CASE \E o : Called(c, [NoCall EXCEPT !.op = "order", !.at = "initiate", !.x = o])
    <3>. PICK r, o : Called(c, r) /\ r = [NoCall EXCEPT !.op = "order", !.at = "initiate", !.x = o]
      BY <2>1
    <3>1. IsCall(r) /\ r.op # "event"
      BY DEF NoCall, IsCall
    <3>. QED  BY <1>1, <3>1
  <2>. QED  BY <1>2, <2>1, CallGoes DEF Initiate
<1>3. CASE InitiateAnswer(c)
  BY <1>3, CallGoes DEF InitiateAnswer
<1>4. CASE PaymentSucceeded(c)
  <2>1. CASE \E o : Called(c, [NoCall EXCEPT !.op = "paid", !.at = "order", !.x = o])
    <3>. PICK r, o : Called(c, r) /\ r = [NoCall EXCEPT !.op = "paid", !.at = "order", !.x = o]
      BY <2>1
    <3>1. IsCall(r) /\ r.op # "event"
      BY DEF NoCall, IsCall
    <3>. QED  BY <1>1, <3>1
  <2>. QED  BY <1>4, <2>1, CallGoes, Zenon DEF PaymentSucceeded
<1>5. CASE OrderCheck(c)
  <2>1. CASE \E o : Called(c, [NoCall EXCEPT !.op = "paid", !.at = "query", !.x = o])
    <3>. PICK r, o : Called(c, r) /\ r = [NoCall EXCEPT !.op = "paid", !.at = "query", !.x = o]
      BY <2>1
    <3>1. IsCall(r) /\ r.op # "event"
      BY DEF NoCall, IsCall
    <3>. QED  BY <1>1, <3>1
  <2>. QED  BY <1>5, <2>1, CallGoes, Zenon DEF OrderCheck
<1>6. CASE MarkOrderPaidIfCreated(c)
  BY <1>6, CallGoes DEF MarkOrderPaidIfCreated
<1>7. CASE DeliverPaidOrder(c)
  <2>1. CASE bill' = [bill EXCEPT ![c].base = Later(clock, plan.until), ![c].at = "commit"]
    <3>. PICK r : r = [bill[c] EXCEPT !.base = Later(clock, plan.until), !.at = "commit"]
      OBVIOUS
    <3>1. IsCall(bill[c]) /\ EventTimes(bill[c])
      BY DEF EventCalls
    <3>2. bill' = [bill EXCEPT ![c] = r]
      BY <2>1 DEF EventCalls
    <3>3. IsCall(r) /\ EventTimes(r)
      BY <3>1 DEF IsCall, EventTimes
    <3>. QED  BY <3>2, <3>3, CallMoves
  <2>. QED  BY <1>7, <2>1, CallGoes DEF DeliverPaidOrder
<1>8. CASE StorePurchase(c)
  BY <1>8 DEF StorePurchase, EventCalls
<1>9. CASE Refunded(c)
  <2>1. CASE \E x : Called(c, [NoCall EXCEPT !.op = "refund", !.at = "entry", !.x = x, !.row = IF x \in Orders THEN order[x].st ELSE "paid"])
    <3>. PICK r, x : Called(c, r) /\ r = [NoCall EXCEPT !.op = "refund", !.at = "entry", !.x = x, !.row = IF x \in Orders THEN order[x].st ELSE "paid"]
      BY <2>1
    <3>1. IsCall(r) /\ r.op # "event"
      BY DEF NoCall, IsCall
    <3>. QED  BY <1>1, <3>1
  <2>. QED  BY <1>9, <2>1, CallGoes, Zenon DEF Refunded
<1>10. CASE RefundOrder(c)
  <2>1. CASE \E o : Called(c, [NoCall EXCEPT !.op = "manual", !.at = "mark", !.x = o])
    <3>. PICK r, o : Called(c, r) /\ r = [NoCall EXCEPT !.op = "manual", !.at = "mark", !.x = o]
      BY <2>1
    <3>1. IsCall(r) /\ r.op # "event"
      BY DEF NoCall, IsCall
    <3>. QED  BY <1>1, <3>1
  <2>. QED  BY <1>10, <2>1, CallGoes, Zenon DEF RefundOrder
<1>11. CASE AdjustPlan(c)
  <2>1. CASE \E st : Called(c, [NoCall EXCEPT !.op = "adjust", !.at = "write", !.row = st])
    <3>. PICK r, st : Called(c, r) /\ r = [NoCall EXCEPT !.op = "adjust", !.at = "write", !.row = st]
      BY <2>1
    <3>1. IsCall(r) /\ r.op # "event"
      BY DEF NoCall, IsCall
    <3>. QED  BY <1>1, <3>1
  <2>. QED  BY <1>11, <2>1, CallGoes DEF AdjustPlan
<1>12. CASE GrantTrial(c)
  <2>1. CASE Called(c, [NoCall EXCEPT !.op = "trial", !.at = "write", !.base = Later(clock, plan.until)])
    <3>. PICK r : Called(c, r) /\ r = [NoCall EXCEPT !.op = "trial", !.at = "write", !.base = Later(clock, plan.until)]
      BY <2>1
    <3>1. IsCall(r) /\ r.op # "event"
      BY DEF NoCall, IsCall
    <3>. QED  BY <1>1, <3>1
  <2>. QED  BY <1>12, <2>1, CallGoes DEF GrantTrial
<1>13. CASE CreditOrder(c)
  <2>1. CASE \E o : Called(c, [NoCall EXCEPT !.op = "credit", !.at = "cancel", !.x = o, !.base = Later(clock, plan.until)])
    <3>. PICK r, o : Called(c, r) /\ r = [NoCall EXCEPT !.op = "credit", !.at = "cancel", !.x = o, !.base = Later(clock, plan.until)]
      BY <2>1
    <3>1. IsCall(r) /\ r.op # "event"
      BY DEF NoCall, IsCall
    <3>. QED  BY <1>1, <3>1
  <2>. QED  BY <1>13, <2>1, CallGoes, Zenon DEF CreditOrder
<1>14. CASE SweepBilling(c)
  <2>1. CASE \E st : Called(c, [NoCall EXCEPT !.op = "sweep", !.at = "write", !.row = st])
    <3>. PICK r, st : Called(c, r) /\ r = [NoCall EXCEPT !.op = "sweep", !.at = "write", !.row = st]
      BY <2>1
    <3>1. IsCall(r) /\ r.op # "event"
      BY DEF NoCall, IsCall
    <3>. QED  BY <1>1, <3>1
  <2>2. \/ \E st : Called(c, [NoCall EXCEPT !.op = "sweep", !.at = "write", !.row = st])
        \/ To(c, "find") \/ Done(c) \/ FindActive(c)
    BY <1>14 DEF SweepBilling
  <2>. QED  BY <2>1, <2>2, CallGoes
<1>. QED  BY <1>2, <1>3, <1>4, <1>5, <1>6, <1>7, <1>8, <1>9, <1>10, <1>11, <1>12, <1>13, <1>14

LEMMA LaterIs ==
    ASSUME NEW a \in Nat, NEW b \in Nat PROVE Later(a, b) \in Nat /\ Later(a, b) >= a
BY DEF Later

\* What an administrator's refund, a manual order and the sweep do to the row found.
LEMMA EndKeeps ==
    ASSUME SubsRows, NEW c \in BillCalls, NEW st, EndFound(c, st), UNCHANGED clock
    PROVE  SubsRows' /\ Advances
<1>. PICK s : s = bill[c].s
  OBVIOUS
<1>1. CASE bill[c].row # "sub"
  <2>1. UNCHANGED <<subs, stale>>
    BY <1>1 DEF EndFound
  <2>. QED  BY <2>1 DEF SubsRows, Advances
<1>2. CASE bill[c].row = "sub"
  <2>1. /\ subs' = [subs EXCEPT ![s] = {[r EXCEPT !.st = st] : r \in @}]
        /\ stale' = IF ~ActiveSub(s) THEN stale \cup {s} ELSE stale
    BY <1>2 DEF EndFound
  <2>2. /\ subs' = [t \in Subs |-> subs'[t]]
        /\ \A t \in Subs : subs'[t] = IF t = s THEN {[r EXCEPT !.st = st] : r \in subs[s]} ELSE subs[t]
    BY <2>1 DEF SubsRows
  <2>3. ASSUME NEW t \in Subs, t = s
        PROVE  /\ \A n \in subs'[t] : \E r \in subs[t] : n = [st |-> st, until |-> r.until]
    <3>1. \A r \in subs[t] : [r EXCEPT !.st = st] = [st |-> st, until |-> r.until]
      BY DEF SubsRows
    <3>2. ASSUME NEW n \in subs'[t] PROVE \E r \in subs[t] : n = [st |-> st, until |-> r.until]
      <4>1. n \in {[r EXCEPT !.st = st] : r \in subs[t]}
        BY <2>2, <2>3
      <4>. PICK r \in subs[t] : n = [r EXCEPT !.st = st]
        BY <4>1
      <4>. QED  BY <3>1
    <3>. QED  BY <3>2
  <2>4. ASSUME NEW t \in Subs PROVE \A r \in subs'[t] : r.until \in Nat /\ r = [st |-> r.st, until |-> r.until]
    <3>1. CASE t = s
      BY <2>3, <3>1 DEF SubsRows
    <3>2. CASE t # s
      BY <2>2, <3>2 DEF SubsRows
    <3>. QED  BY <3>1, <3>2
  <2>5. ASSUME NEW t \in Subs, t \notin stale' PROVE \A r, q \in subs'[t] : r = q
    <3>1. t \notin stale /\ \A r, q \in subs[t] : r = q
      BY <2>1, <2>5 DEF SubsRows
    <3>2. CASE t = s
      BY <2>3, <3>1, <3>2
    <3>3. CASE t # s
      BY <2>2, <3>1, <3>3
    <3>. QED  BY <3>2, <3>3
  <2>6. ASSUME NEW t \in Subs, subs'[t] # subs[t], t \notin stale', NEW r \in subs[t], NEW n \in subs'[t]
        PROVE  (r.st = "revoked" => n.st = "revoked") /\ n.until >= r.until
    <3>1. t = s /\ ActiveSub(s) /\ t \notin stale
      BY <2>1, <2>2, <2>6
    <3>2. \A q \in subs[t] : q = r
      BY <3>1 DEF SubsRows
    <3>3. r.st = "active"
      BY <3>1, <3>2 DEF ActiveSub
    <3>4. n.until = r.until /\ r.until \in Nat
      <4>. PICK q \in subs[t] : n = [st |-> st, until |-> q.until]
        BY <2>3, <3>1
      <4>1. n.until = r.until
        BY <3>2
      <4>. QED  BY <4>1 DEF SubsRows
    <3>. QED  BY <3>3, <3>4
  <2>. QED  BY <2>2, <2>4, <2>5, <2>6 DEF SubsRows, Advances
<1>. QED  BY <1>1, <1>2

LEMMA EventKeeps ==
    ASSUME SubsInv, NEW c \in BillCalls, SubscriptionCommit(c)
    PROVE  SubsRows' /\ Advances
<1>. PICK s : s = bill[c].s
  OBVIOUS
<1>. PICK old : old = bill[c].seen
  OBVIOUS
<1>. PICK ev : ev = bill[c].ev
  OBVIOUS
<1>1. old.until \in Nat /\ ev.until \in Nat
  BY DEF SubscriptionCommit, Is, SubsInv, EventCalls, EventTimes
<1>. PICK until : until = IF old = NoEvent THEN ev.until ELSE Later(old.until, ev.until)
  OBVIOUS
<1>. PICK st : st = IF StaleRevival(old, ev) THEN "revoked" ELSE ev.st
  OBVIOUS
<1>2. until \in Nat /\ (old # NoEvent => until >= old.until)
  BY <1>1, LaterIs
<1>3. /\ UNCHANGED clock
      /\ subs' = IF old = NoEvent THEN [subs EXCEPT ![s] = @ \cup {[st |-> "active", until |-> until]}]
                 ELSE IF StaleRevival(old, ev) THEN subs
                 ELSE [subs EXCEPT ![s] = IF @ = {} THEN {} ELSE {[st |-> st, until |-> until]}]
      /\ stale' = IF (IF old = NoEvent THEN subs[s] # {} ELSE subs[s] # {old}) THEN stale \cup {s} ELSE stale
  BY DEF SubscriptionCommit
<1>. HIDE DEF StaleRevival
<1>4. subs' = [t \in Subs |-> subs'[t]] /\ \A t \in Subs : t # s => subs'[t] = subs[t]
  <2>1. CASE old = NoEvent
    BY <1>3, <2>1 DEF SubsInv, SubsRows
  <2>2. CASE old # NoEvent /\ StaleRevival(old, ev)
    BY <1>3, <2>2 DEF SubsInv, SubsRows
  <2>3. CASE old # NoEvent /\ ~StaleRevival(old, ev)
    BY <1>3, <2>3, Zenon DEF SubsInv, SubsRows
  <2>. QED  BY <2>1, <2>2, <2>3
<1>5. s \in Subs =>
        \/ subs'[s] = subs[s]
        \/ \E w : subs'[s] = subs[s] \cup {[st |-> w, until |-> until]} /\ old = NoEvent
        \/ /\ subs'[s] = {[st |-> st, until |-> until]} /\ old # NoEvent /\ ~StaleRevival(old, ev)
  BY <1>3, Zenon DEF SubsInv, SubsRows
<1>6. stale \subseteq stale' /\ (s \notin stale' => subs[s] = IF old = NoEvent THEN {} ELSE {old})
  BY <1>3
<1>7. ASSUME NEW t \in Subs PROVE \A r \in subs'[t] : r.until \in Nat /\ r = [st |-> r.st, until |-> r.until]
  BY <1>2, <1>4, <1>5 DEF SubsInv, SubsRows
<1>8. ASSUME NEW t \in Subs, t \notin stale' PROVE \A r, q \in subs'[t] : r = q
  <2>1. \A r, q \in subs[t] : r = q
    BY <1>6, <1>8 DEF SubsInv, SubsRows
  <2>2. CASE t = s /\ old = NoEvent
    BY <1>5, <1>6, <1>8, <2>1, <2>2
  <2>3. CASE t = s /\ old # NoEvent
    BY <1>5, <2>1, <2>3
  <2>. QED  BY <1>4, <2>1, <2>2, <2>3
<1>9. ASSUME NEW t \in Subs, subs'[t] # subs[t], t \notin stale', NEW r \in subs[t], NEW n \in subs'[t]
      PROVE  (r.st = "revoked" => n.st = "revoked") /\ n.until >= r.until
  <2>1. t = s
    BY <1>4, <1>9
  <2>2. old # NoEvent /\ r = old
    BY <1>6, <1>9, <2>1
  <2>3. n = [st |-> st, until |-> until] /\ ~StaleRevival(old, ev)
    BY <1>5, <1>9, <2>1, <2>2
  <2>4. n.st = ev.st /\ n.until = until
    BY <2>3
  <2>5. old.st = "revoked" => ev.st = "revoked"
    BY <2>3 DEF StaleRevival
  <2>. QED  BY <1>2, <2>2, <2>4, <2>5
<1>10. clock' \in Nat
  BY <1>3 DEF SubsInv, SubsRows
<1>. QED  BY <1>4, <1>7, <1>8, <1>9, <1>10 DEF SubsRows, Advances

LEMMA RowsStay == ASSUME SubsRows, UNCHANGED <<subs, stale>>, clock' \in Nat PROVE SubsRows' /\ Advances
BY DEF SubsRows, Advances

LEMMA EventBegins == ASSUME SubsInv, NEW c \in BillCalls, SubscriptionEvent(c) PROVE EventCalls'
<1>. PICK s \in Subs, st \in billUse.events, until \in {clock, clock + 1} :
        \E old \in (IF subs[s] = {} THEN {NoEvent} ELSE subs[s]) :
           Called(c, [NoCall EXCEPT !.op = "event", !.at = "commit", !.s = s, !.ev = [st |-> st, until |-> until], !.seen = old])
  BY Zenon DEF SubscriptionEvent
<1>. PICK old \in (IF subs[s] = {} THEN {NoEvent} ELSE subs[s]) :
           Called(c, [NoCall EXCEPT !.op = "event", !.at = "commit", !.s = s, !.ev = [st |-> st, until |-> until], !.seen = old])
  OBVIOUS
<1>. PICK r : r = [NoCall EXCEPT !.op = "event", !.at = "commit", !.s = s, !.ev = [st |-> st, until |-> until], !.seen = old]
  OBVIOUS
<1>1. old.until \in Nat /\ until \in Nat
  BY DEF SubsInv, SubsRows, NoEvent
<1>2. IsCall(r) /\ r.ev = [st |-> st, until |-> until] /\ r.seen = old
  BY DEF NoCall, IsCall
<1>3. EventTimes(r)
  BY <1>1, <1>2 DEF EventTimes
<1>4. bill' = [bill EXCEPT ![c] = r]
  BY DEF Called
<1>. QED  BY <1>2, <1>3, <1>4, CallMoves DEF SubsInv

LEMMA SubsSteps ==
    ASSUME SubsInv, [BillingNext]_billVars PROVE SubsInv' /\ Advances
<1>0. clock \in Nat /\ SubsRows /\ EventCalls
  BY DEF SubsInv, SubsRows
<1>1. ASSUME NEW c \in BillCalls,
             \/ Initiate(c) \/ InitiateAnswer(c) \/ PaymentSucceeded(c) \/ OrderCheck(c)
             \/ MarkOrderPaidIfCreated(c) \/ DeliverPaidOrder(c) \/ StorePurchase(c)
             \/ Refunded(c) \/ AdjustPlan(c) \/ GrantTrial(c)
      PROVE  SubsInv' /\ Advances
  <2>1. EventCalls'
    BY <1>0, <1>1, CallsMove
  <2>2. UNCHANGED <<clock, subs, stale>>
    BY <1>1, Zenon DEF Initiate, InitiateAnswer, PaymentSucceeded, OrderCheck, MarkOrderPaidIfCreated,
                DeliverPaidOrder, StorePurchase, Refunded, AdjustPlan, GrantTrial, titles, hist
  <2>. QED  BY <1>0, <2>1, <2>2, RowsStay DEF SubsInv
<1>2. ASSUME NEW c \in BillCalls, RefundOrder(c) \/ CreditOrder(c) \/ SweepBilling(c)
      PROVE  SubsInv' /\ Advances
  <2>1. EventCalls'
    BY <1>0, <1>2, CallsMove
  <2>2. UNCHANGED clock
    BY <1>2, Zenon DEF RefundOrder, CreditOrder, SweepBilling
  <2>3. UNCHANGED <<subs, stale>> \/ EndFound(c, "canceled") \/ EndFound(c, "expired")
    BY <1>2, Zenon DEF RefundOrder, CreditOrder, SweepBilling, titles
  <2>. QED  BY <1>0, <2>1, <2>2, <2>3, RowsStay, EndKeeps DEF SubsInv
<1>3. ASSUME NEW c \in BillCalls, SubscriptionEvent(c) PROVE SubsInv' /\ Advances
  <2>1. UNCHANGED <<clock, subs, stale>>
    BY <1>3 DEF SubscriptionEvent, titles, hist
  <2>. QED  BY <1>0, <1>3, <2>1, EventBegins, RowsStay DEF SubsInv
<1>4. ASSUME NEW c \in BillCalls, SubscriptionCommit(c) PROVE SubsInv' /\ Advances
  <2>1. EventCalls'
    BY <1>0, <1>4, CallGoes DEF SubscriptionCommit
  <2>. QED  BY <1>4, <2>1, EventKeeps DEF SubsInv
<1>5. ASSUME PlatformMoves \/ Time \/ UNCHANGED billVars PROVE SubsInv' /\ Advances
  <2>1. UNCHANGED <<subs, stale, bill>> /\ clock' \in Nat
    BY <1>0, <1>5 DEF PlatformMoves, Time, billVars, titles, hist
  <2>2. EventCalls'
    BY <1>0, <2>1 DEF EventCalls
  <2>. QED  BY <1>0, <2>1, <2>2, RowsStay DEF SubsInv
<1>6. ASSUME BillingCrash PROVE SubsInv' /\ Advances
  <2>1. UNCHANGED <<subs, stale, clock>> /\ bill' = [c \in BillCalls |-> NoCall]
    BY <1>6 DEF BillingCrash, titles, hist
  <2>2. EventCalls'
    BY <2>1, NoCallIs DEF EventCalls, EventTimes
  <2>. QED  BY <1>0, <2>1, <2>2, RowsStay DEF SubsInv
<1>. QED  BY <1>1, <1>2, <1>3, <1>4, <1>5, <1>6 DEF BillingNext

\* In whatever order the events of a subscription come, and whatever an administrator
\* or the sweep does meanwhile, one that was revoked stays revoked and the end of one
\* is never moved back, unless an event had read the row before another one wrote it
\* (handleSubscriptionEvent, setSubscriptionStatus).
THEOREM SubscriptionsAdvance == BillingSpec => SubscriptionAdvances
<1>1. BillingInit => SubsInv
  BY NoCallIs DEF BillingInit, SubsInv, SubsRows, EventCalls, EventTimes
<1>2. SubsInv /\ [BillingNext]_billVars => SubsInv' /\ Advances
  BY SubsSteps
<1>3. Advances => [\A s \in Subs : (subs'[s] # subs[s] /\ s \notin stale') =>
       \A r \in subs[s], n \in subs'[s] : (r.st = "revoked" => n.st = "revoked") /\ n.until >= r.until]_billVars
  BY DEF Advances
<1>. QED  BY <1>1, <1>2, <1>3, PTL DEF BillingSpec, SubscriptionAdvances
-----------------------------------------------------------------------------
(* Hosts: hosts, the answers about them and their LLM keys agree.             *)

IsReq(r) == r = [op |-> r.op, at |-> r.at, b |-> r.b, s |-> r.s, o |-> r.o, seen |-> r.seen]
IsBox(r) == r = [st |-> r.st, owner |-> r.owner, from |-> r.from, name |-> r.name]
IsScan(r) == r = [st |-> r.st, owner |-> r.owner, old |-> r.old]

ReqShape == hostReq = [c \in HostCalls |-> hostReq[c]] /\ \A c \in HostCalls : IsReq(hostReq[c])
RowShape ==
    /\ box = [b \in Boxes |-> box[b]] /\ \A b \in Boxes : IsBox(box[b])
    /\ scan = [s \in Scans |-> scan[s]] /\ \A s \in Scans : IsScan(scan[s])
    /\ llmKey \in [Boxes -> Nat]

\* What a request in flight may rely on.
ReqKnows(r) ==
    /\ r.op \in {"approve", "consume"} => r.s \in Scans
    /\ r.op = "consume" => <<r.s, r.o>> \in told
    /\ r.op = "key" => r.seen = "live"

ReqsKnow == \A c \in HostCalls : ReqKnows(hostReq[c])

\* The account that was told is the owner of the session, once and for all, and the
\* owner of its hosts.
ToldRight ==
    /\ \A p \in told : /\ p[1] \in Scans /\ p = <<p[1], scan[p[1]].owner>>
                       /\ scan[p[1]].st \in {"approved", "consumed", "gone"}
    /\ \A s \in Scans : scan[s].st \in {"approved", "consumed"} => <<s, scan[s].owner>> \in told
    /\ \A s \in Scans, b \in Boxes : box[b].from = s => <<s, box[b].owner>> \in told

Consuming(r, s) == r.op = "consume" /\ r.s = s
NoBoxOf(s) == \A b \in Boxes : box[b].from # s

\* A session makes one host: there is none while a request is about to make it, and
\* none while it may still be consumed.
OneHost ==
    \A s \in Scans \ twice :
        /\ \A a, b \in Boxes : box[a].from = s /\ box[b].from = s => a = b
        /\ \A c, d \in HostCalls : Consuming(hostReq[c], s) /\ Consuming(hostReq[d], s) => c = d
        /\ \A c \in HostCalls : Consuming(hostReq[c], s) /\ hostReq[c].at = "create" => NoBoxOf(s)
        /\ scan[s].st = "approved" => \/ NoBoxOf(s)
                                      \/ \E c \in HostCalls : Consuming(hostReq[c], s) /\ hostReq[c].at = "mark"

Keying(r, b) == r.op = "key" /\ r.b = b
Revoking(r, b) == r.op = "revoke" /\ r.at = "keys" /\ r.b = b

\* One request makes the key of a host, after the old ones are gone, and a key of a
\* revoked host is about to go.
OneKey ==
    \A b \in Boxes \ late :
        /\ \A c, d \in HostCalls : Keying(hostReq[c], b) /\ Keying(hostReq[d], b) => c = d
        /\ \A c \in HostCalls : Keying(hostReq[c], b) /\ hostReq[c].at = "create" => llmKey[b] = 0
        /\ llmKey[b] <= 1
        /\ llmKey[b] > 0 => \/ box[b].st # "revoked"
                            \/ \E c \in HostCalls : Revoking(hostReq[c], b)

HostsInv == ReqShape /\ RowShape /\ ReqsKnow /\ ToldRight /\ OneHost /\ OneKey

LEMMA FreeReqIs == FreeReq.op = "free" /\ IsReq(FreeReq)
  BY DEF FreeReq, IsReq

LEMMA HostsAgree == ASSUME HostsInv PROVE HostsConsistent
<1>1. ASSUME NEW s \in Scans, NEW p \in told, NEW r \in told, p[1] = s, r[1] = s PROVE p = r
  BY <1>1 DEF HostsInv, ToldRight
<1>2. ASSUME NEW s \in Scans, s \notin twice PROVE Cardinality({b \in Boxes : box[b].from = s}) <= 1
  <2>. DEFINE B == {b \in Boxes : box[b].from = s}
  <2>1. \A a, b \in B : a = b
    BY <1>2 DEF HostsInv, OneHost
  <2>2. CASE B = {}
    BY <2>2, FS_EmptySet
  <2>3. CASE B # {}
    <3>. PICK b : b \in B
      BY <2>3
    <3>1. B = {b}
      BY <2>1
    <3>2. Cardinality({b}) = 1
      BY FS_Singleton
    <3>. HIDE DEF B
    <3>3. Cardinality(B) = 1
      BY <3>1, <3>2
    <3>4. Cardinality(B) <= 1
      BY <3>3
    <3>. QED  BY <3>4 DEF B
  <2>. QED  BY <2>2, <2>3
<1>3. HostClaimed
  BY <1>1, <1>2 DEF HostClaimed, HostsInv, ToldRight
<1>4. KeysFollowHosts
  BY DEF KeysFollowHosts, HostsInv, OneKey, Revoking, In
<1>. QED  BY <1>3, <1>4 DEF HostsConsistent

\* The parts of the invariant, and what disturbs none of them.
LEMMA ReqMoves ==
    ASSUME ReqShape, ReqsKnow, NEW c \in HostCalls, NEW r, hostReq' = [hostReq EXCEPT ![c] = r],
           IsReq(r), ReqKnows(r)', told \subseteq told'
    PROVE  /\ ReqShape' /\ ReqsKnow'
           /\ \A d \in HostCalls : hostReq'[d] = IF d = c THEN r ELSE hostReq[d]
<1>1. /\ hostReq' = [d \in HostCalls |-> hostReq'[d]]
      /\ \A d \in HostCalls : hostReq'[d] = IF d = c THEN r ELSE hostReq[d]
  BY DEF ReqShape
<1>2. ReqShape'
  BY <1>1 DEF ReqShape
<1>3. ASSUME NEW d \in HostCalls PROVE ReqKnows(hostReq[d])'
  BY <1>1 DEF ReqsKnow, ReqKnows
<1>. QED  BY <1>1, <1>2, <1>3 DEF ReqsKnow

LEMMA ReqsStay ==
    ASSUME ReqShape, ReqsKnow, UNCHANGED hostReq, told \subseteq told'
    PROVE  ReqShape' /\ ReqsKnow'
BY DEF ReqShape, ReqsKnow, ReqKnows

\* No host comes from a session, or changes hands.
SameBoxes ==
    \A b \in Boxes : box'[b].from \in Scans =>
       box'[b].from = box[b].from /\ box'[b].owner = box[b].owner

LEMMA StaysTold ==
    ASSUME ToldRight, SameBoxes, told \subseteq told',
           \A s \in Scans :
              /\ scan'[s].owner = scan[s].owner \/ scan[s].st = "none"
              /\ scan[s].st \in {"approved", "consumed", "gone"} => scan'[s].st \in {"approved", "consumed", "gone"}
              /\ scan'[s].st \in {"approved", "consumed"} => scan[s].st \in {"approved", "consumed"},
           \A p \in told' \ told : \E s \in Scans : p = <<s, scan[s].owner>> /\ scan[s].st = "approved"
    PROVE  ToldRight'
<1>1. ASSUME NEW p \in told'
      PROVE  /\ p[1] \in Scans /\ p = <<p[1], scan'[p[1]].owner>>
             /\ scan'[p[1]].st \in {"approved", "consumed", "gone"}
  <2>1. CASE p \in told
    BY <2>1 DEF ToldRight
  <2>2. CASE p \notin told
    <3>. PICK s \in Scans : p = <<s, scan[s].owner>> /\ scan[s].st = "approved"
      BY <2>2
    <3>1. p[1] = s
      OBVIOUS
    <3>. QED  BY <3>1
  <2>. QED  BY <2>1, <2>2
<1>2. ASSUME NEW s \in Scans, scan'[s].st \in {"approved", "consumed"} PROVE <<s, scan'[s].owner>> \in told'
  BY <1>2 DEF ToldRight
<1>3. ASSUME NEW s \in Scans, NEW b \in Boxes, box'[b].from = s PROVE <<s, box'[b].owner>> \in told'
  BY <1>3 DEF ToldRight, SameBoxes
<1>. QED  BY <1>1, <1>2, <1>3 DEF ToldRight

LEMMA StaysOneHost ==
    ASSUME OneHost, SameBoxes, twice \subseteq twice',
           \A s \in Scans : scan'[s].st = "approved" => scan[s].st = "approved" \/ NoBoxOf(s),
           \A d \in HostCalls, s \in Scans \ twice' :
              /\ Consuming(hostReq'[d], s) => Consuming(hostReq[d], s) /\ hostReq'[d].at = hostReq[d].at
              /\ Consuming(hostReq[d], s) /\ hostReq[d].at = "mark" =>
                    Consuming(hostReq'[d], s) /\ hostReq'[d].at = "mark"
    PROVE  OneHost'
<1>. SUFFICES ASSUME NEW s \in Scans, s \notin twice'
              PROVE  /\ \A a, b \in Boxes : box'[a].from = s /\ box'[b].from = s => a = b
                     /\ \A c, d \in HostCalls : Consuming(hostReq'[c], s) /\ Consuming(hostReq'[d], s) => c = d
                     /\ \A c \in HostCalls : Consuming(hostReq'[c], s) /\ hostReq'[c].at = "create" => NoBoxOf(s)'
                     /\ scan'[s].st = "approved" =>
                           \/ NoBoxOf(s)'
                           \/ \E c \in HostCalls : Consuming(hostReq'[c], s) /\ hostReq'[c].at = "mark"
  BY DEF OneHost, Consuming
<1>1. s \notin twice /\ (NoBoxOf(s) => NoBoxOf(s)')
  BY DEF NoBoxOf, SameBoxes
<1>. QED  BY <1>1 DEF OneHost, SameBoxes

LEMMA StaysOneKey ==
    ASSUME OneKey, UNCHANGED llmKey, late \subseteq late',
           \A b \in Boxes : box'[b].st = "revoked" => box[b].st = "revoked",
           \A d \in HostCalls, b \in Boxes \ late' :
              /\ Keying(hostReq'[d], b) => /\ Keying(hostReq[d], b)
                                           /\ hostReq'[d].at = "create" => hostReq[d].at = "create"
              /\ Revoking(hostReq[d], b) => Revoking(hostReq'[d], b)
    PROVE  OneKey'
<1>. SUFFICES ASSUME NEW b \in Boxes, b \notin late'
              PROVE  /\ \A c, d \in HostCalls : Keying(hostReq'[c], b) /\ Keying(hostReq'[d], b) => c = d
                     /\ \A c \in HostCalls : Keying(hostReq'[c], b) /\ hostReq'[c].at = "create" => llmKey'[b] = 0
                     /\ llmKey'[b] <= 1
                     /\ llmKey'[b] > 0 => \/ box'[b].st # "revoked"
                                          \/ \E c \in HostCalls : Revoking(hostReq'[c], b)
  BY DEF OneKey, Keying, Revoking
<1>1. b \notin late
  OBVIOUS
<1>. QED  BY <1>1 DEF OneKey

\* Where Step and Replies take a request.
LEMMA ReqWays ==
    ASSUME ReqShape, NEW c \in HostCalls
    PROVE  /\ \A at : Step(c, at) =>
                 \E r : /\ hostReq' = [hostReq EXCEPT ![c] = r] /\ IsReq(r)
                        /\ r.op = hostReq[c].op /\ r.b = hostReq[c].b /\ r.s = hostReq[c].s
                        /\ r.o = hostReq[c].o /\ r.seen = hostReq[c].seen /\ r.at = at
           /\ Replies(c) => \E r : hostReq' = [hostReq EXCEPT ![c] = r] /\ IsReq(r) /\ r.op = "free"
<1>1. ASSUME NEW at, Step(c, at)
      PROVE  \E r : /\ hostReq' = [hostReq EXCEPT ![c] = r] /\ IsReq(r)
                    /\ r.op = hostReq[c].op /\ r.b = hostReq[c].b /\ r.s = hostReq[c].s
                    /\ r.o = hostReq[c].o /\ r.seen = hostReq[c].seen /\ r.at = at
  <2>. PICK r : r = [hostReq[c] EXCEPT !.at = at]
    OBVIOUS
  <2>1. IsReq(hostReq[c])
    BY DEF ReqShape
  <2>2. hostReq' = [hostReq EXCEPT ![c] = r]
    BY <1>1 DEF Step, ReqShape
  <2>3. /\ IsReq(r)
        /\ r.op = hostReq[c].op /\ r.b = hostReq[c].b /\ r.s = hostReq[c].s
        /\ r.o = hostReq[c].o /\ r.seen = hostReq[c].seen /\ r.at = at
    BY <2>1 DEF IsReq
  <2>. QED  BY <2>2, <2>3
<1>2. Replies(c) => \E r : hostReq' = [hostReq EXCEPT ![c] = r] /\ IsReq(r) /\ r.op = "free"
  BY FreeReqIs DEF Replies
<1>. QED  BY <1>1, <1>2

\* A request that has no session, key or revocation in its hands moves.
QuietReq ==
    \/ UNCHANGED hostReq
    \/ \E c \in HostCalls : \E r :
          /\ hostReq' = [hostReq EXCEPT ![c] = r] /\ IsReq(r)
          /\ r.op \notin {"consume", "key"} /\ (r.op = "approve" => r.s \in Scans)
          /\ ~(hostReq[c].op = "consume" /\ hostReq[c].at = "mark")
          /\ ~(hostReq[c].op = "revoke" /\ hostReq[c].at = "keys")

LEMMA QuietOnes ==
    ASSUME QuietReq, ReqShape, ReqsKnow, told \subseteq told'
    PROVE  /\ ReqShape' /\ ReqsKnow'
           /\ \A d \in HostCalls, s \in Scans :
                 /\ Consuming(hostReq'[d], s) => Consuming(hostReq[d], s) /\ hostReq'[d].at = hostReq[d].at
                 /\ Consuming(hostReq[d], s) /\ hostReq[d].at = "mark" =>
                       Consuming(hostReq'[d], s) /\ hostReq'[d].at = "mark"
           /\ \A d \in HostCalls, b \in Boxes :
                 /\ Keying(hostReq'[d], b) => /\ Keying(hostReq[d], b)
                                              /\ hostReq'[d].at = "create" => hostReq[d].at = "create"
                 /\ Revoking(hostReq[d], b) => Revoking(hostReq'[d], b)
<1>1. CASE UNCHANGED hostReq
  BY <1>1, ReqsStay DEF Consuming, Keying, Revoking
<1>2. CASE ~UNCHANGED hostReq
  <2>. PICK c \in HostCalls : \E r :
          /\ hostReq' = [hostReq EXCEPT ![c] = r] /\ IsReq(r)
          /\ r.op \notin {"consume", "key"} /\ (r.op = "approve" => r.s \in Scans)
          /\ ~(hostReq[c].op = "consume" /\ hostReq[c].at = "mark")
          /\ ~(hostReq[c].op = "revoke" /\ hostReq[c].at = "keys")
    BY <1>2 DEF QuietReq
  <2>. PICK r :
          /\ hostReq' = [hostReq EXCEPT ![c] = r] /\ IsReq(r)
          /\ r.op \notin {"consume", "key"} /\ (r.op = "approve" => r.s \in Scans)
          /\ ~(hostReq[c].op = "consume" /\ hostReq[c].at = "mark")
          /\ ~(hostReq[c].op = "revoke" /\ hostReq[c].at = "keys")
    OBVIOUS
  <2>1. ReqKnows(r)'
    BY DEF ReqKnows
  <2>2. /\ ReqShape' /\ ReqsKnow'
        /\ \A d \in HostCalls : hostReq'[d] = IF d = c THEN r ELSE hostReq[d]
    <3>1. /\ hostReq' = [hostReq EXCEPT ![c] = r] /\ IsReq(r)
          /\ ReqShape /\ ReqsKnow /\ told \subseteq told'
      OBVIOUS
    <3>. QED  BY ONLY c \in HostCalls, <2>1, <3>1, ReqMoves
  <2>. QED  BY <2>2 DEF Consuming, Keying, Revoking
<1>. QED  BY <1>1, <1>2

ScansStay == UNCHANGED <<scan, told>>
BoxesStay == SameBoxes /\ \A b \in Boxes : box'[b].st = "revoked" => box[b].st = "revoked"

LEMMA Quiet ==
    ASSUME HostsInv, QuietReq, RowShape', BoxesStay, UNCHANGED <<llmKey, twice, late>>, told \subseteq told',
           \A s \in Scans :
              /\ scan'[s].owner = scan[s].owner \/ scan[s].st = "none"
              /\ scan[s].st \in {"approved", "consumed", "gone"} => scan'[s].st \in {"approved", "consumed", "gone"}
              /\ scan'[s].st \in {"approved", "consumed"} => scan[s].st = scan'[s].st,
           \A p \in told' \ told : \E s \in Scans : p = <<s, scan[s].owner>> /\ scan[s].st = "approved"
    PROVE  HostsInv'
<1>1. ReqShape' /\ ReqsKnow'
  BY QuietOnes DEF HostsInv
<1>2. ToldRight'
  <2>1. \A s \in Scans : scan'[s].st \in {"approved", "consumed"} => scan[s].st \in {"approved", "consumed"}
    OBVIOUS
  <2>. QED  BY <2>1, StaysTold DEF HostsInv, BoxesStay
<1>3. OneHost'
  <2>1. \A s \in Scans : scan'[s].st = "approved" => scan[s].st = "approved"
    OBVIOUS
  <2>2. twice \subseteq twice' /\ SameBoxes /\ OneHost
    BY DEF HostsInv, BoxesStay
  <2>. QED  BY <2>1, <2>2, QuietOnes, StaysOneHost DEF HostsInv
<1>4. OneKey'
  <2>1. late \subseteq late' /\ OneKey /\ ReqShape /\ ReqsKnow
    BY DEF HostsInv
  <2>. QED  BY <2>1, QuietOnes, StaysOneKey DEF BoxesStay
<1>. QED  BY <1>1, <1>2, <1>3, <1>4 DEF HostsInv

LEMMA QuietRows ==
    ASSUME HostsInv, QuietReq, UNCHANGED <<box, scan, llmKey, told, twice, late>> PROVE HostsInv'
<1>1. RowShape' /\ BoxesStay
  BY DEF HostsInv, RowShape, BoxesStay, SameBoxes
<1>. QED  BY <1>1, Quiet

\* Status and name of a host.
LEMMA BoxEdits ==
    ASSUME RowShape, NEW b, UNCHANGED <<scan, llmKey>>,
           \/ UNCHANGED box
           \/ \E v : box' = [box EXCEPT ![b].name = v]
           \/ \E v : box' = [box EXCEPT ![b].st = v]
    PROVE  /\ RowShape' /\ SameBoxes
           /\ \A a \in Boxes : a # b => box'[a] = box[a]
           /\ ((\E v : box' = [box EXCEPT ![b].name = v]) \/ box' = [box EXCEPT ![b].st = "gone"]) => BoxesStay
<1>1. CASE UNCHANGED box
  BY <1>1 DEF RowShape, SameBoxes, BoxesStay
<1>2. ASSUME NEW v, box' = [box EXCEPT ![b].name = v]
      PROVE  /\ RowShape' /\ BoxesStay /\ \A a \in Boxes : a # b => box'[a] = box[a]
  <2>. PICK r : r = [box[b] EXCEPT !.name = v]
    OBVIOUS
  <2>1. /\ box' = [a \in Boxes |-> box'[a]]
        /\ \A a \in Boxes : box'[a] = IF a = b THEN r ELSE box[a]
    BY <1>2 DEF RowShape
  <2>2. b \in Boxes => IsBox(r) /\ r.from = box[b].from /\ r.owner = box[b].owner /\ r.st = box[b].st
    BY DEF RowShape, IsBox
  <2>3. RowShape' /\ SameBoxes /\ \A a \in Boxes : a # b => box'[a] = box[a]
    BY <2>1, <2>2 DEF RowShape, SameBoxes
  <2>4. \A a \in Boxes : box'[a].st = box[a].st
    BY <2>1, <2>2
  <2>. QED  BY <2>3, <2>4 DEF BoxesStay
<1>3. ASSUME NEW v, box' = [box EXCEPT ![b].st = v]
      PROVE  /\ RowShape' /\ SameBoxes /\ \A a \in Boxes : /\ a # b => box'[a] = box[a]
                                                           /\ a = b => box'[a].st = v
  <2>. PICK r : r = [box[b] EXCEPT !.st = v]
    OBVIOUS
  <2>1. /\ box' = [a \in Boxes |-> box'[a]]
        /\ \A a \in Boxes : box'[a] = IF a = b THEN r ELSE box[a]
    BY <1>3 DEF RowShape
  <2>2. b \in Boxes => IsBox(r) /\ r.from = box[b].from /\ r.owner = box[b].owner /\ r.st = v
    BY DEF RowShape, IsBox
  <2>3. RowShape' /\ SameBoxes /\ \A a \in Boxes : a # b => box'[a] = box[a]
    BY <2>1, <2>2 DEF RowShape, SameBoxes
  <2>. QED  BY <2>1, <2>2, <2>3
<1>4. ASSUME box' = [box EXCEPT ![b].st = "gone"] PROVE BoxesStay
  <2>1. SameBoxes /\ \A a \in Boxes : /\ a # b => box'[a] = box[a]
                                      /\ a = b => box'[a].st = "gone"
    BY <1>3, <1>4
  <2>. QED  BY <2>1 DEF BoxesStay
<1>. QED  BY <1>1, <1>2, <1>3, <1>4 DEF BoxesStay

\* A request begins.
LEMMA BeginsReq ==
    ASSUME HostsInv, NEW c \in HostCalls, Idle(c), NEW r, Request(c, r), IsReq(r),
           r.op \notin {"consume", "key"}, r.op = "approve" => r.s \in Scans
    PROVE  QuietReq
<1>1. hostReq[c].op = "free"
  BY FreeReqIs DEF Idle
<1>. QED  BY <1>1 DEF QuietReq, Request

\* It goes on or ends.
LEMMA GoesReq ==
    ASSUME HostsInv, NEW c \in HostCalls, hostReq[c].op \notin {"consume", "key"},
           ~(hostReq[c].op = "revoke" /\ hostReq[c].at = "keys"),
           Replies(c) \/ \E at : Step(c, at)
    PROVE  QuietReq
<1>. PICK r : /\ hostReq' = [hostReq EXCEPT ![c] = r] /\ IsReq(r)
              /\ r.op = "free" \/ (r.op = hostReq[c].op /\ r.s = hostReq[c].s)
  BY ReqWays DEF HostsInv
<1>1. r.op = "approve" => r.s \in Scans
  BY DEF HostsInv, ReqsKnow, ReqKnows
<1>. QED  BY <1>1 DEF QuietReq

LEMMA HostsCreateBind == ASSUME HostsInv, NEW c \in HostCalls, CreateBindSession(c) PROVE HostsInv'
<1>. PICK s \in Scans : scan[s].st = "none" /\ scan' = [scan EXCEPT ![s].st = "pending"]
  BY DEF CreateBindSession
<1>. UNCHANGED <<box, llmKey, hostReq, told, twice, late>>
  BY DEF CreateBindSession, history
<1>. PICK r : r = [scan[s] EXCEPT !.st = "pending"]
  OBVIOUS
<1>1. /\ scan' = [t \in Scans |-> scan'[t]]
      /\ \A t \in Scans : scan'[t] = IF t = s THEN r ELSE scan[t]
  BY DEF HostsInv, RowShape
<1>2. IsScan(r) /\ r.st = "pending" /\ r.owner = scan[s].owner
  BY DEF HostsInv, RowShape, IsScan
<1>3. RowShape' /\ BoxesStay /\ QuietReq
  BY <1>1, <1>2 DEF HostsInv, RowShape, BoxesStay, SameBoxes, QuietReq
<1>. QED  BY <1>1, <1>2, <1>3, Quiet

LEMMA HostsApproveBind == ASSUME HostsInv, NEW c \in HostCalls, ApproveBindSession(c) PROVE HostsInv'
<1>. UNCHANGED <<box, scan, llmKey, twice, late>>
  BY DEF ApproveBindSession
<1>. PICK s \in Scans, o \in Owners :
        /\ Asks(c, "approve")
        /\ told' = IF scan[s].st = "approved" /\ scan[s].owner = o THEN told \cup {<<s, o>>} ELSE told
        /\ \/ Request(c, [FreeReq EXCEPT !.op = "approve", !.s = s, !.o = o, !.at = "quota"])
           \/ UNCHANGED hostReq
  BY DEF ApproveBindSession
<1>1. QuietReq
  <2>1. CASE UNCHANGED hostReq
    BY <2>1 DEF QuietReq
  <2>2. CASE Request(c, [FreeReq EXCEPT !.op = "approve", !.s = s, !.o = o, !.at = "quota"])
    <3>. PICK r : r = [FreeReq EXCEPT !.op = "approve", !.s = s, !.o = o, !.at = "quota"]
      OBVIOUS
    <3>1. IsReq(r) /\ r.op = "approve" /\ r.s = s
      BY DEF FreeReq, IsReq
    <3>2. Idle(c) /\ Request(c, r)
      BY <2>2 DEF Asks
    <3>. QED  BY <3>1, <3>2, BeginsReq
  <2>. QED  BY <2>1, <2>2
<1>2. \A p \in told' \ told : p = <<s, scan[s].owner>> /\ scan[s].st = "approved"
  OBVIOUS
<1>3. told \subseteq told'
  OBVIOUS
<1>4. RowShape' /\ BoxesStay
  BY DEF HostsInv, RowShape, BoxesStay, SameBoxes
<1>. QED  BY <1>1, <1>2, <1>3, <1>4, Quiet

\* The session gets its owner.
LEMMA HostsApproveRow == ASSUME HostsInv, NEW c \in HostCalls, ApproveRow(c) PROVE HostsInv'
<1>. UNCHANGED <<box, llmKey, twice, late>>
  BY DEF ApproveRow
<1>0. QuietReq
  BY GoesReq DEF ApproveRow, In
<1>1. CASE UNCHANGED <<scan, told>>
  BY <1>0, <1>1, QuietRows
<1>. PICK s : s = hostReq[c].s
  OBVIOUS
<1>. PICK o : o = hostReq[c].o
  OBVIOUS
<1>2. CASE /\ In(c, "approve", "write") /\ StillPending(s)
           /\ scan' = [scan EXCEPT ![s].st = "approved", ![s].owner = o] /\ told' = told \cup {<<s, o>>}
  <2>1. s \in Scans /\ scan[s].st = "pending"
    BY <1>2 DEF In, StillPending, HostsInv, ReqsKnow, ReqKnows
  <2>. PICK r : r = [scan[s] EXCEPT !.st = "approved", !.owner = o]
    OBVIOUS
  <2>2. /\ scan' = [t \in Scans |-> scan'[t]]
        /\ \A t \in Scans : scan'[t] = IF t = s THEN r ELSE scan[t]
    BY <1>2, Zenon DEF HostsInv, RowShape
  <2>3. IsScan(r) /\ r.st = "approved" /\ r.owner = o
    <3>1. IsScan(scan[s])
      BY <2>1 DEF HostsInv, RowShape
    <3>. QED  BY <3>1 DEF IsScan
  <2>4. RowShape'
    BY <2>2, <2>3, Zenon DEF HostsInv, RowShape
  <2>5. \A p \in told : p[1] # s
    BY <2>1 DEF HostsInv, ToldRight
  <2>6. NoBoxOf(s)
    <3>1. ASSUME NEW b \in Boxes, box[b].from = s PROVE FALSE
      <4>1. <<s, box[b].owner>> \in told
        BY <2>1, <3>1 DEF HostsInv, ToldRight
      <4>. QED  BY <2>5, <4>1
    <3>. QED  BY <3>1 DEF NoBoxOf
  <2>7. SameBoxes /\ told \subseteq told'
    BY <1>2 DEF SameBoxes
  <2>8. ToldRight'
    <3>1. ASSUME NEW p \in told'
          PROVE  /\ p[1] \in Scans /\ p = <<p[1], scan'[p[1]].owner>>
                 /\ scan'[p[1]].st \in {"approved", "consumed", "gone"}
      <4>1. CASE p \in told
        BY <2>2, <2>5, <4>1 DEF HostsInv, ToldRight
      <4>2. CASE p = <<s, o>>
        BY <2>1, <2>2, <2>3, <4>2
      <4>. QED  BY <1>2, <4>1, <4>2, Zenon
    <3>2. ASSUME NEW t \in Scans, scan'[t].st \in {"approved", "consumed"} PROVE <<t, scan'[t].owner>> \in told'
      <4>1. CASE t = s
        <5>1. scan'[t].owner = o
          BY <2>2, <2>3, <4>1
        <5>2. <<s, o>> \in told'
          BY <1>2
        <5>. QED  BY <4>1, <5>1, <5>2
      <4>2. CASE t # s
        <5>1. scan'[t] = scan[t]
          BY <2>2, <4>2
        <5>2. <<t, scan[t].owner>> \in told
          BY <3>2, <5>1 DEF HostsInv, ToldRight
        <5>. QED  BY <2>7, <5>1, <5>2
      <4>. QED  BY <4>1, <4>2
    <3>3. ASSUME NEW t \in Scans, NEW b \in Boxes, box'[b].from = t PROVE <<t, box'[b].owner>> \in told'
      BY <1>2, <3>3 DEF HostsInv, ToldRight
    <3>. QED  BY <3>1, <3>2, <3>3 DEF ToldRight
  <2>9. ReqShape' /\ ReqsKnow'
    BY <1>0, <2>7, QuietOnes DEF HostsInv
  <2>10. OneHost'
    <3>1. \A t \in Scans : scan'[t].st = "approved" => scan[t].st = "approved" \/ NoBoxOf(t)
      BY <2>2, <2>6
    <3>2. twice \subseteq twice' /\ OneHost /\ ReqShape /\ ReqsKnow
      BY DEF HostsInv
    <3>. QED  BY <1>0, <2>7, <3>1, <3>2, QuietOnes, StaysOneHost
  <2>11. OneKey'
    <3>1. late \subseteq late' /\ OneKey /\ ReqShape /\ ReqsKnow
      BY DEF HostsInv
    <3>. QED  BY <1>0, <2>7, <3>1, QuietOnes, StaysOneKey
  <2>. QED  BY <2>4, <2>8, <2>9, <2>10, <2>11 DEF HostsInv
<1>. QED  BY <1>1, <1>2 DEF ApproveRow

LEMMA HostsExpire == ASSUME HostsInv, Expires PROVE HostsInv'
<1>. UNCHANGED <<box, llmKey, hostReq, told, twice, late>>
  BY DEF Expires, history
<1>1. QuietReq
  BY DEF QuietReq
<1>2. CASE UNCHANGED scan
  BY <1>1, <1>2, QuietRows
<1>3. CASE \E s \in Scans : scan' = [scan EXCEPT ![s].old = TRUE]
  <2>. PICK s \in Scans : scan' = [scan EXCEPT ![s].old = TRUE]
    BY <1>3
  <2>. PICK r : r = [scan[s] EXCEPT !.old = TRUE]
    OBVIOUS
  <2>1. /\ scan' = [t \in Scans |-> scan'[t]]
        /\ \A t \in Scans : scan'[t] = IF t = s THEN r ELSE scan[t]
    BY DEF HostsInv, RowShape
  <2>2. IsScan(r) /\ r.st = scan[s].st /\ r.owner = scan[s].owner
    <3>1. IsScan(scan[s])
      BY DEF HostsInv, RowShape
    <3>. QED  BY <3>1 DEF IsScan
  <2>3. RowShape' /\ BoxesStay
    BY <2>1, <2>2 DEF HostsInv, RowShape, BoxesStay, SameBoxes
  <2>. QED  BY <1>1, <2>1, <2>2, <2>3, Quiet
<1>. QED  BY <1>2, <1>3 DEF Expires

LEMMA HostsPrune == ASSUME HostsInv, PruneBindSessions PROVE HostsInv'
<1>. UNCHANGED <<box, llmKey, hostReq, told, twice, late>>
  BY DEF PruneBindSessions, history
<1>1. scan' = [s \in Scans |-> IF scan[s].old THEN [scan[s] EXCEPT !.st = "gone"] ELSE scan[s]]
  BY DEF PruneBindSessions
<1>2. ASSUME NEW s \in Scans
      PROVE  /\ IsScan(scan'[s]) /\ scan'[s].owner = scan[s].owner
             /\ scan'[s].st = scan[s].st \/ scan'[s].st = "gone"
  <2>1. IsScan(scan[s])
    BY DEF HostsInv, RowShape
  <2>2. CASE scan[s].old
    <3>1. scan'[s] = [scan[s] EXCEPT !.st = "gone"]
      BY <1>1, <2>2
    <3>. QED  BY <2>1, <3>1 DEF IsScan
  <2>3. CASE ~scan[s].old
    BY <1>1, <2>1, <2>3
  <2>. QED  BY <2>2, <2>3
<1>3. RowShape'
  BY <1>1, <1>2 DEF HostsInv, RowShape
<1>4. BoxesStay /\ QuietReq
  BY DEF BoxesStay, SameBoxes, QuietReq
<1>. QED  BY <1>2, <1>3, <1>4, Quiet

\* A new host of o.
LEMMA NewHost ==
    ASSUME RowShape, NEW o, NEW from, CreateHost(o, from), UNCHANGED <<scan, llmKey>>
    PROVE  /\ RowShape'
           /\ \E b \in Boxes : \A a \in Boxes :
                 box'[a] = IF a = b THEN [st |-> "live", owner |-> o, from |-> from, name |-> "given"] ELSE box[a]
<1>. PICK b \in Boxes : box' = [box EXCEPT ![b] = [st |-> "live", owner |-> o, from |-> from, name |-> "given"]]
  BY DEF CreateHost
<1>. PICK r : r = [st |-> "live", owner |-> o, from |-> from, name |-> "given"]
  OBVIOUS
<1>1. IsBox(r)
  BY DEF IsBox
<1>2. /\ box' = [a \in Boxes |-> box'[a]]
      /\ \A a \in Boxes : box'[a] = IF a = b THEN r ELSE box[a]
  BY DEF RowShape
<1>3. RowShape'
  BY <1>1, <1>2 DEF RowShape
<1>. QED  BY <1>2, <1>3

LEMMA HostsRegister == ASSUME HostsInv, NEW c \in HostCalls, Register(c) PROVE HostsInv'
<1>. UNCHANGED <<scan, llmKey, told, twice, late>>
  BY DEF Register, history
<1>1. CASE UNCHANGED box /\ Idle(c) /\ \E o : Request(c, [FreeReq EXCEPT !.op = "register", !.o = o, !.at = "quota"])
  <2>. PICK r, o : Request(c, r) /\ r = [FreeReq EXCEPT !.op = "register", !.o = o, !.at = "quota"]
    BY <1>1
  <2>1. IsReq(r) /\ r.op = "register"
    BY DEF FreeReq, IsReq
  <2>2. QuietReq
    BY <1>1, <2>1, BeginsReq
  <2>. QED  BY <1>1, <2>2, QuietRows
<1>2. CASE In(c, "register", "quota") /\ (Replies(c) \/ Step(c, "create")) /\ UNCHANGED box
  <2>1. QuietReq
    BY <1>2, GoesReq DEF In
  <2>. QED  BY <1>2, <2>1, QuietRows
<1>3. CASE In(c, "register", "create") /\ CreateHost(hostReq[c].o, Nobody) /\ Replies(c)
  <2>1. QuietReq
    BY <1>3, GoesReq DEF In
  <2>. PICK o : o = hostReq[c].o
    OBVIOUS
  <2>2. CreateHost(o, Nobody) /\ RowShape
    BY <1>3 DEF HostsInv
  <2>3. /\ RowShape'
        /\ \E b \in Boxes : \A a \in Boxes :
              box'[a] = IF a = b THEN [st |-> "live", owner |-> o, from |-> Nobody, name |-> "given"] ELSE box[a]
    BY <2>2, NewHost
  <2>4. BoxesStay
    BY <2>3, HostsAssumption DEF BoxesStay, SameBoxes
  <2>. QED  BY <2>1, <2>3, <2>4, Quiet
<1>. QED  BY <1>1, <1>2, <1>3 DEF Register, Asks

LEMMA HostsNamed ==
    ASSUME HostsInv, NEW c \in HostCalls, RenameHost(c) \/ HostMeta(c) PROVE HostsInv'
<1>. UNCHANGED <<scan, llmKey, told, twice, late>>
  BY Zenon DEF RenameHost, HostMeta, history
<1>1. QuietReq
  <2>1. CASE UNCHANGED hostReq
    BY <2>1 DEF QuietReq
  <2>2. CASE Idle(c) /\ \E b : Request(c, [FreeReq EXCEPT !.op = "meta", !.b = b, !.at = "set"])
    <3>. PICK r, b : Request(c, r) /\ r = [FreeReq EXCEPT !.op = "meta", !.b = b, !.at = "set"]
      BY <2>2
    <3>1. IsReq(r) /\ r.op = "meta"
      BY DEF FreeReq, IsReq
    <3>. QED  BY <2>2, <3>1, BeginsReq
  <2>3. CASE In(c, "meta", "set") /\ Replies(c)
    BY <2>3, GoesReq DEF In
  <2>. QED  BY <2>1, <2>2, <2>3, Zenon DEF RenameHost, HostMeta, Asks
<1>2. UNCHANGED box \/ \E b, v : box' = [box EXCEPT ![b].name = v]
  BY Zenon DEF RenameHost, HostMeta
<1>3. RowShape' /\ BoxesStay
  BY <1>2, BoxEdits DEF HostsInv, BoxesStay
<1>. QED  BY <1>1, <1>3, Quiet

\* Tokens and shares, and a revocation that begins.
LEMMA HostsAlone ==
    ASSUME HostsInv, NEW c \in HostCalls,
           \/ CreateJoinToken(c) \/ RevokeJoinToken(c) \/ ShareHost(c) \/ RevokeShare(c) \/ RevokeHost(c)
    PROVE  HostsInv'
<1>. UNCHANGED <<box, scan, llmKey, told, twice, late>>
  BY DEF CreateJoinToken, RevokeJoinToken, ShareHost, RevokeShare, RevokeHost, history
<1>1. CASE UNCHANGED hostReq
  BY <1>1, QuietRows DEF QuietReq
<1>2. CASE Idle(c) /\ \E b, o : Request(c, [FreeReq EXCEPT !.op = "share", !.b = b, !.o = o, !.at = "write"])
  <2>. PICK b, o : Request(c, [FreeReq EXCEPT !.op = "share", !.b = b, !.o = o, !.at = "write"])
    BY <1>2
  <2>. PICK r : r = [FreeReq EXCEPT !.op = "share", !.b = b, !.o = o, !.at = "write"]
    OBVIOUS
  <2>1. IsReq(r) /\ r.op = "share" /\ Request(c, r)
    BY DEF FreeReq, IsReq
  <2>2. QuietReq
    BY <1>2, <2>1, BeginsReq
  <2>. QED  BY <2>2, QuietRows
<1>3. CASE Idle(c) /\ \E b : Request(c, [FreeReq EXCEPT !.op = "revoke", !.b = b, !.at = "record"])
  <2>. PICK r, b : Request(c, r) /\ r = [FreeReq EXCEPT !.op = "revoke", !.b = b, !.at = "record"]
    BY <1>3
  <2>1. IsReq(r) /\ r.op = "revoke"
    BY DEF FreeReq, IsReq
  <2>2. QuietReq
    BY <1>3, <2>1, BeginsReq
  <2>. QED  BY <2>2, QuietRows
<1>4. CASE In(c, "share", "write") /\ Replies(c)
  <2>1. QuietReq
    BY <1>4, GoesReq DEF In
  <2>. QED  BY <2>1, QuietRows
<1>. QED  BY <1>1, <1>2, <1>3, <1>4, Zenon DEF CreateJoinToken, RevokeJoinToken, ShareHost, RevokeShare, RevokeHost, Asks

LEMMA HostsRemove == ASSUME HostsInv, NEW c \in HostCalls, RemoveHost(c) PROVE HostsInv'
<1>. UNCHANGED <<scan, llmKey, told, twice, late>>
  BY Zenon DEF RemoveHost, history
<1>1. QuietReq
  <2>1. CASE Idle(c) /\ \E b : Request(c, [FreeReq EXCEPT !.op = "remove", !.b = b, !.at = "shares"])
    <3>. PICK r, b : Request(c, r) /\ r = [FreeReq EXCEPT !.op = "remove", !.b = b, !.at = "shares"]
      BY <2>1
    <3>1. IsReq(r) /\ r.op = "remove"
      BY DEF FreeReq, IsReq
    <3>. QED  BY <2>1, <3>1, BeginsReq
  <2>2. CASE hostReq[c].op = "remove" /\ (Replies(c) \/ Step(c, "row"))
    BY <2>2, GoesReq
  <2>. QED  BY <2>1, <2>2, Zenon DEF RemoveHost, Asks, In
<1>2. UNCHANGED box \/ \E b : box' = [box EXCEPT ![b].st = "gone"]
  BY DEF RemoveHost
<1>3. RowShape' /\ BoxesStay
  BY <1>2, BoxEdits DEF HostsInv, BoxesStay
<1>. QED  BY <1>1, <1>3, Quiet

LEMMA HostsPurge == ASSUME HostsInv, PurgeExpiredFreeHosts PROVE HostsInv'
<1>. UNCHANGED <<scan, llmKey, hostReq, told, twice, late>>
  BY DEF PurgeExpiredFreeHosts, history
<1>. PICK o \in Owners :
        box' = [b \in Boxes |-> IF Row(b) /\ box[b].owner = o THEN [box[b] EXCEPT !.st = "gone"] ELSE box[b]]
  BY DEF PurgeExpiredFreeHosts
<1>1. ASSUME NEW b \in Boxes
      PROVE  /\ IsBox(box'[b]) /\ box'[b].owner = box[b].owner /\ box'[b].from = box[b].from
             /\ box'[b].st = box[b].st \/ box'[b].st = "gone"
  <2>1. IsBox(box[b])
    BY DEF HostsInv, RowShape
  <2>2. CASE box'[b] = [box[b] EXCEPT !.st = "gone"]
    BY <2>1, <2>2 DEF IsBox
  <2>3. CASE box'[b] = box[b]
    BY <2>1, <2>3
  <2>. QED  BY <2>2, <2>3
<1>2. box' = [b \in Boxes |-> box'[b]]
  OBVIOUS
<1>3. RowShape'
  BY <1>1, <1>2 DEF HostsInv, RowShape
<1>4. BoxesStay /\ QuietReq
  BY <1>1 DEF BoxesStay, SameBoxes, QuietReq
<1>. QED  BY <1>3, <1>4, Quiet

\* A request that is not one of a session, or not one of a key or a revocation, leaves
\* the hosts of sessions, or the keys, alone.
LEMMA NotOfSessions ==
    ASSUME HostsInv, NEW c \in HostCalls, NEW r, r.op # "consume", hostReq[c].op # "consume",
           \A d \in HostCalls : hostReq'[d] = IF d = c THEN r ELSE hostReq[d],
           UNCHANGED <<scan, twice, told>>, SameBoxes
    PROVE  OneHost' /\ ToldRight'
<1>1. ToldRight'
  <2>1. /\ \A s \in Scans :
              /\ scan'[s].owner = scan[s].owner
              /\ scan[s].st \in {"approved", "consumed", "gone"} => scan'[s].st \in {"approved", "consumed", "gone"}
              /\ scan'[s].st \in {"approved", "consumed"} => scan[s].st \in {"approved", "consumed"}
        /\ told \subseteq told' /\ told' \ told = {}
    OBVIOUS
  <2>. QED  BY <2>1, StaysTold DEF HostsInv
<1>2. \A d \in HostCalls, s \in Scans \ twice' :
         /\ Consuming(hostReq'[d], s) => Consuming(hostReq[d], s) /\ hostReq'[d].at = hostReq[d].at
         /\ Consuming(hostReq[d], s) /\ hostReq[d].at = "mark" =>
               Consuming(hostReq'[d], s) /\ hostReq'[d].at = "mark"
  BY DEF Consuming
<1>3. OneHost'
  <2>1. /\ twice \subseteq twice' /\ OneHost
        /\ \A s \in Scans : scan'[s].st = "approved" => scan[s].st = "approved"
    BY DEF HostsInv
  <2>. QED  BY <1>2, <2>1, StaysOneHost
<1>. QED  BY <1>1, <1>3

LEMMA NotOfKeys ==
    ASSUME HostsInv, NEW c \in HostCalls, NEW r, r.op # "key", hostReq[c].op # "revoke",
           \A d \in HostCalls : hostReq'[d] = IF d = c THEN r ELSE hostReq[d],
           UNCHANGED <<llmKey, late>>, \A b \in Boxes : box'[b].st = "revoked" => box[b].st = "revoked"
    PROVE  OneKey'
<1>1. \A d \in HostCalls, b \in Boxes \ late' :
         /\ Keying(hostReq'[d], b) => /\ Keying(hostReq[d], b)
                                      /\ hostReq'[d].at = "create" => hostReq[d].at = "create"
         /\ Revoking(hostReq[d], b) => Revoking(hostReq'[d], b)
  BY DEF Keying, Revoking
<1>2. late \subseteq late' /\ OneKey
  BY DEF HostsInv
<1>. QED  BY <1>1, <1>2, StaysOneKey

LEMMA HostsConsume == ASSUME HostsInv, NEW c \in HostCalls, ConsumeBindSession(c) PROVE HostsInv'
<1>. UNCHANGED <<llmKey, told, late>>
  BY Zenon DEF ConsumeBindSession
<1>0. ReqShape /\ ReqsKnow /\ RowShape /\ ToldRight /\ OneHost /\ told \subseteq told'
  BY DEF HostsInv
<1>1. ASSUME NEW s \in Scans, Idle(c), scan[s].st = "approved",
             Request(c, [FreeReq EXCEPT !.op = "consume", !.s = s, !.o = scan[s].owner, !.at = "create"]),
             twice' = IF \E d \in HostCalls : hostReq[d].op = "consume" /\ hostReq[d].s = s THEN twice \cup {s} ELSE twice,
             UNCHANGED <<box, scan>>
      PROVE  HostsInv'
  <2>0. PICK r : r = [FreeReq EXCEPT !.op = "consume", !.s = s, !.o = scan[s].owner, !.at = "create"]
    OBVIOUS
  <2>1. /\ hostReq' = [hostReq EXCEPT ![c] = r] /\ IsReq(r)
        /\ r.op = "consume" /\ r.s = s /\ r.o = scan[s].owner /\ r.at = "create"
    BY <1>1, <2>0 DEF Request, FreeReq, IsReq
  <2>2. ReqKnows(r)'
    BY <1>0, <1>1, <2>1 DEF ReqKnows, ToldRight
  <2>3. /\ ReqShape' /\ ReqsKnow'
        /\ \A d \in HostCalls : hostReq'[d] = IF d = c THEN r ELSE hostReq[d]
    BY <1>0, <2>1, <2>2, ReqMoves
  <2>4. hostReq[c].op = "free"
    BY <1>1, FreeReqIs DEF Idle
  <2>5. RowShape' /\ ToldRight'
    BY <1>0, <1>1 DEF RowShape, ToldRight
  <2>6. OneKey'
    <3>1. /\ r.op # "key" /\ hostReq[c].op # "revoke"
          /\ \A b \in Boxes : box'[b].st = "revoked" => box[b].st = "revoked"
      BY <1>1, <2>1, <2>4
    <3>. QED  BY <2>3, <3>1, NotOfKeys
  <2>7. OneHost'
    <3>. SUFFICES ASSUME NEW t \in Scans, t \notin twice'
                  PROVE  /\ \A a, b \in Boxes : box[a].from = t /\ box[b].from = t => a = b
                         /\ \A x, y \in HostCalls : Consuming(hostReq'[x], t) /\ Consuming(hostReq'[y], t) => x = y
                         /\ \A x \in HostCalls : Consuming(hostReq'[x], t) /\ hostReq'[x].at = "create" => NoBoxOf(t)
                         /\ scan[t].st = "approved" =>
                               \/ NoBoxOf(t)
                               \/ \E x \in HostCalls : Consuming(hostReq'[x], t) /\ hostReq'[x].at = "mark"
      BY <1>1 DEF OneHost, Consuming, NoBoxOf
    <3>1. t \notin twice
      BY <1>1
    <3>2. CASE t = s
      <4>1. \A d \in HostCalls : ~Consuming(hostReq[d], s)
        BY <1>1, <3>2 DEF Consuming
      <4>2. NoBoxOf(s)
        BY <1>0, <1>1, <3>1, <3>2, <4>1 DEF OneHost
      <4>3. \A d \in HostCalls : Consuming(hostReq'[d], s) => d = c
        BY <2>3, <4>1
      <4>. QED  BY <3>2, <4>2, <4>3 DEF NoBoxOf
    <3>3. CASE t # s
      <4>1. \A d \in HostCalls : /\ Consuming(hostReq'[d], t) <=> Consuming(hostReq[d], t)
                                 /\ Consuming(hostReq[d], t) => hostReq'[d] = hostReq[d]
        BY <2>1, <2>3, <2>4, <3>3 DEF Consuming
      <4>. QED  BY <1>0, <3>1, <4>1 DEF OneHost
    <3>. QED  BY <3>2, <3>3
  <2>. QED  BY <2>3, <2>5, <2>6, <2>7 DEF HostsInv
<1>. PICK s : s = hostReq[c].s
  OBVIOUS
<1>. PICK o : o = hostReq[c].o
  OBVIOUS
<1>2. CASE In(c, "consume", "create") /\ CreateHost(o, s) /\ Step(c, "mark") /\ UNCHANGED <<scan, twice>>
  <2>1. Consuming(hostReq[c], s) /\ hostReq[c].at = "create" /\ s \in Scans /\ <<s, o>> \in told
    BY <1>0, <1>2 DEF In, Consuming, ReqsKnow, ReqKnows
  <2>. PICK r : /\ hostReq' = [hostReq EXCEPT ![c] = r] /\ IsReq(r)
                /\ r.op = "consume" /\ r.s = s /\ r.o = o /\ r.at = "mark"
    BY <1>0, <1>2, ReqWays DEF In
  <2>2. ReqKnows(r)'
    BY <2>1 DEF ReqKnows
  <2>3. /\ ReqShape' /\ ReqsKnow'
        /\ \A d \in HostCalls : hostReq'[d] = IF d = c THEN r ELSE hostReq[d]
    BY <1>0, <2>2, ReqMoves
  <2>4. /\ RowShape'
        /\ \E b \in Boxes : \A a \in Boxes :
              box'[a] = IF a = b THEN [st |-> "live", owner |-> o, from |-> s, name |-> "given"] ELSE box[a]
    BY <1>0, <1>2, NewHost
  <2>. PICK b \in Boxes : \A a \in Boxes :
              box'[a] = IF a = b THEN [st |-> "live", owner |-> o, from |-> s, name |-> "given"] ELSE box[a]
    BY <2>4
  <2>5. /\ box'[b].from = s /\ box'[b].owner = o /\ box'[b].st = "live"
        /\ \A a \in Boxes : a # b => box'[a] = box[a]
    OBVIOUS
  <2>6. ToldRight'
    <3>1. ASSUME NEW t \in Scans, NEW a \in Boxes, box'[a].from = t PROVE <<t, box'[a].owner>> \in told
      BY <1>0, <2>1, <2>5, <3>1 DEF ToldRight
    <3>. QED  BY <1>0, <1>2, <3>1 DEF ToldRight
  <2>7. OneKey'
    <3>1. \A a \in Boxes : box'[a].st = "revoked" => box[a].st = "revoked"
      BY <2>5
    <3>. QED  BY <2>1, <2>3, <3>1, NotOfKeys DEF Consuming
  <2>8. OneHost'
    <3>. SUFFICES ASSUME NEW t \in Scans, t \notin twice'
                  PROVE  /\ \A x, y \in Boxes : box'[x].from = t /\ box'[y].from = t => x = y
                         /\ \A x, y \in HostCalls : Consuming(hostReq'[x], t) /\ Consuming(hostReq'[y], t) => x = y
                         /\ \A x \in HostCalls : Consuming(hostReq'[x], t) /\ hostReq'[x].at = "create" => NoBoxOf(t)'
                         /\ scan[t].st = "approved" =>
                               \/ NoBoxOf(t)'
                               \/ \E x \in HostCalls : Consuming(hostReq'[x], t) /\ hostReq'[x].at = "mark"
      BY <1>2 DEF OneHost, Consuming
    <3>1. t \notin twice
      BY <1>2
    <3>2. CASE t = s
      <4>1. NoBoxOf(s) /\ \A d \in HostCalls : Consuming(hostReq[d], s) => d = c
        BY <1>0, <2>1, <3>1, <3>2 DEF OneHost
      <4>2. \A d \in HostCalls : Consuming(hostReq'[d], s) => d = c /\ hostReq'[d].at = "mark"
        BY <2>3, <4>1
      <4>3. Consuming(hostReq'[c], s) /\ hostReq'[c].at = "mark"
        BY <2>3 DEF Consuming
      <4>4. \A x \in Boxes : box'[x].from = s => x = b
        BY <2>5, <4>1 DEF NoBoxOf
      <4>. QED  BY <3>2, <4>2, <4>3, <4>4
    <3>3. CASE t # s
      <4>1. \A d \in HostCalls : /\ Consuming(hostReq'[d], t) <=> Consuming(hostReq[d], t)
                                 /\ Consuming(hostReq[d], t) => hostReq'[d] = hostReq[d]
        BY <2>1, <2>3, <3>3 DEF Consuming
      <4>2. (NoBoxOf(t) => NoBoxOf(t)') /\ \A x \in Boxes : box'[x].from = t => box[x].from = t
        BY <2>5, <3>3 DEF NoBoxOf
      <4>. QED  BY <1>0, <3>1, <4>1, <4>2 DEF OneHost
    <3>. QED  BY <3>2, <3>3
  <2>. QED  BY <2>3, <2>4, <2>6, <2>7, <2>8 DEF HostsInv
<1>3. CASE /\ In(c, "consume", "mark") /\ Replies(c) /\ UNCHANGED <<box, twice>>
           /\ scan' = IF scan[s].st = "approved" THEN [scan EXCEPT ![s].st = "consumed"] ELSE scan
  <2>1. Consuming(hostReq[c], s) /\ hostReq[c].at = "mark" /\ s \in Scans
    BY <1>0, <1>3 DEF In, Consuming, ReqsKnow, ReqKnows
  <2>. PICK r : hostReq' = [hostReq EXCEPT ![c] = r] /\ IsReq(r) /\ r.op = "free"
    BY <1>0, <1>3, ReqWays
  <2>2. ReqKnows(r)'
    BY DEF ReqKnows
  <2>3. /\ ReqShape' /\ ReqsKnow'
        /\ \A d \in HostCalls : hostReq'[d] = IF d = c THEN r ELSE hostReq[d]
    BY <1>0, <2>2, ReqMoves
  <2>4. /\ scan' = [t \in Scans |-> scan'[t]]
        /\ \A t \in Scans : t # s => scan'[t] = scan[t]
        /\ scan'[s] = IF scan[s].st = "approved" THEN [scan[s] EXCEPT !.st = "consumed"] ELSE scan[s]
    BY <1>0, <1>3, <2>1, Zenon DEF RowShape
  <2>5. /\ IsScan(scan'[s]) /\ scan'[s].owner = scan[s].owner
        /\ scan'[s].st = IF scan[s].st = "approved" THEN "consumed" ELSE scan[s].st
    <3>1. IsScan(scan[s])
      BY <1>0, <2>1 DEF RowShape
    <3>2. CASE scan[s].st = "approved"
      <4>1. scan'[s] = [scan[s] EXCEPT !.st = "consumed"]
        BY <2>4, <3>2
      <4>. QED  BY <3>1, <3>2, <4>1 DEF IsScan
    <3>3. CASE scan[s].st # "approved"
      BY <2>4, <3>1, <3>3
    <3>. QED  BY <3>2, <3>3
  <2>6. RowShape'
    BY <1>0, <1>3, <2>4, <2>5, Zenon DEF RowShape
  <2>7. SameBoxes
    BY <1>3 DEF SameBoxes
  <2>8. ToldRight'
    <3>1. \A t \in Scans :
             /\ scan'[t].owner = scan[t].owner
             /\ scan[t].st \in {"approved", "consumed", "gone"} => scan'[t].st \in {"approved", "consumed", "gone"}
             /\ scan'[t].st \in {"approved", "consumed"} => scan[t].st \in {"approved", "consumed"}
      BY <2>4, <2>5
    <3>2. told' \ told = {}
      OBVIOUS
    <3>. QED  BY <1>0, <2>7, <3>1, <3>2, StaysTold
  <2>9. OneKey'
    BY <1>3, <2>1, <2>3, NotOfKeys DEF Consuming
  <2>10. OneHost'
    <3>. SUFFICES ASSUME NEW t \in Scans, t \notin twice'
                  PROVE  /\ \A x, y \in Boxes : box[x].from = t /\ box[y].from = t => x = y
                         /\ \A x, y \in HostCalls : Consuming(hostReq'[x], t) /\ Consuming(hostReq'[y], t) => x = y
                         /\ \A x \in HostCalls : Consuming(hostReq'[x], t) /\ hostReq'[x].at = "create" => NoBoxOf(t)
                         /\ scan'[t].st = "approved" =>
                               \/ NoBoxOf(t)
                               \/ \E x \in HostCalls : Consuming(hostReq'[x], t) /\ hostReq'[x].at = "mark"
      BY <1>3 DEF OneHost, Consuming, NoBoxOf
    <3>1. t \notin twice
      BY <1>3
    <3>2. \A d \in HostCalls : Consuming(hostReq'[d], t) => Consuming(hostReq[d], t) /\ hostReq'[d] = hostReq[d]
      BY <2>3 DEF Consuming
    <3>3. scan'[t].st = "approved" => t # s /\ scan[t].st = "approved"
      BY <2>4, <2>5
    <3>4. \A d \in HostCalls : t # s /\ Consuming(hostReq[d], t) => hostReq'[d] = hostReq[d]
      BY <2>1, <2>3 DEF Consuming
    <3>. QED  BY <1>0, <3>1, <3>2, <3>3, <3>4 DEF OneHost
  <2>. QED  BY <2>3, <2>6, <2>8, <2>9, <2>10 DEF HostsInv
<1>. QED  BY <1>1, <1>2, <1>3, Zenon DEF ConsumeBindSession, Asks

LEMMA HostsKeyAsked == ASSUME HostsInv, NEW c \in HostCalls, KeyAsked(c) PROVE HostsInv'
<1>. UNCHANGED <<box, scan, llmKey, told, twice>>
  BY DEF KeyAsked
<1>0. ReqShape /\ ReqsKnow /\ RowShape /\ OneKey /\ told \subseteq told'
  BY DEF HostsInv
<1>1. PICK b \in Boxes :
        /\ Idle(c) /\ box[b].st = "live"
        /\ Request(c, [FreeReq EXCEPT !.op = "key", !.b = b, !.seen = box[b].st, !.at = "owner"])
        /\ late' = IF \E d \in HostCalls : hostReq[d].op = "key" /\ hostReq[d].b = b THEN late \cup {b} ELSE late
  BY DEF KeyAsked, Asks, FindHostByToken
<1>2. PICK r : r = [FreeReq EXCEPT !.op = "key", !.b = b, !.seen = box[b].st, !.at = "owner"]
  OBVIOUS
<1>3. /\ hostReq' = [hostReq EXCEPT ![c] = r] /\ IsReq(r)
      /\ r.op = "key" /\ r.b = b /\ r.seen = "live" /\ r.at = "owner"
  BY <1>1, <1>2 DEF Request, FreeReq, IsReq
<1>4. ReqKnows(r)'
  BY <1>3 DEF ReqKnows
<1>5. /\ ReqShape' /\ ReqsKnow'
      /\ \A d \in HostCalls : hostReq'[d] = IF d = c THEN r ELSE hostReq[d]
  BY <1>0, <1>3, <1>4, ReqMoves
<1>6. hostReq[c].op = "free" /\ SameBoxes
  BY <1>1, FreeReqIs DEF Idle, SameBoxes
<1>7. OneHost' /\ ToldRight'
  BY <1>3, <1>5, <1>6, NotOfSessions
<1>8. RowShape'
  BY <1>0 DEF RowShape
<1>9. OneKey'
  <2>. SUFFICES ASSUME NEW a \in Boxes, a \notin late'
                PROVE  /\ \A x, y \in HostCalls : Keying(hostReq'[x], a) /\ Keying(hostReq'[y], a) => x = y
                       /\ \A x \in HostCalls : Keying(hostReq'[x], a) /\ hostReq'[x].at = "create" => llmKey[a] = 0
                       /\ llmKey[a] <= 1
                       /\ llmKey[a] > 0 => \/ box[a].st # "revoked"
                                           \/ \E x \in HostCalls : Revoking(hostReq'[x], a)
    BY DEF OneKey, Keying, Revoking
  <2>1. a \notin late /\ (a = b => \A d \in HostCalls : ~Keying(hostReq[d], b))
    BY <1>1 DEF Keying
  <2>2. \A d \in HostCalls : /\ Keying(hostReq'[d], a) => /\ IF a = b THEN d = c ELSE Keying(hostReq[d], a)
                                                          /\ hostReq'[d].at = "create" =>
                                                                Keying(hostReq[d], a) /\ hostReq[d].at = "create"
                             /\ Revoking(hostReq[d], a) => Revoking(hostReq'[d], a)
    BY <1>3, <1>5, <1>6, <2>1 DEF Keying, Revoking
  <2>3. \A x, y \in HostCalls : Keying(hostReq'[x], a) /\ Keying(hostReq'[y], a) => x = y
    BY <1>0, <2>1, <2>2 DEF OneKey
  <2>. QED  BY <1>0, <2>1, <2>2, <2>3 DEF OneKey
<1>. QED  BY <1>5, <1>7, <1>8, <1>9 DEF HostsInv

\* A step that gives a host its keys anew: none, or one when there were none.
LEMMA KeysAnew ==
    ASSUME HostsInv, NEW c \in HostCalls, NEW r, NEW b, NEW n,
           \A d \in HostCalls : hostReq'[d] = IF d = c THEN r ELSE hostReq[d],
           UNCHANGED box, late \subseteq late', llmKey' = [llmKey EXCEPT ![b] = n],
           r.op = "key" => hostReq[c].op = "key" /\ hostReq[c].b = r.b,
           r.op = "key" /\ r.at = "create" => n = 0 /\ r.b = b,
           hostReq[c].op = "revoke" => hostReq[c].b = b,
           b \in Boxes \ late' => /\ n = 0 \/ (n = 1 /\ box[b].st = "live")
                                  /\ n = 1 => \A d \in HostCalls : ~Keying(hostReq'[d], b)
    PROVE  OneKey'
<1>. SUFFICES ASSUME NEW a \in Boxes, a \notin late'
              PROVE  /\ \A x, y \in HostCalls : Keying(hostReq'[x], a) /\ Keying(hostReq'[y], a) => x = y
                     /\ \A x \in HostCalls : Keying(hostReq'[x], a) /\ hostReq'[x].at = "create" => llmKey'[a] = 0
                     /\ llmKey'[a] <= 1
                     /\ llmKey'[a] > 0 => \/ box'[a].st # "revoked"
                                          \/ \E x \in HostCalls : Revoking(hostReq'[x], a)
  BY DEF OneKey, Keying, Revoking
<1>1. a \notin late /\ llmKey'[a] = IF a = b THEN n ELSE llmKey[a]
  BY DEF HostsInv, RowShape
<1>2. \A d \in HostCalls : Keying(hostReq'[d], a) => Keying(hostReq[d], a)
  BY DEF Keying
<1>3. \A x, y \in HostCalls : Keying(hostReq'[x], a) /\ Keying(hostReq'[y], a) => x = y
  BY <1>1, <1>2 DEF HostsInv, OneKey
<1>4. CASE a = b
  BY <1>1, <1>3, <1>4
<1>5. CASE a # b
  <2>1. \A d \in HostCalls : Keying(hostReq'[d], a) /\ hostReq'[d].at = "create" => hostReq'[d] = hostReq[d]
    BY <1>5 DEF Keying
  <2>2. \A d \in HostCalls : Revoking(hostReq[d], a) => Revoking(hostReq'[d], a)
    BY <1>5 DEF Revoking
  <2>. QED  BY <1>1, <1>2, <1>3, <1>5, <2>1, <2>2 DEF HostsInv, OneKey
<1>. QED  BY <1>4, <1>5

LEMMA HostsLlmKey == ASSUME HostsInv, NEW c \in HostCalls, HostLlmKey(c) PROVE HostsInv'
<1>. UNCHANGED <<box, scan, told, twice>>
  BY DEF HostLlmKey
<1>0. /\ ReqShape /\ ReqsKnow /\ RowShape /\ OneKey /\ told \subseteq told' /\ SameBoxes
      /\ hostReq[c].op = "key" /\ hostReq[c].seen = "live"
  BY DEF HostsInv, HostLlmKey, In, SameBoxes, ReqsKnow, ReqKnows
<1>. PICK b : b = hostReq[c].b
  OBVIOUS
<1>1. ASSUME NEW r, hostReq' = [hostReq EXCEPT ![c] = r], IsReq(r),
             r.op = "free" \/ (r.op = "key" /\ r.seen = "live")
      PROVE  /\ ReqShape' /\ ReqsKnow' /\ OneHost' /\ ToldRight'
             /\ \A d \in HostCalls : hostReq'[d] = IF d = c THEN r ELSE hostReq[d]
  <2>1. ReqKnows(r)'
    BY <1>1 DEF ReqKnows
  <2>2. /\ ReqShape' /\ ReqsKnow'
        /\ \A d \in HostCalls : hostReq'[d] = IF d = c THEN r ELSE hostReq[d]
    BY <1>0, <1>1, <2>1, ReqMoves
  <2>3. r.op # "consume" /\ hostReq[c].op # "consume"
    BY <1>0, <1>1
  <2>4. OneHost' /\ ToldRight'
    BY <1>0, <2>2, <2>3, NotOfSessions
  <2>. QED  BY <2>2, <2>4
<1>2. CASE In(c, "key", "owner") /\ (Replies(c) \/ Step(c, "delete")) /\ UNCHANGED <<llmKey, late>>
  <2>1. PICK r : /\ hostReq' = [hostReq EXCEPT ![c] = r] /\ IsReq(r)
                 /\ r.op = "free" \/ (r.op = "key" /\ r.seen = "live" /\ r.b = b /\ r.at = "delete")
    BY <1>0, <1>2, ReqWays
  <2>2. /\ ReqShape' /\ ReqsKnow' /\ OneHost' /\ ToldRight'
        /\ \A d \in HostCalls : hostReq'[d] = IF d = c THEN r ELSE hostReq[d]
    BY <1>1, <2>1
  <2>3. \A d \in HostCalls, a \in Boxes \ late' :
           /\ Keying(hostReq'[d], a) => /\ Keying(hostReq[d], a)
                                        /\ hostReq'[d].at = "create" => hostReq[d].at = "create"
           /\ Revoking(hostReq[d], a) => Revoking(hostReq'[d], a)
    BY <1>0, <2>1, <2>2 DEF Keying, Revoking
  <2>4. OneKey'
    <3>1. late \subseteq late' /\ \A a \in Boxes : box'[a].st = "revoked" => box[a].st = "revoked"
      BY <1>2
    <3>. QED  BY <1>0, <1>2, <2>3, <3>1, StaysOneKey
  <2>5. RowShape'
    BY <1>0, <1>2 DEF RowShape
  <2>. QED  BY <2>2, <2>4, <2>5 DEF HostsInv
<1>3. CASE In(c, "key", "delete") /\ llmKey' = [llmKey EXCEPT ![b] = 0] /\ Step(c, "create") /\ UNCHANGED late
  <2>1. PICK r : /\ hostReq' = [hostReq EXCEPT ![c] = r] /\ IsReq(r)
                 /\ r.op = "key" /\ r.seen = "live" /\ r.b = b /\ r.at = "create"
    BY <1>0, <1>3, ReqWays
  <2>2. /\ ReqShape' /\ ReqsKnow' /\ OneHost' /\ ToldRight'
        /\ \A d \in HostCalls : hostReq'[d] = IF d = c THEN r ELSE hostReq[d]
    BY <1>1, <2>1
  <2>3. RowShape'
    BY <1>0, <1>3 DEF RowShape
  <2>4. late \subseteq late' /\ hostReq[c].b = b /\ llmKey' = [llmKey EXCEPT ![b] = 0]
    BY <1>3
  <2>5. OneKey'
    <3>1. PICK n : n = 0
      OBVIOUS
    <3>2. /\ llmKey' = [llmKey EXCEPT ![b] = n] /\ n # 1 /\ r.op = "key" /\ r.b = b
          /\ hostReq[c].op = "key" /\ hostReq[c].b = b
      BY <1>0, <2>1, <2>4, <3>1
    <3>3. /\ r.op = "key" => hostReq[c].op = "key" /\ hostReq[c].b = r.b
          /\ r.op = "key" /\ r.at = "create" => n = 0 /\ r.b = b
          /\ hostReq[c].op = "revoke" => hostReq[c].b = b
      BY <3>1, <3>2
    <3>4. b \in Boxes \ late' => /\ n = 0 \/ (n = 1 /\ box[b].st = "live")
                                 /\ n = 1 => \A d \in HostCalls : ~Keying(hostReq'[d], b)
      BY <3>1, <3>2
    <3>5. \A d \in HostCalls : hostReq'[d] = IF d = c THEN r ELSE hostReq[d]
      BY <2>2
    <3>6. HostsInv /\ UNCHANGED box /\ late \subseteq late' /\ llmKey' = [llmKey EXCEPT ![b] = n]
      BY <2>4, <3>2
    <3>. QED  BY ONLY c \in HostCalls, <3>3, <3>4, <3>5, <3>6, KeysAnew
  <2>. QED  BY <2>2, <2>3, <2>5 DEF HostsInv
<1>4. CASE /\ In(c, "key", "create") /\ llmKey' = [llmKey EXCEPT ![b] = @ + 1] /\ Replies(c)
           /\ late' = IF box[b].st # "live" /\ hostReq[c].seen = "live" THEN late \cup {b} ELSE late
  <2>1. PICK r : hostReq' = [hostReq EXCEPT ![c] = r] /\ IsReq(r) /\ r.op = "free"
    BY <1>0, <1>4, ReqWays
  <2>2. /\ ReqShape' /\ ReqsKnow' /\ OneHost' /\ ToldRight'
        /\ \A d \in HostCalls : hostReq'[d] = IF d = c THEN r ELSE hostReq[d]
    BY <1>1, <2>1
  <2>3. RowShape'
    <3>1. \A a \in Boxes : llmKey'[a] \in Nat
      BY <1>0, <1>4 DEF RowShape
    <3>2. llmKey' = [a \in Boxes |-> llmKey'[a]]
      BY <1>0, <1>4 DEF RowShape
    <3>. QED  BY <1>0, <3>1, <3>2 DEF RowShape
  <2>4. late \subseteq late' /\ hostReq[c].b = b
    BY <1>4
  <2>5. b \in Boxes \ late' => /\ llmKey[b] = 0 /\ box[b].st = "live"
                               /\ \A d \in HostCalls : ~Keying(hostReq'[d], b)
    <3>. SUFFICES ASSUME b \in Boxes, b \notin late'
                  PROVE  /\ llmKey[b] = 0 /\ box[b].st = "live"
                         /\ \A d \in HostCalls : ~Keying(hostReq'[d], b)
      OBVIOUS
    <3>1. b \notin late /\ box[b].st = "live"
      BY <1>0, <1>4
    <3>2. Keying(hostReq[c], b) /\ hostReq[c].at = "create"
      BY <1>4 DEF Keying, In
    <3>3. llmKey[b] = 0 /\ \A d \in HostCalls : Keying(hostReq[d], b) => d = c
      BY <1>0, <3>1, <3>2 DEF OneKey
    <3>. QED  BY <2>1, <2>2, <3>1, <3>3 DEF Keying
  <2>6. CASE b \in Boxes \ late'
    <3>1. llmKey' = [llmKey EXCEPT ![b] = 1]
      <4>1. llmKey[b] = 0
        BY <2>5, <2>6
      <4>2. llmKey[b] + 1 = 1
        BY <4>1
      <4>3. llmKey' = [llmKey EXCEPT ![b] = llmKey[b] + 1]
        BY <1>4
      <4>. QED  BY <4>2, <4>3
    <3>. QED  BY <1>0, <2>1, <2>2, <2>3, <2>4, <2>5, <3>1, KeysAnew DEF HostsInv
  <2>7. CASE b \notin Boxes \ late'
    <3>1. PICK n : n = llmKey[b] + 1
      OBVIOUS
    <3>2. llmKey' = [llmKey EXCEPT ![b] = n]
      BY <1>4, <3>1
    <3>. QED  BY <1>0, <2>1, <2>2, <2>3, <2>4, <2>7, <3>2, KeysAnew DEF HostsInv
  <2>. QED  BY <2>6, <2>7
<1>. QED  BY <1>2, <1>3, <1>4 DEF HostLlmKey

LEMMA HostsRevokeRecord == ASSUME HostsInv, NEW c \in HostCalls, RevokeHostRecord(c) PROVE HostsInv'
<1>. UNCHANGED <<scan, told, twice, late>>
  BY DEF RevokeHostRecord, history
<1>0. /\ ReqShape /\ ReqsKnow /\ RowShape /\ OneKey /\ told \subseteq told'
      /\ hostReq[c].op = "revoke"
  BY DEF HostsInv, RevokeHostRecord, In
<1>. PICK b : b = hostReq[c].b
  OBVIOUS
<1>1. ASSUME NEW r, hostReq' = [hostReq EXCEPT ![c] = r], IsReq(r), r.op \in {"free", "revoke"}, SameBoxes
      PROVE  /\ ReqShape' /\ ReqsKnow' /\ OneHost' /\ ToldRight'
             /\ \A d \in HostCalls : hostReq'[d] = IF d = c THEN r ELSE hostReq[d]
  <2>1. ReqKnows(r)'
    BY <1>1 DEF ReqKnows
  <2>2. /\ ReqShape' /\ ReqsKnow'
        /\ \A d \in HostCalls : hostReq'[d] = IF d = c THEN r ELSE hostReq[d]
    BY <1>0, <1>1, <2>1, ReqMoves
  <2>3. r.op # "consume" /\ hostReq[c].op # "consume"
    BY <1>0, <1>1
  <2>4. OneHost' /\ ToldRight'
    BY <1>1, <2>2, <2>3, NotOfSessions
  <2>. QED  BY <2>2, <2>4
<1>2. CASE /\ In(c, "revoke", "record") /\ Step(c, "keys") /\ UNCHANGED llmKey
           /\ box' = IF box[b].st = "live" THEN [box EXCEPT ![b].st = "revoked"] ELSE box
  <2>1. PICK r : /\ hostReq' = [hostReq EXCEPT ![c] = r] /\ IsReq(r)
                 /\ r.op = "revoke" /\ r.b = b /\ r.at = "keys"
    BY <1>0, <1>2, ReqWays
  <2>2. RowShape' /\ SameBoxes /\ \A a \in Boxes : a # b => box'[a] = box[a]
    <3>1. UNCHANGED box \/ \E v : box' = [box EXCEPT ![b].st = v]
      BY <1>2, Zenon
    <3>2. RowShape /\ UNCHANGED <<scan, llmKey>>
      BY <1>0, <1>2
    <3>. QED  BY ONLY <3>1, <3>2, BoxEdits
  <2>3. /\ ReqShape' /\ ReqsKnow' /\ OneHost' /\ ToldRight'
        /\ \A d \in HostCalls : hostReq'[d] = IF d = c THEN r ELSE hostReq[d]
    BY <1>1, <2>1, <2>2
  <2>4. OneKey'
    <3>. SUFFICES ASSUME NEW a \in Boxes, a \notin late
                  PROVE  /\ \A x, y \in HostCalls : Keying(hostReq'[x], a) /\ Keying(hostReq'[y], a) => x = y
                         /\ \A x \in HostCalls : Keying(hostReq'[x], a) /\ hostReq'[x].at = "create" => llmKey[a] = 0
                         /\ llmKey[a] <= 1
                         /\ llmKey[a] > 0 => \/ box'[a].st # "revoked"
                                             \/ \E x \in HostCalls : Revoking(hostReq'[x], a)
      BY <1>2 DEF OneKey, Keying, Revoking
    <3>1. \A d \in HostCalls : Keying(hostReq'[d], a) => Keying(hostReq[d], a) /\ hostReq'[d] = hostReq[d]
      BY <2>1, <2>3 DEF Keying
    <3>2. \A d \in HostCalls : Revoking(hostReq[d], a) => Revoking(hostReq'[d], a)
      BY <1>2, <2>3 DEF Revoking, In
    <3>3. Revoking(hostReq'[c], b)
      BY <2>1, <2>3 DEF Revoking
    <3>. QED  BY <1>0, <2>2, <3>1, <3>2, <3>3 DEF OneKey
  <2>. QED  BY <2>2, <2>3, <2>4 DEF HostsInv
<1>3. CASE In(c, "revoke", "keys") /\ llmKey' = [llmKey EXCEPT ![b] = 0] /\ Replies(c) /\ UNCHANGED box
  <2>1. PICK r : hostReq' = [hostReq EXCEPT ![c] = r] /\ IsReq(r) /\ r.op = "free"
    BY <1>0, <1>3, ReqWays
  <2>2. SameBoxes
    BY <1>3 DEF SameBoxes
  <2>3. /\ ReqShape' /\ ReqsKnow' /\ OneHost' /\ ToldRight'
        /\ \A d \in HostCalls : hostReq'[d] = IF d = c THEN r ELSE hostReq[d]
    BY <1>1, <2>1, <2>2
  <2>4. RowShape'
    BY <1>0, <1>3 DEF RowShape
  <2>5. OneKey'
    <3>. PICK n : n = 0
      OBVIOUS
    <3>1. /\ r.op = "key" => hostReq[c].op = "key" /\ hostReq[c].b = r.b
          /\ r.op = "key" /\ r.at = "create" => n = 0 /\ r.b = b
          /\ hostReq[c].op = "revoke" => hostReq[c].b = b
      BY <2>1
    <3>2. b \in Boxes \ late' => /\ n = 0 \/ (n = 1 /\ box[b].st = "live")
                                 /\ n = 1 => \A d \in HostCalls : ~Keying(hostReq'[d], b)
      OBVIOUS
    <3>3. \A d \in HostCalls : hostReq'[d] = IF d = c THEN r ELSE hostReq[d]
      BY <2>3
    <3>4. HostsInv /\ UNCHANGED box /\ late \subseteq late' /\ llmKey' = [llmKey EXCEPT ![b] = n]
      BY <1>3
    <3>. QED  BY ONLY c \in HostCalls, <3>1, <3>2, <3>3, <3>4, KeysAnew
  <2>. QED  BY <2>3, <2>4, <2>5 DEF HostsInv
<1>. QED  BY <1>2, <1>3 DEF RevokeHostRecord

LEMMA HostsCrashes == ASSUME HostsInv, HostsCrash PROVE HostsInv'
<1>1. /\ hostReq' = [c \in HostCalls |-> FreeReq]
      /\ \A c \in HostCalls : In(c, "consume", "mark") => hostReq[c].s \in twice'
      /\ \A c \in HostCalls : In(c, "revoke", "keys") => hostReq[c].b \in late'
      /\ twice \subseteq twice' /\ late \subseteq late'
      /\ UNCHANGED <<box, scan, llmKey, told>>
  BY DEF HostsCrash
<1>2. \A c \in HostCalls : hostReq'[c] = FreeReq /\ hostReq'[c].op = "free"
  BY <1>1, FreeReqIs
<1>3. ReqShape' /\ ReqsKnow'
  BY <1>1, <1>2, FreeReqIs DEF ReqShape, ReqsKnow, ReqKnows
<1>4. RowShape' /\ ToldRight'
  BY <1>1 DEF HostsInv, RowShape, ToldRight
<1>5. OneHost'
  <2>. SUFFICES ASSUME NEW s \in Scans, s \notin twice'
                PROVE  /\ \A a, b \in Boxes : box[a].from = s /\ box[b].from = s => a = b
                       /\ \A c \in HostCalls : ~Consuming(hostReq'[c], s)
                       /\ scan[s].st = "approved" => NoBoxOf(s)
    BY <1>1 DEF OneHost, Consuming, NoBoxOf
  <2>1. s \notin twice /\ \A c \in HostCalls : Consuming(hostReq[c], s) => hostReq[c].at # "mark"
    BY <1>1 DEF In, Consuming
  <2>2. \A c \in HostCalls : ~Consuming(hostReq'[c], s)
    BY <1>2 DEF Consuming
  <2>. QED  BY <2>1, <2>2 DEF HostsInv, OneHost
<1>6. OneKey'
  <2>. SUFFICES ASSUME NEW b \in Boxes, b \notin late'
                PROVE  /\ \A c \in HostCalls : ~Keying(hostReq'[c], b)
                       /\ llmKey[b] <= 1
                       /\ llmKey[b] > 0 => box[b].st # "revoked"
    BY <1>1 DEF OneKey, Keying
  <2>1. b \notin late /\ \A c \in HostCalls : ~Revoking(hostReq[c], b)
    BY <1>1 DEF In, Revoking
  <2>2. \A c \in HostCalls : ~Keying(hostReq'[c], b)
    BY <1>2 DEF Keying
  <2>. QED  BY <2>1, <2>2 DEF HostsInv, OneKey
<1>. QED  BY <1>3, <1>4, <1>5, <1>6 DEF HostsInv

LEMMA HostsBegin == ASSUME HostsInit PROVE HostsInv
<1>1. \A c \in HostCalls : hostReq[c] = FreeReq /\ hostReq[c].op = "free"
  BY FreeReqIs DEF HostsInit
<1>2. ReqShape /\ ReqsKnow
  BY <1>1, FreeReqIs DEF HostsInit, ReqShape, ReqsKnow, ReqKnows
<1>3. \A b \in Boxes : IsBox(box[b]) /\ box[b].from = Nobody
  BY DEF HostsInit, IsBox
<1>4. \A s \in Scans : IsScan(scan[s]) /\ scan[s].st = "none"
  BY DEF HostsInit, IsScan
<1>5. RowShape
  BY <1>3, <1>4 DEF HostsInit, RowShape
<1>6. ToldRight
  BY <1>3, <1>4, HostsAssumption DEF HostsInit, ToldRight
<1>7. OneHost
  BY <1>1, <1>3, <1>4, HostsAssumption DEF HostsInit, OneHost, Consuming
<1>8. OneKey
  BY <1>1 DEF HostsInit, OneKey, Keying
<1>. QED  BY <1>2, <1>5, <1>6, <1>7, <1>8 DEF HostsInv

LEMMA HostsSteps == ASSUME HostsInv, [HostsNext]_hostVars PROVE HostsInv'
<1>1. ASSUME NEW c \in HostCalls,
             \/ CreateBindSession(c) \/ ApproveBindSession(c) \/ ApproveRow(c) \/ ConsumeBindSession(c)
             \/ CreateJoinToken(c) \/ RevokeJoinToken(c) \/ Register(c) \/ RenameHost(c) \/ HostMeta(c)
             \/ ShareHost(c) \/ RevokeShare(c) \/ KeyAsked(c) \/ HostLlmKey(c)
             \/ RevokeHost(c) \/ RevokeHostRecord(c) \/ RemoveHost(c)
      PROVE  HostsInv'
  BY <1>1, HostsCreateBind, HostsApproveBind, HostsApproveRow, HostsConsume, HostsAlone, HostsRegister,
     HostsNamed, HostsKeyAsked, HostsLlmKey, HostsRevokeRecord, HostsRemove
<1>2. CASE UNCHANGED hostVars
  BY <1>2, QuietRows DEF hostVars, QuietReq
<1>. QED  BY <1>1, <1>2, HostsExpire, HostsPrune, HostsPurge, HostsCrashes DEF HostsNext

\* Of two accounts that approve one code, one is told that the host is theirs, and it
\* is; a box makes one host of it, unless its requests overlap or the hub dies in
\* between; and no LLM key outlives the revocation of its host, but of one that was
\* revoked while the key was made (approveBindSession, consumeBindSession,
\* revokeHostRecord, handleHostLlmKey).
THEOREM HostsStayConsistent == HostsSpec => []HostsConsistent
<1>1. HostsInit => HostsInv
  BY HostsBegin
<1>2. HostsInv /\ [HostsNext]_hostVars => HostsInv'
  BY HostsSteps
<1>3. HostsInv => HostsConsistent
  BY HostsAgree
<1>. QED  BY <1>1, <1>2, <1>3, PTL DEF HostsSpec

-----------------------------------------------------------------------------
(* RelayUsage: what is displayed has been charged, nothing is invented, and a *)
(* calm night loses nothing, for any number of flushes, days and errors.       *)

\* No row anywhere says more than what was relayed or reported.
Bounded ==
    /\ \A k \in Keys : rows[k] <= seen[k] /\ mark[k] <= seen[k] /\ daily[k] <= seen[k]
    /\ \A r \in pending : r.bytes <= seen[r.key]
    /\ \A f \in Flushes : \A r \in batch[f] : r.bytes <= seen[r.key]
    /\ \A k \in dirty : rows[k] > 0

\* What a flush has charged is at the watermark before it is displayed.
ChargedSoFar ==
    /\ \A f \in Flushes : todo[f] \subseteq batch[f]
    /\ \A f \in Flushes : pc[f] = "charge" =>
          \A r \in batch[f] \ todo[f] : Source(r.key) = "relay" => r.bytes <= mark[r.key]

\* The row of today's traffic has all of it.
Counted ==
    /\ day <= today
    /\ "relay" \in Sources => \A d \in Days :
          /\ d = day => seen[<<"relay", d>>] <= rows[<<"relay", d>>]
          /\ d > day => seen[<<"relay", d>>] = 0

UsageInv == TypeOK /\ Bounded /\ ChargedSoFar /\ ChargedFirst /\ Counted

\* A flush holds what is pending while it runs, and has stored it when it comes
\* to forget it: no day ends meanwhile, so nothing else becomes pending.
FlushHolds ==
    \A f \in Flushes : pc[f] # "idle" =>
        /\ day = today
        /\ pending \subseteq batch[f]
        /\ pc[f] = "clear" => \A r \in batch[f] : r.bytes <= daily[r.key]

CalmInv == UsageInv /\ FlushHolds /\ NothingLost

-----------------------------------------------------------------------------
(* Rows                                                                    *)

LEMMA RowFacts ==
    /\ \A k, n : UsageRow(k, n).key = k /\ UsageRow(k, n).bytes = n
    /\ \A k \in Keys, n \in 1..MaxBytes : UsageRow(k, n) \in Rows
    /\ \A r \in Rows : r.key \in Keys /\ r.bytes \in 1..MaxBytes /\ r = UsageRow(r.key, r.bytes)
  BY DEF UsageRow, Rows

\* A set of numbers has a greatest one: the numbers above it are a smallest set.
LEMMA Greatest ==
    ASSUME NEW m \in Nat, NEW S \in SUBSET (1..m), S # {}
    PROVE  \E n \in S : \A i \in S : i <= n
<1> DEFINE T == {(n + 1)..m : n \in S}
           R == StrictSubsetOrdering(1..m)
<1>1. T \subseteq FiniteSubsetsOf(1..m) /\ T # {}
  <2>1. \A n \in S : ((n + 1)..m) \subseteq 1..m /\ IsFiniteSet((n + 1)..m)
    BY FS_Interval
  <2>2. QED
    BY <2>1 DEF FiniteSubsetsOf
<1>2. IsWellFoundedOn(R, FiniteSubsetsOf(1..m))
  BY FS_StrictSubsetOrderingWellFounded
<1> HIDE DEF R
<1>3. \E x \in T : \A y \in T : <<y, x>> \notin R
  BY <1>1, <1>2, WFMin
<1>4. PICK n \in S : \A i \in S : <<(i + 1)..m, (n + 1)..m>> \notin R
  BY <1>3
<1>5. ASSUME NEW i \in S, i > n PROVE FALSE
  <2>1. ((i + 1)..m) \subseteq (n + 1)..m /\ ((n + 1)..m) \subseteq 1..m
    BY <1>5
  <2>2. i \in (n + 1)..m /\ i \notin (i + 1)..m
    BY <1>5
  <2>3. <<(i + 1)..m, (n + 1)..m>> \in R
    BY <2>1, <2>2 DEF R, StrictSubsetOrdering
  <2>4. QED
    BY <1>4, <2>3
<1>6. QED
  BY <1>5

\* What the transaction of a flush leaves: GREATEST of the old value and the
\* rows of the batch.
LEMMA UpsertFacts ==
    ASSUME TypeOK, NEW f \in Flushes, Upsert(f)
    PROVE  /\ daily' \in [Keys -> 0..MaxBytes]
           /\ \A k \in Keys : /\ daily[k] <= daily'[k]
                              /\ daily'[k] = daily[k] \/ UsageRow(k, daily'[k]) \in batch[f]
                              /\ \A r \in batch[f] : r.key = k => r.bytes <= daily'[k]
<1>1. /\ batch[f] \subseteq Rows /\ daily \in [Keys -> 0..MaxBytes] /\ MaxBytes \in Nat
  BY RelayUsageAssumption DEF TypeOK
<1>2. ASSUME NEW k \in Keys
      PROVE  /\ daily'[k] \in 0..MaxBytes /\ daily[k] <= daily'[k]
             /\ daily'[k] = daily[k] \/ UsageRow(k, daily'[k]) \in batch[f]
             /\ \A r \in batch[f] : r.key = k => r.bytes <= daily'[k]
  <2> DEFINE Best(n) == /\ UsageRow(k, n) \in batch[f]
                        /\ \A r \in batch[f] : r.key = k => r.bytes <= n
  <2>1. daily'[k] = IF \E r \in batch[f] : r.key = k /\ r.bytes > daily[k]
                    THEN CHOOSE n \in 1..MaxBytes : Best(n) ELSE daily[k]
    BY DEF Upsert
  <2>2. CASE ~\E r \in batch[f] : r.key = k /\ r.bytes > daily[k]
    BY <1>1, <2>1, <2>2 DEF Rows
  <2>3. CASE \E r \in batch[f] : r.key = k /\ r.bytes > daily[k]
    <3>1. PICK r \in batch[f] : r.key = k /\ r.bytes > daily[k]
      BY <2>3
    <3> DEFINE S == {n \in 1..MaxBytes : UsageRow(k, n) \in batch[f]}
    <3>2. \A q \in batch[f] : q.key = k => q.bytes \in S
      BY <1>1, RowFacts
    <3>3. S \in SUBSET (1..MaxBytes) /\ S # {}
      BY <3>1, <3>2
    <3>4. PICK n \in S : \A i \in S : i <= n
      BY <1>1, <3>3, Greatest
    <3>5. n \in 1..MaxBytes /\ Best(n)
      BY <3>2, <3>4
    <3> HIDE DEF Best
    <3>6. daily'[k] \in 1..MaxBytes /\ Best(daily'[k])
      BY <2>1, <2>3, <3>5
    <3> USE DEF Best
    <3>7. r.bytes <= daily'[k] /\ r.bytes \in Nat /\ daily[k] \in Nat
      BY <1>1, <3>1, <3>6 DEF Rows
    <3>8. QED
      BY <1>1, <3>1, <3>6, <3>7
  <2>4. QED
    BY <2>2, <2>3
<1>3. daily' = [k \in Keys |-> daily'[k]]
  BY DEF Upsert
<1>4. QED
  BY <1>2, <1>3
-----------------------------------------------------------------------------
(* Rolling to a new day                                                    *)

\* What rollDayIfNeeded leaves: rows of today, and the others pending.
LEMMA Rolled ==
    ASSUME UsageInv
    PROVE  /\ RolledRows \in [Keys -> 0..MaxBytes]
           /\ RolledDirty \subseteq Keys
           /\ RolledPending \subseteq Rows
           /\ \A k \in Keys : RolledRows[k] <= seen[k]
           /\ \A k \in RolledDirty : RolledRows[k] > 0
           /\ \A r \in RolledPending : r.bytes <= seen[r.key]
<1>1. /\ rows \in [Keys -> 0..MaxBytes] /\ dirty \subseteq Keys /\ pending \subseteq Rows
      /\ seen \in [Keys -> 0..MaxBytes] /\ MaxBytes \in Nat /\ Bounded
  BY RelayUsageAssumption DEF UsageInv, TypeOK
<1>2. CASE ~NewDay
  BY <1>1, <1>2 DEF Bounded, RolledRows, RolledDirty, RolledPending
<1>3. CASE NewDay
  <2>1. /\ RolledRows = [k \in Keys |-> 0] /\ RolledDirty = {}
        /\ RolledPending = pending \cup {UsageRow(k, rows[k]) : k \in OldRows}
    BY <1>3 DEF RolledRows, RolledDirty, RolledPending
  <2>2. \A k \in OldRows : UsageRow(k, rows[k]) \in Rows /\ rows[k] <= seen[k]
    BY <1>1, RowFacts DEF OldRows, Bounded
  <2>3. \A r \in RolledPending : r \in Rows /\ r.bytes <= seen[r.key]
    BY <1>1, <2>1, <2>2, RowFacts DEF Bounded
  <2>4. QED
    BY <1>1, <2>1, <2>3
<1>4. QED
  BY <1>2, <1>3

\* Rolling forgets nothing, and changes nothing while the day is the same.
LEMMA RolledKeeps ==
    ASSUME UsageInv
    PROVE  /\ pending \subseteq RolledPending
           /\ day = today => RolledPending = pending
           /\ \A k \in Keys : \A n \in Kept(k) :
                 RolledRows[k] >= n \/ \E r \in RolledPending : r.key = k /\ r.bytes >= n
<1>1. /\ rows \in [Keys -> 0..MaxBytes] /\ MaxBytes \in Nat
      /\ pending \subseteq RolledPending
      /\ day = today => RolledPending = pending
  BY RelayUsageAssumption DEF UsageInv, TypeOK, RolledPending, NewDay
<1>2. ASSUME NEW k \in Keys, NEW n \in Kept(k)
      PROVE  RolledRows[k] >= n \/ \E r \in RolledPending : r.key = k /\ r.bytes >= n
  <2>1. n \in 1..MaxBytes /\ (rows[k] >= n \/ \E r \in pending : r.key = k /\ r.bytes >= n)
    BY DEF Kept
  <2>2. CASE NewDay /\ rows[k] >= n
    <3>1. k \in OldRows
      BY <1>1, <2>1, <2>2 DEF OldRows
    <3>2. UsageRow(k, rows[k]) \in RolledPending
      BY <2>2, <3>1 DEF RolledPending
    <3>3. QED
      BY <2>2, <3>2, RowFacts
  <2>3. QED
    BY <1>1, <2>1, <2>2 DEF RolledRows
<1>3. QED
  BY <1>1, <1>2

\* Today's row is complete after rolling.
LEMMA RolledCounts ==
    ASSUME UsageInv, "relay" \in Sources
    PROVE  /\ seen[<<"relay", today>>] <= RolledRows[<<"relay", today>>]
           /\ \A d \in Days : d > today => seen[<<"relay", d>>] = 0
<1>1. /\ today \in Days /\ day \in Days /\ LastDay \in Nat /\ Counted
      /\ <<"relay", today>> \in Keys
  BY RelayUsageAssumption DEF UsageInv, TypeOK, Keys, Days
<1>2. \A d \in Days : d > today => d > day
  BY <1>1 DEF Counted, Days
<1>3. NewDay => today > day
  BY <1>1 DEF Counted, Days, NewDay
<1>4. CASE NewDay
  <2>1. RolledRows[<<"relay", today>>] = 0 /\ seen[<<"relay", today>>] = 0
    BY <1>1, <1>3, <1>4 DEF Counted, RolledRows
  <2>2. QED
    BY <1>1, <1>2, <2>1 DEF Counted
<1>5. CASE ~NewDay
  BY <1>1, <1>2, <1>5 DEF Counted, RolledRows, NewDay
<1>6. QED
  BY <1>4, <1>5

-----------------------------------------------------------------------------
(* One lemma for each action                                               *)

LEMMA UsageInit == Init => UsageInv
<1>1. SUFFICES ASSUME Init PROVE UsageInv
  OBVIOUS
<1>2. /\ LastDay \in Nat /\ MaxBytes \in Nat /\ MaxErrors \in Nat
  BY RelayUsageAssumption
<1>3. TypeOK
  BY <1>1, <1>2 DEF Init, TypeOK, Days
<1>4. Bounded /\ ChargedSoFar /\ ChargedFirst
  BY <1>1, <1>2 DEF Init, Bounded, ChargedSoFar, ChargedFirst
<1>5. Counted
  <2>1. ASSUME "relay" \in Sources, NEW d \in Days
        PROVE  seen[<<"relay", d>>] = 0 /\ rows[<<"relay", d>>] = 0
    BY <1>1, <2>1 DEF Init, Keys
  <2>2. QED
    BY <1>1, <2>1 DEF Init, Counted
<1>6. QED
  BY <1>3, <1>4, <1>5 DEF UsageInv

\* Both kinds of traffic roll the day and raise one row to at most what is seen.
LEMMA TrafficKeeps ==
    ASSUME UsageInv, NEW k \in Keys, NEW n \in 1..MaxBytes, NEW s \in 1..MaxBytes,
           n <= s, s >= seen[k],
           day' = today, pending' = RolledPending,
           rows' = [RolledRows EXCEPT ![k] = n], dirty' = RolledDirty \cup {k},
           seen' = [seen EXCEPT ![k] = s],
           k[1] = "relay" => n = s /\ k = <<"relay", today>>,
           UNCHANGED <<today, flushing, database, errors>>
    PROVE  UsageInv'
<1>1. /\ today \in Days /\ LastDay \in Nat /\ MaxBytes \in Nat
      /\ TypeOK /\ Bounded /\ ChargedSoFar /\ ChargedFirst /\ Counted
      /\ seen \in [Keys -> 0..MaxBytes] /\ pending \subseteq Rows
      /\ batch \in [Flushes -> SUBSET Rows]
  BY RelayUsageAssumption DEF UsageInv, TypeOK
<1>2. /\ seen' \in [Keys -> 0..MaxBytes]
      /\ \A i \in Keys : seen[i] <= seen'[i]
  BY <1>1
<1>3. /\ rows' \in [Keys -> 0..MaxBytes] /\ dirty' \subseteq Keys /\ pending' \subseteq Rows
      /\ \A i \in Keys : rows'[i] <= seen'[i]
      /\ \A i \in dirty' : rows'[i] > 0
  <2>1. /\ RolledRows \in [Keys -> 0..MaxBytes] /\ RolledDirty \subseteq Keys
        /\ RolledPending \subseteq Rows
        /\ \A i \in Keys : RolledRows[i] <= seen[i]
        /\ \A i \in RolledDirty : RolledRows[i] > 0
    BY Rolled
  <2>2. QED
    BY <1>1, <2>1
<1>4. TypeOK'
  BY <1>1, <1>2, <1>3 DEF TypeOK, flushing, database
<1>5. Bounded'
  <2>1. ASSUME NEW r \in Rows, r.bytes <= seen[r.key] PROVE r.bytes <= seen'[r.key]
    BY <1>1, <1>2, <2>1 DEF Rows
  <2>2. \A r \in pending' : r.bytes <= seen'[r.key]
    BY <1>3, <2>1, Rolled
  <2>3. \A f \in Flushes : \A r \in batch'[f] : r.bytes <= seen'[r.key]
    BY <1>1, <2>1 DEF Bounded, flushing
  <2>4. \A i \in Keys : mark[i] <= seen'[i] /\ daily[i] <= seen'[i]
    BY <1>1, <1>2 DEF Bounded, TypeOK
  <2>5. QED
    BY <1>3, <2>2, <2>3, <2>4 DEF Bounded, database
<1>6. ChargedSoFar' /\ ChargedFirst'
  BY <1>1 DEF ChargedSoFar, ChargedFirst, flushing, database
<1>7. Counted'
  <2>1. ASSUME "relay" \in Sources, NEW d \in Days
        PROVE  /\ d = today => seen'[<<"relay", d>>] <= rows'[<<"relay", d>>]
               /\ d > today => seen'[<<"relay", d>>] = 0
    <3>1. <<"relay", d>> \in Keys
      BY <2>1 DEF Keys
    <3>2. /\ seen[<<"relay", today>>] <= RolledRows[<<"relay", today>>]
          /\ d > today => seen[<<"relay", d>>] = 0
          /\ RolledRows \in [Keys -> 0..MaxBytes]
      BY <2>1, Rolled, RolledCounts
    <3>3. CASE k = <<"relay", d>>
      <4>1. d = today /\ n = s
        BY <3>3
      <4>2. seen'[<<"relay", d>>] = s /\ rows'[<<"relay", d>>] = n
        BY <1>1, <3>1, <3>2, <3>3
      <4>3. QED
        BY <1>1, <4>1, <4>2 DEF Days
    <3>4. CASE k # <<"relay", d>>
      BY <1>1, <3>1, <3>2, <3>4
    <3>5. QED
      BY <3>3, <3>4
  <2>2. QED
    BY <1>1, <2>1 DEF Counted, Days
<1>8. QED
  BY <1>4, <1>5, <1>6, <1>7 DEF UsageInv

LEMMA AddRelayBytesIsTraffic ==
    ASSUME UsageInv, AddRelayBytes
    PROVE  \E k \in Keys, n \in 1..MaxBytes, s \in 1..MaxBytes :
              /\ n <= s /\ s >= seen[k] /\ n >= RolledRows[k] /\ n >= s
              /\ day' = today /\ pending' = RolledPending
              /\ rows' = [RolledRows EXCEPT ![k] = n] /\ dirty' = RolledDirty \cup {k}
              /\ seen' = [seen EXCEPT ![k] = s]
              /\ k[1] = "relay" => n = s /\ k = <<"relay", today>>
              /\ UNCHANGED <<today, flushing, database, errors>>
<1> DEFINE k == <<"relay", today>>
<1>1. /\ today \in Days /\ MaxBytes \in Nat /\ "relay" \in Sources /\ k \in Keys
      /\ seen \in [Keys -> 0..MaxBytes] /\ seen[k] < MaxBytes
  BY RelayUsageAssumption DEF UsageInv, TypeOK, AddRelayBytes, Keys
<1>2. RolledRows \in [Keys -> 0..MaxBytes] /\ RolledRows[k] = seen[k]
  BY <1>1, Rolled, RolledCounts
<1>3. /\ rows' = [RolledRows EXCEPT ![k] = RolledRows[k] + 1]
      /\ seen' = [seen EXCEPT ![k] = seen[k] + 1]
      /\ day' = today /\ pending' = RolledPending /\ dirty' = RolledDirty \cup {k}
      /\ UNCHANGED <<today, flushing, database, errors>>
  BY DEF AddRelayBytes
<1> DEFINE n == seen[k] + 1
<1>4. /\ n \in 1..MaxBytes /\ n <= n /\ n >= seen[k] /\ n >= RolledRows[k]
      /\ rows' = [RolledRows EXCEPT ![k] = n]
      /\ seen' = [seen EXCEPT ![k] = n]
  BY <1>1, <1>2, <1>3
<1> HIDE DEF n
<1>5. QED
  BY <1>1, <1>3, <1>4

LEMMA ReportIsTraffic ==
    ASSUME UsageInv, NEW d \in Days, NEW m \in 1..MaxReport, ReportHostUsage(d, m)
    PROVE  \E k \in Keys, n \in 1..MaxBytes, s \in 1..MaxBytes :
              /\ n <= s /\ s >= seen[k] /\ n >= RolledRows[k] /\ (n >= s \/ s = seen[k])
              /\ day' = today /\ pending' = RolledPending
              /\ rows' = [RolledRows EXCEPT ![k] = n] /\ dirty' = RolledDirty \cup {k}
              /\ seen' = [seen EXCEPT ![k] = s]
              /\ k[1] = "relay" => n = s /\ k = <<"relay", today>>
              /\ UNCHANGED <<today, flushing, database, errors>>
<1> DEFINE k == <<"gateway", d>>
           n == Larger(RolledRows[k], m)
           s == Larger(seen[k], m)
<1>1. /\ MaxBytes \in Nat /\ k \in Keys /\ m \in 1..MaxBytes /\ k[1] # "relay"
      /\ seen \in [Keys -> 0..MaxBytes]
  BY RelayUsageAssumption DEF UsageInv, TypeOK, ReportHostUsage, Keys
<1>2. /\ RolledRows \in [Keys -> 0..MaxBytes] /\ RolledRows[k] <= seen[k]
  BY <1>1, Rolled
<1>3. /\ rows' = [RolledRows EXCEPT ![k] = n]
      /\ seen' = [seen EXCEPT ![k] = s]
      /\ day' = today /\ pending' = RolledPending /\ dirty' = RolledDirty \cup {k}
      /\ UNCHANGED <<today, flushing, database, errors>>
  BY DEF ReportHostUsage, Merge
<1>4. /\ n \in 1..MaxBytes /\ s \in 1..MaxBytes /\ n <= s /\ s >= seen[k]
      /\ n >= RolledRows[k] /\ (n >= s \/ s = seen[k])
  BY <1>1, <1>2 DEF Larger
<1> HIDE DEF n, s
<1>5. QED
  BY <1>1, <1>3, <1>4

\* A flush copies rows that say no more than what is seen.
LEMMA FlushRowsFacts ==
    ASSUME UsageInv
    PROVE  /\ FlushRows \subseteq Rows
           /\ RolledPending \subseteq FlushRows
           /\ \A r \in FlushRows : r.bytes <= seen[r.key]
<1>1. \A k \in RolledDirty : /\ UsageRow(k, RolledRows[k]) \in Rows
                             /\ RolledRows[k] <= seen[k]
  <2>1. MaxBytes \in Nat
    BY RelayUsageAssumption
  <2>2. QED
    BY <2>1, Rolled, RowFacts
<1>2. QED
  BY <1>1, Rolled, RowFacts DEF FlushRows

LEMMA StartFlushKeeps ==
    ASSUME UsageInv, NEW f \in Flushes, StartFlush(f)
    PROVE  UsageInv'
<1>1. /\ today \in Days /\ LastDay \in Nat /\ MaxBytes \in Nat
      /\ TypeOK /\ Bounded /\ ChargedSoFar /\ ChargedFirst /\ Counted
      /\ UNCHANGED <<today, database, seen, errors>>
      /\ day' = today /\ rows' = RolledRows /\ dirty' = RolledDirty
      /\ pending' = RolledPending
  BY RelayUsageAssumption DEF UsageInv, TypeOK, StartFlush
<1>2. /\ FlushRows \subseteq Rows
      /\ \A r \in FlushRows : r.bytes <= seen[r.key]
  BY FlushRowsFacts
<1> DEFINE Relayed == {r \in FlushRows : Source(r.key) = "relay"}
<1>3. /\ pc' \in [Flushes -> {"idle", "charge", "clear"}]
      /\ batch' \in [Flushes -> SUBSET Rows] /\ todo' \in [Flushes -> SUBSET Rows]
      /\ \A g \in Flushes :
            \/ pc'[g] = pc[g] /\ batch'[g] = batch[g] /\ todo'[g] = todo[g]
            \/ pc'[g] = "charge" /\ batch'[g] = FlushRows /\ todo'[g] = Relayed
  <2>1. CASE FlushRows = {}
    BY <1>1, <2>1 DEF StartFlush, TypeOK, flushing
  <2>2. CASE FlushRows # {}
    <3>1. /\ pc' = [pc EXCEPT ![f] = "charge"] /\ batch' = [batch EXCEPT ![f] = FlushRows]
          /\ todo' = [todo EXCEPT ![f] = Relayed]
      BY <2>2 DEF StartFlush
    <3>2. QED
      BY <1>1, <1>2, <3>1 DEF TypeOK
  <2>3. QED
    BY <2>1, <2>2
<1>4. TypeOK'
  BY <1>1, <1>3, Rolled DEF TypeOK, database
<1>5. Bounded'
  <2>1. \A g \in Flushes : \A r \in batch'[g] : r.bytes <= seen[r.key]
    BY <1>1, <1>2, <1>3 DEF Bounded
  <2>2. QED
    BY <1>1, <2>1, Rolled DEF Bounded, database
<1>6. ChargedSoFar'
  <2>1. ASSUME NEW g \in Flushes
        PROVE  /\ todo'[g] \subseteq batch'[g]
               /\ pc'[g] = "charge" => \A r \in batch'[g] \ todo'[g] :
                     Source(r.key) = "relay" => r.bytes <= mark[r.key]
    BY <1>1, <1>3 DEF ChargedSoFar
  <2>2. QED
    BY <1>1, <2>1 DEF ChargedSoFar, database
<1>7. ChargedFirst'
  BY <1>1 DEF ChargedFirst, database
<1>8. Counted'
  <2>1. "relay" \in Sources => seen[<<"relay", today>>] <= RolledRows[<<"relay", today>>]
    BY RolledCounts
  <2>2. "relay" \in Sources => \A d \in Days : d > today => seen[<<"relay", d>>] = 0
    BY RolledCounts
  <2>3. QED
    BY <1>1, <2>1, <2>2 DEF Counted, Days
<1>9. QED
  BY <1>4, <1>5, <1>6, <1>7, <1>8 DEF UsageInv

LEMMA ChargeKeeps ==
    ASSUME UsageInv, NEW f \in Flushes, NEW r \in todo[f], Charge(f, r)
    PROVE  UsageInv'
<1>1. /\ TypeOK /\ Bounded /\ ChargedSoFar /\ ChargedFirst /\ Counted /\ MaxBytes \in Nat
      /\ mark' = [mark EXCEPT ![r.key] = Larger(@, r.bytes)]
      /\ todo' = [todo EXCEPT ![f] = @ \ {r}]
      /\ UNCHANGED <<today, memory, pc, batch, daily, seen, errors>>
      /\ batch \in [Flushes -> SUBSET Rows] /\ todo \in [Flushes -> SUBSET Rows]
      /\ mark \in [Keys -> 0..MaxBytes]
  BY RelayUsageAssumption DEF UsageInv, TypeOK, Charge, Watermark
<1>2. /\ r \in batch[f] /\ r.key \in Keys /\ r.bytes \in 1..MaxBytes /\ r.bytes <= seen[r.key]
  BY <1>1, RowFacts DEF ChargedSoFar, Bounded
<1>3. /\ mark' \in [Keys -> 0..MaxBytes]
      /\ \A k \in Keys : mark[k] <= mark'[k] /\ mark'[k] <= seen[k]
      /\ r.bytes <= mark'[r.key]
  BY <1>1, <1>2 DEF Larger, Bounded, TypeOK
<1>4. todo' \in [Flushes -> SUBSET Rows]
  BY <1>1
<1>5. TypeOK'
  BY <1>1, <1>3, <1>4 DEF TypeOK, memory
<1>6. Bounded'
  BY <1>1, <1>3 DEF Bounded, memory
<1>7. ChargedSoFar'
  <2>1. ASSUME NEW g \in Flushes
        PROVE  /\ todo'[g] \subseteq batch[g]
               /\ \A q \in batch[g] \ todo'[g] : q \in batch[g] \ todo[g] \/ (g = f /\ q = r)
    BY <1>1 DEF ChargedSoFar
  <2>2. ASSUME NEW g \in Flushes, pc[g] = "charge", NEW q \in batch[g] \ todo'[g],
               Source(q.key) = "relay"
        PROVE  q.bytes <= mark'[q.key]
    <3>1. q \in Rows /\ q.key \in Keys /\ q.bytes \in Nat
      BY <1>1 DEF Rows
    <3>2. CASE q = r
      BY <1>3, <3>2
    <3>3. CASE q \in batch[g] \ todo[g]
      <4>1. q.bytes <= mark[q.key]
        BY <1>1, <2>2, <3>3 DEF ChargedSoFar
      <4>2. mark[q.key] \in Nat /\ mark'[q.key] \in Nat /\ mark[q.key] <= mark'[q.key]
        BY <1>1, <1>3, <3>1
      <4>3. QED
        BY <3>1, <4>1, <4>2
    <3>4. QED
      BY <2>1, <3>2, <3>3
  <2>3. QED
    BY <1>1, <2>1, <2>2 DEF ChargedSoFar
<1>8. ChargedFirst'
  <2>1. ASSUME NEW k \in Keys, daily[k] <= mark[k] PROVE daily[k] <= mark'[k]
    <3>1. daily[k] \in Nat /\ mark[k] \in Nat /\ mark'[k] \in Nat /\ mark[k] <= mark'[k]
      BY <1>1, <1>3 DEF TypeOK
    <3>2. QED
      BY <2>1, <3>1
  <2>2. QED
    BY <1>1, <2>1 DEF ChargedFirst
<1>9. Counted'
  BY <1>1 DEF Counted, memory
<1>10. QED
  BY <1>5, <1>6, <1>7, <1>8, <1>9 DEF UsageInv

\* Everything of the batch has been charged, and is what has been seen.
LEMMA UpsertKeeps ==
    ASSUME UsageInv, NEW f \in Flushes, Upsert(f)
    PROVE  UsageInv'
<1>1. /\ TypeOK /\ Bounded /\ ChargedSoFar /\ ChargedFirst /\ Counted /\ MaxBytes \in Nat
      /\ pc[f] = "charge" /\ todo[f] = {} /\ pc' = [pc EXCEPT ![f] = "clear"]
      /\ UNCHANGED <<today, memory, batch, todo, mark, seen, errors>>
  BY RelayUsageAssumption DEF UsageInv, Upsert, Charged
<1>2. /\ daily' \in [Keys -> 0..MaxBytes]
      /\ \A k \in Keys : daily'[k] = daily[k] \/ UsageRow(k, daily'[k]) \in batch[f]
  BY <1>1, UpsertFacts
<1>3. TypeOK'
  BY <1>1, <1>2 DEF TypeOK, memory
<1>4. \A k \in Keys : UsageRow(k, daily'[k]) \in batch[f] =>
          /\ daily'[k] <= seen[k]
          /\ Source(k) = "relay" => daily'[k] <= mark[k]
  BY <1>1, RowFacts DEF Bounded, ChargedSoFar
<1>5. Bounded'
  BY <1>1, <1>2, <1>4 DEF Bounded, memory
<1>6. ChargedSoFar'
  BY <1>1 DEF ChargedSoFar, TypeOK
<1>7. ChargedFirst'
  BY <1>1, <1>2, <1>4 DEF ChargedFirst
<1>8. Counted'
  BY <1>1 DEF Counted, memory
<1>9. QED
  BY <1>3, <1>5, <1>6, <1>7, <1>8 DEF UsageInv

\* A flush that ends, well or not, forgets no more than it held.
LEMMA EndFlushKeeps ==
    ASSUME UsageInv, NEW f \in Flushes, EndFlush(f),
           pending' \subseteq pending, dirty' \subseteq dirty, errors' \in 0..MaxErrors,
           UNCHANGED <<today, day, rows, database, seen>>
    PROVE  UsageInv'
<1>1. /\ TypeOK /\ Bounded /\ ChargedSoFar /\ ChargedFirst /\ Counted
      /\ pc' = [pc EXCEPT ![f] = "idle"] /\ batch' = [batch EXCEPT ![f] = {}]
      /\ todo' = [todo EXCEPT ![f] = {}]
  BY DEF UsageInv, EndFlush
<1>2. TypeOK'
  BY <1>1 DEF TypeOK, database
<1>3. Bounded'
  BY <1>1 DEF Bounded, TypeOK, database
<1>4. ChargedSoFar'
  BY <1>1 DEF ChargedSoFar, TypeOK, database
<1>5. ChargedFirst' /\ Counted'
  BY <1>1 DEF ChargedFirst, Counted, database
<1>6. QED
  BY <1>2, <1>3, <1>4, <1>5 DEF UsageInv

LEMMA ClearIsEnd ==
    ASSUME UsageInv, NEW f \in Flushes, ClearFlushed(f)
    PROVE  /\ EndFlush(f) /\ pending' \subseteq pending /\ dirty' \subseteq dirty
           /\ errors' \in 0..MaxErrors
           /\ UNCHANGED <<today, day, rows, database, seen>>
  BY DEF ClearFlushed, UsageInv, TypeOK

LEMMA FailIsEnd ==
    ASSUME UsageInv, NEW f \in Flushes, FailFlush(f)
    PROVE  /\ EndFlush(f) /\ pending' = pending /\ dirty' = dirty
           /\ errors' \in 0..MaxErrors
           /\ UNCHANGED <<today, day, rows, database, seen>>
  BY RelayUsageAssumption DEF FailFlush, FailedKeeps, UsageInv, TypeOK

LEMMA MidnightKeeps ==
    ASSUME UsageInv, Midnight PROVE UsageInv'
<1>1. /\ TypeOK /\ Bounded /\ ChargedSoFar /\ ChargedFirst /\ Counted
      /\ LastDay \in Nat /\ today < LastDay /\ today' = today + 1
      /\ UNCHANGED <<memory, flushing, database, seen, errors>>
  BY RelayUsageAssumption DEF UsageInv, Midnight
<1>2. TypeOK'
  BY <1>1 DEF TypeOK, Days, memory, flushing, database
<1>3. Bounded' /\ ChargedSoFar' /\ ChargedFirst'
  BY <1>1 DEF Bounded, ChargedSoFar, ChargedFirst, memory, flushing, database
<1>4. Counted'
  BY <1>1 DEF Counted, TypeOK, Days, memory
<1>5. QED
  BY <1>2, <1>3, <1>4 DEF UsageInv

LEMMA StutterKeeps ==
    ASSUME UsageInv, UNCHANGED vars PROVE UsageInv'
<1>1. /\ TypeOK /\ Bounded /\ ChargedSoFar /\ ChargedFirst /\ Counted
      /\ UNCHANGED <<today, memory, flushing, database, seen, errors>>
  BY DEF UsageInv, vars
<1>2. TypeOK' /\ Bounded' /\ ChargedSoFar' /\ ChargedFirst' /\ Counted'
  BY <1>1 DEF TypeOK, Bounded, ChargedSoFar, ChargedFirst, Counted, memory, flushing, database
<1>3. QED
  BY <1>2 DEF UsageInv

LEMMA UsageNext == UsageInv /\ [Next]_vars => UsageInv'
<1>1. SUFFICES ASSUME UsageInv, [Next]_vars PROVE UsageInv'
  OBVIOUS
<1>2. CASE AddRelayBytes
  BY <1>1, <1>2, AddRelayBytesIsTraffic, TrafficKeeps
<1>3. ASSUME NEW d \in Days, NEW n \in 1..MaxReport, ReportHostUsage(d, n)
      PROVE  UsageInv'
  BY <1>1, <1>3, ReportIsTraffic, TrafficKeeps
<1>4. ASSUME NEW f \in Flushes, FlushStep(f) PROVE UsageInv'
  <2>1. CASE StartFlush(f)
    BY <1>1, <2>1, StartFlushKeeps
  <2>2. CASE Upsert(f)
    BY <1>1, <2>2, UpsertKeeps
  <2>3. CASE ClearFlushed(f)
    BY <1>1, <2>3, ClearIsEnd, EndFlushKeeps
  <2>4. CASE FailFlush(f)
    BY <1>1, <2>4, FailIsEnd, EndFlushKeeps
  <2>5. ASSUME NEW r \in todo[f], Charge(f, r) PROVE UsageInv'
    BY <1>1, <2>5, ChargeKeeps
  <2>6. QED
    BY <1>4, <2>1, <2>2, <2>3, <2>4, <2>5 DEF FlushStep
<1>5. CASE Midnight
  BY <1>1, <1>5, MidnightKeeps
<1>6. CASE UNCHANGED vars
  BY <1>1, <1>6, StutterKeeps
<1>7. QED
  BY <1>1, <1>2, <1>3, <1>4, <1>5, <1>6 DEF Next

-----------------------------------------------------------------------------
(* For every number of flushes, days, bytes and errors                     *)

LEMMA UsageInvariant == Spec => []UsageInv
  BY UsageInit, UsageNext, PTL DEF Spec

\* The accumulator's state, the flushes' and the database's are always of their
\* types: no row grows over what its type holds.
THEOREM UsageTypes == Spec => []TypeOK
<1>1. UsageInv => TypeOK
  BY DEF UsageInv
<1>2. QED
  BY <1>1, UsageInvariant, PTL

\* Relayed usage that the owner can see has been charged before, however the
\* flushes overlap and wherever one fails.
THEOREM ShownIsCharged == Spec => []ChargedFirst
<1>1. UsageInv => ChargedFirst
  BY DEF UsageInv
<1>2. QED
  BY <1>1, UsageInvariant, PTL

\* Nothing is charged or displayed that was not relayed or reported, however
\* often cumulative rows are repeated.
THEOREM NothingInvented == Spec => []NeverTooMuch
<1>1. UsageInv => NeverTooMuch
  BY DEF UsageInv, Bounded, NeverTooMuch
<1>2. QED
  BY <1>1, UsageInvariant, PTL
-----------------------------------------------------------------------------
(* Nothing is lost while no flush runs over midnight                       *)

LEMMA CalmInit == Init => FlushHolds /\ NothingLost
<1>1. SUFFICES ASSUME Init PROVE FlushHolds /\ NothingLost
  OBVIOUS
<1>2. QED
  BY <1>1 DEF Init, FlushHolds, NothingLost

\* While a flush runs the day is the same, so nothing is added to what it holds.
LEMMA TrafficLosesNothing ==
    ASSUME CalmInv, NEW k \in Keys, NEW n \in 1..MaxBytes, NEW s \in 1..MaxBytes,
           n >= RolledRows[k], n >= s \/ s = seen[k],
           day' = today, pending' = RolledPending,
           rows' = [RolledRows EXCEPT ![k] = n],
           seen' = [seen EXCEPT ![k] = s],
           UNCHANGED <<today, flushing, database, errors>>
    PROVE  FlushHolds' /\ NothingLost'
<1>1. /\ UsageInv /\ FlushHolds /\ NothingLost /\ MaxBytes \in Nat
      /\ daily \in [Keys -> 0..MaxBytes] /\ seen \in [Keys -> 0..MaxBytes]
      /\ pending \subseteq Rows
  BY RelayUsageAssumption DEF CalmInv, UsageInv, TypeOK
<1>2. FlushHolds'
  BY <1>1, RolledKeeps DEF FlushHolds, flushing, database
<1>3. RolledRows \in [Keys -> 0..MaxBytes] /\ RolledPending \subseteq Rows
  BY <1>1, Rolled
<1>4. rows' \in [Keys -> 0..MaxBytes] /\ \A i \in Keys : rows'[i] >= RolledRows[i]
  BY <1>1, <1>3
<1>5. ASSUME NEW i \in Keys, NEW j \in 1..seen'[i]
      PROVE  daily'[i] >= j \/ j \in Kept(i)'
  <2>1. j \in 1..MaxBytes /\ daily' = daily
    BY <1>1 DEF database
  <2>2. CASE j \in 1..seen[i]
    <3>1. CASE daily[i] >= j
      BY <2>1, <3>1
    <3>2. CASE j \in Kept(i)
      <4>1. RolledRows[i] >= j \/ \E r \in RolledPending : r.key = i /\ r.bytes >= j
        BY <1>1, <3>2, RolledKeeps
      <4>2. rows'[i] \in Nat /\ RolledRows[i] \in Nat /\ rows'[i] >= RolledRows[i]
        BY <1>1, <1>3, <1>4
      <4>3. rows'[i] >= j \/ \E r \in pending' : r.key = i /\ r.bytes >= j
        BY <2>1, <4>1, <4>2
      <4>4. QED
        BY <2>1, <4>3 DEF Kept
    <3>3. QED
      BY <1>1, <2>2, <3>1, <3>2 DEF NothingLost
  <2>3. CASE j \notin 1..seen[i]
    <3>1. i = k /\ s # seen[k]
      BY <1>1, <2>3
    <3>2. j \in 1..s /\ rows'[i] = n
      BY <1>1, <1>3, <3>1
    <3>3. rows'[i] >= j
      BY <2>1, <3>1, <3>2
    <3>4. QED
      BY <2>1, <3>3 DEF Kept
  <2>4. QED
    BY <2>2, <2>3
<1>6. NothingLost'
  BY <1>5 DEF NothingLost
<1>7. QED
  BY <1>2, <1>6

\* A flush begins by holding all that is pending.
LEMMA StartFlushLosesNothing ==
    ASSUME CalmInv, NEW f \in Flushes, StartFlush(f)
    PROVE  FlushHolds' /\ NothingLost'
<1>1. /\ UsageInv /\ FlushHolds /\ NothingLost
      /\ UNCHANGED <<today, database, seen, errors>>
      /\ day' = today /\ rows' = RolledRows /\ pending' = RolledPending
  BY DEF CalmInv, StartFlush
<1>2. \A g \in Flushes :
         \/ pc'[g] = pc[g] /\ batch'[g] = batch[g]
         \/ pc'[g] = "charge" /\ batch'[g] = FlushRows
  <2>1. CASE FlushRows = {}
    BY <2>1 DEF StartFlush, flushing
  <2>2. CASE FlushRows # {}
    BY <1>1, <2>2 DEF StartFlush, UsageInv, TypeOK
  <2>3. QED
    BY <2>1, <2>2
<1>3. FlushHolds'
  <2>1. ASSUME NEW g \in Flushes, pc'[g] # "idle"
        PROVE  /\ RolledPending \subseteq batch'[g]
               /\ pc'[g] = "clear" => \A r \in batch'[g] : r.bytes <= daily[r.key]
    <3>1. CASE pc'[g] = pc[g] /\ batch'[g] = batch[g]
      BY <1>1, <2>1, <3>1, RolledKeeps DEF FlushHolds
    <3>2. CASE pc'[g] = "charge" /\ batch'[g] = FlushRows
      BY <1>1, <3>2, FlushRowsFacts
    <3>3. QED
      BY <1>2, <3>1, <3>2
  <2>2. QED
    BY <1>1, <2>1 DEF FlushHolds, database
<1>4. NothingLost'
  <2>1. ASSUME NEW i \in Keys, NEW j \in Kept(i) PROVE j \in Kept(i)'
    BY <1>1, <2>1, RolledKeeps DEF Kept
  <2>2. QED
    BY <1>1, <2>1 DEF NothingLost, database
<1>5. QED
  BY <1>3, <1>4

LEMMA ChargeLosesNothing ==
    ASSUME CalmInv, NEW f \in Flushes, NEW r \in todo[f], Charge(f, r)
    PROVE  FlushHolds' /\ NothingLost'
  BY DEF CalmInv, Charge, memory, FlushHolds, NothingLost, Kept

\* GREATEST never takes back what another flush has stored.
LEMMA UpsertLosesNothing ==
    ASSUME CalmInv, NEW f \in Flushes, Upsert(f)
    PROVE  FlushHolds' /\ NothingLost'
<1>1. /\ TypeOK /\ FlushHolds /\ NothingLost /\ MaxBytes \in Nat
      /\ pc[f] = "charge" /\ pc' = [pc EXCEPT ![f] = "clear"]
      /\ UNCHANGED <<today, memory, batch, todo, mark, seen, errors>>
      /\ batch \in [Flushes -> SUBSET Rows] /\ daily \in [Keys -> 0..MaxBytes]
      /\ seen \in [Keys -> 0..MaxBytes]
  BY RelayUsageAssumption DEF CalmInv, UsageInv, TypeOK, Upsert
<1>2. /\ daily' \in [Keys -> 0..MaxBytes]
      /\ \A k \in Keys : /\ daily[k] <= daily'[k]
                         /\ \A r \in batch[f] : r.key = k => r.bytes <= daily'[k]
  BY <1>1, UpsertFacts
<1>3. ASSUME NEW g \in Flushes, pc'[g] = "clear", NEW r \in batch[g]
      PROVE  r.bytes <= daily'[r.key]
  <2>1. r.key \in Keys /\ r.bytes \in Nat
    BY <1>1 DEF Rows
  <2>2. CASE g = f
    BY <1>2, <2>1, <2>2
  <2>3. CASE g # f
    <3>1. r.bytes <= daily[r.key]
      BY <1>1, <1>3, <2>3 DEF FlushHolds, TypeOK
    <3>2. QED
      BY <1>1, <1>2, <2>1, <3>1
  <2>4. QED
    BY <2>2, <2>3
<1>4. FlushHolds'
  <2>1. \A g \in Flushes : pc'[g] # "idle" => pc[g] # "idle"
    BY <1>1 DEF TypeOK
  <2>2. QED
    BY <1>1, <1>3, <2>1 DEF FlushHolds, memory
<1>5. NothingLost'
  <2>1. \A k \in Keys : Kept(k)' = Kept(k)
    BY <1>1 DEF Kept, memory
  <2>2. \A k \in Keys : \A n \in 1..seen[k] : daily[k] >= n => daily'[k] >= n
    BY <1>1, <1>2
  <2>3. QED
    BY <1>1, <2>1, <2>2 DEF NothingLost
<1>6. QED
  BY <1>4, <1>5

\* What is forgotten at the end of a flush has been stored by it.
LEMMA ClearLosesNothing ==
    ASSUME CalmInv, NEW f \in Flushes, ClearFlushed(f)
    PROVE  FlushHolds' /\ NothingLost'
<1>1. /\ TypeOK /\ FlushHolds /\ NothingLost /\ MaxBytes \in Nat
      /\ pc[f] = "clear" /\ pending' = {}
      /\ pc' = [pc EXCEPT ![f] = "idle"] /\ batch' = [batch EXCEPT ![f] = {}]
      /\ UNCHANGED <<today, day, rows, database, seen, errors>>
      /\ pending \subseteq Rows /\ daily \in [Keys -> 0..MaxBytes]
  BY RelayUsageAssumption DEF CalmInv, UsageInv, TypeOK, ClearFlushed, EndFlush
<1>2. FlushHolds'
  BY <1>1 DEF FlushHolds, TypeOK, database
<1>3. ASSUME NEW k \in Keys, NEW n \in 1..seen[k] PROVE daily[k] >= n \/ n \in Kept(k)'
  <2>1. CASE \E r \in pending : r.key = k /\ r.bytes >= n
    <3>1. PICK r \in pending : r.key = k /\ r.bytes >= n
      BY <2>1
    <3>2. r.bytes <= daily[k] /\ r.bytes \in Nat /\ daily[k] \in Nat
      BY <1>1, <3>1 DEF FlushHolds, Rows
    <3>3. QED
      BY <3>1, <3>2 DEF TypeOK
  <2>2. CASE ~\E r \in pending : r.key = k /\ r.bytes >= n
    BY <1>1, <2>2 DEF NothingLost, Kept
  <2>3. QED
    BY <2>1, <2>2
<1>4. NothingLost'
  BY <1>1, <1>3 DEF NothingLost, database
<1>5. QED
  BY <1>2, <1>4

LEMMA FailLosesNothing ==
    ASSUME CalmInv, NEW f \in Flushes, FailFlush(f)
    PROVE  FlushHolds' /\ NothingLost'
<1>1. /\ TypeOK /\ FlushHolds /\ NothingLost
      /\ pc' = [pc EXCEPT ![f] = "idle"] /\ batch' = [batch EXCEPT ![f] = {}]
      /\ UNCHANGED <<pending, dirty, today, day, rows, database, seen>>
  BY DEF CalmInv, UsageInv, FailFlush, FailedKeeps, EndFlush
<1>2. FlushHolds'
  BY <1>1 DEF FlushHolds, TypeOK, database
<1>3. NothingLost'
  BY <1>1 DEF NothingLost, Kept, database
<1>4. QED
  BY <1>2, <1>3

LEMMA CalmNext == CalmMidnight /\ CalmInv /\ [Next]_vars => CalmInv'
<1>1. SUFFICES ASSUME CalmMidnight, CalmInv, [Next]_vars PROVE FlushHolds' /\ NothingLost'
  BY UsageNext DEF CalmInv
<1>2. UsageInv
  BY <1>1 DEF CalmInv
<1>3. CASE AddRelayBytes
  BY <1>1, <1>2, <1>3, AddRelayBytesIsTraffic, TrafficLosesNothing
<1>4. ASSUME NEW d \in Days, NEW n \in 1..MaxReport, ReportHostUsage(d, n)
      PROVE  FlushHolds' /\ NothingLost'
  BY <1>1, <1>2, <1>4, ReportIsTraffic, TrafficLosesNothing
<1>5. ASSUME NEW f \in Flushes, FlushStep(f) PROVE FlushHolds' /\ NothingLost'
  BY <1>1, <1>5, StartFlushLosesNothing, UpsertLosesNothing, ClearLosesNothing,
     FailLosesNothing, ChargeLosesNothing DEF FlushStep
<1>6. CASE Midnight
  BY <1>1, <1>6 DEF CalmInv, Midnight, memory, flushing, database, FlushHolds, NothingLost, Kept
<1>7. CASE UNCHANGED vars
  BY <1>1, <1>7
     DEF CalmInv, vars, memory, flushing, database, FlushHolds, NothingLost, Kept
<1>8. QED
  BY <1>1, <1>3, <1>4, <1>5, <1>6, <1>7 DEF Next

\* When no flush is running at midnight, every byte that was relayed or reported
\* is in the database or in memory where a flush will find it, whatever overlaps
\* and fails.  Without that hypothesis TLC shows how bytes are lost.
THEOREM CalmNightsLoseNothing ==
    ASSUME CalmMidnight
    PROVE  Spec => []NothingLost
<1>1. Init => CalmInv
  BY UsageInit, CalmInit DEF CalmInv
<1>2. CalmInv /\ [Next]_vars => CalmInv'
  BY CalmNext
<1>3. CalmInv => NothingLost
  BY DEF CalmInv
<1>4. QED
  BY <1>1, <1>2, <1>3, PTL DEF Spec
==============================================================================
