------------------------------ MODULE PayPages ------------------------------
(***************************************************************************)
(* Paying on the portal (BillingPage, CreditsPage and QrPaymentDialog of   *)
(* packages/portal/src/pages.tsx): the user orders, the page draws the     *)
(* code to pay with, and two clocks look for the payment.  One, belonging  *)
(* to the dialog, asks for the order; the other, started with every order  *)
(* and stopped by nothing but success or five minutes, asks for the        *)
(* account and takes an expiry that moved, or a balance that grew, for     *)
(* the payment.  Who pays is outside, and so is who else pays or grants.   *)
(***************************************************************************)
EXTENDS Integers, FiniteSets

CONSTANTS Purchases,    \* orders of one visit to the page
          MaxGrowth     \* bound: what the account gains otherwise

ASSUME PayAssumption ==
    /\ MaxGrowth \in Nat
    /\ IsFiniteSet(Purchases) /\ "none" \notin Purchases

VARIABLES flow,     \* "billing" or "credits"
          account,  \* at the hub: [value: expiry or balance, member]
          known,    \* the value the page has loaded, or Unknown
          loading,  \* load is under way
          bill,     \* the orders of this visit
          current,  \* the order of the dialog (appOrderId)
          shown,    \* the order whose code is shown (qrDataUrl)
          paid,     \* paidRef
          clock,    \* the second clock of each order, and whether the hub has shown it a payment
          check,    \* orders that the hub has told the dialog are paid
          notices,  \* times the page said that it was paid
          grown, blind, mistaken

payVars == <<flow, account, known, loading, bill, current, shown, paid, clock, check, notices, grown, blind, mistaken>>

Unknown == 0 - 1
NoBill == "none"
NotOrdered == [st |-> "none", form |-> "native", before |-> Unknown, paid |-> FALSE]
NoClock == [on |-> FALSE, found |-> FALSE]

PayInit ==
    /\ flow \in {"billing", "credits"}
    /\ account \in [value : {0, 1}, member : BOOLEAN]
    /\ account.member => account.value = 1
    /\ flow = "credits" => account = [value |-> 1, member |-> TRUE]
    /\ known = Unknown /\ loading = TRUE
    /\ bill = [o \in Purchases |-> NotOrdered]
    /\ current = NoBill /\ shown = NoBill /\ paid = FALSE
    /\ clock = [o \in Purchases |-> NoClock]
    /\ check = [o \in Purchases |-> FALSE]
    /\ notices = 0 /\ grown = 0 /\ blind = FALSE /\ mistaken = FALSE

(***************************************************************************)
(* The account                                                             *)
(***************************************************************************)
\* load; it may fail.
LoadEnds ==
    /\ loading /\ loading' = FALSE
    /\ known' \in {known, account.value}
    /\ UNCHANGED <<flow, account, bill, current, shown, paid, clock, check, notices, grown, blind, mistaken>>

\* A grant, a bonus, or an order of another device.
GrowsOtherwise ==
    /\ grown < MaxGrowth
    /\ grown' = grown + 1
    /\ \E m \in {account.member, TRUE} : account' = [value |-> account.value + 1, member |-> m]
    /\ UNCHANGED <<flow, known, loading, bill, current, shown, paid, clock, check, notices, blind, mistaken>>

\* The user pays, and the hub delivers.
Pays(o) ==
    /\ bill[o].st \in {"drawing", "made"} /\ ~bill[o].paid
    /\ bill' = [bill EXCEPT ![o].paid = TRUE]
    /\ account' = [value |-> account.value + 1, member |-> TRUE]
    /\ UNCHANGED <<flow, known, loading, current, shown, paid, clock, check, notices, grown, blind, mistaken>>

(***************************************************************************)
(* Ordering                                                                *)
(***************************************************************************)
\* The expiry a new order is compared with: none for a user who has none, and
\* for a page that has not loaded it.
Before == IF flow = "billing" /\ known = Unknown THEN 0 ELSE known

\* subscribe and confirmRecharge.  The button stays usable while another order
\* is being made; a code that is shown covers it.
Subscribe(o) ==
    /\ bill[o].st = "none" /\ shown = NoBill
    /\ bill' = [bill EXCEPT ![o] = [st |-> "asked", form |-> "native", before |-> Before, paid |-> FALSE]]
    /\ blind' = (blind \/ (flow = "billing" /\ known = Unknown))
    /\ UNCHANGED <<flow, account, known, loading, current, shown, paid, clock, check, notices, grown, mistaken>>

\* Inside WeChat the page is opened anew by the authorization, and orders
\* before it has loaded anything.
SubscribeInWechat(o) ==
    /\ flow = "billing" /\ known = Unknown /\ loading
    /\ \A p \in Purchases : bill[p].st = "none"
    /\ bill' = [bill EXCEPT ![o] = [st |-> "asked", form |-> "jsapi", before |-> 0, paid |-> FALSE]]
    /\ blind' = TRUE
    /\ UNCHANGED <<flow, account, known, loading, current, shown, paid, clock, check, notices, grown, mistaken>>

\* The hub has made the order.
Ordered(o) ==
    /\ bill[o].st = "asked"
    /\ bill' = [bill EXCEPT ![o].st = IF bill[o].form = "native" THEN "drawing" ELSE "made"]
    /\ clock' = IF bill[o].form = "native" THEN clock ELSE [clock EXCEPT ![o].on = TRUE]
    /\ current' = o /\ paid' = FALSE
    /\ UNCHANGED <<flow, account, known, loading, shown, check, notices, grown, blind, mistaken>>

OrderFails(o) ==
    /\ bill[o].st = "asked"
    /\ bill' = [bill EXCEPT ![o].st = "failed"]
    /\ loading' = TRUE
    /\ UNCHANGED <<flow, account, known, current, shown, paid, clock, check, notices, grown, blind, mistaken>>

\* The code is drawn, after another wait.
Drawn(o) ==
    /\ bill[o].st = "drawing"
    /\ bill' = [bill EXCEPT ![o].st = "made"]
    /\ shown' = o
    /\ clock' = [clock EXCEPT ![o].on = TRUE]
    /\ UNCHANGED <<flow, account, known, loading, current, paid, check, notices, grown, blind, mistaken>>

\* Closing the dialog stops its own clock only.
CancelPayment ==
    /\ shown # NoBill
    /\ shown' = NoBill /\ current' = NoBill
    /\ UNCHANGED <<flow, account, known, loading, bill, paid, clock, check, notices, grown, blind, mistaken>>

(***************************************************************************)
(* Finding the payment                                                     *)
(***************************************************************************)
\* The order that the user takes a message for.
Meant(o) == IF current # NoBill THEN current ELSE o

Silent == UNCHANGED <<paid, shown, current, notices, loading, mistaken>>

\* The page closes the dialog, says that it is paid, and loads again.
Say(o) ==
    /\ paid' = TRUE
    /\ shown' = NoBill /\ current' = NoBill
    /\ notices' = notices + 1
    /\ loading' = TRUE
    /\ mistaken' = (mistaken \/ ~bill[Meant(o)].paid)

\* Both clocks do so, and only once for the last order made.
SayPaid(o) == IF paid THEN Silent ELSE Say(o)

\* (membership alone)
IsMember(o) == IF flow = "billing" THEN account.member ELSE account.value > 0

\* The expiry moved and the user is a member; the balance grew over one that
\* was known.
Extended(o) ==
    IF flow = "billing" THEN account.member /\ account.value > bill[o].before
    ELSE bill[o].before # Unknown /\ account.value > bill[o].before

\* The clock of an order asks for the account.  An answer that shows nothing
\* new changes nothing and is left out, here and below.
ClockFinds(o) ==
    /\ clock[o].on /\ ~clock[o].found /\ Extended(o)
    /\ clock' = [clock EXCEPT ![o].found = TRUE]
    /\ UNCHANGED <<flow, account, known, loading, bill, current, shown, paid, check, notices, grown, blind, mistaken>>

ClockAnswered(o) ==
    /\ clock[o].found
    /\ clock' = [clock EXCEPT ![o] = NoClock]
    /\ SayPaid(o)
    /\ UNCHANGED <<flow, account, known, bill, check, grown, blind>>

FiveMinutes(o) ==
    /\ clock[o].on
    /\ clock' = [clock EXCEPT ![o].on = FALSE]
    /\ UNCHANGED <<flow, account, known, loading, bill, current, shown, paid, check, notices, grown, blind, mistaken>>

\* checkNow: the button, and every four seconds.
CheckFinds ==
    /\ shown # NoBill /\ current # NoBill
    /\ bill[current].paid /\ ~check[current]
    /\ check' = [check EXCEPT ![current] = TRUE]
    /\ UNCHANGED <<flow, account, known, loading, bill, current, shown, paid, clock, notices, grown, blind, mistaken>>

\* The answer is used even if the dialog that asked is gone.
CheckAnswered(o) ==
    /\ check[o]
    /\ check' = [check EXCEPT ![o] = FALSE]
    /\ SayPaid(o)
    /\ UNCHANGED <<flow, account, known, bill, clock, grown, blind>>

PayNext ==
    \/ LoadEnds \/ GrowsOtherwise \/ CancelPayment \/ CheckFinds
    \/ \E o \in Purchases :
         \/ Pays(o) \/ Subscribe(o) \/ SubscribeInWechat(o) \/ Ordered(o) \/ OrderFails(o) \/ Drawn(o)
         \/ ClockFinds(o) \/ ClockAnswered(o) \/ FiveMinutes(o)
         \/ CheckAnswered(o)

PaySpec == PayInit /\ [][PayNext]_payVars

(***************************************************************************)
(* Properties                                                              *)
(***************************************************************************)
PayTypeOK ==
    /\ {current, shown} \subseteq Purchases \cup {NoBill}
    /\ \A o \in Purchases : bill[o].st \in {"none", "asked", "drawing", "made", "failed"}
    /\ check \in [Purchases -> BOOLEAN]

\* The page does not say "paid" of an order that is not, unless the account
\* moved for another reason - another order of the visit, a grant - or the
\* page never knew where the account stood; and it says so at most once for
\* every order it made, whichever of the two clocks is first and however late
\* the other's answers are (pollUntilPaid, checkNow and onPaid).
PaidIsPaid ==
    /\ mistaken => grown > 0 \/ blind \/ \E o \in Purchases : bill[o].paid
    /\ notices <= Cardinality({o \in Purchases : bill[o].st \in {"drawing", "made"}})
=============================================================================
