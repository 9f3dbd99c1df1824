-------------------------------- MODULE MoneyMC --------------------------------
(* What an account is worth, for TLC: the ledger of its credits, and the orders,
   payments and plans that fill it.  The two parts share no state, so that in
   each scenario one of them is at work and the other stays as it begins.        *)
EXTENDS CreditsMC, Billing

Bills(ops, events, st) == [ops |-> ops, events |-> events, plan |-> [st |-> st, until |-> IF st = "free" THEN 0 ELSE 1]]
BillOff == Bills({}, {}, "free")
MCBillScenarios ==
  { BillOff,
    Bills({"order", "paid", "check", "crash"}, {}, "free"),
    Bills({"order", "paid", "refund"}, {}, "free"),
    Bills({"order", "paid", "check", "manual"}, {}, "free"),
    Bills({"store", "refund"}, {}, "free"),
    Bills({"event"}, {"active", "revoked"}, "free"),
    Bills({"event", "sweep"}, {"grace", "expired"}, "none"),
    Bills({"trial", "adjust", "credit", "sweep", "crash"}, {}, "trial")}

MoneyInit == Init /\ BillingInit
MoneyNext == \/ billUse = BillOff /\ Next /\ UNCHANGED billVars
             \/ billUse # BillOff /\ BillingNext /\ UNCHANGED vars
MoneySpec == MoneyInit /\ [][MoneyNext]_<<vars, billVars>>
================================================================================
