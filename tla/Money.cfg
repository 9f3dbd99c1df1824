SPECIFICATION MoneySpec
CONSTANTS
    Workers = {w1, w2}
    None = None
    Requests = {r1, r2}
    Relays = {h1}
    Voices = {}
    Recharges = {p1}
    Refunds = {f1}
    Periods = {}
    Ops = {"reserve", "settle", "relay", "post"}
    MaxHold = 2
    MaxUnits = 1
    Payment = 1
    Bonus = 1
    StartPurchased = 1
    StartCarried = 1
    StartCurrent = 1
    Overdraft = 2
    PlanOrders = {o1}
    CreditOrders = {o2}
    Receipts = {o3}
    Subs = {sub1}
    MaxClock = 2
    BillCalls = {1, 2}
    BillScenarios <- MCBillScenarios
SYMMETRY Symm
INVARIANTS NoDoubleCharge BonusNotOverdrawn PaymentsExact
PROPERTIES ActsLikeLedger SubscriptionAdvances
CHECK_DEADLOCK FALSE
