SPECIFICATION FairSpec
CONSTANTS
    Workers = {w1, w2}
    None = None
    Requests = {r1}
    Relays = {h1}
    Voices = {v1}
    Recharges = {p1}
    Refunds = {}
    Periods = {q1}
    Ops = {"reserve", "settle", "relay", "voice", "renew", "clear", "post"}
    MaxHold = 1
    MaxUnits = 1
    Payment = 1
    Bonus = 1
    StartPurchased = 1
    StartCarried = 0
    StartCurrent = 1
    Overdraft = 1
INVARIANTS Books
 
