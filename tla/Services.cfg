SPECIFICATION ServicesSpec
CONSTANTS
  Slots = {c1, c2}
  Codes = {k1, Off}
  Off = Off
  Down = Down
  MaxCalls = 2
  MaxEnds = 1
  People = {u1}
  Secrets = {s1, s2}
  Nobody = Nobody
  Visits = {a1, a2}
  Admins = {b1, b2}
  MaxFails = 2
  MaxChanges = 2
  MaxLogins = 3
  Fetches = {a1, a2}
  MaxChannels = 2
  Parts = 1
  MaxAborts = 1
  Serial = TRUE
  Tabs = {a1, a2}
  Calls = {b1, b2}
  MaxTokens = 4
  MaxExpiries = 2
  MaxMishaps = 1
  Rows = {r1, r2}
  Processes = {p1, p2}
  Free = Free
  MaxDeaths = 3
  RouterIds = {r1, r2}
  UpstreamKeys = {k1, k2}
  RouterCalls = {a1, a2}
  Orders = {b1, b2}
  Absent = Absent
  MaxOrders = 3
  MaxHubCrashes = 1
  Filters = {r1, r2}
  MaxTurns = 2
  MaxAsked = 2
  MaxActing = 1
  MaxWrites = 2
  MaxEvents = 2
  Purchases = {a1, a2}
  MaxGrowth = 1
  Sessions = {a1, a2}
  Polls = {b1, b2}
  MaxErrors = 1
SYMMETRY Symm
INVARIANTS    LoginOnlyWhenEnded
  UpgradeKeepsAll RetiredOut TableShown PaidIsPaid ScanEndsWell
CHECK_DEADLOCK FALSE
