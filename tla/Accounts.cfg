SPECIFICATION IdentitiesSpec
CONSTANTS
  Users <- MCUsers
  Tokens <- MCTokens
  LockThreshold = 2
  Reqs = {r1, r2}
  MaxTickets = 2
  MaxCodes = 1
  MaxCodeAttempts = 1
  MaxFails = 2
  Scenarios <- MCScenarios
  InitUsers <- MCInitUsers
  InitJwts <- MCInitJwts
 
PROPERTIES  CacheConverges
CHECK_DEADLOCK FALSE
