SPECIFICATION FairSpec
CONSTANTS
    Reqs = {r1, r2}
    None = None
    Kinds = {"http", "raw"}
    MaxTunnels = 1
    MaxQueue = 1
PROPERTIES AnswerArrives
CHECK_DEADLOCK FALSE
