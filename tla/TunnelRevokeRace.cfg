SPECIFICATION FairSpec
CONSTANTS
    Gateways = {g1}
    Conns = {c1, c2}
    None = None
    DeadPid = DeadPid
    Follow = TRUE
    HandshakeLoss = FALSE
    RevokePaths = {"user"}
    MaxFaults = 0
PROPERTIES RevokeDropsTunnel
CHECK_DEADLOCK FALSE
