SPECIFICATION TunnelMCSpec
CONSTANTS
    Gateways = {g1, g2}
    Conns = {c1, c2}
    None = None
    DeadPid = DeadPid
    Follow = TRUE
    HandshakeLoss = FALSE
    RevokePaths = {"user", "admin", "cli"}
    MaxFaults = 2
INVARIANTS RegistryMatchesTunnels RejectedOnlyIfRevoked StoppedLeavesNothing
PROPERTIES ReconnectRefused HolderConnects TakeoverSettles
CHECK_DEADLOCK FALSE
