SPECIFICATION MachineSpec
CONSTANTS
    Pids = {p1, p2}
    None = None
    Inodes = {i1, i2}
    FileSystems = {"link", "wx"}
    Gates = {"narrow"}
    Successors = {"other"}
    MaxCrashes = 2
    HeartbeatMs = 3
    PongTimeoutMs = 7
    Delay = 3
    Hubs = {h1, h2}
    Home = h1
    LastDay = 1
    MaxBytes = 3
    MaxFlushes = 3
    MaxRestarts = 2
    Marks = {2}
    Cells = {9, 82}
    MaxPayload = 2
    MaxFrames = 2
    MaxBad = 1
    MaxLinks = 2
INVARIANTS  SilenceNoticed HalfOpenEnds LiveLinkKept FramesArrive
PROPERTIES LockHandedOn ReportsRight EndsClean
CHECK_DEADLOCK FALSE
