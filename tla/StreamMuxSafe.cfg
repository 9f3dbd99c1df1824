SPECIFICATION Spec
CONSTANTS
    Reqs = {r1, r2}
    None = None
    Kinds = {"http", "post", "ws"}
    MaxTunnels = 2
    MaxQueue = 1
SYMMETRY Symm
INVARIANTS UpstreamIffWanted NoCrossTalk FailureIsAnError
CHECK_DEADLOCK FALSE
