SPECIFICATION Spec
CONSTANTS
    Sources = {"relay"}
    Flushes = {f1}
    LastDay = 1
    MaxBytes = 2
    MaxReport = 1
    MaxErrors = 0
    CalmMidnight = FALSE
INVARIANTS NothingLost
