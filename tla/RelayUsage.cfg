SPECIFICATION FairSpec
CONSTANTS
    Sources = {"relay", "gateway"}
    Flushes = {f1, f2}
    LastDay = 1
    MaxBytes = 2
    MaxErrors = 1
    MaxReport = 1
    CalmMidnight = TRUE
PROPERTIES UsageKept
