\* Syncs that do not overlap; one may fail once its config is written, and calls may
\* come before bootstrap has synced. It stops when every caller is done.
SPECIFICATION FairSpec
CONSTANTS
    Callers = {a, b}
    Values = {0, 1}
    NoSkills = 0
    Managed = TRUE
    Overlap = FALSE
    LateCalls = TRUE
    Faults = {"note", "finish", "nudge"}
    MaxFaults = 1
    MaxDrops = 1
INVARIANTS QuietDiskIsCurrent QuietGatewayIsCurrent
PROPERTIES AnsweredIsOnDisk LatestCallIsAnswered Converges
CHECK_DEADLOCK FALSE
