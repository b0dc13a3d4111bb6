\* A device token that may be stale, two requests; the gateway falls or hangs twice, two answers come late.
SPECIFICATION FairSpec
CONSTANTS
    Requests = {r1, r2}
    HasToken = FALSE
    Sockets = 3
    MaxFaults = 2
    MaxStalls = 2
INVARIANTS NothingOfTheLastLink
PROPERTIES RequestsEnd LinkComesBack
CHECK_DEADLOCK FALSE
