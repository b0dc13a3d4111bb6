\* Bootstrap times out waiting for a gateway that does not come up.
SPECIFICATION FairSpec
CONSTANTS
    Requests = {}
    HasToken = TRUE
    Sockets = 2
    MaxFaults = 0
    MaxStalls = 0
PROPERTIES FailedBootExits
CHECK_DEADLOCK FALSE
