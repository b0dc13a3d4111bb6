\* Two units, one stopped before the other.
SPECIFICATION FairSpec
CONSTANTS
    controller = controller
    web = web
    Order <- BothUnits
    Dependents <- WebDependsOnController
    Requests = {r1, r2}
    MaxConsecutiveRestarts = 1
    MaxProcesses = 4
    MaxCrashes = 2
    MaxRequests = 3
INVARIANTS EveryProcessIsHeld RunningIsAlive
PROPERTIES RequestsReturn
CHECK_DEADLOCK FALSE
