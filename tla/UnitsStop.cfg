\* A unit may be started by hand while the restart after its crash is armed.
SPECIFICATION Spec
CONSTANTS
    controller = controller
    web = web
    Order <- BothUnits
    Dependents <- WebDependsOnController
    Requests = {r1, r2}
    MaxConsecutiveRestarts = 1
    MaxProcesses = 4
    MaxCrashes = 2
    MaxRequests = 3
PROPERTIES StopHolds
CHECK_DEADLOCK FALSE
