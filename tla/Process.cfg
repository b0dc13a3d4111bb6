\* Restarts, crashes, a hang and handovers in any order, one restart in a
\* row at most; it may stop with nothing to do.
SPECIFICATION FairSpec
CONSTANTS
    Callers = {a, b}
    Scans = {TRUE, FALSE}
    MaxConsecutive = 1
    MaxProcesses = 9
    MaxFailures = 2
    MaxHangs = 1
    MaxHandovers = 2
    MaxWatches = 2
INVARIANTS OneGateway RestartsStayEnabled
PROPERTIES RestartBringsFresh GatewayComesBack
CHECK_DEADLOCK FALSE
