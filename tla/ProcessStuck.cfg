\* A child that hangs is restarted by hand.
SPECIFICATION FairSpec
CONSTANTS
    Callers = {a, b}
    Scans = {TRUE}
    MaxConsecutive = 1
    MaxProcesses = 4
    MaxFailures = 1
    MaxHangs = 1
    MaxHandovers = 0
    MaxWatches = 1
PROPERTIES RestartReplaces
CHECK_DEADLOCK FALSE
