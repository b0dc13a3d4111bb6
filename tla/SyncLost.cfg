\* Two calls within one debounce window.
SPECIFICATION FairSpec
CONSTANTS
    Callers = {a, b}
    Values = {0, 1}
    NoSkills = 0
    Managed = TRUE
    Overlap = FALSE
    LateCalls = FALSE
    Faults = {}
    MaxFaults = 0
    MaxDrops = 0
PROPERTIES EveryCallIsAnswered
CHECK_DEADLOCK FALSE
