\* Two update() calls and a read that may overlap, restarts, a failed write and
\* a document damaged from outside.
SPECIFICATION MCSpec
CONSTANTS
    Updates = {u1, u2}
    Reads = {r1}
    Absent = {absent}
    Torn = {torn}
    NoDoc = {nodoc}
    MaxCrashes = 2
    MaxFaults = 2
    MaxBreaks = 1
INVARIANTS AloneSurvive AloneBackupCovers AloneCacheMatches
PROPERTIES AckIsDurable DurableSpec EveryCallSettles
CHECK_DEADLOCK FALSE
