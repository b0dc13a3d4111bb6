\* Two versions, two failures, a crash; checks of the timer and of the user.
SPECIFICATION FairSpec
CONSTANTS
    MaxVersion = 2
    MaxFails = 2
    MaxRestarts = 1
INVARIANTS ReadyIsTheInstaller
PROPERTIES WaitEnds UpdateArrives
CHECK_DEADLOCK FALSE
