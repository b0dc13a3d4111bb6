\* What a check of the timer shows (counterexample).
SPECIFICATION Spec
CONSTANTS
    MaxVersion = 2
    MaxFails = 2
    MaxRestarts = 1
PROPERTIES UnaskedIsSilent
CHECK_DEADLOCK FALSE
