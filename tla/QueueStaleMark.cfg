\* A cancellation mark that outlives the install it was made for.
SPECIFICATION Spec
CONSTANTS
    Slugs = {a}
    MaxConcurrency = 2
    MaxRetries = 2
    MaxItems = 2
INVARIANTS OnlyCancelledIsRemoved
CHECK_DEADLOCK FALSE
