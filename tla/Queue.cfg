\* Three skills, two slots, cancels, retries and rate limits.
SPECIFICATION FairSpec
CONSTANTS
    Slugs = {1, 2, 3}
    MaxConcurrency = 2
    MaxRetries = 2
    MaxItems = 3
CONSTRAINT FirstInOrder
INVARIANTS OneRowPerSkill ConcurrencyBound CancelledIsNotRecorded
PROPERTIES NoOvertaking InstallsEnd
CHECK_DEADLOCK FALSE
