\* A cancelled install deletes the copy the user has: CancelSparesPersonal is violated.
SPECIFICATION HubSpec
CONSTANTS
    Slugs = {a, b}
    MaxConcurrency = 1
    MaxRetries = 2
    MaxItems = 1
    Curated = {a}
    Bundled = {b}
    Personal = {a}
    MaxEvents = 1
PROPERTIES CancelSparesPersonal
CHECK_DEADLOCK FALSE
