\* The watcher records what an import has yet to install: OneSharedRow is violated.
SPECIFICATION HubSpec
CONSTANTS
    Slugs = {a, b}
    MaxConcurrency = 1
    MaxRetries = 2
    MaxItems = 1
    Curated = {a}
    Bundled = {b}
    Personal = {}
    MaxEvents = 1
INVARIANTS OneSharedRow
CHECK_DEADLOCK FALSE
