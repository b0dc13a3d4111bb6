\* A curated skill and a bundled one; a second install, or one import, restart or
\* change from outside.
SPECIFICATION HubSpec
CONSTANTS
    Slugs = {a, b}
    MaxConcurrency = 1
    MaxRetries = 2
    MaxItems = 2
    Curated = {a}
    Bundled = {b}
    Personal = {}
    MaxEvents = 1
CONSTRAINT SecondInstall
INVARIANTS QuietLedgerMatchesDisk RemovedStaysRemoved QuietSyncSawTheLedger
CHECK_DEADLOCK FALSE
