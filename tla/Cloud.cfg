\* One request at a time beside the login loops; two profiles, two logins.
SPECIFICATION FairSpec
CONSTANTS
    Default = dflt
    Profiles = {dflt, work, home}
    CloudModels = {link}
    Links = {link}
    Own = {own}
    Requests = {r1}
    Tick = tick
    Serial = TRUE
    Named = TRUE
    DropsActive = FALSE
    MaxProfiles = 2
    MaxLogins = 2
    MaxAttempts = 1
    MaxRestarts = 1
INVARIANTS KeyAtHome LoggedOutStaysOut QuietModelIsOffered
PROPERTIES LoopNeverLogsOut LoginEnds
CHECK_DEADLOCK FALSE
