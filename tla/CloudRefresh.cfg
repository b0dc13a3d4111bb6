\* A refresh reads the session, the user disconnects, and the refresh writes it back.
SPECIFICATION Spec
CONSTANTS
    Default = dflt
    Profiles = {dflt}
    CloudModels = {link}
    Links = {link}
    Own = {own}
    Requests = {r1}
    Tick = tick
    Serial = FALSE
    Named = TRUE
    DropsActive = FALSE
    MaxProfiles = 1
    MaxLogins = 1
    MaxAttempts = 1
    MaxRestarts = 0
INVARIANTS LoggedOutStaysOut
CHECK_DEADLOCK FALSE
