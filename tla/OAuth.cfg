\* Two logins, a disconnect whenever it is offered, a second agent.
SPECIFICATION OAuthFairSpec
CONSTANTS
    main = main
    helper = helper
    Order <- MainThenHelper
    First = {main}
    MaxFlows = 2
INVARIANTS PortIsOurs QuietProfilesAgree
PROPERTIES PageStopsWaiting
CHECK_DEADLOCK FALSE
