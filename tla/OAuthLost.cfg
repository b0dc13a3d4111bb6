\* A login whose page heard of an earlier one is not recorded.
SPECIFICATION OAuthFairSpec
CONSTANTS
    main = main
    helper = helper
    Order <- MainThenHelper
    First = {main}
    MaxFlows = 2

PROPERTIES LoginIsRecorded
CHECK_DEADLOCK FALSE
