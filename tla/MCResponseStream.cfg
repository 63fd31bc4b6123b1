SPECIFICATION FairSpec
CONSTANTS
    MaxWrites = 4
    MaxEnds = 1
    MaxSize = 2
    CoalesceBelow = 2
    CoalesceLimit = 3
    HighWaterMark = 2
    Lengths = {0, 3, 4}
    Bodies = {TRUE}
    Calls = {"end", "destroy", "error", "socketClose", "abort"}
INVARIANT NothingLost
PROPERTY UwsUntouchedWhenOver
PROPERTY DeliverySpec
PROPERTY CallersHear
CHECK_DEADLOCK FALSE
