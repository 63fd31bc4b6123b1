SPECIFICATION FairSpec
CONSTANTS
    Segment = {"a", "b"}
    Router = {"top", "sub", "nested"}
    App = {"top", "sub"}
    Top = "top"
    Handler <- Handlers
    RewriteTo <- Rewritten
    Cases <- MCCases
    May <- MCMay
    None = None
INVARIANT AsExpress
INVARIANT PathGivenBack
PROPERTY RequestEnds
CHECK_DEADLOCK FALSE
