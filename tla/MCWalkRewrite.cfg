SPECIFICATION FairSpec
CONSTANTS
    Segment = {"a", "b"}
    Router = {"top", "sub", "nested"}
    App = {"top", "sub"}
    Top = "top"
    Handler <- Handlers
    RewriteTo <- Rewritten
    Cases <- RewriteCases
    May <- Assigns
    None = None
INVARIANT AsExpress
CHECK_DEADLOCK FALSE
