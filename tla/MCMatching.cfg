SPECIFICATION Spec
CONSTANTS
    None = None
    Bad = Bad
    MaxTokens = 4
    PathLength = 3
    MaxRoutes = 2
    MaxVisits = 3
    MaxStack = 3
    Explored = {"pattern", "scan", "params", "route", "end", "trace"}
INVARIANT PatternsAsExpress
INVARIANT OverlapIsSeen
INVARIANT IndexAsLoop
INVARIANT ParamsAreThoseOfTheMounts
INVARIANT TracedAsRun
PROPERTY RouterAnswers
CHECK_DEADLOCK FALSE
