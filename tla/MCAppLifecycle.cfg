SPECIFICATION FairSpec
CONSTANTS
    Null = Null
    Responses = {r1, r2}
    Connections = {c1, c2}
    MaxListens = 2
    MaxCloses = 2
    Ends = {"end", "quiet", "error", "abort"}
INVARIANT PointersMirror
INVARIANT WalkFindsServing
INVARIANT NoneKilled
PROPERTY OkMeansQuiet
PROPERTY CloseAnswers
CHECK_DEADLOCK FALSE
