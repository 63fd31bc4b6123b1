SPECIFICATION AnswersFairSpec
CONSTANTS
    None = None
    Explored = {"response", "compiled", "lite", "utils", "routes"}
    Requests <- MCRequests
    Codes = {200, 204, 404}
    Names = {"x-a", "etag"}
    ContentTypes <- MCTypes
    BodySizes = {2, 3}
    MaxCalls = 3
    MaxPieces = 2
    MaxMoves = 3
    Uses <- MCUses
    MaxRoutes = 1
    MaxMounts = 1
INVARIANT AnswerFits
INVARIANT HeadSaysAsGet
INVARIANT CompiledAsRun
INVARIANT UwsAnsweredOnce
INVARIANT ToldOnce
PROPERTY AnswersArrive
CHECK_DEADLOCK FALSE
