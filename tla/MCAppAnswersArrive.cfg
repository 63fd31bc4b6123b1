SPECIFICATION Spec
CONSTANTS
    Null = Null
    Responses = {r1, r2}
    Connections = {c1, c2}
    MaxListens = 2
    MaxCloses = 2
    Ends = {"end"}
INVARIANT AnswersArrive
CHECK_DEADLOCK FALSE
