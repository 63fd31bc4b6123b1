SPECIFICATION ServerSpec
CONSTANTS
    None = None
    Absent = Absent
    NApps = 1
    Count = 2
    MaxForks = 5
    Total = 3
INVARIANT TrustIsInherited
CHECK_DEADLOCK FALSE
