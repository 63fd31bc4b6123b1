SPECIFICATION ServerSpec
CONSTANTS
    None = None
    Absent = Absent
    NApps = 1
    Count = 2
    MaxForks = 5
    Total = 3
INVARIANT PoolHeld
INVARIANT SettingsAsExpress
INVARIANT HeadIsTrue
INVARIANT OneHandshake
PROPERTY ViewIsAsked
PROPERTY CarriedToItsEnd
CHECK_DEADLOCK FALSE
