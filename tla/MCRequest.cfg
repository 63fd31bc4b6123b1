SPECIFICATION PartsSpec
CONSTANTS
    None = None
    Transports = {"uws", "shim"}
    Requests <- MCBodies
    Programs <- MCPrograms
    HighWaterMark = 2
    Expansion = 2
INVARIANT HeadReadsAsNode
INVARIANT QueryIsMeant
INVARIANT BodyWhole
INVARIANT FormIsRead
PROPERTY PeerIsKnown
PROPERTY ReadersHear
CHECK_DEADLOCK FALSE
