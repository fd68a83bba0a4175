SPECIFICATION MCSpec
CONSTANTS
    Conns = {c1, c2, c3}
    Names <- MCNames
    ConfiguredId <- MCConfiguredId
    DynamicIds <- MCDynamicIds
    Unset = 0
    Peers <- MCPeers
    NoIp = "none"
    None = None
    MayStop = TRUE
    MayBlock = FALSE
SYMMETRY Symmetry
INVARIANTS OneApplicationPerId PendingHasPredecessor RegisteredIsKnown
PROPERTY RemovesTheFailed
\* Every connection is used once, and stop() may have ended everything.
CHECK_DEADLOCK FALSE
