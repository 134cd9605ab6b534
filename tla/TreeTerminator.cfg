CONSTANTS
    root = root
    a = a
    b = b
    c = c
    d = d
    PidMaps <- MCPidMaps
    SessionProcs <- MCSessionProcs
    Root = root
SPECIFICATION FairSpec
INVARIANTS
    NoPidTwice
    RootLast
    RootSignalHitsSession
    OnlyTreeSignalled
    NoOrphanLeft
PROPERTIES
    AlwaysReturns
