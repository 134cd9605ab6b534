CONSTANTS
    V4Bits = 4
    V6Bits = 7
    WordBits = 6
    MappedBase = 16
    MaxHostsCap = 4
    PrivateBlocks <- MCPrivateBlocks
    Networks <- MCPrefixes
    MaxHosts = 2
    OSMaxHosts = 1
    Interval = 1
    Listeners <- MCListeners
    Outsiders <- MCOutsiders
    MaxTime = 3
    MaxFlips = 2
SPECIFICATION FairSpec
INVARIANTS
    TypeOK
    ServedIsFresh
    SteadyHostsObserved
    NothingInvented
    OnlyOpenFingerprinted
PROPERTIES
    ProbesSpaced
    EnforcementGoesOn
