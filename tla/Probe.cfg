CONSTANTS
    V4Bits = 4
    V6Bits = 7
    WordBits = 6
    MappedBase = 16
    MaxHostsCap = 4
    PrivateBlocks <- MCPrivateBlocks
    Configs <- MCConfigs
    LocalSets <- MCLocalSets
    Entries <- MCEntries
SPECIFICATION CaseSpec
INVARIANTS
    TargetsExact
    LimitsAgree
    OnlyPrivateProbed
    OnlyLocalProbed
    OpenHostsObserved
    NewestMac
