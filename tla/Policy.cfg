CONSTANTS
    Configs <- MCConfigs
    Connections <- MCConnections
    KeySets <- MCKeySets
SPECIFICATION CaseSpec
INVARIANTS
    FormIrrelevant
    RestrictionNarrows
