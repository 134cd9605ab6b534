CONSTANTS
    s1 = s1
    s2 = s2
    s3 = s3
    Sessions <- MCSessions
    SessionConn <- MCSessionConn
    SessionKeys <- MCSessionKeys
    Configs <- MCConfigs
    Wirings <- MCWirings
    MaxRestarts = 1
    TicksPerSecond = 2
    Window = 1
    MaxTime = 3
SPECIFICATION AugurSpec
INVARIANTS
    RecognisedKilledOnlyFor
PROPERTIES
    ImplementsMonitor
