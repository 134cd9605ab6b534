CONSTANTS
    s1 = s1
    s2 = s2
    s3 = s3
    Sessions <- MCDevice
    SessionConn <- MCSessionConn
    SessionKeys <- MCSessionKeys
    Configs <- MCConfigs
    Wirings <- MCWirings
    MaxRestarts = 0
    TicksPerSecond = 2
    Window = 2
    MaxTime = 3
SPECIFICATION AugurSpec
INVARIANTS
    AuthenticatedSurvives
