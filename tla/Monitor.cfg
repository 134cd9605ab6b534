CONSTANTS
    s1 = s1
    s2 = s2
    s3 = s3
    s4 = s4
    Sessions <- MCSessions
    SessionConn <- MCSessionConn
    SessionKeys <- MCSessionKeys
    Configs <- MCConfigs
    Wirings <- MCWirings
    MaxRestarts = 1
SPECIFICATION FairSpec
INVARIANTS
    TypeOK
    AtMostOneSignal
    SignalledIsRemembered
    PolicyProtects
PROPERTIES
    UnrecognizedIsTerminated
