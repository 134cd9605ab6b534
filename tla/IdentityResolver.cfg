CONSTANTS
    s1 = s1
    s2 = s2
    Sessions <- MCSessions
    SessionConn <- MCSessionConn
    TicksPerSecond = 2
    Window = 3
    MaxTime = 7
SPECIFICATION Spec
INVARIANTS
    TypeOK
    IdentityIsOwn
    KnownStaysKnown
    FoundAfterASecond
