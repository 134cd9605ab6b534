CONSTANTS
    Hosts = {h1, h2}
    Ports = {p1, p2}
    Concurrencies = {0, 3}
SPECIFICATION FairSpec
INVARIANTS
    TypeOK
    CompleteOnSuccess
    NoSendOnClosed
    ReturnIsQuiet
PROPERTIES
    AllGoroutinesEnd
    ImplementsScanResult
