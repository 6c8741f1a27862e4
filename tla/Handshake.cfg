SPECIFICATION Spec
CONSTANTS
    ClientConfigs <- MCClientConfigs
    ServerConfigs <- MCServerConfigs
    MaxAttempts = 3
    MaxBreaks = 1
    None = None
INVARIANTS
    PeersAuthenticated
    RetryRecovers
PROPERTIES
    Refines
    HandshakesEnd
CHECK_DEADLOCK FALSE
