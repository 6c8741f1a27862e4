SPECIFICATION FairSpec
CONSTANTS
    Conn <- TwoConns
    Traffic <- TwoKinds
    MaxCandidates = 2
    MaxKey = 2
CHECK_DEADLOCK FALSE
INVARIANTS
    TypeOK
    NothingLeftOpen
    RetryUsesRefreshed
    RetryNeverInClear
    LosersReported
PROPERTIES
    EveryHandlerSettles
