CONSTANTS
    Req = {1, 2}
    Mgr = {d, c}
    Cli = {c}
    Root = {c}
    Pid <- Pids
    LogMax = 1
SPECIFICATION FairSpec
INVARIANTS MihomoInPidFile OneMihomo StartedMeansReady StartingMeansInFlight
PROPERTY EveryTUNRequestAnswered
CHECK_DEADLOCK FALSE
