SPECIFICATION Spec
CONSTANTS
    ClientConfigs <- MCClientConfigs
    ServerConfigs <- MCServerConfigs
    MaxAttempts = 1
    MaxBreaks = 0
    None = None
INVARIANTS
    EchSurvivesRetry
CHECK_DEADLOCK FALSE
