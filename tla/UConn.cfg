SPECIFICATION Spec
CONSTANTS
    Ids = {"golang", "preset", "custom"}
    Configs <- MCConfigs
    Specs <- MCSpecs
    Caches = {"nil", "none", "cached12", "cached13"}
    MaxCalls = 5
INVARIANTS SentHelloConsistent OnlyHandshakeAltersPsk
PROPERTIES LockedSessionStable
