SPECIFICATION Spec
CONSTANTS
    Ids = {"golang"}
    Configs <- MCConfigs
    Specs <- MCSpecs
    Caches = {"none"}
    MaxCalls = 2
INVARIANT SessionLoadedOnce
