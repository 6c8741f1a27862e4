SPECIFICATION FairSpec
CONSTANTS
    Op = {o1, o2}
    Conn = {c1, c2}
    Kinds = {"setting", "rules"}
    MaxCrashes = 0
PROPERTY MatchRuleReturns
CHECK_DEADLOCK FALSE
