SPECIFICATION FairSpec
CONSTANTS
    Op = {o1, o2}
    Conn = {c1}
    Kinds = {"setting", "config", "rules", "import"}
    MaxCrashes = 1
INVARIANTS
    RulesFileKeepsAnswered
    RulesFileNeverMixed
PROPERTIES
    EveryRequestAnswered
CHECK_DEADLOCK FALSE
