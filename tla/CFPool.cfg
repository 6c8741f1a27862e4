SPECIFICATION FairPoolSpec
CONSTANTS
    IP = {a1, a2}
    Job = {j1, j2}
    Measured = {1}
    Penalty = 1
    Concurrency = 1
    MaxFailures = 3
    MaxLatency = 2
    MaxRebuilds = 1
INVARIANTS
    PoolTypeOK
    ServedEligible
    TopIPsFastest
    SuspectUnderCheck
PROPERTIES
    StaleEntryLeaves
    SuspectResolved
