SPECIFICATION Spec
CONSTANTS
    HostLens <- MCHostLens
    Coins <- MCCoins
    KeptSuites <- MCKeptSuites
    CustomSpecs <- MCCustomSpecs
    MaxSwaps = 1
INVARIANTS HelloWellFormed PaddedLength RoundTrip
