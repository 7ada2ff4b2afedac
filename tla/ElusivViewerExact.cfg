SPECIFICATION Spec
CONSTANTS
    Tokens <- BothTokens
    All = All
    Nobody = Nobody
    Kinds <- AllKinds
    PoolChange <- ChangeOf
    PageSize = 2
    BatchSize = 2
    Span = 1
    MaxTime = 2
    MaxSigs = 3
    MaxFailed = 1
INVARIANT CountExact
