SPECIFICATION Spec
CONSTANTS
    Tokens = {t1, t2}
    TopUps = {3}
    Sends = {1}
    TxFee = 1
    SendArity = 2
    BatchSize = 2
    RefreshSize = 2
    MaxMissed = 1
    MaxTxs = 4
SYMMETRY Symmetry
INVARIANTS HistoryExact MetadataExact BeforeSendExact ActivatesFromStart
CHECK_DEADLOCK FALSE
