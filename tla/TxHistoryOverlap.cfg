SPECIFICATION Spec
CONSTANTS
    Txs <- OverlapTxs
    MaxNonce = 2
    UniqueNonces = TRUE
    BatchSize = 1
    Callers = {c1, c2}
    Requests <- OverlapRequests
    BusyNonce = 2
    AnyToken = AnyToken
    NoCaller = NoCaller
INVARIANTS FetchComplete
