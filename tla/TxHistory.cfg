SPECIFICATION FairSpec
CONSTANTS
    Txs <- HistoryTxs
    MaxNonce = 3
    UniqueNonces = TRUE
    BatchSize = 2
    Callers = {c1, c2}
    Requests <- HistoryRequests
    BusyNonce = 1
    AnyToken = AnyToken
    NoCaller = NoCaller
INVARIANTS TypeOK FetchComplete CacheSound
PROPERTIES StatusMonotone CallsReturn
