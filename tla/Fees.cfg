SPECIFICATION Spec
CONSTANTS
    Base = 8
    InputBytes = 3
    AddMixedCost = 2
    AddCost = 3
    MaxCUs = 10
    BatchTxCounts <- TxCounts
    BaseTxPerHash = 2
    Governors <- TwoGovernors
    Tokens = {"LAMPORTS", "USDC"}
    Prices = {2, 3}
    Rent = 20
    MinAmount = 2
    Balances = {200, 600}
    ExtraFees = {0, 5}
    TopUps = {30}
    RealInputs <- Proofs
    MaxCommIndex = 63
    SendArity = 3
    MaxChanges = 2
    MaxBatch = 6
INVARIANTS PaysForItself WithdrawsAll RefusedOnlyIfChanged MergesEstimated
CHECK_DEADLOCK FALSE
