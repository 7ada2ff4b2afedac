SPECIFICATION FairSpec
CONSTANTS
    Clients = {c1}
    Tokens = {lamports, usdc}
    SendArity = 2
    FindSigCount = 5
    BatchSize = 1
    Failures <- AllFailures
    Careful = TRUE
    MaxSent = 7
    MaxRestart = 2
    NoTx = NoTx
INVARIANTS TypeOK ActiveAreUnspent ReadyWhenResolved AcceptedHasLanded
PROPERTIES KeepsAccount OperationsEnd SentResolves
CHECK_DEADLOCK FALSE
