# Verification of the Elusiv SDK

TLA+ specifications of the client library in `src/src` (TypeScript): the part
of Elusiv that runs with the user, keeps the history of a private account,
finds its commitments in the on-chain Merkle tree, and builds and sends
transactions. TLC checks the specifications on small instances; TLAPS proves
theorems about them for every instance.

## The system

| Component | State | Operations | Talks to |
|---|---|---|---|
| `txManagers` (`TransactionManager` < `IdentifierTxFetcher` < `AbstractTxManager` < `TransactionCacher`) | `fetchedTxs`, a list of transactions per nonce, shared by all calls of an instance | `fetchTxs`, `getTxs`, `getMostRecentTx`, `getActiveTxs`, `getPrivateBalance*` | Solana RPC; called by the client, the viewer and `CommitmentManager`, several calls at a time |
| `StorageAccountReader`, `TreeChunkAccountReader`, `TreeManager`, `IndexConverter` | none between calls; the searches of one call share the chunks they read | `findCommitmentIndicesFromStartIndex`, `getCommitmentsAtLocalIndices`, `getRoot`, `hasCommitment`, `getCommitmentsInfo` | Solana RPC, while the on-chain program inserts commitments |
| `CommitmentManager` | none; a timer per `awaitCommitmentInsertion` | `getActiveCommitments`, `needMerge`, `isTransactionConfirmed`, `awaitCommitmentInsertion`, reconstruction of commitments | both of the above |
| `Elusiv` with `RemoteParamFetching` and `TransactionBuilding` | cached fee calculator and rent | `buildTopUpTx` (with the merge before it), `buildSendTx`, `buildWithdrawTx`, `sendElusivTx`, `sendElusivTxWithTracking`, fee estimates | all of the above, the warden |
| `TransactionSender`, `WardenCommunicator` | none | one HTTP request per transaction | the warden |
| `ElusivViewer`, `ViewingKey` | none | status, balance, statistics | `txManagers`, `CommitmentManager` |
| `paramManagers/fee` | none | fee formulas | Solana RPC |
| `clientCrypto`, `instructions`, `serializedTypes`, `wardenSerialization`, `tokenTypes`, `utils` | none | functions | |

Outside the repository, and modelled only as far as the code depends on them:
the on-chain program, the Solana cluster and its RPC nodes, the warden, the
proof circuits.

A transaction of the private account has a nonce. Its identifier key, derived
from the nonce, is an account of the Solana transactions it consists of: one
for a top-up, two for a send (the initialisation of the proof verification and
the finalisation). The client finds its history by asking for the signatures
at the identifier keys 0, 1, 2, ... Every transaction ends with a commitment
inserted in the Merkle tree at some index at or after the one the tree had
reached when the transaction was built, its start index.

What is hard:

- Calls overlap. JavaScript runs one task at a time, but each `await` lets
  others run, and `RemoteParamFetching` starts several calls that fill the same
  cache on purpose. State read before an `await` is used after it.
- Answers of the node come in any order, some fail (`Promise.all` fails the
  call, while its other requests still come back), and transactions are visible
  before they are finalized.
- A nonce may be used twice, by two devices or after a stale answer, and the
  cache never asks again for a nonce of which it holds one transaction.
- The tree grows while it is read, one account at a time.
- A transaction is confirmed only when its commitment is in the tree; the
  client polls for that, and a warden may fail after it did the work.

What makes each component correct:

- History: a call leaves out no transaction that was settled before it began;
  nothing is cached that the chain could take back; statuses only advance;
  every call returns.
- Search: a commitment in the tree is found; the skips of the search pass over
  nothing; every search ends.
- Client: unique nonces for a client that waits; at most `SEND_ARITY` active
  commitments; a send that failed is not taken for one that went through; a
  promise settles once, and polling ends.
- Balance: computed from the history or from metadata, it is what was unspent at
  some moment of the call; where the cache has missed a transaction it is not.
- Opening: read of one state of the tree, it leads from the commitment to the
  root; if the tree grows meanwhile, only what comes after the commitment can be
  of another state.
- Responses: whatever has landed at an identifier, each transaction is told
  once, and a send with its own finalisation.
- Fees: the fee of a send pays for what the fee itself brings about; a
  withdrawal overdraws nothing, leaves what arrived meanwhile and at most what
  was kept for the fee, and is refused only if something changed.
- Viewer: a statistic covers each transaction of its window once, everything
  that was final when it was asked for included, and ends.

## Plan

In the order of importance, with the specifications and theorems worth stating:

1. `TxHistory` (done, with `TxHistoryProofs`).
2. `CommitmentSearch` (done), composed with the reading of openings in
   `CommitmentInfo` (done), which implements it (`CommitmentInfoProofs`, about
   both).
3. `ElusivClient` (done, with `ElusivClientProofs`): choice of the nonce, active
   commitments, merge, send, recovery from "fetch failed", on an abstract
   history (what `TxHistory` promises) and an abstract tree. Implements
   `Account`, a ledger with one transaction per nonce.
4. `CommitmentAwait` (done, with `CommitmentAwaitProofs`): the polling of
   `awaitCommitmentInsertion` with its interval, overlapping checks, timeout.
   Implements `Awaited`, a promise that settles once.
5. `PrivateBalance` (done, with `PrivateBalanceProofs`): both balance computations
   and the activation of commitments over a history with shared nonces, read
   through the cache of an instance, against a reference definition.
6. `Responses` (done, with `ResponsesProofs`): which initialisation belongs to
   which finalisation, and what a viewing key shows.
7. `Fees` (done, with `FeesProofs`): the fee formulas as operators, the estimate
   of a withdrawal and its build on a state that has changed.
8. `ElusivViewer` (done, with `ElusivViewerProofs`).

What is left is told under "Not modelled"; of the theorems, that
`ActivatesFromStart` holds for every length of the history.

## The modules

### TxHistory

Models `TransactionManager.fetchTxs` and all it calls, down to the RPC.

| Variable | Code |
|---|---|
| `chain`, `final` | what the node knows, in the order it landed, and how much of it is finalized (external) |
| `cache` | `fetchedTxs` of `TransactionCacher`, with the `transactionStatus` of each cached transaction |
| `running` | the call whose task the event loop runs; answers are delivered between tasks only |
| `pc`, `before`, `after`, `cursor`, `acc`, `result` | where each call stands and its locals |
| `inflight` | the batches (`fetchAndCacheTxsInRange`) the node has yet to answer, each nonce on its own |
| `call` | the arguments, and (history variable) what was settled when the call began |

Actions are the stretches of code between two awaits, or shorter: `FetchTxs`
(start of the call), `GetTxs`, `RefreshMore` (one round of
`getLatestTransactionsIntoCache`), `PrepareTxFetchingParams`,
`FetchTxsIntoCache`, `Collect` (the end of `getTxs` and of a turn of the
`fetchTxs` loop), `Return`; and the node's `SignaturesAnswer`, `ParsedAnswer`
and `NodeError`. A batch whose call has failed has the owner `NoCaller` and is
still cached when it comes back, perhaps during the next call; two such batches
that ask for the same are one. `Land`, `LandFinalize` and `Finalize` are the
chain: without `UniqueNonces` a transaction may land with a nonce that is in
use.

Abstracted: amounts, keys and contents of a transaction; the element of `Txs`
stands for the pair of nonce and commitment hash by which the cache tells
transactions apart. Transactions that fail to parse are not modelled.

Properties: `FetchComplete` relates the result of a call to what was settled
when it began; `CacheSound` relates the cache to what is finalized;
`StatusMonotone` is an action property; `CallsReturn` is liveness.

### CommitmentSearch

Models `StorageAccountReader.findCommitmentIndicesFromStartIndex`, the searches
it runs in parallel, one for each chunk with a start index, `TreeManager`'s
`getCommitmentIndices` and `hasCommitment`, and the index arithmetic of
`IndexConverter`. `tree` holds the leaves; `Insert` is the on-chain program.
`NextChunk` is the head of the loop over the chunks, with the read of a chunk
as of that moment (`seen`), `FindInChunk` one turn of the loop over its
entries, `NodeError` a failed read. `Sorted` is `Array.prototype.sort` without
a comparator: `SortsBefore` compares indices of up to five digits by their
decimal strings. A chunk has a key once something is stored in it, and may have
one before (`NextChunk` fails or goes on). `present` is a history variable: the
wanted commitments in the tree when the call began. Duplicate commitments in
one call are left out.

### CommitmentInfo

`getCommitmentsInfo`: `CommitmentSearch` and then `TreeManager.getOpenings`,
`getCommitmentsAtLocalIndices` and `getRoot`. `GetOpenings` begins with the
indices of a search that has found everything, and with the chunk keys of that
moment (`stored`); `ReadChunk` is one answer of the node for a chunk that holds
partners (`UniqueAccs`), `ReadRoot` the read of chunk 0 for the root, which is a
second one because the cache of `TreeChunkAccountReader` is keyed by key
objects that are new each time. They come in any order, with insertions in
between, and what is read is what the chunk held then: `read` and `root` keep
the number of leaves there were. `NoChunk` is the exception for a chunk with a
partner that has no key yet, `OpeningNodeError` a failed request.

A node of the tree is the sequence of the leaves below it, so hashing is
concatenation (`Hash`) and a node without leaves is stored as zeros; `Climb` is
what the circuit does with an opening. That the program inserts a leaf and
updates its path in one step is an assumption of the model.

The code compares an opening and the root with nothing; one that is torn is
found out by the proof or the program. `LeftPartnersSettled` says what cannot be
torn, `OpeningVerifies` that what was read of one tree is right, and
`UnreadableAtChunkEnd` when a commitment that is in the tree cannot be spent
for now: the partner of the last entry of a chunk is the first of the next,
which may not exist yet.

### ElusivClient and Account

Models `Elusiv.buildTopUpTx`, `buildSendTx`, `sendElusivTx` and
`sendElusivTxWithTracking` with `fetchTopupRemoteParams` and
`fetchSendRemoteParams`, `CommitmentManager`'s `getActiveCommitments`,
`isTransactionConfirmed` and `needMerge`, and `TransactionManager`'s
`getActiveTxs` and `getMostRecentTx`.

| Variable | Code |
|---|---|
| `ledger`, `visible`, `inserted` | the transactions on chain, how many of them are finalized, how many of their commitments are in the tree (external) |
| `warden` | what a warden has been sent and has not landed or rejected (external) |
| `built` | a counter that tells transactions apart, as their commitments do |
| `op` | where the operation of each client stands, with the remote parameters it has read: `active` and `activeTxs` for the active commitments, `recent` and `recentTx` for the most recent nonce, `lastNonce`, the transaction `tx`, `merging` while the merge before a top-up is tracked, `merge` for the top-up after it |
| `stray` | reads of builds that have failed, which nobody awaits any more but which still fill the cache |
| `fetched` | the newest nonce in the cache of each client's instance; `op.from` is what it was when the build began |

An operation begins with `Build`, which starts two reads: `GetActiveTxs` then
`ActivateCommitments`, and `GetMostRecentTx` then `IsTransactionConfirmed`,
interleaved with each other and with the chain. `BuildTx` makes the transaction
or, if there are `SendArity` active commitments, the merge that comes first and
is sent at once. `Send` or `Drop` is the user. `WardenOk`, `WardenError` and
`FetchFailed` are the outcomes of the request; `Recover` is the double check
after a lost answer. `AwaitCommitmentInsertion`, `FindSig` and `Timeout` are the
tracking; when it has found the merge, `FindSig` builds the top-up. `Fail` ends
an operation wherever the code throws. `Land`, `Reject`, `Finalize` and `Insert`
are the warden, the on-chain program and the cluster.

Constants: `Failures` says what may fail; each behaviour has all of it or
nothing. `Careful` says that after a failure the user waits until nothing is
under way (`Settled`) before beginning again; the code neither checks nor asks
for that, and without it two top-ups may share a nonce. `Clients` are operations
that overlap: the same instance used twice or two devices of one account.
`Restart` is a new instance with an empty cache, after a crash or at the user's
choice; `MaxRestart` bounds the history such an instance may meet.

The reads of the history are abstract. A read on its own tells what is finalized
at one moment, which is what `FetchComplete` says. The two reads of a build
overlap and share the cache (`RemoteParamFetching.ts:71`), and the refresh of
one ends when a batch it would ask for next is all cached by the other
(`AbstractTxManager.ts:199`): then it tells no more than what was cached by
that time (`Told`, `Early`). It never asks first for what the other has cached,
so it ends two batches above where it began at the earliest, which is why an
instance whose cache is not further behind is safe, and why one that begins
anew with a longer history is not: with `BatchSize` 1 and `MaxRestart` 3 TLC finds
two transactions with one nonce. The statuses of cached transactions are left out:
`getActiveTxs` writes `CONFIRMED` to the newest one before the check it stands for
(`TransactionManager.ts:155`), but a build asks the tree and not the status, as
`ActivateCommitments` and `IsTransactionConfirmed` do. Amounts, fees and receivers
are left out, so a send spends all active commitments and returns one
(`PrivateBalance` and `Fees` have the amounts). `AcceptedHasLanded` is about top-ups
and sends without a merge before them; what happens after a merge is told below.

`Account` is the abstract specification: a history of transactions with the
nonces 0, 1, 2, ..., in which a send finds something to spend and a top-up
comes only while there are fewer than `SendArity` commitments. `KeepsAccount` is
the refinement, with the ledger as the history.

### CommitmentAwait and Awaited

Models `awaitCommitmentInsertion`: `Tick` is the interval, which starts a check
whether or not the ones before have come back, `CheckReturns` the end of a
check, in any order, `Insert` the on-chain program. `started` counts ticks and
stands for time; `attempts`, `interval` and `promise` are the code's. A check is
answered truly for some moment between its start and its end; a failed request
counts as not found, as in `hasCommitment`. `Awaited` is the abstract
specification: a promise that settles once and resolves only when the
commitment is in the tree.

### PrivateBalance

Models `getPrivateBalance` with `getPrivateBalanceFromTxHistory` and
`getPrivateBalanceFromMetadata`, `getActiveTxs`, the cache they read through, and
in `CommitmentManager` the reconstruction of commitments with their start indices.

| Variable | Code |
|---|---|
| `ledger` | the history with its amounts (external) |
| `cache` | `fetchedTxs` of the instance, as places in the ledger |
| `call` | the call in progress and its locals: `since`, how much had landed when it began (history variable); `asked`, `next`, `told` of the batch of nonces a refresh has asked for; `lowest`, `total` of the loop over the batches |

`Refresh`, `Tell` and `NextRefresh` are `getLatestTransactionsIntoCache`:
batches of nonces from the newest cached one on, each nonce answered on its own
with what has landed with it by then, until a batch brings nothing. `FillGap` is
`fetchTxsIntoCache`, which asks again for the nonces of which nothing is cached,
and for no other: a transaction that lands with a cached nonce is never told to
this instance. `GetMostRecentTx` is a call that only refreshes.
`GetPrivateBalance` begins a balance, after a refresh unless it is about what is
older than something cached (`NeedsRefresh`); `BatchFromTxHistory` and
`BatchFromMetadata` are one turn of the loops. `TopUp` and `Send` are what
another device lands meanwhile. It may have read its active commitments, the
newest nonce and the start index at three moments, up to `MaxMissed`
transactions ago, so nonces are shared and come in either order from the cache
(`SortsBefore`). The calls of the instance take turns: overlapping ones are in
`TxHistory`.

`Commitment` and `CommitmentForSend` rebuild a commitment from the amount, the
fee and the balance before; the reference is the balance each transaction
really left (`balance`) and what it really spent (`inputs`), from which
`UnspentBalance` follows without a computation of the code. Rent and third-party
fee are one with the amount.

The properties are as strong as the code allows. That the balance is right
whenever nothing lands meanwhile (`HistoryAccurate`) is violated by the run
`balance_shared`: the instance may have missed a transaction for good. The others
are about an instance that has not (`NoneMissed`), and about calls during which
nothing lands with a nonce that is not above all before it (`NoneLate`; before
the call anything may have): a transaction that lands late can come below the
last batch while one that came before it does not, or be asked for before it
has landed. `MetadataExact` and `BeforeSendExact` have the further condition that a
send is `InOrder`: it spent what is older, by its nonce, and that nothing older
had spent, and nothing else. A send that spends a top-up with its own nonce is
not, and the balance has that top-up twice (`TransactionManager.ts:114`). Nor is
one that leaves something older to another: that all that is older is spent by
now does not do. Take three top-ups with the nonces 0, 1 and 1 and two sends with
nonce 2: the first spends the first top-up, as its device had not seen the
others when it read what is active, and the second spends the other two. When
both have landed nothing older than them is unspent, but the balance before
their nonce is not what either of them spent. `ActivatesFromStart` is about an
instance that is up to date. Active transactions may share nonces, but no top-up
that of an active send: the commitments of top-ups are listed before those of
sends, the start indices in the order of the transactions
(`CommitmentManager.ts:42`), and with a wrong start index the search throws. Two
identical commitments, which the cache of transactions takes for one, are left out.

### Responses

Models `ResponseConverter`, the parsing in `TransactionParsing` and
`InstructionParsing` as far as it decides something, and
`getSendTxWithViewingKey`. A transaction is a sequence of instructions, an
instruction its code, whose it is and which verification account it uses; of the
bytes only the format counts, today's or the legacy one (`Parses`). `InitPartners`
and `Pair` find the initialisation of a finalisation, `Convert` is the answer,
`Throws` says when there is none. `chain`, `slot` and `account` are the Solana
transactions of one identifier and the program's verification accounts: a send
is initialised at most once, one initialisation per transaction, an account
belongs to one send at a time and is free again afterwards (external, from how
the code and its tests use them).

A viewing key sees all transactions of its identifier and takes the newest
initialisation and the newest finalisation (`ViewingKey.ts:54`). `ViewedIsOneSend`
says that they are of one send if the sends came one after another
(`OneAfterAnother`). Otherwise they need not be: after initialisation 1,
finalisation 1 and initialisation 2 the amount and the commitment are those of
the second send, owner and recipient those of the first, where the comment has
"the parsed send transaction provided the viewing key is correct"
(`ViewingKey.ts:39`).

### Fees

Models `FeeCalculator`, `FeeUtils`, `FeeManager.getFeeCalculator`, the estimates
of `Elusiv` and `buildWithdrawTx`. The formulas are operators; `InputPreparation`
is the loop that packs the work on the public inputs into transactions,
`SendTotalFee` the fee that counts itself among the inputs. A withdrawal is
three steps: `Withdraw`, `EstimateWithdraw` (with what the instance has cached,
`Calculator`, for ever) and `BuildWithdraw` (with what holds then). In between
`ChangeGovernor`, `MovePrice`, `OpenOrCloseAccount` and `TopUpArrives`. The fee kept
for a withdrawal is counted in hundredths, because the code multiplies by 1.05.

`EstimateTopupFeesBatch` counts the top-ups of each token from zero, whatever
the account holds (`elusiv.ts:404`), and has a merge before each that finds
`SEND_ARITY` of its token counted (`CountTopup`). The client merges on what is
active (`TopUpClient`, after `CommitmentManager.needMerge`), so the estimate is
right for an account that holds nothing, and for any other it may be one or two
merges short: `MergesEstimated` says both. `SubventionBelowCosts` and
`BufferCovers` are what the fee data has to meet; the branch of
`FeeCalculator.ts:152` for a subvention that pays for everything is in the
model, but the data of the run does not reach it.

### ElusivViewer

Models `getElusivSigsLastTime`, `estimateTxsCountLastTime`,
`getTxsCountLastTime` and `getVolumeLastTime`. `sigs` are the transactions of
the fee collector with their block times, whether they failed (`err`) and what
they are, and `final` is how many of them are finalized (external); `fetches`
are the pagings, one for a token or, for LAMPORTS, one for all and one for each
other token, whose signatures are then taken out (`FetchOtherTokens`,
`Fetched`). `Page` is one request with the cutoff and the cursor.
`GetTransactions` asks for a batch of the transactions at commitment "finalized"
and keeps in `told` those that are not null (`elusivViewer.ts:161`); the volume
takes batches, the count all at once, which is the case that nothing becomes
final between them. `Land`, which may land a failed transaction, `Finalize` and
`Tick` go on in between. `PoolChange` says how a transaction moves the pool of a
token, and is a constant: what the program does is not in this repository.
`MCElusivViewer` has a top-up bring two and a send take one. A signature without
a block time, which ends the paging early, is left out.

`FetchExact` is about the signatures. `ReportsWithin` is about what is told of
them: a count or a volume lies between that of the signatures that were final
when the call was made (`since`) and that of all in the window, each once. It
says what the code does: failed transactions are counted like others, and the
other tokens' cutoff is taken later than that of LAMPORTS, so their transactions
that left the window between the two are counted as LAMPORTS (`Wanted`). That
the count is the "*EXACT* amount" (`elusivViewer.ts:149`) is `CountExact`, which
`viewer_exact` violates.

## What the runs check

| Run | Shows | Bounds |
|---|---|---|
| `history` | `TypeOK`, `FetchComplete`, `CacheSound`, `StatusMonotone`, and `CallsReturn` under fairness: two calls at a time, refresh, scan, gaps left by unfinalized transactions, token filter, `before`, failed requests, and batches that come back after their call failed | 4 transactions with the nonces 0 to 3, two tokens and both kinds; 4 transactions wanted of all tokens or 2 of one; batches of 2, so that a scan has two in flight. While calls overlap only the nonces 0 and 1 land (`BusyNonce`), one batch; the rest lands while one call or none is in progress |
| `history_overlap` | a violation of `FetchComplete` by two refreshes at once | nonces 0 to 2, batches of 1 |
| `search` | `TypeOK`, `NeverSkipped`, `SearchComplete`, `OpeningVerifies`, `LeftPartnersSettled`, `UnreadableAtChunkEnd`, and `InfoEnds` under fairness | height 3 in 3 chunks of 7 entries, 2 commitments with start indices in one chunk or two, the tree growing from 3 leaves to 8: leaf 6 is the last entry of a chunk and its partner the first of one that may not exist yet |
| `search_digits` | a violation of `SearchComplete` when start indices in one chunk are 9 and 10 | height 4, chunks of 15 |
| `client` | `TypeOK`, `ActiveAreUnspent`, `ReadyWhenResolved`, `AcceptedHasLanded`, `KeepsAccount`, and `OperationsEnd` and `SentResolves` under fairness, for a lone careful client with every failure or none, a crash included | 2 tokens, `SendArity` 2, 7 transactions: two merges of one token, or one and transactions of the other between them; batches of 1, a new instance with up to 2 transactions |
| `await` | `RejectedAfterTimeout`, `StopsOnlyWhenFound`, `KeepsPromise`, and `PromiseSettles` under fairness | up to 5 checks at once; the timeout passes in the third interval |
| `balance` | `HistoryExact`, `MetadataExact`, `BeforeSendExact`, `ActivatesFromStart`: both balances, read through a cache while transactions with used nonces land | 2 tokens, 4 transactions, one missed while another is built, batches of 2 for the balance and for the refresh, `SendArity` 2 |
| `balance_shared` | a violation of `HistoryAccurate` by a transaction that lands with a cached nonce | the same |
| `fees` | `PaysForItself`, `WithdrawsAll`, `RefusedOnlyIfChanged`, `MergesEstimated` | 2 fee tables, 2 prices, proofs on both sides of a transaction boundary, a third-party fee or none, 2 changes around a withdrawal; estimates of up to 6 top-ups with `SendArity` 3, for an account with up to 3 active commitments |
| `responses` | `NeverThrows`, `PairedWithOwn`, `ToldOnce`, `ViewedIsOneSend` | 2 sends and a top-up with one identifier, one of each in the legacy format, 2 verification accounts, two failed transactions |
| `viewer` | `FetchExact`, `ReportsWithin`, and `CallsEnd` under fairness | 2 tokens, 3 transactions of which one may fail, pages and batches of 2, a window of a second, two seconds |
| `viewer_exact` | a violation of `CountExact` by a transaction that failed | the same |

The bounds are small because every action is per nonce or per entry: two rounds
of a loop, two calls and one duplicate nonce are enough for each case of the
code to occur with each other, and the theorems have no bounds. Batches of 1 are
not enough for late ones in `history`: a refresh of one nonce at a time stops at
the first that is not finalized and leaves no gap for a scan to ask for. With
batches of 2 a nonce may be answered before it is finalized and the one above it
after that; the scan asks for such gaps in several batches, one fails and the
call with it, and the others come back during the next call. Nonces are used
twice in `balance` only; `CacheSound` and `StatusMonotone` are proved for
histories with such, too. `history_overlap` shows what longer backlogs than
those that `BusyNonce` allows come to. In `search_digits` the indices have one
and two digits; in the real tree, chunks of 83887 entries, the indices at which
a chunk's leaves begin and end straddle 10, 100, 1000 and 10000 in every chunk
but the one in which the leaves begin.

`SendArity` is 2 instead of 4: a merge, and a top-up just before it is needed,
come after two top-ups instead of four. `FindSigCount` is the code's. With batches
of 1 the two reads of a build part from a backlog of two nonces on, as they do in
the code from one of two batches. The runs
of `ElusivClient` and `CommitmentAwait` do not check for deadlock: after
`MaxSent` transactions or `MaxChecks` checks nothing more is begun; so too those of
`PrivateBalance`, `Fees` and `Responses`, whose histories end.

In `fees` a byte has 8 values and an input 3 of them, with the compute costs
scaled so that, as in the code, the work on one input always fits a transaction
and two may or may not; a send has 84 transactions for the proof, which is what
keeps the estimate, made with inputs half as heavy as real ones, within its 5%
buffer although a real send, with its amount, may take four transactions more.
`MCFees` has TLC evaluate that this fee data meets both conditions under which
the theorems are proved (`FeesAreRight`).

Symmetry is used where no liveness is checked and the values are
interchangeable: the commitments of `search_digits`, the tokens of `balance` and
`balance_shared`, the accounts in `responses`.

### Fairness

`TxHistory` assumes weak fairness of a call's task (a task that the event loop
has started runs to its end) and strong fairness of the node's answers: each
request is answered or fails, and the event loop delivers what comes in the
order it comes, so no call is passed over for ever although other calls' tasks
disable the delivery again and again. No fairness of the chain is assumed, nor
that a call is ever made. `CommitmentInfo` assumes weak fairness of each search
step and of the reading of openings, which includes the answer or failure of
the node. `ElusivViewer` assumes weak fairness of the viewer's steps: the node
answers and its sleeps end.

`ElusivClient` assumes (`ClientFairness`) that requests to the node and the
warden are answered or fail and that timeouts pass, which HTTP requests and
timers do, and nothing of the user, the warden or the cluster; `OperationsEnd`
needs no more. `SentResolves` is about what happens when they do their work, and
adds `ChainFairness`. `CommitmentAwait` assumes that the timer runs and that each
check is answered or fails.

### What the violations show

- `search_digits`: `startIndices.sort()` (`StorageAccountReader.ts:103`) sorts
  9 after 10, so the scan begins at 10 and misses the commitment at 9.
- `history_overlap`: of two calls of `fetchTxs` that both refresh, the slower one
  finds its next batch cached already, takes the empty batch for the end
  (`AbstractTxManager.ts:199`) and answers without what was the newest when it was
  called. It takes a backlog of more than two batches.
- `balance_shared`: a nonce with one cached transaction is never asked for again
  (`AbstractTxManager.ts:177`), so a second transaction with it is not told of by
  this instance, and the balance from the whole history, "guaranteed to be
  accurate" (`TransactionManager.ts:76`), is not what is unspent.
- `viewer_exact`: the signatures of failed transactions are listed like others
  (`elusivViewer.ts:256`) and nothing looks at `err`, so the "*EXACT* amount"
  (`elusivViewer.ts:149`) counts a top-up or send that did not happen.

Met while modelling, outside what the runs check (the conditions of the
properties, `Careful` and `MaxRestart` exclude them):

- The two reads of a build overlap as those of `history_overlap` do. An instance
  whose cache is more than two batches behind, as a new one for an account with a
  long history is, may build on a nonce that is used.
- After "fetch failed" the client compares the newest nonce with `lastNonce + 1`
  (`elusiv.ts:323`). For a top-up after a merge `lastNonce` is from before the
  merge, so what it finds is the merge.
- The same double check knows finalized transactions only; a user who tries
  again at once builds on the same state, and two top-ups share a nonce.
- With two clients the active commitments and the newest nonce are read at
  different times (`RemoteParamFetching.ts:102`), and a send may be built with the
  nonce of what it spends; the balance from metadata then counts it twice.
- With the key of an identifier two sends have, the newest initialisation and the
  newest finalisation are put together (`ViewingKey.ts:54`), as told under
  `Responses`.
- `fetchTxs(count)` counts transactions where its documentation says nonces.
  `getActiveTxs` writes `CONFIRMED` to the newest transaction before the check it
  stands for, so a build that fails leaves it behind. The timer of
  `awaitCommitmentInsertion` goes on after the timeout has rejected the promise.
- The fee calculator and the rent are fetched once per instance, so the "please
  try again" of `elusiv.ts:209` meets the same estimate; the estimate of a
  withdrawal leaves out `extraFee`; that of a batch of top-ups counts from zero
  (`elusiv.ts:404`), whatever the account holds; the privacy fee of a token is
  computed on its units as if they were lamports; the checks of `elusiv.ts:254`
  look at a promise that is not awaited.
- A viewing key does not leave out failed transactions and asks without
  'finalized'. A transaction that only mentions an identifier, with no
  instruction of the program, would make its history unreadable; the properties
  of `Responses` are about histories without such.

## What is proved

`TxHistoryProofs`, for every set of transactions, callers, requests and batch
size, from the assumptions `TxsAssumption` and `ClientAssumption` on the
constants:

- `TypeCorrect`: `Spec => []TypeOK`.
- `CacheIsSound`: `Spec => []CacheSound`. `CacheSound` alone is not inductive:
  that a processed send is settled depends on what the batch that cached it
  knew. The inductive invariant `SoundInv` adds that a finalisation lands after
  its initialisation (`InOrder`), so that whatever is finalized up to some
  point includes the first part; that what a call has accumulated is cached
  (`AccCached`), so that confirming it adds nothing; and that a batch which
  knows of a finalisation knows of the initialisation (`BatchSound`), so that
  an answer with only the second part is not taken for a whole send.
- `StatusesOnlyAdvance`: `Spec => StatusMonotone`, from `TypeOK` alone: only
  `Collect` and `Deliver` change the cache, one to the highest status, the
  other only where nothing was cached.
- `LoneFetchesAll`: `Spec => []FetchComplete` under `LoneCaller`: there is one
  caller, and no nonce is used twice. Both conditions are the code's: a call
  takes a nonce for cached as soon as one of its transactions is and never asks
  for it again, and of two calls at once the refresh of one ends at nonces that
  the other has cached meanwhile and leaves out what is newer. The inductive
  invariant `LoneInv` adds to `SoundInv` that all nonces below one on chain have
  landed before it (`OneByOne`, `UniqueOnChain`), that batches other than that of
  a refresh, those of failed calls included, ask for old nonces only
  (`OldBatches`), and for each place a call may
  be at (`CallerInv`) what its cursors mean: what it has accumulated is all of
  what was settled at its beginning, down to `before` (`AccInv`); during the
  refresh nothing above the cursor is cached, nothing it should find lies
  between the newest cached nonce and the cursor (`UpTo`), and its one batch
  brings what is in the next nonces (`Refreshes`); afterwards each nonce it still
  needs is cached or will be brought by one of its batches (`ScanInv`, `Ready`).
  The lemmas `CutTells` and `CutLeavesOne` are about the end of `getTxs`, which
  cuts at a count but keeps a nonce whole. TLC checked `LoneInv` on the instance
  of `history` with one caller before it was proved.

`CommitmentInfoProofs` begins with `CommitmentSearch`, for every height, chunk
size and count, set of commitments and tree, from `TreeAssumption` and
`WantedAssumption`:

- `IndicesInTree`: `Spec => []TypeOK`, by which the indices found lie in the
  tree.
- `FoundWhereItLies`: a commitment that was found lies in the tree at the index
  found for it.
- `SkipsNothing`: `Spec => []NeverSkipped`, and
- `FindsAll`: `Spec => []SearchComplete`, both under the condition `SameDigits`
  (start indices in one chunk have decimal strings of one length;
  `search_digits` shows that it is needed).

The first two follow from `FoundInv`, which holds however the start indices are
sorted: a search that goes wrong misses commitments but reports no wrong place.
The other two follow from the inductive invariant `SearchInv`, which says for each
search where it stands: on coming to a chunk (`FetchInv`) there is nothing left
to find before it, and new commitments can only be inserted behind its first
entry; in a chunk (`ScanInv`) as many start indices have been skipped as
commitments were found, the commitments found all start before the current
index, and those left to find lie at or after it; and a search that has ended
without all its commitments proves that one was not there (`EndInv`). The heart
is the lemma `Skip`: if k commitments are found and all of them start at or
before x, and the (k+1)st start index is after x, then the k found are exactly
those of the first k start indices, so what is left to find starts at or after
the (k+1)st. `NumericSort` shows that the string sort is numeric among indices
of one length.

`ElusivClientProofs`, for every number of clients and tokens, careful or not,
whatever fails, from `ClientAssumption`:

- `TypeCorrect`: `Spec => []TypeOK`. It includes `HasTx`: an operation past its
  build has a transaction to send and to look for, which is why no step takes
  the nonce of `NoTx`.

and under `LoneClient` (one client, one operation at a time, and none begun on
what a failed one left under way; otherwise two transactions may get the same
nonce, which the code does not prevent; and no new instance for a history of
more than two batches, whose first build may do so, too), whatever fails:

- `LoneActive` (`ActiveAreUnspent`), `LoneReady` (`ReadyWhenResolved`) and
  `LoneAccepted` (`AcceptedHasLanded`);
- `LoneKeepsAccount`: `Spec => KeepsAccount`, step by step: each step of the
  client lands one transaction as `Account` allows or changes nothing of it.

The inductive invariant `LoneInv` is `ChainInv` with `ClientInv` and `CacheInv`.
`ChainInv` says that the nonces on chain are 0, 1, 2... in the order of landing,
that each send has spent all that was unspent of its token, that no token has
more than `SendArity` unspent (`Chained`), and that at most one transaction is
under way, the one that comes next. `ClientInv` says at each place of the client
what that is and what its reads were: while it reads and builds nothing is under
way and all that landed is visible and in the tree, so what it builds follows;
once it has sent, that transaction is with the warden or has landed, also after
an answer that was lost. `CacheInv` is why the reads of a build, one of which
may end early, tell the whole history all the same: the cache is never behind by
more than two batches and one transaction, the one that is under way, so a read
that ended early after two batches has come to the newest. TLC checked `LoneInv`
on the instance of `client` first.

`CommitmentAwaitProofs`, for every delay, timeout and number of checks, from
`AwaitAssumption`:

- `GivesUpOnlyLate`: `Spec => []RejectedAfterTimeout`.
- `NeverStopsOpen`: `Spec => []StopsOnlyWhenFound`.
- `TypeCorrect`: `Spec => []TypeOK`.
- `ImplementsAwaited`: `Spec => KeepsPromise`.

They follow from the invariant `AwaitInv`. `RejectedAfterTimeout` alone is not
inductive, since the code compares `attempts` and not the time: `Counted` says
that every check that was started is under way or counted (`attempts` and the
checks under way are together one more than `started`), so that a check which
is counted last can have counted at most `started`. `ChecksSound` says that what
a check knew of the tree at its start is still true.

`CommitmentInfoProofs` goes on, from the same assumptions, with `CommitmentInfo`:

- `ImplementsSearch`: `InfoSpec => Spec`. Each step of `CommitmentInfo` is a step
  of `CommitmentSearch` or leaves its variables alone.
- `FindsAllToOpen`: `InfoSpec => []SearchComplete`, by the theorem above and
  under its condition `SameDigits`.
- `OpeningsVerify` (`OpeningVerifies`), `LeftIsSettled` (`LeftPartnersSettled`)
  and `OnlyAtChunkEnd` (`UnreadableAtChunkEnd`), without that condition.

The invariants are `FoundInv` of the search with `OpeningInv`: each account and
the root were read of a tree not older than the one the search ended in, in
which all the commitments are where they were found (`ReadingInv`). That the
partners hash to the root is shown up the levels (`Siblings`, `ClimbIs`). The
provers know of 2^n no more than that it counts the subsets of a set of n, so
`PowerNext`, `PowerSum` and `PowerGrows` are proved by counting them. Where the
model computes by recursion (`Climb`), the function that is claimed to be its
value is written down, shown to satisfy the equation, and shown to be the only
one that does, by induction stated for a set of numbers (`AllNumbers`). TLC
checked the invariant on the instance of `search` first (427042 states).

`ResponsesProofs`, for every set of sends, top-ups, verification accounts and
failures, from `ResponseAssumption`: `Told` (`NeverThrows`), `PairedRight`
(`PairedWithOwn`) and `NoneLostOrTwice` (`ToldOnce`). They follow from the
invariant `ResponseInv`, about the order on chain: a send has at most one
successful initialisation and one finalisation (`Once`); the newest
initialisation with an account that is in use is that of the send that uses it
(`InUse`); and so the newest initialisation with the account before a
finalisation, which is the one the code takes, is its own (`FinalizedOwn`).

`ElusivViewerProofs`, for every set of tokens, page size, batch size, span and
change of the pools, from `ViewerAssumption`:

- `WindowExact` (`FetchExact`), which speaks of fetches that are done. The invariant
  `ViewerInv` says of one that is not (`FetchOK`) that what it has is all of the
  window between its cursor and its first page. `Chain` says that block times do
  not go back, so once the oldest of a page is too old all before it are.
- `ReportsAreWithin` (`ReportsWithin`), for LAMPORTS too. `TellInv` adds that a call
  has asked for the newest so many of the signatures it found and was told of them
  at least what was final when it was made, and that it ends only when these are
  all. `VolumeIs` shows what the fold in `Volume` comes to, the only function that
  meets its equation, so that it grows with what is told.

`PrivateBalanceProofs`, for every set of tokens and amounts, every fee, batch
and refresh size, every `MaxMissed` and every length of the ledger, from
`BalanceAssumption`:

- `LedgerRight` (`Spec => []LedgerInv`). `Numbered` says of each transaction that
  its nonce is above all its device must have seen and skips none, `Balanced`
  that a send spends what was unspent of its token and keeps the rest.
- `HistoryConserves` (`Spec => []Conserving`): the sum over the history of a
  token, top-ups less sends and their fees, is what its unspent commitments
  hold. By induction on the length of the ledger.
- `HistoryIsExact` (`HistoryExact`). `HistoryExact` speaks of calls that are done.
  `CallInv` says of a refresh (`RefreshRight`) that what had landed when it began is
  not behind it, as nonces have no gaps and so an empty batch is the end; so that
  afterwards the newest nonce in the cache is above all that (`ToldSince`); and of a
  balance that no nonce from its last batch on is left to be asked for (`NoGap`)
  and that it has counted what is cached from there on, no more and no less
  (`CountedOf`). When it is done, with nothing missed and nothing late, what is
  cached is everything up to some moment since the beginning (`CachedIsPrefix`),
  and by `HistoryConserves` that is worth what was unspent then.
- `BeforeSendIsExact` (`BeforeSendExact`). `LandedInv` says of each transaction that
  with what it spends it spends all that had landed before that with a higher
  nonce (`FromTop`); `BeforeInv` that a call with a nonce it starts before has
  something as new cached. A send in order takes all that is older than it, which
  therefore has all that it spends itself (`OlderClosed`), and such a set is worth
  what is unspent of it (`ClosedConserves`): that is what the send spent.
- `MetadataIsExact` (`MetadataExact`): the batches before the first with metadata
  have counted what `CallInv` says, and the balance of the send stands for what is
  older than it (`SendEndsBatches`), by the same argument.

The folds of the model (`MapThenSumSet`, `FoldLeft`) are shown to be closed sums
first: `SumOf(w, S)` counts the pairs of an element of S and a number up to its
weight, so that what it sums to follows from the cardinality of disjoint sets;
`SameFold` says that a function which meets the equation of a fold is its value.
`FoldExists` and `SelectSteps` do the same for folds that build a sequence.
`NonceRangeIsFetched` shows what `TxsInNonceRange`, with its sort and its cut,
returns: the newest nonces, whole. TLC checked `LedgerInv`, `CallInv`,
`LandedInv` and `BeforeInv` first, on the instance of `balance`. The proof of
`BeforeSendIsExact` is what showed the example with two sends above: `InOrder`
once asked less.

`FeesProofs`, for every fee data, set of inputs, number of values of a byte, width
of an input and cost of the work on it that one transaction can take, every
`SEND_ARITY`, price and balance, from `InputAssumption`, `FeeAssumption` and
`DataAssumption` (what the constants are):

- `FeePaysForItself`: `Spec => []PaysForItself`,
- `WithdrawalLeavesRest`: `Spec => []WithdrawsAll`, and
- `EstimateIsEnough`: `Spec => []RefusedOnlyIfChanged`,

under the condition `SubventionBelowCosts`: the subvention of a proof is less
than the fixed costs of a send, as in the run. The code needs it: where the
subvention pays for everything, it sets the amount to zero before it takes it
from the subvention (`FeeCalculator.ts:153`), and the fee may come out negative.
`EstimateIsEnough` has a second condition, `BufferCovers`: what the transactions
cost that real inputs, and the amount as one more, need beyond those of the
estimate is, rounded up to tokens, no more than a twentieth of the least estimate
there is. It is about the fee data and the proofs alone, not about amounts,
balances or what a withdrawal does. The code relies on it, although its comment
keeps the 5% for "price fluctuations" (`elusiv.ts:203`): the estimate takes inputs
of which half the bytes are 0, so a proof with few transactions of its own
(`proof_base_tx_count`) would make the 5% too little.

`PaysForItself` is about what the packing of the inputs into transactions comes
to with one input more. A fold is first shown to be the last of a row of states
(`PackFold`), and `FlattenSeq` to append (`FlattenAppend`). The row of the
further input runs beside that of the input alone: at first it is ahead of it by
what the last transaction already computes, and once this does not fit it is one
transaction ahead, with no more in the last than the input alone has
(`RowAlone`, `RowAfter`). As the work on one input fits one transaction, this
happens at most once, just if the two together are more than one takes; so
`TxCountForExtraInput` is exact (`ExtraInputCounted`) and 1 is enough for the
loop of `SendTotalFee` to end. `WithdrawsAll` is then about rounding: the
invariant `FeesInv` carries the withdrawal from its estimate to its build,
`InTokens` says that the parts of a fee rounded up are no less than what they
are put together from, `Remainder` adds them up. `EstimateIsEnough` needs to
know, until the build, that the fee kept is the buffered estimate of what was
cached and held then (`KeptInv`, which TLC checked first) and that the balance
has not fallen below what was estimated with. If nothing has changed, the parts
of the fee are compared one by one (`EstimateSuffices`): the rent is the same;
the share of a smaller amount is no larger (`PrivacyGrows`); the rest differs by
the transactions, of which the amount itself makes at most one (`SendParts`),
and rounding up two parts is no less than rounding up their sum (`CeilingMore`).
That the fee fits into what was kept implies that nothing is overdrawn
(`Remainder` again).

Only model-checked is liveness (`CallsReturn`, `InfoEnds`, `OperationsEnd`,
`SentResolves`, `PromiseSettles`, `CallsEnd`), which is out of the provers'
reach, and of the safety properties `MergesEstimated`, `ViewedIsOneSend` and
`ActivatesFromStart`. Every other property of a passing run is the statement of
a theorem, under the conditions named above.

## Not modelled

- Cryptography (key derivation, ciphers, hashes, proofs), instruction layout
  and serialization: functions without state, represented by model values.
- `getPrivateTransactions`, which is a `fetchTxs` with the status of the newest
  transaction set, and `getLatestPrivateBalance`: one call of a modelled
  component each. The pool size is one read.
- The price feed's retries, the choice and data of wardens, the tables of
  tokens and clusters, the readers of single accounts.
- Timing is abstracted to order, except the clock of `ElusivViewer` and the ticks
  of `CommitmentAwait`.
