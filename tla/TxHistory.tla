----------------------------- MODULE TxHistory -----------------------------
(* The transaction history of one private account, as the client sees it.   *)
(* TransactionManager, with the classes it is built from (AbstractTxManager, *)
(* IdentifierTxFetcher, TransactionCacher, IndexedMultiCacher), answers      *)
(* fetchTxs calls from a cache shared by every caller of the instance and    *)
(* fills that cache from a Solana RPC node: first the signatures found at    *)
(* each nonce's identifier key, then the transactions behind them, which the *)
(* node only returns once they are finalized.                                *)
(*                                                                           *)
(* JavaScript runs one task at a time, up to its next wait for the node.     *)
(* `running` names the caller whose task is running; answers of the node are *)
(* delivered only between tasks.                                             *)
EXTENDS Integers, Sequences, FiniteSets

CONSTANTS
    Txs,          \* the Elusiv transactions that may ever land on chain
    MaxNonce,     \* the largest nonce of one of them
    UniqueNonces, \* TRUE: no nonce is used twice (the edge case of ResponseConverter)
    BatchSize,    \* DEFAULT_FETCH_BATCH_SIZE
    Callers,      \* the calls that may be in progress at the same time
    Requests,     \* the [count, tokenType, before] arguments of fetchTxs
    BusyNonce,    \* bound: the largest nonce that lands while calls overlap
    AnyToken,     \* tokenType = undefined
    NoCaller      \* no task is running

Statuses == {"PENDING", "PROCESSED", "CONFIRMED"}
NotCached == "NOT_CACHED"

(* Number.MAX_SAFE_INTEGER, what fetchTxs puts in place of a missing before. *)
NoBefore == MaxNonce + 2

ASSUME TxsAssumption ==
    /\ MaxNonce \in Nat
    /\ \A t \in Txs : /\ t.nonce \in 0..MaxNonce
                      /\ t.txType \in {"TOPUP", "SEND"}

ASSUME ClientAssumption ==
    /\ UniqueNonces \in BOOLEAN
    /\ BatchSize \in Nat \ {0} /\ BusyNonce \in Int
    /\ NoCaller \notin Callers
    /\ Requests # {}
    /\ \A r \in Requests : r.count \in Nat /\ r.before \in Nat

(* A TOPUP is one Solana transaction, a SEND is two: the initialisation of   *)
(* its proof verification and, later, the finalisation.                      *)
Parts(t) == IF t.txType = "TOPUP" THEN {"store"} ELSE {"init", "finalize"}
SolanaTx == {s \in [tx : Txs, part : {"store", "init", "finalize"}] : s.part \in Parts(s.tx)}

(* The nonces a batch of the refresh may ask for.                            *)
AskNonces == 0..(MaxNonce + BatchSize)

(* What a caller holds between calls.                                        *)
NoCall == [request |-> CHOOSE r \in Requests : TRUE, since |-> {}]

VARIABLES
    chain,    \* the Solana transactions the node knows, in the order they landed
    final,    \* how many of them, from the first, are finalized
    cache,    \* status of each cached transaction: the fetchedTxs of TransactionCacher
    running,  \* the caller whose task is running
    pc,       \* where each caller stands
    call,     \* what each caller asked for, and what was settled when it asked
    before,   \* beforeInner of fetchTxs
    after,    \* after of the TxFetchingInputs
    cursor,   \* i of getLatestTransactionsIntoCache, counter of fetchTxsIntoCache
    acc,      \* the transactions fetchTxs has accumulated
    inflight, \* the batches the node has yet to answer
    result    \* what the call returned

chainVars == <<chain, final>>
callVars == <<call, before, after, cursor, acc, result>>
vars == <<chain, final, cache, running, pc, call, before, after, cursor, acc, inflight, result>>

(* The caller that waits for a batch, or NoCaller once its call has failed.  *)
Batch == [owner : Callers \cup {NoCaller}, pending : SUBSET AskNonces, sigs : SUBSET SolanaTx]
PCs == {"idle", "getTxs", "refresh", "refreshMore", "prepare", "scan", "fetching", "collect", "done", "failed"}

-----------------------------------------------------------------------------
(* The chain.                                                                *)
Landed == {chain[i] : i \in 1..Len(chain)}
Finalized == {chain[i] : i \in 1..final}
Complete(t) == [tx |-> t, part |-> IF t.txType = "TOPUP" THEN "store" ELSE "finalize"] \in Landed
LandedTxs == {s.tx : s \in Landed}
HighestNonce == IF Landed = {} THEN -1 ELSE CHOOSE n \in 0..MaxNonce :
                    /\ \E t \in LandedTxs : t.nonce = n
                    /\ \A t \in LandedTxs : t.nonce <= n

(* Everything of t is finalized: whoever asks from now on must be told of t. *)
Settled == {t \in Txs : \A part \in Parts(t) : [tx |-> t, part |-> part] \in Finalized}

(* A new transaction uses the next nonce once the one before is complete,    *)
(* since no transaction is built while the most recent one is unconfirmed,   *)
(* or, when its builder had not picked up on the nonce being used, that      *)
(* nonce again. BusyNonce bounds what lands while calls overlap.             *)
Busy == {p \in Callers : pc[p] # "idle"}
FreeNonces == {n \in {HighestNonce + 1} : \A u \in LandedTxs : Complete(u)}
UsedNonces == IF UniqueNonces THEN {} ELSE 0..HighestNonce

Land(t) ==
    /\ t \notin LandedTxs
    /\ t.nonce \in FreeNonces \cup UsedNonces
    /\ t.nonce > BusyNonce => \A p, q \in Busy : p = q
    /\ chain' = Append(chain, [tx |-> t, part |-> IF t.txType = "TOPUP" THEN "store" ELSE "init"])
    /\ UNCHANGED <<final, cache, running, pc, inflight, callVars>>

LandFinalize(t) ==
    /\ t.txType = "SEND" /\ t \in LandedTxs /\ ~Complete(t)
    /\ chain' = Append(chain, [tx |-> t, part |-> "finalize"])
    /\ UNCHANGED <<final, cache, running, pc, inflight, callVars>>

Finalize ==
    /\ final < Len(chain)
    /\ final' = final + 1
    /\ UNCHANGED <<chain, cache, running, pc, inflight, callVars>>

-----------------------------------------------------------------------------
(* The cache: a list of transactions for each nonce, in which equal means    *)
(* the same nonce and commitment hash, here the same element of Txs.         *)
Cached == {t \in Txs : cache[t] # NotCached}
IsCachedNonce(n) == \E t \in Cached : t.nonce = n
LatestCachedNonce == IF Cached = {} THEN -1 ELSE CHOOSE n \in 0..MaxNonce :
                         /\ IsCachedNonce(n)
                         /\ \A t \in Cached : t.nonce <= n

(* Mutant: a cached entry is overwritten (cacheOverwrite in place of cache). *)
CacheInnerOverwriting(txs, status) ==
    [t \in Txs |-> IF t \in txs THEN status[t] ELSE cache[t]]

(* cacheInner without overwriting: what is there stays as it is.             *)
CacheInner(txs, status) ==
    [t \in Txs |-> IF cache[t] = NotCached /\ t \in txs THEN status[t] ELSE cache[t]]

(* getTxsInNonceRange: the first count transactions from the newest on and   *)
(* those that share the nonce of the last one.                               *)
GetTxsInNonceRange(txs, count) ==
    {t \in txs : Cardinality({u \in txs : u.nonce > t.nonce}) < count}

(* Mutant: the loop of fetchTxs forgets that before is exclusive.            *)
LowestFetchedNonceInclusive(txs) ==
    IF txs = {} THEN {-1}
    ELSE {n + 1 : n \in {m \in {t.nonce : t \in txs} : \A t \in txs : m <= t.nonce}}

(* getLowestFetchedNonceFromBatch: the one lowest nonce, -1 for no batch.    *)
LowestFetchedNonce(txs) ==
    IF txs = {} THEN {-1}
    ELSE {n \in {t.nonce : t \in txs} : \A t \in txs : n <= t.nonce}

OfToken(txs, token) == {t \in txs : token = AnyToken \/ t.tokenType = token}
Smaller(a, b) == IF a < b THEN a ELSE b
Larger(a, b) == IF a > b THEN a ELSE b

-----------------------------------------------------------------------------
(* A call of fetchTxs, and the getTxs calls it makes one after the other.    *)
FetchTxs(p, r) ==
    /\ running = NoCaller /\ pc[p] = "idle"
    /\ HighestNonce > BusyNonce => Busy = {}
    /\ running' = p
    /\ pc' = [pc EXCEPT ![p] = "getTxs"]
    /\ call' = [call EXCEPT ![p] = [request |-> r, since |-> Settled]]
    /\ before' = [before EXCEPT ![p] = r.before]
    /\ acc' = [acc EXCEPT ![p] = {}]
    /\ UNCHANGED <<chainVars, cache, after, cursor, inflight, result>>

(* fetchTxsInRange: the nonces cached at this moment are left out; with      *)
(* nothing left to ask for, the batch is empty without a call to the node.   *)
NoncesToFetch(lowest, highest) ==
    {n \in AskNonces : lowest <= n /\ n <= highest /\ ~IsCachedNonce(n)}
Issue(p, nonces) ==
    inflight' = inflight \cup {[owner |-> p, pending |-> nonces, sigs |-> {}]}

(* The next round of getLatestTransactionsIntoCache, from nonce i + 1 on.    *)
RefreshBatch(p, i) ==
    LET nonces == NoncesToFetch(i + 1, i + BatchSize)
    IN /\ cursor' = [cursor EXCEPT ![p] = i]
       /\ IF nonces = {}
          THEN /\ pc' = [pc EXCEPT ![p] = "prepare"]
               /\ UNCHANGED <<running, inflight>>
          ELSE /\ Issue(p, nonces)
               /\ pc' = [pc EXCEPT ![p] = "refresh"]
               /\ running' = NoCaller

(* The head of getTxs: refresh unless everything asked for is older than the *)
(* newest cached nonce.                                                      *)
GetTxs(p) ==
    /\ running = p /\ pc[p] = "getTxs"
    /\ IF before[p] > LatestCachedNonce
       THEN RefreshBatch(p, LatestCachedNonce)
       ELSE /\ pc' = [pc EXCEPT ![p] = "prepare"]
            /\ UNCHANGED <<running, cursor, inflight>>
    /\ UNCHANGED <<chainVars, cache, call, before, after, acc, result>>

RefreshMore(p) ==
    /\ running = p /\ pc[p] = "refreshMore"
    /\ RefreshBatch(p, cursor[p] + BatchSize)
    /\ UNCHANGED <<chainVars, cache, call, before, after, acc, result>>

PrepareTxFetchingParams(p) ==
    LET beforeInner == Smaller(before[p], LatestCachedNonce + 1)
    IN /\ running = p /\ pc[p] = "prepare"
       /\ after' = [after EXCEPT ![p] = Larger(beforeInner - call[p].request.count - 1, -1)]
       /\ cursor' = [cursor EXCEPT ![p] = beforeInner - 1]
       /\ pc' = [pc EXCEPT ![p] = "scan"]
       /\ UNCHANGED <<chainVars, cache, running, call, before, acc, inflight, result>>

(* fetchTxsIntoCache, one turn of its loop: step over a cached nonce, or     *)
(* fetch the batch that ends at this one; then wait for every batch.         *)
FetchTxsIntoCache(p) ==
    /\ running = p /\ pc[p] = "scan"
    /\ \/ /\ cursor[p] > after[p] /\ IsCachedNonce(cursor[p])
          /\ cursor' = [cursor EXCEPT ![p] = @ - 1]
          /\ UNCHANGED <<running, pc, inflight>>
       \/ /\ cursor[p] > after[p] /\ ~IsCachedNonce(cursor[p])
          /\ Issue(p, NoncesToFetch(Larger(after[p] + 1, cursor[p] - BatchSize + 1), cursor[p]))
          /\ cursor' = [cursor EXCEPT ![p] = @ - BatchSize]
          /\ UNCHANGED <<running, pc>>
       \/ /\ cursor[p] <= after[p]
          /\ IF \E b \in inflight : b.owner = p
             THEN pc' = [pc EXCEPT ![p] = "fetching"] /\ running' = NoCaller
             ELSE pc' = [pc EXCEPT ![p] = "collect"] /\ running' = running
          /\ UNCHANGED <<cursor, inflight>>
    /\ UNCHANGED <<chainVars, cache, call, before, after, acc, result>>

(* On return of fetchTxs every transaction but the first is taken to be      *)
(* confirmed. Transactions of one nonce come in no fixed order, so any of    *)
(* the newest may be the first.                                              *)
MarkConfirmed(txs) ==
    \/ /\ txs = {} /\ cache' = cache
    \/ \E first \in GetTxsInNonceRange(txs, 1) :
          cache' = [t \in Txs |-> IF t \in txs \ {first} THEN "CONFIRMED" ELSE cache[t]]

(* Mutant: the loop does not stop at the empty batch below nonce 0.          *)
CollectBelowZero(p) ==
    LET request == call[p].request
        batch == GetTxsInNonceRange({t \in Cached : after[p] < t.nonce /\ t.nonce < before[p]}, request.count)
        found == acc[p] \cup OfToken(batch, request.tokenType)
        txs == GetTxsInNonceRange(found, request.count)
    IN /\ running = p /\ pc[p] = "collect"
       /\ \E lowest \in LowestFetchedNonce(batch) :
             IF Cardinality(found) < request.count
             THEN /\ acc' = [acc EXCEPT ![p] = found]
                  /\ before' = [before EXCEPT ![p] = lowest]
                  /\ pc' = [pc EXCEPT ![p] = "getTxs"]
                  /\ UNCHANGED <<running, cache, result>>
             ELSE /\ result' = [result EXCEPT ![p] = txs]
                  /\ MarkConfirmed(txs)
                  /\ pc' = [pc EXCEPT ![p] = "done"]
                  /\ running' = NoCaller
                  /\ UNCHANGED <<acc, before>>
       /\ UNCHANGED <<chainVars, call, after, cursor, inflight>>

(* The end of getTxs and of the turn of the fetchTxs loop around it. What    *)
(* getTxs returns is cut after count transactions, whatever their token; the *)
(* loop goes on below its lowest nonce until enough of the token were found. *)
Collect(p) ==
    LET request == call[p].request
        batch == GetTxsInNonceRange({t \in Cached : after[p] < t.nonce /\ t.nonce < before[p]}, request.count)
        found == acc[p] \cup OfToken(batch, request.tokenType)
        txs == GetTxsInNonceRange(found, request.count)
    IN /\ running = p /\ pc[p] = "collect"
       /\ \E lowest \in LowestFetchedNonce(batch) :
             IF lowest >= 0 /\ Cardinality(found) < request.count
             THEN /\ acc' = [acc EXCEPT ![p] = found]
                  /\ before' = [before EXCEPT ![p] = lowest]
                  /\ pc' = [pc EXCEPT ![p] = "getTxs"]
                  /\ UNCHANGED <<running, cache, result>>
             ELSE /\ result' = [result EXCEPT ![p] = txs]
                  /\ MarkConfirmed(txs)
                  /\ pc' = [pc EXCEPT ![p] = "done"]
                  /\ running' = NoCaller
                  /\ UNCHANGED <<acc, before>>
       /\ UNCHANGED <<chainVars, call, after, cursor, inflight>>

(* The caller takes its result or error; what the call kept is garbage.      *)
Return(p) ==
    /\ running = NoCaller /\ pc[p] \in {"done", "failed"}
    /\ pc' = [pc EXCEPT ![p] = "idle"]
    /\ result' = [result EXCEPT ![p] = {}]
    /\ acc' = [acc EXCEPT ![p] = {}]
    /\ call' = [call EXCEPT ![p] = NoCall]
    /\ before' = [before EXCEPT ![p] = NoBefore]
    /\ after' = [after EXCEPT ![p] = -1]
    /\ cursor' = [cursor EXCEPT ![p] = -1]
    /\ UNCHANGED <<chainVars, cache, running, inflight>>

-----------------------------------------------------------------------------
(* A batch comes back with txs, which are cached even if nobody waits for it *)
(* any more, and the caller that does goes on.                               *)
Deliver(b, txs, status) ==
    LET p == b.owner
        others == {c \in inflight : c.owner = p} \ {b}
    IN /\ cache' = CacheInner(txs, status)
       /\ inflight' = inflight \ {b}
       /\ \/ /\ p # NoCaller /\ pc[p] = "refresh"
             /\ pc' = [pc EXCEPT ![p] = IF txs # {} THEN "refreshMore" ELSE "prepare"]
             /\ running' = p
          \/ /\ p # NoCaller /\ pc[p] = "fetching" /\ others = {}
             /\ pc' = [pc EXCEPT ![p] = "collect"]
             /\ running' = p
          \/ /\ IF p = NoCaller THEN TRUE ELSE pc[p] = "fetching" /\ others # {}
             /\ UNCHANGED <<pc, running>>

(* The node answers getConfirmedSignaturesForAddress2 for one nonce of b.    *)
(* When all are answered and no nonce is in use, there is nothing to parse.  *)
SignaturesAnswer(b, n) ==
    LET sigs == b.sigs \cup {s \in Landed : s.tx.nonce = n}
        answered == [b EXCEPT !.pending = @ \ {n}, !.sigs = sigs]
    IN /\ running = NoCaller /\ b \in inflight /\ n \in b.pending
       /\ IF answered.pending = {} /\ sigs = {}
          THEN Deliver(b, {}, cache)
          ELSE /\ inflight' = (inflight \ {b}) \cup {answered}
               /\ UNCHANGED <<cache, pc, running>>
       /\ UNCHANGED <<chainVars, callVars>>

(* Mutant: transactions are read before they are finalized.                  *)
ParsedAnswerUnfinalized(b) ==
    LET usable == b.sigs
        status == [t \in Txs |-> IF [tx |-> t, part |-> "finalize"] \in usable
                                 THEN "PROCESSED" ELSE "PENDING"]
    IN /\ running = NoCaller /\ b \in inflight /\ b.pending = {}
       /\ Deliver(b, {s.tx : s \in usable}, status)
       /\ UNCHANGED <<chainVars, callVars>>

(* The node answers getParsedTransactions with commitment 'finalized'. If    *)
(* one of the transactions of a nonce is missing, the nonce is left out. A   *)
(* SEND is processed once its finalisation is among them.                    *)
ParsedAnswer(b) ==
    LET usable == {s \in b.sigs : \A r \in b.sigs : r.tx.nonce = s.tx.nonce => r \in Finalized}
        status == [t \in Txs |-> IF [tx |-> t, part |-> "finalize"] \in usable
                                 THEN "PROCESSED" ELSE "PENDING"]
    IN /\ running = NoCaller /\ b \in inflight /\ b.pending = {}
       /\ Deliver(b, {s.tx : s \in usable}, status)
       /\ UNCHANGED <<chainVars, callVars>>

(* Mutant: a batch that fails counts as empty.                               *)
NodeErrorIgnored(b) ==
    /\ running = NoCaller /\ b \in inflight
    /\ Deliver(b, {}, cache)
    /\ UNCHANGED <<chainVars, callVars>>

(* A request of a batch fails and with it, by way of Promise.all, the call   *)
(* that waits for the batch. The other batches of the call go on and are     *)
(* cached when they come back.                                               *)
NodeError(b) ==
    LET p == b.owner
        others == {c \in inflight : c.owner = p} \ {b}
    IN /\ running = NoCaller /\ b \in inflight
       /\ inflight' = {c \in inflight : c.owner # p} \cup {[c EXCEPT !.owner = NoCaller] : c \in others}
       /\ pc' = [q \in Callers |-> IF q = p THEN "failed" ELSE pc[q]]
       /\ UNCHANGED <<chainVars, cache, running, callVars>>

-----------------------------------------------------------------------------
Init ==
    /\ chain = <<>> /\ final = 0
    /\ cache = [t \in Txs |-> NotCached]
    /\ running = NoCaller
    /\ pc = [p \in Callers |-> "idle"]
    /\ call = [p \in Callers |-> NoCall]
    /\ before = [p \in Callers |-> NoBefore]
    /\ after = [p \in Callers |-> -1]
    /\ cursor = [p \in Callers |-> -1]
    /\ acc = [p \in Callers |-> {}]
    /\ inflight = {}
    /\ result = [p \in Callers |-> {}]

Answer(p) == \E b \in inflight :
                /\ b.owner = p
                /\ \/ ParsedAnswer(b) \/ NodeError(b)
                   \/ \E n \in b.pending : SignaturesAnswer(b, n)
Task(p) == \/ GetTxs(p) \/ RefreshMore(p) \/ PrepareTxFetchingParams(p)
           \/ FetchTxsIntoCache(p) \/ Collect(p)
Chain == \/ \E t \in Txs : Land(t) \/ LandFinalize(t)
         \/ Finalize

Next == \/ Chain
        \/ \E p \in Callers :
              \/ \E r \in Requests : FetchTxs(p, r)
              \/ Task(p) \/ Return(p)
        \/ \E p \in Callers \cup {NoCaller} : Answer(p)

Spec == Init /\ [][Next]_vars

(* A task runs to its end; the node answers or fails, and the event loop     *)
(* delivers that in the order it comes, so no caller waits for ever.         *)
Fairness == \A p \in Callers : WF_vars(Task(p)) /\ SF_vars(Answer(p))
FairSpec == Spec /\ Fairness

-----------------------------------------------------------------------------
(* Properties.                                                               *)

(* Every variable holds values of its kind.                                  *)
TypeOK ==
    /\ chain \in Seq(SolanaTx)
    /\ final \in 0..Len(chain)
    /\ cache \in [Txs -> Statuses \cup {NotCached}]
    /\ running \in Callers \cup {NoCaller}
    /\ pc \in [Callers -> PCs]
    /\ call \in [Callers -> [request : Requests, since : SUBSET Txs]]
    /\ before \in [Callers -> Nat]
    /\ after \in [Callers -> Int]
    /\ cursor \in [Callers -> Int]
    /\ acc \in [Callers -> SUBSET Txs]
    /\ inflight \in SUBSET Batch
    /\ result \in [Callers -> SUBSET Txs]

(* Nothing is cached that the chain could still take back: of a cached       *)
(* transaction the first part is finalized, of a processed SEND both.        *)
CacheSound ==
    \A t \in Cached :
        /\ \E part \in Parts(t) \ {"finalize"} : [tx |-> t, part |-> part] \in Finalized
        /\ cache[t] = "PROCESSED" => t \in Settled

(* The caller p was told of t, or of count transactions newer than t.        *)
ToldOf(p, t) ==
    \/ t \in result[p]
    \/ Cardinality({u \in result[p] : u.nonce > t.nonce}) >= call[p].request.count

(* "Returns the last count nonces of transactions": a finished call leaves   *)
(* out no transaction that was settled before it began and that it asked     *)
(* for, unless it returned count newer ones.                                 *)
FetchComplete ==
    \A p \in Callers : pc[p] = "done" =>
        \A t \in OfToken(call[p].since, call[p].request.tokenType) :
            t.nonce < call[p].request.before => ToldOf(p, t)

(* The status of a cached transaction never goes back, and what was cached   *)
(* stays cached, whatever other callers fetch at the same time.              *)
Rank == [s \in Statuses \cup {NotCached} |->
            CASE s = NotCached -> 0 [] s = "PENDING" -> 1 [] s = "PROCESSED" -> 2 [] OTHER -> 3]
StatusMonotone == [][\A t \in Txs : Rank[cache'[t]] >= Rank[cache[t]]]_vars

(* Every call returns or fails: the refresh loop stops, and so does the loop *)
(* of fetchTxs, whose before moves down at every turn.                       *)
CallsReturn == \A p \in Callers : pc[p] = "getTxs" ~> pc[p] \in {"done", "failed"}
=============================================================================
