--------------------------- MODULE PrivateBalance ---------------------------
(* What the history of an account is worth: the private balance, computed    *)
(* from the metadata of the newest send or from the whole history, and the   *)
(* commitments rebuilt from the transactions that are still unspent.         *)
(*                                                                           *)
(* The history grows meanwhile. A device reads it three times for a          *)
(* transaction (active commitments, last nonce, leaf index), and what another*)
(* device lands in between it may not have seen: then two transactions share *)
(* a nonce. The instance that computes the balance reads through its cache:  *)
(* a nonce of which it has been told one transaction it never asks again.    *)
(* TxHistory has the calls of one instance overlap; here they take turns.    *)
EXTENDS Integers, Sequences, FiniteSets, SequencesExt, FiniteSetsExt

CONSTANTS
    Tokens,     \* the token types
    TopUps,     \* amounts a user tops up
    Sends,      \* amounts a user sends; 0 for a merge
    TxFee,      \* what a send costs
    SendArity,  \* SEND_ARITY
    BatchSize,  \* transactions in a batch of a balance computation
    RefreshSize,\* DEFAULT_FETCH_BATCH_SIZE, nonces asked at once for the newest transactions
    MaxMissed,  \* bound: transactions that land while one is built and sent
    MaxTxs      \* bound: transactions in the history

ASSUME BalanceAssumption ==
    /\ TopUps \subseteq Nat \ {0} /\ Sends \subseteq Nat
    /\ TxFee \in Nat
    /\ SendArity \in Nat \ {0, 1}
    /\ MaxMissed \in Nat
    /\ BatchSize \in Nat \ {0} /\ RefreshSize \in Nat \ {0}
    /\ MaxTxs \in Nat

VARIABLES
    ledger, \* the transactions of the account, in the order they landed
    cache,  \* the places in it that the instance has been told
    call    \* what the instance is doing

vars == <<ledger, cache, call>>

(* A transaction as it is parsed, and the balance of its commitment, whose   *)
(* leaf is its place in the ledger: the leaves of other users, which only    *)
(* move it up with all start indices after it, are left out. Inputs are the  *)
(* places of what it spends.                                                 *)
Txs == [nonce : Nat, txType : {"TOPUP", "SEND"}, token : Tokens, amount : Nat, fee : Nat,
        metadata : BOOLEAN, startIndex : Nat, balance : Nat, inputs : SUBSET Nat]

Throws == [throws |-> TRUE]

-----------------------------------------------------------------------------
(* The history as fetchTxs gives it to an instance that has been told of some*)
(* places.                                                                   *)
OfToken(places, token) == {i \in places : ledger[i].token = token}
Spent(places) == UNION {ledger[i].inputs : i \in places}
Unspent(k, token) == OfToken(1..k, token) \ Spent(1..k)
UnspentBalance(k, token) == MapThenSumSet(LAMBDA i : ledger[i].balance, Unspent(k, token))

(* Newest nonce first. The order of transactions that share one is not fixed:*)
(* the later one comes first, or the earlier one.                            *)
SortsBefore(i, j, laterFirst) ==
    \/ ledger[i].nonce > ledger[j].nonce
    \/ ledger[i].nonce = ledger[j].nonce /\ (IF laterFirst THEN i > j ELSE i < j)
NewestFirst(places, laterFirst) ==
    [n \in 1..Cardinality(places) |->
        CHOOSE i \in places : Cardinality({j \in places : SortsBefore(j, i, laterFirst)}) = n - 1]

(* Mutant: transactions with the nonce of the last one are cut off.          *)
CutAtCount(txs, count) == SubSeq(txs, 1, IF Len(txs) < count THEN Len(txs) ELSE count)

(* getTxsInNonceRange: so many, and what shares the nonce of the last.       *)
TxsInNonceRange(txs, count) ==
    IF Len(txs) <= count THEN txs
    ELSE SubSeq(txs, 1, Max({n \in count..Len(txs) : ledger[txs[n]].nonce = ledger[txs[count]].nonce}))

FetchTxs(places, count, token, before, laterFirst) ==
    TxsInNonceRange(NewestFirst({i \in OfToken(places, token) : ledger[i].nonce < before}, laterFirst), count)

(* Number.MAX_SAFE_INTEGER: above every nonce.                               *)
NoBefore == MaxTxs

(* -1 if everything has been fetched.                                        *)
LowestFetchedNonce(txs) == IF txs = <<>> THEN -1 ELSE Min({ledger[txs[n]].nonce : n \in 1..Len(txs)})

(* getActiveTxs: the newest back to the newest send, and the top-ups that    *)
(* share its nonce and come after it; without a send, everything fetched.    *)
ActiveTxs(places, token, laterFirst) ==
    LET txs == FetchTxs(places, SendArity, token, NoBefore, laterFirst)
        sends == {n \in 1..Len(txs) : ledger[txs[n]].txType = "SEND"}
        send == Min(sends)
        sameNonceTopUps == {i \in ToSet(SubSeq(txs, send + 1, Len(txs))) :
                               ledger[i].txType = "TOPUP" /\ ledger[i].nonce = ledger[txs[send]].nonce}
    IN IF sends = {} THEN txs
       ELSE SubSeq(txs, 1, send) \o NewestFirst(sameNonceTopUps, laterFirst)

(* Those of some transactions that are in a set, as they are ordered.        *)
Select(txs, places) == FoldLeft(LAMBDA kept, i : IF i \in places THEN Append(kept, i) ELSE kept, <<>>, txs)

-----------------------------------------------------------------------------
(* The commitments of transactions, rebuilt. A commitment is the hash of what*)
(* it is made of.                                                            *)
Commitment(nonce, balance, token, startIndex) ==
    [nonce |-> nonce, balance |-> balance, token |-> token, startIndex |-> startIndex]
CommitmentOf(tx) == Commitment(tx.nonce, tx.balance, tx.token, tx.startIndex)

CommitmentForPartialStore(tx) == Commitment(tx.nonce, tx.amount, tx.token, tx.startIndex)

(* Mutant: the fee is forgotten.                                             *)
CommitmentWithoutFee(tx, balanceBefore) ==
    Commitment(tx.nonce, balanceBefore - tx.amount, tx.token, tx.startIndex)

CommitmentForSend(tx, balanceBefore) ==
    Commitment(tx.nonce, balanceBefore - tx.amount - tx.fee, tx.token, tx.startIndex)

(* Mutant: the fee is forgotten.                                             *)
WorthWithoutFee(tx) == IF tx.txType = "TOPUP" THEN tx.amount ELSE -tx.amount

(* The balance from the history is the sum over every transaction.           *)
Worth(tx) == IF tx.txType = "TOPUP" THEN tx.amount ELSE -(tx.amount + tx.fee)
BalanceBefore(places, tx) ==
    MapThenSumSet(LAMBDA i : Worth(ledger[i]), {i \in OfToken(places, tx.token) : ledger[i].nonce < tx.nonce})

(* The commitment of a send: from its metadata, or from the balance before   *)
(* its nonce, which has to give the hash that is on chain.                   *)
CommitmentForPartialSend(places, tx) ==
    IF tx.metadata THEN CommitmentOf(tx)
    ELSE LET slow == CommitmentForSend(tx, BalanceBefore(places, tx))
         IN IF slow = CommitmentOf(tx) THEN slow ELSE Throws

(* The top-ups' commitments come first, the sends' after them, each once; the*)
(* start indices are in the order of the transactions.                       *)
IncompleteCommitments(places, txs) ==
    LET of(txType) == Select(txs, {i \in ToSet(txs) : ledger[i].txType = txType})
        stores == [n \in 1..Len(of("TOPUP")) |-> CommitmentForPartialStore(ledger[of("TOPUP")[n]])]
        sends == [n \in 1..Len(of("SEND")) |-> CommitmentForPartialSend(places, ledger[of("SEND")[n]])]
    IN [commitments |-> FoldLeft(LAMBDA set, c : IF Contains(set, c) THEN set ELSE Append(set, c),
                                 <<>>, stores \o sends),
        startIndices |-> [n \in 1..Len(txs) |-> ledger[txs[n]].startIndex]]

(* activateCommitments: each commitment is searched from the start index at  *)
(* its place, and is found at or after it.                                   *)
LeavesOf(k, c) == {i - 1 : i \in {j \in 1..k : CommitmentOf(ledger[j]) = c}}
Activates(k, comms) ==
    /\ Len(comms.commitments) = Len(comms.startIndices)
    /\ \A n \in 1..Len(comms.commitments) :
          /\ comms.commitments[n] # Throws
          /\ \E leaf \in LeavesOf(k, comms.commitments[n]) : leaf >= comms.startIndices[n]

-----------------------------------------------------------------------------
(* Nothing lands any more once the balance is there, which is when it is     *)
(* judged.                                                                   *)
Growing == Len(ledger) < MaxTxs /\ call.pc \in {"idle", "refreshing", "fetching"}

(* A transaction is built by some device of the user, on what it saw: at most*)
(* MaxMissed landed since. What a send spends must be unspent when it lands. *)
Seen == {k \in 0..Len(ledger) : k >= Len(ledger) - MaxMissed}
NextNonce(k) == Max({-1} \cup {ledger[i].nonce : i \in 1..k}) + 1

(* getActiveCommitments: the active transactions, if all can be activated.   *)
GetActiveCommitments(k, token) ==
    {active \in {ActiveTxs(1..k, token, laterFirst) : laterFirst \in BOOLEAN} :
        Activates(k, IncompleteCommitments(1..k, active))}

(* Two transactions with the same commitment, which the cache takes for one, *)
(* are left out.                                                             *)
Land(tx) ==
    /\ \A i \in 1..Len(ledger) : CommitmentOf(ledger[i]) # CommitmentOf(tx)
    /\ ledger' = Append(ledger, tx)
    /\ UNCHANGED <<cache, call>>

TopUp(token, amount, active, kn, ks) ==
    /\ Len(active) < SendArity
    /\ Land([nonce |-> NextNonce(kn), txType |-> "TOPUP", token |-> token, amount |-> amount,
             fee |-> TxFee, metadata |-> FALSE, startIndex |-> ks, balance |-> amount, inputs |-> {}])

(* A merge is a send of nothing to oneself. Sends without metadata are from  *)
(* before those with it.                                                     *)
Send(token, amount, metadata, active, kn, ks) ==
    LET inputs == ToSet(active)
        privateBalance == MapThenSumSet(LAMBDA i : ledger[i].balance, inputs)
    IN /\ Len(active) \in 1..SendArity
       /\ metadata \/ \A i \in 1..Len(ledger) : ~ledger[i].metadata
       /\ inputs \cap Spent(1..Len(ledger)) = {}
       /\ privateBalance >= amount + TxFee
       /\ Land([nonce |-> NextNonce(kn), txType |-> "SEND", token |-> token, amount |-> amount,
                fee |-> TxFee, metadata |-> metadata, startIndex |-> ks,
                balance |-> privateBalance - amount - TxFee, inputs |-> inputs])

-----------------------------------------------------------------------------
(* What the instance does, one call at a time. Every call for the newest     *)
(* transactions begins with a refresh of the cache; which call it was shows  *)
(* when the refresh ends.                                                    *)
Idle == [pc |-> "idle", fn |-> "history", token |-> CHOOSE t \in Tokens : TRUE, before |-> NoBefore,
         since |-> 0, asked |-> {}, next |-> 0, told |-> FALSE,
         lowest |-> NoBefore, total |-> 0, result |-> 0]

LatestCachedNonce == Max({-1} \cup {ledger[i].nonce : i \in cache})
IsCachedNonce(n) == \E i \in cache : ledger[i].nonce = n

AskBatch(c, from) ==
    [c EXCEPT !.asked = from..from + RefreshSize - 1, !.next = from + RefreshSize, !.told = FALSE]

(* getLatestTransactionsIntoCache: batch after batch up to an empty one.     *)
Refresh ==
    /\ call.pc = "idle"
    /\ call' = AskBatch([Idle EXCEPT !.pc = "refreshing", !.since = Len(ledger)], LatestCachedNonce + 1)
    /\ UNCHANGED <<ledger, cache>>

(* What has landed with a nonce when it is asked for, in any order.          *)
OfNonce(n) == {i \in 1..Len(ledger) : ledger[i].nonce = n}

Tell(n) ==
    /\ cache' = cache \cup OfNonce(n)
    /\ call' = [call EXCEPT !.asked = @ \ {n}, !.told = @ \/ OfNonce(n) # {}]
    /\ UNCHANGED ledger

NextRefresh ==
    /\ call.pc = "refreshing" /\ call.asked = {} /\ call.told
    /\ call' = AskBatch(call, call.next)
    /\ UNCHANGED <<ledger, cache>>

Refreshed == call.pc = "refreshing" /\ call.asked = {} /\ ~call.told

GetMostRecentTx ==
    /\ Refreshed
    /\ call' = Idle
    /\ UNCHANGED <<ledger, cache>>

(* getTxs: what is older than a cached transaction needs no refresh.         *)
NeedsRefresh(before) == before > LatestCachedNonce

(* A balance adds up batches from the newest transaction on, each asked for  *)
(* when the one before is there.                                             *)
GetPrivateBalance(fn, token, before) ==
    /\ IF NeedsRefresh(before) THEN Refreshed ELSE call.pc = "idle"
    /\ call' = [Idle EXCEPT
           !.pc = "fetching", !.fn = fn, !.token = token, !.before = before, !.lowest = before,
           !.since = IF call.pc = "idle" THEN Len(ledger) ELSE call.since]
    /\ UNCHANGED <<ledger, cache>>

(* fetchTxsIntoCache: a nonce of which nothing is cached is asked again      *)
(* before a batch that reaches below it. Which batch asks is left open.      *)
Gaps(lowest) == {n \in lowest..LatestCachedNonce : ~IsCachedNonce(n)}
FillGap(n) ==
    /\ call.pc = "fetching" /\ n < call.lowest
    /\ cache' = cache \cup OfNonce(n)
    /\ UNCHANGED <<ledger, call>>

Fetching == call.pc = "fetching" /\ call.lowest >= 0
Return(value) == call' = [call EXCEPT !.pc = "done", !.result = value]
Throw == call' = [call EXCEPT !.pc = "threw"]

(* A batch has no gap between its newest transaction and its oldest, nor any *)
(* below if it is not full.                                                  *)
Filled(batch) ==
    \A n \in Gaps(IF Len(batch) < BatchSize THEN 0 ELSE LowestFetchedNonce(batch)) : n >= call.lowest

SumOfWorth(txs) == FoldLeft(LAMBDA sum, i : sum + Worth(ledger[i]), 0, txs)

NextBatch(batch) ==
    call' = [call EXCEPT !.total = @ + SumOfWorth(batch), !.lowest = LowestFetchedNonce(batch)]

BatchFromTxHistory ==
    /\ Fetching /\ call.fn = "history"
    /\ \E laterFirst \in BOOLEAN :
        LET batch == FetchTxs(cache, BatchSize, call.token, call.lowest, laterFirst)
        IN Filled(batch) /\ NextBatch(batch)
    /\ UNCHANGED <<ledger, cache>>

(* Mutant: top-ups that share the nonce of the send are left out.            *)
AfterSendOnly(batch, n) == ledger[batch[n]].balance + SumOfWorth(SubSeq(batch, 1, n - 1))

(* The balance a send left, what came after it, and the top-ups that share   *)
(* its nonce.                                                                *)
AfterSend(batch, n) ==
    LET later == SubSeq(batch, n + 1, Len(batch))
        sameNonce == Select(later, {i \in ToSet(later) : ledger[i].nonce = ledger[batch[n]].nonce})
    IN ledger[batch[n]].balance + SumOfWorth(SubSeq(batch, 1, n - 1) \o sameNonce)

BatchFromMetadata ==
    /\ Fetching /\ call.fn = "metadata"
    /\ \E laterFirst \in BOOLEAN :
        LET batch == FetchTxs(cache, BatchSize, call.token, call.lowest, laterFirst)
            sends == {n \in 1..Len(batch) : ledger[batch[n]].metadata}
            send == Min(sends)
            twoSends == \E n \in (send + 1)..Len(batch) :
                           /\ ledger[batch[n]].txType = "SEND"
                           /\ ledger[batch[n]].nonce = ledger[batch[send]].nonce
        IN /\ Filled(batch)
           /\ \/ sends = {} /\ NextBatch(batch)
              \/ sends # {} /\ twoSends /\ Throw
              \/ sends # {} /\ ~twoSends /\ Return(call.total + AfterSend(batch, send))
    /\ UNCHANGED <<ledger, cache>>

FetchedAll ==
    /\ call.pc = "fetching" /\ call.lowest < 0
    /\ Return(call.total)
    /\ UNCHANGED <<ledger, cache>>

-----------------------------------------------------------------------------
Init ==
    /\ ledger = <<>>
    /\ cache = {}
    /\ call = Idle

(* Before a send of which the metadata is missing: one that was fetched.     *)
Befores(token) == {NoBefore} \cup {ledger[i].nonce :
                     i \in {j \in OfToken(cache, token) : ledger[j].txType = "SEND" /\ ~ledger[j].metadata}}

Next ==
    \/ /\ Growing
       /\ \E token \in Tokens, ka \in Seen : \E active \in GetActiveCommitments(ka, token), kn, ks \in Seen :
             \/ \E amount \in TopUps : TopUp(token, amount, active, kn, ks)
             \/ \E amount \in Sends, metadata \in BOOLEAN : Send(token, amount, metadata, active, kn, ks)
    \/ Refresh
    \/ \E n \in call.asked : Tell(n)
    \/ NextRefresh
    \/ GetMostRecentTx
    \/ \E token \in Tokens :
          \/ GetPrivateBalance("metadata", token, NoBefore)
          \/ \E before \in Befores(token) : GetPrivateBalance("history", token, before)
    \/ \E n \in Gaps(0) : FillGap(n)
    \/ BatchFromTxHistory
    \/ BatchFromMetadata
    \/ FetchedAll

Spec == Init /\ [][Next]_vars

-----------------------------------------------------------------------------
Done(fn) == call.pc = "done" /\ call.fn = fn
OfSomeMoment == \E k \in call.since..Len(ledger) : call.result = UnspentBalance(k, call.token)

(* The instance has been told all transactions of a nonce, or none.          *)
NoneMissed == \A i \in 1..Len(ledger) : IsCachedNonce(ledger[i].nonce) => i \in cache

(* What landed during the call had not missed anything.                      *)
NoneLate ==
    \A i \in call.since + 1..Len(ledger) : \A j \in 1..i - 1 : ledger[j].nonce < ledger[i].nonce

(* The balance from the history is what was unspent at some moment during the*)
(* call, if the instance missed no transaction that shares its nonce with one*)
(* it had been told, and what landed during the call missed none. Nonces may *)
(* be shared otherwise, and anything may land between the batches.           *)
HistoryExact == Done("history") /\ call.before = NoBefore /\ NoneMissed /\ NoneLate => OfSomeMoment

(* "This is slower, but guaranteed to be accurate" (TransactionManager.ts,   *)
(* line 76): when nothing lands meanwhile, the balance is what is unspent. It*)
(* is not, as a nonce with one cached transaction is never asked again.      *)
HistoryAccurate ==
    Done("history") /\ call.before = NoBefore /\ call.since = Len(ledger) =>
    call.result = UnspentBalance(Len(ledger), call.token)

(* What is older than a send, by its nonce.                                  *)
Older(n) == {i \in OfToken(1..Len(ledger), ledger[n].token) : ledger[i].nonce < ledger[n].nonce}

(* A send spent everything older that nothing older had spent, and nothing   *)
(* else: that it is spent by now does not do, as another send with the same  *)
(* nonce may have spent it.                                                  *)
InOrder(n) == ledger[n].inputs = Older(n) \ Spent(Older(n))

(* The balance from the metadata of the newest send is that, too, although it*)
(* reads no further back than that send, as long as each send spent what was *)
(* older and nothing else.                                                   *)
MetadataExact ==
    /\ Done("metadata") /\ NoneMissed /\ NoneLate
    /\ \A n \in OfToken(1..Len(ledger), call.token) : ledger[n].metadata => InOrder(n)
    => OfSomeMoment

(* The balance before a send is the sum of what it spent, so that what it    *)
(* left can be rebuilt without metadata, if nothing older was missed.        *)
BeforeSendExact ==
    \A n \in OfToken(1..Len(ledger), call.token) :
        /\ call.pc = "done" /\ NoneMissed
        /\ ledger[n].nonce = call.before /\ ledger[n].txType = "SEND" /\ InOrder(n)
        => call.result = MapThenSumSet(LAMBDA i : ledger[i].balance, ledger[n].inputs)

(* An instance that is up to date can rebuild the active commitments, and    *)
(* finds each in the tree at or after the start index it is paired with,     *)
(* unless a top-up shares the nonce of the active send.                      *)
ActivatesFromStart ==
    call.pc = "idle" /\ NoneMissed /\ Gaps(0) = {} =>
    \A token \in Tokens, laterFirst \in BOOLEAN :
        LET active == ActiveTxs(cache, token, laterFirst)
            sends == {i \in ToSet(active) : ledger[i].txType = "SEND"}
        IN /\ \A i \in sends, j \in ToSet(active) \ sends : ledger[i].nonce # ledger[j].nonce
           /\ \A i \in sends : ledger[i].metadata \/ InOrder(i)
           => Activates(Len(ledger), IncompleteCommitments(cache, active))
=============================================================================
