--------------------------- MODULE ElusivClient ---------------------------
(* Operations on a private account: Elusiv.buildTopUpTx and buildSendTx, the *)
(* merge that a top-up may need first, sendElusivTxWithTracking and its      *)
(* recovery from a lost answer, with the remote parameters they fetch.       *)
(*                                                                           *)
(* The history is what TxHistory promises while no nonce is used twice: a    *)
(* read tells of the transactions that are finalized at some moment between  *)
(* its start and its end. But two reads of one instance that overlap share   *)
(* its cache, and one of them may end its refresh early, on what the other   *)
(* has cached by then. The tree is what CommitmentSearch promises: a         *)
(* commitment in it is found.                                                *)
EXTENDS Integers, Sequences, FiniteSets

CONSTANTS
    Clients,      \* operations that may be in progress at the same time
    Tokens,       \* the token types
    SendArity,    \* SEND_ARITY
    FindSigCount, \* the count findSig fetches
    BatchSize,    \* DEFAULT_FETCH_BATCH_SIZE
    Failures,     \* what may fail: "node", "warden", "fetch failed", "timeout", "crash"
    Careful,      \* after a failure the user waits until nothing is under way
    MaxSent,      \* bound: nothing is begun after this many transactions were built
    MaxRestart,   \* bound: a longer history is not met by a new instance
    NoTx          \* no transaction

(* The data of a transaction: id tells it from others with the same nonce,   *)
(* inputs are the ids of the transactions whose commitments it spends.       *)
ElusivTx == [id : Nat, nonce : Nat, txType : {"TOPUP", "SEND"}, token : Tokens, inputs : SUBSET Nat]

ASSUME ClientAssumption ==
    /\ Tokens # {}
    /\ SendArity \in Nat \ {0, 1}
    /\ FindSigCount \in Nat \ {0, 1}
    /\ BatchSize \in Nat \ {0}
    /\ Failures \subseteq {"node", "warden", "fetch failed", "timeout", "crash"}
    /\ Careful \in BOOLEAN
    /\ MaxSent \in Nat /\ MaxRestart \in Int
    /\ NoTx \notin ElusivTx

VARIABLES
    ledger,   \* the transactions on chain, in the order they landed
    visible,  \* how many of them, from the first, are finalized
    inserted, \* how many commitments, from the first, are in the tree
    warden,   \* transactions a warden has, not yet landed or rejected
    built,    \* how many transactions were built
    op,       \* the operation of each client
    stray,    \* reads of builds that have failed, still under way
    fetched,  \* the newest nonce in the cache of each client's instance, or -1
    failures  \* what may fail in this behaviour, everything of Failures or nothing

chainVars == <<ledger, visible, inserted, warden, failures>>
vars == <<ledger, visible, inserted, warden, built, op, stray, fetched, failures>>

Idle(outcome) ==
    [pc |-> "idle", outcome |-> outcome, txType |-> "TOPUP", token |-> CHOOSE t \in Tokens : TRUE,
     active |-> "done", activeTxs |-> {}, recent |-> "done", recentTx |-> NoTx, from |-> -1,
     lastNonce |-> -1, tx |-> NoTx, merging |-> FALSE, merge |-> FALSE]

Operations ==
    [pc : {"idle", "params", "built", "sending", "recovering", "awaiting", "findSig"},
     outcome : {"none", "resolved", "failed"}, txType : {"TOPUP", "SEND"}, token : Tokens,
     active : {"read", "check", "done"}, activeTxs : SUBSET ElusivTx,
     recent : {"read", "check", "done"}, recentTx : ElusivTx \cup {NoTx}, from : Int,
     lastNonce : Nat \cup {-1}, tx : ElusivTx \cup {NoTx}, merging : BOOLEAN, merge : BOOLEAN]

-----------------------------------------------------------------------------
(* The chain.                                                                *)
Landed == {ledger[i] : i \in 1..Len(ledger)}
Visible == {ledger[i] : i \in 1..visible}
InTree == {ledger[i] : i \in 1..inserted}
SpentBy(txs) == UNION {t.inputs : t \in txs}

(* A commitment is spent once.                                               *)
Land(x) ==
    /\ x \in warden
    /\ x.inputs \cap SpentBy(Landed) = {}
    /\ ledger' = Append(ledger, x)
    /\ warden' = warden \ {x}
    /\ UNCHANGED <<visible, inserted, built, op, stray, fetched, failures>>

Reject(x) ==
    /\ x \in warden
    /\ "warden" \in failures \/ x.inputs \cap SpentBy(Landed) # {}
    /\ warden' = warden \ {x}
    /\ UNCHANGED <<ledger, visible, inserted, built, op, stray, fetched, failures>>

Finalize ==
    /\ visible < Len(ledger)
    /\ visible' = visible + 1
    /\ UNCHANGED <<ledger, inserted, warden, built, op, stray, fetched, failures>>

Insert ==
    /\ inserted < Len(ledger)
    /\ inserted' = inserted + 1
    /\ UNCHANGED <<ledger, visible, warden, built, op, stray, fetched, failures>>

-----------------------------------------------------------------------------
(* The history as fetchTxs gives it.                                         *)
OfToken(txs, token) == {t \in txs : t.token = token}
Newest(count, txs) == {t \in txs : Cardinality({u \in txs : u.nonce > t.nonce}) < count}
First(txs) == {t \in txs : \A u \in txs : u.nonce <= t.nonce}
Sends(txs) == {t \in txs : t.txType = "SEND"}

(* Mutant: the send itself is left out.                                      *)
ActiveTxsWithoutSend(txs) ==
    IF Sends(txs) = {} THEN {txs}
    ELSE {{t \in txs : t.nonce > send.nonce} : send \in First(Sends(txs))}

(* getActiveTxs: everything from the newest back to the newest send, with    *)
(* the top-ups that share its nonce; everything fetched if there is none.    *)
(* The order of transactions that share a nonce is not fixed.                *)
ActiveTxs(txs) ==
    IF Sends(txs) = {} THEN {txs}
    ELSE {{t \in txs : \/ t.nonce > send.nonce
                       \/ t.nonce = send.nonce /\ t.txType = "TOPUP"} \cup {send} :
             send \in First(Sends(txs))}

(* What a read tells that began when from was the newest nonce in the cache: *)
(* all that is visible or, if it overlaps with another read, what had been   *)
(* cached when the next batch it would ask for was wholly there already, not *)
(* before it got one of its own.                                             *)
UpTo(n) == {t \in Visible : t.nonce <= n}
Early(p, from) ==
    {n \in {t.nonce : t \in Visible} : n >= from + 2 * BatchSize /\ n >= fetched[p]}
Told(p, from, overlaps) ==
    {Visible} \cup (IF overlaps THEN {UpTo(n) : n \in Early(p, from)} ELSE {})

(* What a read tells is cached.                                              *)
CacheNewest(p, told) ==
    \/ /\ told = {} /\ UNCHANGED fetched
    \/ \E newest \in First(told) : fetched' = [fetched EXCEPT ![p] = newest.nonce]

(* So is what a read that fails has got by then.                             *)
CacheSome(p) ==
    \/ UNCHANGED fetched
    \/ \E t \in Visible : /\ t.nonce >= fetched[p]
                          /\ fetched' = [fetched EXCEPT ![p] = t.nonce]

-----------------------------------------------------------------------------
(* Nothing of an operation that failed is under way any more.                *)
Settled(p) ==
    /\ warden = {} /\ stray[p] = {}
    /\ visible = Len(ledger) /\ inserted = Len(ledger)

(* The reads of a build that have not come back.                             *)
Reading(o) == (IF o.active = "read" THEN {"active"} ELSE {})
              \cup (IF o.recent = "read" THEN {"recent"} ELSE {})

(* The operation ends with an error. Reads that have not come back still     *)
(* will, for nobody.                                                         *)
Fail(p) ==
    /\ op' = [op EXCEPT ![p] = Idle("failed")]
    /\ stray' = [stray EXCEPT ![p] = @ \cup Reading(op[p])]

(* buildTopUpTx, buildSendTx: both reads of the history are started.         *)
Build(p, txType, token) ==
    /\ op[p].pc = "idle"
    /\ Careful /\ op[p].outcome = "failed" => Settled(p)
    /\ built + 2 <= MaxSent
    /\ op' = [op EXCEPT ![p] = [Idle("none") EXCEPT !.pc = "params", !.txType = txType, !.token = token,
                                    !.active = "read", !.recent = "read", !.from = fetched[p]]]
    /\ UNCHANGED <<chainVars, built, stray, fetched>>

(* getActiveCommitments: the history of the token, then the tree.            *)
GetActiveTxs(p) ==
    /\ op[p].pc = "params" /\ op[p].active = "read"
    /\ \E told \in Told(p, op[p].from, op[p].recent = "read" \/ stray[p] # {}) :
          /\ \E active \in ActiveTxs(Newest(SendArity, OfToken(told, op[p].token))) :
                op' = [op EXCEPT ![p].activeTxs = active, ![p].active = "check"]
          /\ CacheNewest(p, told)
    /\ UNCHANGED <<chainVars, built, stray>>

StrayRead(p, read) ==
    /\ read \in stray[p]
    /\ stray' = [stray EXCEPT ![p] = @ \ {read}]
    /\ CacheSome(p)
    /\ UNCHANGED <<chainVars, built, op>>

ActivateCommitments(p) ==
    /\ op[p].pc = "params" /\ op[p].active = "check"
    /\ IF op[p].activeTxs \subseteq InTree
       THEN op' = [op EXCEPT ![p].active = "done"] /\ UNCHANGED stray
       ELSE Fail(p)
    /\ UNCHANGED <<chainVars, built, fetched>>

(* getMostRecentNonce: the history of all tokens, then the tree.             *)
GetMostRecentTx(p) ==
    /\ op[p].pc = "params" /\ op[p].recent = "read"
    /\ \E told \in Told(p, op[p].from, op[p].active = "read" \/ stray[p] # {}) :
          /\ \/ /\ told = {}
                /\ op' = [op EXCEPT ![p].recent = "done", ![p].lastNonce = -1]
             \/ \E tx \in First(told) :
                   op' = [op EXCEPT ![p].recent = "check", ![p].recentTx = tx]
          /\ CacheNewest(p, told)
    /\ UNCHANGED <<chainVars, built, stray>>

IsTransactionConfirmed(p) ==
    /\ op[p].pc = "params" /\ op[p].recent = "check"
    /\ IF op[p].recentTx \in InTree
       THEN /\ op' = [op EXCEPT ![p].recent = "done", ![p].lastNonce = op[p].recentTx.nonce]
            /\ UNCHANGED stray
       ELSE Fail(p)
    /\ UNCHANGED <<chainVars, built, fetched>>

(* Mutant: the next nonce is the last one.                                   *)
SameNonce(lastNonce) == lastNonce

NextNonce(lastNonce) == lastNonce + 1

(* Mutant: one top-up too many before a merge.                               *)
NeedMergeLate(active) == active = SendArity + 1

NeedMerge(active) == active = SendArity

NewTx(p, nonce, txType, inputs) ==
    [id |-> built, nonce |-> nonce, txType |-> txType, token |-> op[p].token, inputs |-> inputs]

(* Both reads are back. A send spends the active commitments, of which its   *)
(* proof takes 1 to SEND_ARITY. A top-up that finds SEND_ARITY of them       *)
(* merges them first, and the merge goes to the warden at once, unless the   *)
(* user wants to merge manually.                                             *)
BuildTx(p) ==
    LET o == op[p]
        nonce == NextNonce(o.lastNonce)
        send == NewTx(p, nonce, "SEND", {t.id : t \in o.activeTxs})
        active == Cardinality(o.activeTxs)
    IN /\ o.pc = "params" /\ o.active = "done" /\ o.recent = "done"
       /\ \/ /\ \/ o.txType = "SEND" /\ active \notin 1..SendArity
                \/ o.txType = "TOPUP" /\ (active > SendArity \/ NeedMerge(active))
             /\ Fail(p)
             /\ UNCHANGED <<warden, built>>
          \/ /\ o.txType = "SEND" /\ active \in 1..SendArity
             /\ op' = [op EXCEPT ![p].pc = "built", ![p].tx = send]
             /\ built' = built + 1
             /\ UNCHANGED <<warden, stray>>
          \/ /\ o.txType = "TOPUP" /\ active <= SendArity /\ ~NeedMerge(active)
             /\ op' = [op EXCEPT ![p].pc = "built", ![p].tx = NewTx(p, nonce, "TOPUP", {})]
             /\ built' = built + 1
             /\ UNCHANGED <<warden, stray>>
          \/ /\ o.txType = "TOPUP" /\ NeedMerge(active)
             /\ op' = [op EXCEPT ![p].pc = "sending", ![p].tx = send, ![p].merging = TRUE]
             /\ warden' = warden \cup {send}
             /\ built' = built + 1
             /\ UNCHANGED stray
       /\ UNCHANGED <<ledger, visible, inserted, fetched, failures>>

-----------------------------------------------------------------------------
(* The user sends what was built, or does not.                               *)
Send(p) ==
    /\ op[p].pc = "built"
    /\ op' = [op EXCEPT ![p].pc = "sending"]
    /\ warden' = warden \cup {op[p].tx}
    /\ UNCHANGED <<ledger, visible, inserted, built, stray, fetched, failures>>

Drop(p) ==
    /\ op[p].pc = "built"
    /\ op' = [op EXCEPT ![p] = Idle("none")]
    /\ UNCHANGED <<chainVars, built, stray, fetched>>

(* The warden answers with a signature.                                      *)
WardenOk(p) ==
    /\ op[p].pc = "sending" /\ op[p].tx \in Landed
    /\ op' = [op EXCEPT ![p].pc = "awaiting"]
    /\ UNCHANGED <<chainVars, built, stray, fetched>>

(* The warden answers with an error, of which the client makes nothing more. *)
WardenError(p) ==
    /\ op[p].pc = "sending"
    /\ "warden" \in failures \/ op[p].tx \notin warden \cup Landed
    /\ Fail(p)
    /\ UNCHANGED <<chainVars, built, fetched>>

(* The connection to the warden is lost: 'fetch failed'.                     *)
FetchFailed(p) ==
    /\ op[p].pc = "sending" /\ "fetch failed" \in failures
    /\ op' = [op EXCEPT ![p].pc = "recovering"]
    /\ UNCHANGED <<chainVars, built, stray, fetched>>

(* Mutant: any newest transaction will do.                                   *)
RecoverAny(p) ==
    /\ op[p].pc = "recovering" /\ Visible # {}
    /\ op' = [op EXCEPT ![p].pc = "awaiting"]
    /\ UNCHANGED <<chainVars, built, stray, fetched>>

(* fetchTxs(1): the transaction went through if the newest one has the nonce *)
(* after lastNonce.                                                          *)
Recover(p) ==
    /\ op[p].pc = "recovering"
    /\ \E told \in Told(p, fetched[p], stray[p] # {}) :
          /\ \E mostRecent \in First(told) \cup {NoTx} :
                /\ mostRecent = NoTx <=> told = {}
                /\ IF mostRecent # NoTx /\ mostRecent.nonce = op[p].lastNonce + 1
                   THEN op' = [op EXCEPT ![p].pc = "awaiting"] /\ UNCHANGED stray
                   ELSE Fail(p)
          /\ CacheNewest(p, told)
    /\ UNCHANGED <<chainVars, built>>

(* The commitment is found at or after merkleStartIndex.                     *)
AwaitCommitmentInsertion(p) ==
    /\ op[p].pc = "awaiting"
    /\ op[p].tx \in InTree
    /\ op' = [op EXCEPT ![p].pc = "findSig"]
    /\ UNCHANGED <<chainVars, built, stray, fetched>>

(* Mutant: findSig fetches until it finds.                                   *)
TimeoutOfAwait(p) ==
    /\ op[p].pc = "awaiting" /\ "timeout" \in failures
    /\ Fail(p)
    /\ UNCHANGED <<chainVars, built, fetched>>

(* Ten minutes for the commitment, 120 fetches for the transaction.          *)
Timeout(p) ==
    /\ op[p].pc \in {"awaiting", "findSig"} /\ "timeout" \in failures
    /\ Fail(p)
    /\ UNCHANGED <<chainVars, built, fetched>>

(* Mutant: the top-up after a merge is looked for at the nonce of the merge. *)
SigNonceOfMerge(o) == NextNonce(o.lastNonce)

SigNonce(o) == IF o.merge THEN o.lastNonce + 2 ELSE o.lastNonce + 1

(* Mutant: any transaction of the type will do.                              *)
SigFoundOfType(o, txs) ==
    /\ \E t \in txs : t.txType = o.tx.txType
    /\ o.merge => \E t \in txs : t.txType = "SEND"

(* What findSig looks for: the transaction, by nonce and type, and before    *)
(* the top-up after a merge, the merge.                                      *)
SigFound(o, txs) ==
    /\ \E t \in txs : t.nonce = SigNonce(o) /\ t.txType = o.tx.txType
    /\ o.merge => \E t \in txs : t.nonce = o.lastNonce + 1 /\ t.txType = "SEND"

(* A fetch of findSig. Found, the operation is over, or, after the merge,    *)
(* the top-up is built on it; lastNonce is still that before the merge.      *)
FindSig(p) ==
    /\ op[p].pc = "findSig"
    /\ \E told \in Told(p, fetched[p], stray[p] # {}) :
          /\ \/ /\ ~SigFound(op[p], Newest(FindSigCount, told))
                /\ UNCHANGED <<op, built>>
             \/ /\ SigFound(op[p], Newest(FindSigCount, told)) /\ op[p].merging
                /\ op' = [op EXCEPT ![p].pc = "built", ![p].merging = FALSE, ![p].merge = TRUE,
                                    ![p].tx = NewTx(p, NextNonce(op[p].lastNonce + 1), "TOPUP", {})]
                /\ built' = built + 1
             \/ /\ SigFound(op[p], Newest(FindSigCount, told)) /\ ~op[p].merging
                /\ op' = [op EXCEPT ![p] = Idle("resolved")]
                /\ UNCHANGED built
          /\ CacheNewest(p, told)
    /\ UNCHANGED <<chainVars, stray>>

(* A request to the node fails and with it the operation; other reads of the *)
(* build are left under way.                                                 *)
NodeError(p) ==
    /\ op[p].pc \in {"params", "recovering", "findSig"} /\ "node" \in failures
    /\ op' = [op EXCEPT ![p] = Idle("failed")]
    /\ \E left \in SUBSET Reading(op[p]) : stray' = [stray EXCEPT ![p] = @ \cup left]
    /\ CacheSome(p)
    /\ UNCHANGED <<chainVars, built>>

(* A new instance for the account, whose cache is empty, after a crash or    *)
(* at the user's choice.                                                     *)
Restart(p) ==
    /\ op[p].pc = "idle" \/ "crash" \in failures
    /\ Len(ledger) + Cardinality(warden) <= MaxRestart
    /\ op' = [op EXCEPT ![p] = IF @.pc = "idle" THEN @ ELSE Idle("failed")]
    /\ fetched' = [fetched EXCEPT ![p] = -1]
    /\ stray' = [stray EXCEPT ![p] = {}]
    /\ UNCHANGED <<chainVars, built>>

-----------------------------------------------------------------------------
Init ==
    /\ ledger = <<>> /\ visible = 0 /\ inserted = 0 /\ warden = {}
    /\ built = 0
    /\ op = [p \in Clients |-> Idle("none")]
    /\ stray = [p \in Clients |-> {}]
    /\ fetched = [p \in Clients |-> -1]
    /\ failures \in {{}, Failures}

Chain == (\E x \in warden : Land(x) \/ Reject(x)) \/ Finalize \/ Insert
User(p) == \/ \E txType \in {"TOPUP", "SEND"}, token \in Tokens : Build(p, txType, token)
           \/ Send(p) \/ Drop(p) \/ Restart(p)
Fetch(p) == \/ GetActiveTxs(p) \/ ActivateCommitments(p) \/ GetMostRecentTx(p)
            \/ IsTransactionConfirmed(p) \/ BuildTx(p) \/ Recover(p)
WardenReply(p) == WardenOk(p) \/ WardenError(p) \/ FetchFailed(p)
Track(p) == AwaitCommitmentInsertion(p) \/ FindSig(p)

Client(p) == \/ User(p) \/ Fetch(p) \/ WardenReply(p) \/ Track(p)
             \/ Timeout(p) \/ NodeError(p)
             \/ \E read \in {"active", "recent"} : StrayRead(p, read)

Next == Chain \/ \E p \in Clients : Client(p)

Spec == Init /\ [][Next]_vars

(* Requests are answered or fail, and timeouts pass. Nothing is assumed of   *)
(* the user.                                                                 *)
ClientFairness ==
    \A p \in Clients : /\ WF_vars(Fetch(p)) /\ WF_vars(WardenReply(p))
                       /\ WF_vars(Track(p)) /\ WF_vars(Timeout(p))
FairSpec == Spec /\ ClientFairness

(* The warden and the cluster do their work.                                 *)
ChainFairness == WF_vars(Chain)

-----------------------------------------------------------------------------
(* Properties.                                                               *)

(* Every variable holds values of its kind, and an operation has the         *)
(* transaction it works with.                                                *)
HasTx ==
    \A p \in Clients :
        /\ op[p].pc \notin {"idle", "params"} => op[p].tx \in ElusivTx
        /\ op[p].recent = "check" => op[p].recentTx \in ElusivTx
TypeOK ==
    /\ ledger \in Seq(ElusivTx)
    /\ visible \in 0..Len(ledger)
    /\ inserted \in 0..Len(ledger)
    /\ warden \subseteq ElusivTx
    /\ built \in Nat
    /\ op \in [Clients -> Operations]
    /\ stray \in [Clients -> SUBSET {"active", "recent"}]
    /\ fetched \in [Clients -> Int]
    /\ failures \subseteq Failures
    /\ HasTx

(* The client keeps the promise of Account.                                  *)
Promise == INSTANCE Account WITH history <-
    [i \in 1..Len(ledger) |-> [nonce |-> ledger[i].nonce, txType |-> ledger[i].txType,
                               token |-> ledger[i].token]]
KeepsAccount == Promise!Spec

(* What getActiveTxs takes to be active is what can be spent: it leaves out  *)
(* no commitment, which no later send would spend, and takes in none that is *)
(* spent already.                                                            *)
ActiveAreUnspent ==
    \A token \in Tokens : \A active \in ActiveTxs(Newest(SendArity, OfToken(Visible, token))) :
        active = {t \in OfToken(Visible, token) : t.id \notin SpentBy(Visible)}

(* "once you can send the next elusiv transaction": when an operation has    *)
(* resolved, everything that landed is finalized and in the tree and nothing *)
(* is on its way, so the next one is built on all of it.                     *)
ReadyWhenResolved ==
    \A p \in Clients : op[p].pc = "idle" /\ op[p].outcome = "resolved" =>
        warden = {} /\ visible = Len(ledger) /\ inserted = Len(ledger)

(* "catch and double check this case": an operation goes on after the        *)
(* warden's answer, or without it, only if its transaction has landed,       *)
(* unless it is a top-up after a merge, for which the double check looks for *)
(* the nonce of the merge.                                                   *)
AcceptedHasLanded ==
    \A p \in Clients : op[p].pc \in {"awaiting", "findSig"} /\ ~op[p].merge => op[p].tx \in Landed

(* Every operation ends, if timeouts pass, even if the warden and the        *)
(* cluster have stopped.                                                     *)
OperationsEnd ==
    \A p \in Clients :
        op[p].pc \notin {"idle", "built"} /\ "timeout" \in failures ~> op[p].pc \in {"idle", "built"}

(* If nothing fails and the warden and the cluster do their work, what a     *)
(* lone client sends goes through.                                           *)
SentResolves ==
    ChainFairness => \A p \in Clients :
        failures = {} /\ op[p].pc = "sending" ~>
            \/ op[p].pc = "idle" /\ op[p].outcome = "resolved"
            \/ op[p].pc = "built" /\ op[p].merge
=============================================================================
