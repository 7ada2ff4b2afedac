------------------------ MODULE ElusivClientProofs ------------------------
(* Proofs about ElusivClient, for every number of clients, set of tokens and *)
(* failures and every arity of a send.                                       *)
EXTENDS ElusivClient, FiniteSetTheorems, TLAPS

-----------------------------------------------------------------------------
(* What the chain and the history hold are transactions.                     *)
LEMMA TxsOfLedger ==
    ASSUME TypeOK
    PROVE  Landed \subseteq ElusivTx /\ Visible \subseteq ElusivTx
BY DEF TypeOK, Landed, Visible

LEMMA IdleIsOperation ==
    ASSUME NEW outcome \in {"none", "resolved", "failed"}
    PROVE  Idle(outcome) \in Operations
<1>1. (CHOOSE t \in Tokens : TRUE) \in Tokens
  BY ClientAssumption
<1>2. QED
  BY <1>1 DEF Idle, Operations

LEMMA NewestActive ==
    ASSUME NEW txs, txs \subseteq ElusivTx, NEW active \in ActiveTxs(txs)
    PROVE  active \subseteq ElusivTx
BY DEF ActiveTxs, First, Sends

LEMMA IdsAreNumbers ==
    ASSUME NEW txs, txs \subseteq ElusivTx
    PROVE  {t.id : t \in txs} \subseteq Nat
BY DEF ElusivTx

LEMMA NewTxType ==
    ASSUME TypeOK, NEW p \in Clients, NEW nonce \in Nat, NEW txType \in {"TOPUP", "SEND"},
           NEW inputs \in SUBSET Nat
    PROVE  NewTx(p, nonce, txType, inputs) \in ElusivTx
<1>1. op[p].token \in Tokens /\ built \in Nat
  BY DEF TypeOK, Operations
<1>2. QED
  BY <1>1 DEF NewTx, ElusivTx

-----------------------------------------------------------------------------
LEMMA ChainType ==
    TypeOK /\ Chain => TypeOK'
<1> SUFFICES ASSUME TypeOK, Chain PROVE TypeOK'
  OBVIOUS
<1>1. ASSUME NEW x \in warden, Land(x) PROVE TypeOK'
  BY <1>1 DEF TypeOK, HasTx, Land
<1>2. ASSUME NEW x \in warden, Reject(x) PROVE TypeOK'
  BY <1>2 DEF TypeOK, HasTx, Reject
<1>3. CASE Finalize
  BY <1>3 DEF TypeOK, HasTx, Finalize
<1>4. CASE Insert
  BY <1>4 DEF TypeOK, HasTx, Insert
<1>5. QED
  BY <1>1, <1>2, <1>3, <1>4 DEF Chain

(* What remains to be shown of an action of client p that leaves the chain   *)
(* alone: its own operation.                                                 *)
LEMMA OpType ==
    ASSUME TypeOK, NEW p \in Clients, NEW o \in Operations, op' = [op EXCEPT ![p] = o],
           o.pc \notin {"idle", "params"} => o.tx \in ElusivTx,
           o.recent = "check" => o.recentTx \in ElusivTx
    PROVE  op' \in [Clients -> Operations] /\ HasTx'
<1>1. op' \in [Clients -> Operations]
  BY DEF TypeOK
<1>2. \A q \in Clients : op'[q] = IF q = p THEN o ELSE op[q]
  BY DEF TypeOK
<1>3. QED
  BY <1>1, <1>2 DEF TypeOK, HasTx

LEMMA IdleType ==
    ASSUME TypeOK, NEW p \in Clients, NEW outcome \in {"none", "resolved", "failed"},
           op' = [op EXCEPT ![p] = Idle(outcome)]
    PROVE  op' \in [Clients -> Operations] /\ HasTx'
<1>1. Idle(outcome) \in Operations
  BY IdleIsOperation
<1>2. Idle(outcome).pc = "idle" /\ Idle(outcome).recent = "done"
  BY DEF Idle
<1>3. QED
  BY <1>1, <1>2, OpType

LEMMA FailType ==
    ASSUME TypeOK, NEW p \in Clients, Fail(p)
    PROVE  op' \in [Clients -> Operations] /\ HasTx'
           /\ stray' \in [Clients -> SUBSET {"active", "recent"}]
<1>1. op' \in [Clients -> Operations] /\ HasTx'
  BY IdleType DEF Fail
<1>2. Reading(op[p]) \subseteq {"active", "recent"}
  BY DEF Reading
<1>3. QED
  BY <1>1, <1>2 DEF TypeOK, Fail

(* The client goes on in state pc with the transaction it has.               *)
LEMMA GoOnType ==
    ASSUME TypeOK, NEW p \in Clients, op[p].pc \notin {"idle", "params"},
           NEW pc \in {"sending", "recovering", "awaiting", "findSig"},
           op' = [op EXCEPT ![p].pc = pc]
    PROVE  op' \in [Clients -> Operations] /\ HasTx'
<1> DEFINE o == [op[p] EXCEPT !.pc = pc]
<1>1. op[p] \in Operations
  BY DEF TypeOK
<1>2. o \in Operations /\ o.tx = op[p].tx /\ o.recent = op[p].recent /\ o.recentTx = op[p].recentTx
  BY <1>1 DEF Operations
<1>3. op' = [op EXCEPT ![p] = o]
  BY DEF TypeOK
<1>4. op[p].tx \in ElusivTx /\ (op[p].recent = "check" => op[p].recentTx \in ElusivTx)
  BY DEF TypeOK, HasTx
<1> HIDE DEF o
<1>5. QED
  BY <1>2, <1>3, <1>4, OpType

LEMMA UserType ==
    ASSUME TypeOK, NEW p \in Clients, User(p)
    PROVE  TypeOK'
<1>1. ASSUME NEW txType \in {"TOPUP", "SEND"}, NEW token \in Tokens, Build(p, txType, token)
      PROVE  TypeOK'
  <2> DEFINE o == [Idle("none") EXCEPT !.pc = "params", !.txType = txType, !.token = token,
                                       !.active = "read", !.recent = "read", !.from = fetched[p]]
  <2>1. Idle("none") \in Operations
    BY IdleIsOperation
  <2>2. o \in Operations /\ o.pc = "params" /\ o.recent = "read"
    BY <2>1 DEF Operations, TypeOK
  <2>3. op' = [op EXCEPT ![p] = o]
    BY <1>1 DEF Build
  <2> HIDE DEF o
  <2>4. op' \in [Clients -> Operations] /\ HasTx'
    BY <2>2, <2>3, OpType
  <2>5. QED
    BY <1>1, <2>4 DEF TypeOK, Build, chainVars
<1>2. CASE Send(p)
  <2>1. op' \in [Clients -> Operations] /\ HasTx'
    BY <1>2, GoOnType DEF Send
  <2>2. op[p].tx \in ElusivTx
    BY <1>2 DEF TypeOK, HasTx, Send
  <2>3. QED
    BY <1>2, <2>1, <2>2 DEF TypeOK, Send
<1>3. CASE Drop(p)
  <2>1. op' \in [Clients -> Operations] /\ HasTx'
    BY <1>3, IdleType DEF Drop
  <2>2. QED
    BY <1>3, <2>1 DEF TypeOK, Drop, chainVars
<1>4. CASE Restart(p)
  <2>1. CASE UNCHANGED op
    BY <1>4, <2>1 DEF TypeOK, HasTx, Restart, chainVars
  <2>2. CASE op' = [op EXCEPT ![p] = Idle("failed")]
    <3>1. op' \in [Clients -> Operations] /\ HasTx'
      BY <2>2, IdleType
    <3>2. QED
      BY <1>4, <3>1 DEF TypeOK, Restart, chainVars
  <2>3. QED
    BY <1>4, <2>1, <2>2 DEF Restart, TypeOK
<1>5. QED
  BY <1>1, <1>2, <1>3, <1>4 DEF User

-----------------------------------------------------------------------------
(* What a read tells are transactions of the ledger, and the cache holds     *)
(* nonces of theirs.                                                         *)
LEMMA ToldTxs ==
    ASSUME NEW p, NEW from, NEW overlaps, NEW told \in Told(p, from, overlaps)
    PROVE  told \subseteq Visible
BY DEF Told, UpTo

LEMMA CacheType ==
    ASSUME TypeOK, NEW p \in Clients,
           CacheSome(p) \/ \E told \in SUBSET Visible : CacheNewest(p, told)
    PROVE  fetched' \in [Clients -> Int]
<1>1. \A t \in Visible : t.nonce \in Int
  BY TxsOfLedger DEF ElusivTx
<1>2. CASE CacheSome(p)
  BY <1>1, <1>2 DEF TypeOK, CacheSome
<1>3. ASSUME NEW told \in SUBSET Visible, CacheNewest(p, told)
      PROVE  fetched' \in [Clients -> Int]
  BY <1>1, <1>3 DEF TypeOK, CacheNewest, First
<1>4. QED
  BY <1>2, <1>3

LEMMA GetActiveTxsType ==
    ASSUME TypeOK, NEW p \in Clients, GetActiveTxs(p)
    PROVE  TypeOK'
<1>1. PICK told \in Told(p, op[p].from, op[p].recent = "read" \/ stray[p] # {}) :
         /\ \E active \in ActiveTxs(Newest(SendArity, OfToken(told, op[p].token))) :
               op' = [op EXCEPT ![p].activeTxs = active, ![p].active = "check"]
         /\ CacheNewest(p, told)
  BY DEF GetActiveTxs
<1> DEFINE txs == Newest(SendArity, OfToken(told, op[p].token))
<1>2. PICK active \in ActiveTxs(txs) :
         op' = [op EXCEPT ![p].activeTxs = active, ![p].active = "check"]
  BY <1>1
<1>3. told \in SUBSET Visible /\ txs \subseteq ElusivTx
  BY ToldTxs, TxsOfLedger DEF Newest, OfToken
<1> HIDE DEF txs
<1>4. active \subseteq ElusivTx
  BY <1>3, NewestActive
<1> DEFINE o == [op[p] EXCEPT !.activeTxs = active, !.active = "check"]
<1>5. op[p] \in Operations
  BY DEF TypeOK
<1>6. o \in Operations /\ o.pc = op[p].pc /\ o.recent = op[p].recent /\ o.recentTx = op[p].recentTx
  BY <1>4, <1>5 DEF Operations
<1>7. op' = [op EXCEPT ![p] = o]
  BY <1>2 DEF TypeOK
<1>8. op[p].pc = "params" /\ (op[p].recent = "check" => op[p].recentTx \in ElusivTx)
  BY DEF GetActiveTxs, TypeOK, HasTx
<1> HIDE DEF o
<1>9. op' \in [Clients -> Operations] /\ HasTx'
  BY <1>6, <1>7, <1>8, OpType
<1>10. fetched' \in [Clients -> Int]
  BY <1>1, <1>3, CacheType
<1>11. QED
  BY <1>9, <1>10 DEF TypeOK, GetActiveTxs, chainVars

LEMMA StrayType ==
    ASSUME TypeOK, NEW p \in Clients, NEW read, StrayRead(p, read)
    PROVE  TypeOK'
<1>1. fetched' \in [Clients -> Int]
  BY CacheType DEF StrayRead
<1>2. stray' \in [Clients -> SUBSET {"active", "recent"}]
  BY DEF TypeOK, StrayRead
<1>3. QED
  BY <1>1, <1>2 DEF TypeOK, HasTx, StrayRead, chainVars

LEMMA ActivateType ==
    ASSUME TypeOK, NEW p \in Clients, ActivateCommitments(p)
    PROVE  TypeOK'
<1>1. CASE Fail(p)
  BY <1>1, FailType DEF TypeOK, ActivateCommitments, chainVars
<1>2. CASE op' = [op EXCEPT ![p].active = "done"] /\ UNCHANGED stray
  <2> DEFINE o == [op[p] EXCEPT !.active = "done"]
  <2>1. op[p] \in Operations
    BY DEF TypeOK
  <2>2. o \in Operations /\ o.pc = op[p].pc /\ o.recent = op[p].recent /\ o.recentTx = op[p].recentTx
    BY <2>1 DEF Operations
  <2>3. op' = [op EXCEPT ![p] = o]
    BY <1>2 DEF TypeOK
  <2>4. op[p].pc = "params" /\ (op[p].recent = "check" => op[p].recentTx \in ElusivTx)
    BY DEF ActivateCommitments, TypeOK, HasTx
  <2> HIDE DEF o
  <2>5. op' \in [Clients -> Operations] /\ HasTx'
    BY <2>2, <2>3, <2>4, OpType
  <2>6. QED
    BY <1>2, <2>5 DEF TypeOK, ActivateCommitments, chainVars
<1>3. QED
  BY <1>1, <1>2 DEF ActivateCommitments

LEMMA GetMostRecentType ==
    ASSUME TypeOK, NEW p \in Clients, GetMostRecentTx(p)
    PROVE  TypeOK'
<1>0. PICK told \in Told(p, op[p].from, op[p].active = "read" \/ stray[p] # {}) :
         /\ \/ /\ told = {}
               /\ op' = [op EXCEPT ![p].recent = "done", ![p].lastNonce = -1]
            \/ \E tx \in First(told) :
                  op' = [op EXCEPT ![p].recent = "check", ![p].recentTx = tx]
         /\ CacheNewest(p, told)
  BY DEF GetMostRecentTx
<1>1. op[p] \in Operations /\ told \in SUBSET Visible
  BY ToldTxs DEF TypeOK
<1>2. op' \in [Clients -> Operations] /\ HasTx'
  <2>1. CASE op' = [op EXCEPT ![p].recent = "done", ![p].lastNonce = -1]
    <3> DEFINE o == [op[p] EXCEPT !.recent = "done", !.lastNonce = -1]
    <3>1. o \in Operations /\ o.pc = op[p].pc /\ o.recent = "done"
      BY <1>1 DEF Operations
    <3>2. op' = [op EXCEPT ![p] = o]
      BY <2>1 DEF TypeOK
    <3>3. op[p].pc = "params"
      BY DEF GetMostRecentTx
    <3> HIDE DEF o
    <3>4. QED
      BY <3>1, <3>2, <3>3, OpType
  <2>2. ASSUME NEW tx \in First(told), op' = [op EXCEPT ![p].recent = "check", ![p].recentTx = tx]
        PROVE  op' \in [Clients -> Operations] /\ HasTx'
    <3> DEFINE o == [op[p] EXCEPT !.recent = "check", !.recentTx = tx]
    <3>1. tx \in ElusivTx
      BY <1>1, TxsOfLedger DEF First
    <3>2. o \in Operations /\ o.pc = op[p].pc /\ o.recentTx = tx
      BY <1>1, <3>1 DEF Operations
    <3>3. op' = [op EXCEPT ![p] = o]
      BY <2>2 DEF TypeOK
    <3>4. op[p].pc = "params"
      BY DEF GetMostRecentTx
    <3> HIDE DEF o
    <3>5. QED
      BY <3>1, <3>2, <3>3, <3>4, OpType
  <2>3. QED
    BY <1>0, <2>1, <2>2
<1>3. fetched' \in [Clients -> Int]
  BY <1>0, <1>1, CacheType
<1>4. QED
  BY <1>2, <1>3 DEF TypeOK, GetMostRecentTx, chainVars

LEMMA ConfirmedType ==
    ASSUME TypeOK, NEW p \in Clients, IsTransactionConfirmed(p)
    PROVE  TypeOK'
<1>1. CASE Fail(p)
  BY <1>1, FailType DEF TypeOK, IsTransactionConfirmed, chainVars
<1>2. CASE /\ op' = [op EXCEPT ![p].recent = "done", ![p].lastNonce = op[p].recentTx.nonce]
           /\ UNCHANGED stray
  <2> DEFINE o == [op[p] EXCEPT !.recent = "done", !.lastNonce = op[p].recentTx.nonce]
  <2>1. op[p] \in Operations /\ op[p].recentTx \in ElusivTx /\ op[p].pc = "params"
    BY DEF TypeOK, HasTx, IsTransactionConfirmed
  <2>2. op[p].recentTx.nonce \in Nat
    BY <2>1 DEF ElusivTx
  <2>3. o \in Operations /\ o.pc = op[p].pc /\ o.recent = "done"
    BY <2>1, <2>2 DEF Operations
  <2>4. op' = [op EXCEPT ![p] = o]
    BY <1>2 DEF TypeOK
  <2> HIDE DEF o
  <2>5. op' \in [Clients -> Operations] /\ HasTx'
    BY <2>1, <2>3, <2>4, OpType
  <2>6. QED
    BY <1>2, <2>5 DEF TypeOK, IsTransactionConfirmed, chainVars
<1>3. QED
  BY <1>1, <1>2 DEF IsTransactionConfirmed

LEMMA BuildTxType ==
    ASSUME TypeOK, NEW p \in Clients, BuildTx(p)
    PROVE  TypeOK'
<1> DEFINE nonce == NextNonce(op[p].lastNonce)
           inputs == {t.id : t \in op[p].activeTxs}
           send == NewTx(p, nonce, "SEND", inputs)
           topUp == NewTx(p, nonce, "TOPUP", {})
<1>1. op[p] \in Operations /\ op[p].pc = "params" /\ op[p].recent = "done" /\ built \in Nat
  BY DEF TypeOK, BuildTx
<1>2. op[p].activeTxs \subseteq ElusivTx /\ op[p].lastNonce \in Nat \cup {-1}
  BY <1>1 DEF Operations
<1>3. nonce \in Nat
  BY <1>2 DEF NextNonce
<1>4. inputs \subseteq Nat
  BY <1>2, IdsAreNumbers
<1> HIDE DEF nonce, inputs
<1>5. send \in ElusivTx /\ topUp \in ElusivTx
  BY <1>3, <1>4, NewTxType
<1>6. \/ Fail(p) /\ UNCHANGED <<warden, built>>
      \/ /\ \/ op' = [op EXCEPT ![p].pc = "built", ![p].tx = send]
            \/ op' = [op EXCEPT ![p].pc = "built", ![p].tx = topUp]
         /\ built' = built + 1 /\ UNCHANGED <<warden, stray>>
      \/ /\ op' = [op EXCEPT ![p].pc = "sending", ![p].tx = send, ![p].merging = TRUE]
         /\ warden' = warden \cup {send}
         /\ built' = built + 1 /\ UNCHANGED stray
  BY Zenon DEF BuildTx, nonce, inputs
<1> HIDE DEF send, topUp
<1>7. UNCHANGED <<ledger, visible, inserted, fetched, failures>>
  BY DEF BuildTx
<1>8. CASE Fail(p) /\ UNCHANGED <<warden, built>>
  BY <1>7, <1>8, FailType DEF TypeOK
<1>9. ASSUME NEW tx \in ElusivTx, op' = [op EXCEPT ![p].pc = "built", ![p].tx = tx],
             built' = built + 1, UNCHANGED <<warden, stray>>
      PROVE  TypeOK'
  <2> DEFINE o == [op[p] EXCEPT !.pc = "built", !.tx = tx]
  <2>1. o \in Operations /\ o.recent = "done" /\ o.tx = tx
    BY <1>1 DEF Operations
  <2>2. op' = [op EXCEPT ![p] = o]
    BY <1>9 DEF TypeOK
  <2> HIDE DEF o
  <2>3. op' \in [Clients -> Operations] /\ HasTx'
    BY <2>1, <2>2, OpType
  <2>4. QED
    BY <1>7, <1>9, <2>3 DEF TypeOK
<1>10. ASSUME op' = [op EXCEPT ![p].pc = "sending", ![p].tx = send, ![p].merging = TRUE],
              warden' = warden \cup {send}, built' = built + 1, UNCHANGED stray
       PROVE  TypeOK'
  <2> DEFINE o == [op[p] EXCEPT !.pc = "sending", !.tx = send, !.merging = TRUE]
  <2>1. o \in Operations /\ o.recent = "done" /\ o.tx = send
    BY <1>1, <1>5 DEF Operations
  <2>2. op' = [op EXCEPT ![p] = o]
    BY <1>10 DEF TypeOK
  <2> HIDE DEF o
  <2>3. op' \in [Clients -> Operations] /\ HasTx'
    BY <1>5, <2>1, <2>2, OpType
  <2>4. QED
    BY <1>5, <1>7, <1>10, <2>3 DEF TypeOK
<1>11. QED
  BY <1>5, <1>6, <1>8, <1>9, <1>10

LEMMA RecoverType ==
    ASSUME TypeOK, NEW p \in Clients, Recover(p)
    PROVE  TypeOK'
<1>1. PICK told \in Told(p, fetched[p], stray[p] # {}) :
         /\ Fail(p) \/ (op' = [op EXCEPT ![p].pc = "awaiting"] /\ UNCHANGED stray)
         /\ CacheNewest(p, told)
  BY DEF Recover
<1>2. fetched' \in [Clients -> Int]
  BY <1>1, ToldTxs, CacheType
<1>3. CASE Fail(p)
  BY <1>2, <1>3, FailType DEF TypeOK, Recover, chainVars
<1>4. CASE op' = [op EXCEPT ![p].pc = "awaiting"] /\ UNCHANGED stray
  <2>1. op' \in [Clients -> Operations] /\ HasTx'
    BY <1>4, GoOnType DEF Recover
  <2>2. QED
    BY <1>2, <1>4, <2>1 DEF TypeOK, Recover, chainVars
<1>5. QED
  BY <1>1, <1>3, <1>4

LEMMA WardenReplyType ==
    ASSUME TypeOK, NEW p \in Clients, WardenReply(p)
    PROVE  TypeOK'
<1>1. CASE WardenOk(p)
  <2>1. op' \in [Clients -> Operations] /\ HasTx'
    BY <1>1, GoOnType DEF WardenOk
  <2>2. QED
    BY <1>1, <2>1 DEF TypeOK, WardenOk, chainVars
<1>2. CASE WardenError(p)
  BY <1>2, FailType DEF TypeOK, WardenError, chainVars
<1>3. CASE FetchFailed(p)
  <2>1. op' \in [Clients -> Operations] /\ HasTx'
    BY <1>3, GoOnType DEF FetchFailed
  <2>2. QED
    BY <1>3, <2>1 DEF TypeOK, FetchFailed, chainVars
<1>4. QED
  BY <1>1, <1>2, <1>3 DEF WardenReply

LEMMA FindSigType ==
    ASSUME TypeOK, NEW p \in Clients, FindSig(p)
    PROVE  TypeOK'
<1>1. PICK told \in Told(p, fetched[p], stray[p] # {}) : CacheNewest(p, told)
  BY DEF FindSig
<1>2. fetched' \in [Clients -> Int]
  BY <1>1, ToldTxs, CacheType
<1>3. \/ UNCHANGED <<op, built>>
      \/ /\ op' = [op EXCEPT ![p].pc = "built", ![p].merging = FALSE, ![p].merge = TRUE,
                             ![p].tx = NewTx(p, NextNonce(op[p].lastNonce + 1), "TOPUP", {})]
         /\ built' = built + 1
      \/ op' = [op EXCEPT ![p] = Idle("resolved")] /\ UNCHANGED built
  BY DEF FindSig
<1>5. op' \in [Clients -> Operations] /\ HasTx' /\ built' \in Nat
  <2>1. CASE UNCHANGED <<op, built>>
    BY <2>1 DEF TypeOK, HasTx
  <2>2. CASE op' = [op EXCEPT ![p] = Idle("resolved")] /\ UNCHANGED built
    BY <2>2, IdleType DEF TypeOK
  <2>3. ASSUME op' = [op EXCEPT ![p].pc = "built", ![p].merging = FALSE, ![p].merge = TRUE,
                         ![p].tx = NewTx(p, NextNonce(op[p].lastNonce + 1), "TOPUP", {})],
               built' = built + 1
        PROVE  op' \in [Clients -> Operations] /\ HasTx' /\ built' \in Nat
    <3> DEFINE tx == NewTx(p, NextNonce(op[p].lastNonce + 1), "TOPUP", {})
               o == [op[p] EXCEPT !.pc = "built", !.merging = FALSE, !.merge = TRUE, !.tx = tx]
    <3>1. op[p] \in Operations /\ built \in Nat
      BY DEF TypeOK
    <3>2. NextNonce(op[p].lastNonce + 1) \in Nat
      BY <3>1 DEF Operations, NextNonce
    <3>3. tx \in ElusivTx
      BY <3>2, NewTxType
    <3>4. op' = [op EXCEPT ![p] = o]
      BY <2>3 DEF TypeOK
    <3> HIDE DEF tx
    <3>5. /\ o \in Operations /\ o.tx = tx
          /\ o.recent = op[p].recent /\ o.recentTx = op[p].recentTx
      BY <3>1, <3>3 DEF Operations
    <3>6. op[p].recent = "check" => op[p].recentTx \in ElusivTx
      BY DEF TypeOK, HasTx
    <3> HIDE DEF o
    <3>7. op' \in [Clients -> Operations] /\ HasTx'
      BY <3>3, <3>4, <3>5, <3>6, OpType
    <3>8. QED
      BY <2>3, <3>1, <3>7
  <2>4. QED
    BY <1>3, <2>1, <2>2, <2>3
<1>6. QED
  BY <1>2, <1>5 DEF TypeOK, FindSig, chainVars

LEMMA EndingType ==
    ASSUME TypeOK, NEW p \in Clients,
           AwaitCommitmentInsertion(p) \/ Timeout(p) \/ NodeError(p)
    PROVE  TypeOK'
<1>1. CASE AwaitCommitmentInsertion(p)
  <2>1. op' \in [Clients -> Operations] /\ HasTx'
    BY <1>1, GoOnType DEF AwaitCommitmentInsertion
  <2>2. QED
    BY <1>1, <2>1 DEF TypeOK, AwaitCommitmentInsertion, chainVars
<1>2. CASE Timeout(p)
  BY <1>2, FailType DEF TypeOK, Timeout, chainVars
<1>3. CASE NodeError(p)
  <2>1. op' \in [Clients -> Operations] /\ HasTx'
    BY <1>3, IdleType DEF NodeError
  <2>2. fetched' \in [Clients -> Int]
    BY <1>3, CacheType DEF NodeError
  <2>3. stray' \in [Clients -> SUBSET {"active", "recent"}]
    <3>1. Reading(op[p]) \subseteq {"active", "recent"}
      BY DEF Reading
    <3>2. QED
      BY <1>3, <3>1 DEF TypeOK, NodeError
  <2>4. QED
    BY <1>3, <2>1, <2>2, <2>3 DEF TypeOK, NodeError, chainVars
<1>4. QED
  BY <1>1, <1>2, <1>3

-----------------------------------------------------------------------------
LEMMA InitType ==
    Init => TypeOK
<1> SUFFICES ASSUME Init PROVE TypeOK
  OBVIOUS
<1>1. Idle("none") \in Operations
  BY IdleIsOperation
<1>2. op \in [Clients -> Operations] /\ HasTx
  BY <1>1 DEF Init, HasTx, Idle
<1>3. QED
  BY <1>2 DEF Init, TypeOK

(* Every variable always holds values of its kind, and an operation past its *)
(* build always has a transaction to send and to look for.                   *)
THEOREM TypeCorrect ==
    Spec => []TypeOK
<1>1. TypeOK /\ [Next]_vars => TypeOK'
  <2> SUFFICES ASSUME TypeOK, [Next]_vars PROVE TypeOK'
    OBVIOUS
  <2>1. CASE Chain
    BY <2>1, ChainType
  <2>2. ASSUME NEW p \in Clients, Fetch(p) PROVE TypeOK'
    BY <2>2, GetActiveTxsType, ActivateType, GetMostRecentType, ConfirmedType, BuildTxType,
       RecoverType DEF Fetch
  <2>3. ASSUME NEW p \in Clients, Track(p) PROVE TypeOK'
    BY <2>3, FindSigType, EndingType DEF Track
  <2>4. CASE UNCHANGED vars
    BY <2>4 DEF TypeOK, HasTx, vars
  <2>5. QED
    BY <2>1, <2>2, <2>3, <2>4, UserType, WardenReplyType, StrayType, EndingType DEF Next, Client
<1>2. QED
  BY InitType, <1>1, PTL DEF Spec
-----------------------------------------------------------------------------
(* A lone, careful client. Its transactions follow one another: each is made *)
(* of the whole account before it. That is said of a sequence of             *)
(* transactions first, then of the ledger while the client works.            *)

(* The commitments of the token that no transaction among the first k of s   *)
(* spends, by their index.                                                   *)
Unspent(s, k, token) ==
    {j \in 1..k : s[j].token = token /\ \A i \in 1..k : s[j].id \notin s[i].inputs}
TxsAt(s, indices) == {s[j] : j \in indices}

(* x can follow the first k transactions of s.                               *)
Fits(s, k, x) ==
    /\ x.nonce = k
    /\ \A i \in 1..k : s[i].id # x.id
    /\ \/ /\ x.txType = "SEND" /\ Unspent(s, k, x.token) # {}
          /\ x.inputs = {s[j].id : j \in Unspent(s, k, x.token)}
       \/ /\ x.txType = "TOPUP" /\ Cardinality(Unspent(s, k, x.token)) < SendArity
          /\ x.inputs = {}

IsSend(s, i, token) == s[i].token = token /\ s[i].txType = "SEND"

(* Every transaction of s can follow those before it, one send can spend     *)
(* what is unspent after any of them, and the sends of a token have a last.  *)
Chained(s) ==
    /\ \A i \in 1..Len(s) : Fits(s, i - 1, s[i])
    /\ \A k \in 0..Len(s), token \in Tokens :
        /\ Cardinality(Unspent(s, k, token)) <= SendArity
        /\ \/ \A i \in 1..k : ~IsSend(s, i, token)
           \/ \E m \in 1..k : IsSend(s, m, token) /\ \A i \in m + 1..k : ~IsSend(s, i, token)

LEMMA IndicesFinite ==
    ASSUME NEW k \in Nat, NEW U, U \subseteq 1..k
    PROVE  IsFiniteSet(U) /\ Cardinality(U) \in Nat
<1>1. IsFiniteSet(1..k)
  BY FS_Interval
<1>2. IsFiniteSet(U)
  BY <1>1, FS_Subset
<1>3. QED
  BY <1>2, FS_CardinalityType

(* A chained sequence has a transaction for each nonce and no id twice.      *)
LEMMA ChainedEntries ==
    ASSUME NEW s \in Seq(ElusivTx), Chained(s)
    PROVE  /\ \A i \in 1..Len(s) : s[i] \in ElusivTx /\ s[i].nonce = i - 1
           /\ \A i, j \in 1..Len(s) : s[i].id = s[j].id => i = j
<1>1. \A i \in 1..Len(s) : Fits(s, i - 1, s[i])
  BY DEF Chained
<1>2. \A i \in 1..Len(s) : s[i] \in ElusivTx /\ s[i].nonce = i - 1
  BY <1>1 DEF Fits
<1>3. \A i, j \in 1..Len(s) : j < i => s[j].id # s[i].id
  <2> SUFFICES ASSUME NEW i \in 1..Len(s), NEW j \in 1..Len(s), j < i PROVE s[j].id # s[i].id
    OBVIOUS
  <2>1. j \in 1..i - 1
    OBVIOUS
  <2>2. QED
    BY <1>1, <2>1 DEF Fits
<1>4. \A i, j \in 1..Len(s) : s[i].id = s[j].id => i = j
  <2> SUFFICES ASSUME NEW i \in 1..Len(s), NEW j \in 1..Len(s), i # j PROVE s[i].id # s[j].id
    OBVIOUS
  <2>1. i < j \/ j < i
    OBVIOUS
  <2>2. QED
    BY <1>3, <2>1
<1>5. QED
  BY <1>2, <1>4

(* What a transaction spends is what was unspent before it, if it is a send, *)
(* and nothing otherwise.                                                    *)
LEMMA ChainedSpends ==
    ASSUME NEW s \in Seq(ElusivTx), Chained(s), NEW i \in 1..Len(s), NEW j \in 1..Len(s)
    PROVE  s[j].id \in s[i].inputs <=> IsSend(s, i, s[j].token) /\ j \in Unspent(s, i - 1, s[j].token)
<1> DEFINE U == Unspent(s, i - 1, s[i].token)
<1>1. Fits(s, i - 1, s[i])
  BY DEF Chained
<1>2. U \subseteq 1..Len(s) /\ \A h \in U : s[h].token = s[i].token
  BY DEF Unspent
<1>3. CASE s[i].txType = "SEND"
  <2>1. s[i].inputs = {s[h].id : h \in U}
    BY <1>1, <1>3 DEF Fits
  <2> HIDE DEF U
  <2>2. ASSUME s[j].id \in s[i].inputs PROVE j \in U
    <3>1. PICK h \in U : s[h].id = s[j].id
      BY <2>1, <2>2
    <3>2. h = j
      BY <1>2, <3>1, ChainedEntries
    <3>3. QED
      BY <3>1, <3>2
  <2>3. ASSUME j \in U PROVE s[j].id \in s[i].inputs
    BY <2>1, <2>3
  <2>4. j \in Unspent(s, i - 1, s[j].token) => s[j].token = s[j].token
    OBVIOUS
  <2>5. QED
    BY <1>2, <1>3, <2>2, <2>3 DEF U, IsSend
<1>4. CASE s[i].txType # "SEND"
  BY <1>1, <1>4 DEF Fits, IsSend
<1>5. QED
  BY <1>3, <1>4

(* Unspent are those commitments of the token that no send of it follows.    *)
LEMMA UnspentSinceSend ==
    ASSUME NEW s \in Seq(ElusivTx), Chained(s), NEW k \in 0..Len(s), NEW token
    PROVE  Unspent(s, k, token) =
           {j \in 1..k : s[j].token = token /\ \A i \in j + 1..k : ~IsSend(s, i, token)}
<1>1. ASSUME NEW j \in 1..k, s[j].token = token,
             NEW i \in j + 1..k, IsSend(s, i, token), j \in Unspent(s, k, token)
      PROVE  FALSE
  <2>1. i \in 1..Len(s) /\ j \in 1..Len(s) /\ j \in 1..i - 1 /\ i \in 1..k
    OBVIOUS
  <2>2. \A h \in 1..k : s[j].id \notin s[h].inputs
    BY <1>1 DEF Unspent
  <2>3. j \in Unspent(s, i - 1, token)
    BY <1>1, <2>1, <2>2 DEF Unspent
  <2>4. s[j].id \in s[i].inputs
    BY <1>1, <2>1, <2>3, ChainedSpends
  <2>5. QED
    BY <2>1, <2>2, <2>4
<1>2. ASSUME NEW j \in 1..k, s[j].token = token, \A i \in j + 1..k : ~IsSend(s, i, token),
             NEW i \in 1..k, s[j].id \in s[i].inputs
      PROVE  FALSE
  <2>1. i \in 1..Len(s) /\ j \in 1..Len(s)
    OBVIOUS
  <2>2. IsSend(s, i, token) /\ j \in Unspent(s, i - 1, token)
    BY <1>2, <2>1, ChainedSpends
  <2>3. j \in 1..i - 1
    BY <2>2 DEF Unspent
  <2>4. i \in j + 1..k
    BY <2>1, <2>3
  <2>5. QED
    BY <1>2, <2>2, <2>4
<1>3. \A j \in Unspent(s, k, token) : j \in 1..k /\ s[j].token = token
  BY DEF Unspent
<1>4. \A j \in Unspent(s, k, token) : \A i \in j + 1..k : ~IsSend(s, i, token)
  BY <1>1, <1>3
<1>5. \A j \in 1..k : s[j].token = token /\ (\A i \in j + 1..k : ~IsSend(s, i, token))
                      => j \in Unspent(s, k, token)
  BY <1>2 DEF Unspent
<1>6. QED
  BY <1>3, <1>4, <1>5

LEMMA UnspentFinite ==
    ASSUME NEW s, NEW k \in Nat, NEW token
    PROVE  /\ Unspent(s, k, token) \subseteq 1..k
           /\ IsFiniteSet(Unspent(s, k, token)) /\ Cardinality(Unspent(s, k, token)) \in Nat
<1>1. Unspent(s, k, token) \subseteq 1..k
  BY DEF Unspent
<1>2. QED
  BY <1>1, IndicesFinite

(* The transactions at different indices are as many as the indices.         *)
LEMMA TxsAtCount ==
    ASSUME NEW s \in Seq(ElusivTx), Chained(s), NEW U, U \subseteq 1..Len(s)
    PROVE  IsFiniteSet(TxsAt(s, U)) /\ Cardinality(TxsAt(s, U)) = Cardinality(U)
<1> DEFINE f == [j \in U |-> s[j]]
<1>1. IsFiniteSet(U)
  <2>1. Len(s) \in Nat
    OBVIOUS
  <2>2. QED
    BY <2>1, IndicesFinite
<1>2. \A i, j \in U : s[i] = s[j] => i = j
  BY ChainedEntries
<1>3. f \in Bijection(U, TxsAt(s, U))
  BY <1>2 DEF TxsAt, Bijection, Injection, Surjection, IsInjective
<1>4. ExistsBijection(U, TxsAt(s, U))
  BY <1>3 DEF ExistsBijection
<1>5. QED
  BY <1>1, <1>4, FS_Bijection

(* The send before which nothing is unspent is the last of its token.        *)
LEMMA LastSend ==
    ASSUME NEW s \in Seq(ElusivTx), Chained(s), NEW k \in 0..Len(s), NEW token \in Tokens,
           NEW i \in 1..k, IsSend(s, i, token)
    PROVE  \E m \in 1..k : /\ IsSend(s, m, token)
                           /\ \A h \in 1..k : IsSend(s, h, token) => h <= m
                           /\ Unspent(s, k, token) = {j \in m..k : s[j].token = token}
<1>1. PICK m \in 1..k : IsSend(s, m, token) /\ \A h \in m + 1..k : ~IsSend(s, h, token)
  BY DEF Chained
<1>2. \A h \in 1..k : IsSend(s, h, token) => h <= m
  <2> SUFFICES ASSUME NEW h \in 1..k, IsSend(s, h, token), h > m PROVE FALSE
    OBVIOUS
  <2>1. h \in m + 1..k
    OBVIOUS
  <2>2. QED
    BY <1>1, <2>1
<1>3. ASSUME NEW j \in 1..k, s[j].token = token
      PROVE  (\A h \in j + 1..k : ~IsSend(s, h, token)) <=> j \in m..k
  <2>1. CASE j < m
    <3>1. m \in j + 1..k
      BY <2>1
    <3>2. QED
      BY <1>1, <2>1, <3>1
  <2>2. CASE j >= m
    <3>1. \A h \in j + 1..k : h \in m + 1..k
      BY <2>2
    <3>2. QED
      BY <1>1, <2>2, <3>1
  <2>3. QED
    BY <2>1, <2>2
<1>4. Unspent(s, k, token) = {j \in m..k : s[j].token = token}
  <2>1. \A j \in m..k : j \in 1..k
    OBVIOUS
  <2>2. Unspent(s, k, token) =
        {j \in 1..k : s[j].token = token /\ \A h \in j + 1..k : ~IsSend(s, h, token)}
    BY UnspentSinceSend
  <2>3. QED
    BY <1>3, <2>1, <2>2
<1>5. QED
  BY <1>1, <1>2, <1>4

LEMMA AmongNewest ==
    ASSUME NEW txs, NEW t \in txs, NEW count, NEW newer,
           newer = {u \in txs : u.nonce > t.nonce}, Cardinality(newer) < count
    PROVE  t \in Newest(count, txs)
BY DEF Newest

(* Each unspent commitment of the token is among the SEND_ARITY newest.      *)
LEMMA UnspentIsNewest ==
    ASSUME NEW s \in Seq(ElusivTx), Chained(s), NEW k \in 0..Len(s), NEW token \in Tokens,
           NEW j \in Unspent(s, k, token)
    PROVE  s[j] \in Newest(SendArity, OfToken(TxsAt(s, 1..k), token))
<1> DEFINE U == Unspent(s, k, token)
           txs == OfToken(TxsAt(s, 1..k), token)
           newer == {u \in txs : u.nonce > s[j].nonce}
<1>1. U = {i \in 1..k : s[i].token = token /\ \A h \in i + 1..k : ~IsSend(s, h, token)}
  BY UnspentSinceSend
<1>2. j \in 1..k /\ s[j].token = token
  BY <1>1
<1>3. newer \subseteq TxsAt(s, U \ {j})
  <2> SUFFICES ASSUME NEW u \in newer PROVE u \in TxsAt(s, U \ {j})
    OBVIOUS
  <2>1. PICK i \in 1..k : u = s[i]
    BY DEF OfToken, TxsAt
  <2>2. s[i].token = token /\ s[i].nonce > s[j].nonce
    BY <2>1 DEF OfToken
  <2>3. s[i].nonce = i - 1 /\ s[j].nonce = j - 1
    BY <1>2, ChainedEntries
  <2>4. i > j
    BY <1>2, <2>2, <2>3
  <2>5. \A h \in i + 1..k : h \in j + 1..k
    BY <1>2, <2>4
  <2>6. i \in U
    BY <1>1, <2>2, <2>5
  <2>7. QED
    BY <2>1, <2>4, <2>6 DEF TxsAt
<1>4. U \subseteq 1..Len(s) /\ IsFiniteSet(U) /\ Cardinality(U) \in Nat
  BY <1>1, IndicesFinite
<1>5. Cardinality(U) <= SendArity
  BY DEF Chained
<1>6. Cardinality(U \ {j}) = Cardinality(U) - 1
  BY <1>4, FS_RemoveElement
<1> HIDE DEF U
<1>7. U \ {j} \subseteq 1..Len(s)
  BY <1>4
<1>8. IsFiniteSet(TxsAt(s, U \ {j})) /\ Cardinality(TxsAt(s, U \ {j})) = Cardinality(U \ {j})
  BY <1>7, TxsAtCount
<1>9. IsFiniteSet(newer) /\ Cardinality(newer) <= Cardinality(TxsAt(s, U \ {j}))
  BY <1>3, <1>8, FS_Subset
<1>10. Cardinality(newer) \in Nat
  BY <1>9, FS_CardinalityType
<1> HIDE DEF newer
<1>11. Cardinality(newer) < SendArity
  <2>1. SendArity \in Nat
    BY ClientAssumption
  <2>2. Cardinality(newer) <= Cardinality(U) - 1
    BY <1>6, <1>8, <1>9
  <2>3. QED
    BY <1>4, <1>5, <1>10, <2>1, <2>2
<1>12. s[j] \in txs
  BY <1>2 DEF OfToken, TxsAt
<1> HIDE DEF txs
<1>13. newer = {u \in txs : u.nonce > s[j].nonce}
  BY DEF newer
<1>14. s[j] \in Newest(SendArity, txs)
  BY <1>11, <1>12, <1>13, AmongNewest
<1>15. QED
  BY <1>14 DEF txs

(* What getActiveTxs makes of the history of a chained sequence is what is   *)
(* unspent in it.                                                            *)
LEMMA ActiveIsUnspent ==
    ASSUME NEW s \in Seq(ElusivTx), Chained(s), NEW k \in 0..Len(s), NEW token \in Tokens,
           NEW active \in ActiveTxs(Newest(SendArity, OfToken(TxsAt(s, 1..k), token)))
    PROVE  active = TxsAt(s, Unspent(s, k, token))
<1> DEFINE U == Unspent(s, k, token)
           N == Newest(SendArity, OfToken(TxsAt(s, 1..k), token))
<1>1. \A t \in N : \E i \in 1..k : t = s[i] /\ s[i].token = token
  BY DEF Newest, OfToken, TxsAt
<1>2. \A j \in U : s[j] \in N
  BY UnspentIsNewest
<1>3. \A i \in 1..k : i \in 1..Len(s) /\ s[i] \in ElusivTx /\ s[i].nonce = i - 1
  BY ChainedEntries
<1>4. active \in ActiveTxs(N)
  OBVIOUS
<1>5. U = {i \in 1..k : s[i].token = token /\ \A h \in i + 1..k : ~IsSend(s, h, token)}
  BY UnspentSinceSend
<1>6. CASE \A i \in 1..k : ~IsSend(s, i, token)
  <2>1. U = {i \in 1..k : s[i].token = token}
    BY <1>5, <1>6
  <2>2. Sends(N) = {}
    BY <1>1, <1>6 DEF Sends, IsSend
  <2> HIDE DEF N, U
  <2>3. active = N
    BY <1>4, <2>2 DEF ActiveTxs
  <2>4. N = TxsAt(s, U)
    BY <1>1, <1>2, <2>1 DEF TxsAt
  <2>5. QED
    BY <2>3, <2>4 DEF U
<1>7. ASSUME NEW i \in 1..k, IsSend(s, i, token)
      PROVE  active = TxsAt(s, U)
  <2>1. PICK m \in 1..k : /\ IsSend(s, m, token)
                          /\ \A h \in 1..k : IsSend(s, h, token) => h <= m
                          /\ U = {j \in m..k : s[j].token = token}
    BY <1>7, LastSend
  <2> HIDE DEF N, U
  <2>2. m \in U /\ s[m] \in Sends(N)
    BY <1>2, <2>1 DEF Sends, IsSend
  <2>3. \A t \in Sends(N) : t.nonce <= s[m].nonce /\ (t.nonce = s[m].nonce => t = s[m])
    <3> SUFFICES ASSUME NEW t \in Sends(N)
                 PROVE  t.nonce <= s[m].nonce /\ (t.nonce = s[m].nonce => t = s[m])
      OBVIOUS
    <3>1. PICK h \in 1..k : t = s[h] /\ s[h].token = token
      BY <1>1 DEF Sends
    <3>2. IsSend(s, h, token)
      BY <3>1 DEF Sends, IsSend
    <3>3. h <= m
      BY <2>1, <3>2
    <3>4. QED
      BY <1>3, <3>1, <3>3
  <2>4. First(Sends(N)) = {s[m]}
    <3>1. s[m] \in First(Sends(N))
      BY <2>2, <2>3 DEF First
    <3>2. \A t \in First(Sends(N)) : t \in Sends(N) /\ s[m].nonce <= t.nonce
      BY <2>2 DEF First
    <3>3. \A t \in First(Sends(N)) : t.nonce \in Int /\ s[m].nonce \in Int
      BY <1>1, <1>3, <3>2 DEF Sends
    <3>4. QED
      BY <2>3, <3>1, <3>2, <3>3
  <2>5. active = {t \in N : \/ t.nonce > s[m].nonce
                            \/ t.nonce = s[m].nonce /\ t.txType = "TOPUP"} \cup {s[m]}
    BY <1>4, <2>2, <2>4 DEF ActiveTxs
  <2>6. ASSUME NEW t \in active PROVE t \in TxsAt(s, U)
    <3>1. CASE t = s[m]
      BY <2>2, <3>1 DEF TxsAt
    <3>2. CASE t \in N /\ t.nonce >= s[m].nonce
      <4>1. PICK h \in 1..k : t = s[h] /\ s[h].token = token
        BY <1>1, <3>2
      <4>2. h \in m..k
        BY <1>3, <3>2, <4>1
      <4>3. QED
        BY <2>1, <4>1, <4>2 DEF TxsAt
    <3>3. QED
      <4>1. t = s[m] \/ (t \in N /\ (t.nonce > s[m].nonce \/ t.nonce = s[m].nonce))
        BY <2>5, <2>6
      <4>2. \A u \in N : u.nonce \in Int
        <5> TAKE u \in N
        <5>1. PICK h \in 1..k : u = s[h]
          BY <1>1
        <5>2. QED
          BY <1>3, <5>1
      <4>3. s[m].nonce \in Int
        BY <1>3
      <4>4. QED
        BY <3>1, <3>2, <4>1, <4>2, <4>3
  <2>7. ASSUME NEW j \in U PROVE s[j] \in active
    <3>1. j \in m..k
      BY <2>1
    <3>2. CASE j = m
      BY <2>5, <3>2
    <3>3. CASE j > m
      <4>1. s[j].nonce > s[m].nonce
        BY <1>3, <3>1, <3>3
      <4>2. QED
        BY <1>2, <2>5, <4>1
    <3>4. QED
      BY <3>1, <3>2, <3>3
  <2>8. QED
    BY <2>6, <2>7 DEF TxsAt
<1>8. QED
  BY <1>6, <1>7

-----------------------------------------------------------------------------
(* Of the transactions that follow, nothing of this depends.                 *)
LEMMA SamePrefix ==
    ASSUME NEW s, NEW r, NEW k \in Nat, \A i \in 1..k : r[i] = s[i]
    PROVE  /\ \A token : Unspent(r, k, token) = Unspent(s, k, token)
           /\ \A x : Fits(s, k, x) => Fits(r, k, x)
<1>1. \A token : Unspent(r, k, token) = Unspent(s, k, token)
  BY DEF Unspent
<1>2. ASSUME NEW x, Fits(s, k, x) PROVE Fits(r, k, x)
  <2> DEFINE U == Unspent(s, k, x.token)
  <2>1. Unspent(r, k, x.token) = U
    BY <1>1
  <2>2. U \subseteq 1..k
    BY DEF Unspent
  <2>3. /\ x.nonce = k
        /\ \A i \in 1..k : s[i].id # x.id
        /\ \/ x.txType = "SEND" /\ U # {} /\ x.inputs = {s[j].id : j \in U}
           \/ x.txType = "TOPUP" /\ Cardinality(U) < SendArity /\ x.inputs = {}
    BY <1>2 DEF Fits
  <2> HIDE DEF U
  <2>4. {s[j].id : j \in U} = {r[j].id : j \in U}
    BY <2>2
  <2>5. /\ x.nonce = k
        /\ \A i \in 1..k : r[i].id # x.id
        /\ \/ x.txType = "SEND" /\ U # {} /\ x.inputs = {r[j].id : j \in U}
           \/ x.txType = "TOPUP" /\ Cardinality(U) < SendArity /\ x.inputs = {}
    BY <2>3, <2>4
  <2>6. QED
    BY <2>1, <2>5 DEF Fits
<1>3. QED
  BY <1>1, <1>2

(* What is unspent once x has followed s.                                    *)
LEMMA UnspentAfter ==
    ASSUME NEW s \in Seq(ElusivTx), NEW x \in ElusivTx, Fits(s, Len(s), x), NEW token,
           NEW j \in Unspent(Append(s, x), Len(s) + 1, token)
    PROVE  \/ j \in Unspent(s, Len(s), token) /\ ~(x.txType = "SEND" /\ x.token = token)
           \/ j = Len(s) + 1 /\ x.token = token
<1> DEFINE r == Append(s, x)
           n == Len(s)
<1>1. n \in Nat /\ r[n + 1] = x /\ \A i \in 1..n : r[i] = s[i]
  OBVIOUS
<1>2. j \in 1..n + 1 /\ r[j].token = token /\ \A i \in 1..n + 1 : r[j].id \notin r[i].inputs
  BY DEF Unspent
<1> HIDE DEF r
<1>3. CASE j = n + 1
  BY <1>1, <1>2, <1>3
<1>4. CASE j \in 1..n
  <2>1. s[j].token = token /\ s[j].id \notin x.inputs /\ \A i \in 1..n : s[j].id \notin s[i].inputs
    BY <1>1, <1>2, <1>4
  <2>2. j \in Unspent(s, n, token)
    BY <1>4, <2>1 DEF Unspent
  <2>3. ASSUME x.txType = "SEND", x.token = token PROVE FALSE
    <3>1. x.inputs = {s[i].id : i \in Unspent(s, n, token)}
      BY <2>3 DEF Fits
    <3>2. QED
      BY <2>1, <2>2, <3>1
  <2>4. QED
    BY <2>2, <2>3
<1>5. QED
  BY <1>1, <1>2, <1>3, <1>4

LEMMA CountAfter ==
    ASSUME NEW s \in Seq(ElusivTx), Chained(s), NEW x \in ElusivTx, Fits(s, Len(s), x),
           NEW token \in Tokens
    PROVE  Cardinality(Unspent(Append(s, x), Len(s) + 1, token)) <= SendArity
<1> DEFINE n == Len(s)
           U == Unspent(s, n, token)
           V == Unspent(Append(s, x), n + 1, token)
<1>1. n \in Nat /\ n + 1 \in Nat /\ n \in 0..Len(s) /\ SendArity \in Nat /\ SendArity > 1
  <2>1. SendArity \in Nat \ {0, 1}
    BY ClientAssumption
  <2>2. QED
    BY <2>1
<1>2. IsFiniteSet(U) /\ Cardinality(U) \in Nat /\ U \subseteq 1..n
  BY <1>1, UnspentFinite
<1>3. IsFiniteSet(V) /\ Cardinality(V) \in Nat
  BY <1>1, UnspentFinite
<1>4. Cardinality(U) <= SendArity
  BY <1>1 DEF Chained
<1>5. \A j \in V : \/ j \in U /\ ~(x.txType = "SEND" /\ x.token = token)
                   \/ j = n + 1 /\ x.token = token
  BY UnspentAfter
<1>6. x.txType = "TOPUP" /\ x.token = token => Cardinality(U) < SendArity
  BY DEF Fits
<1>7. x.txType \in {"TOPUP", "SEND"}
  BY DEF ElusivTx
<1> HIDE DEF U, V
<1>8. CASE x.token # token
  <2>1. V \subseteq U
    BY <1>5, <1>8
  <2>2. Cardinality(V) <= Cardinality(U)
    BY <1>2, <2>1, FS_Subset
  <2>3. QED
    BY <1>1, <1>2, <1>3, <1>4, <2>2 DEF V
<1>9. CASE x.token = token /\ x.txType = "TOPUP"
  <2>1. V \subseteq U \cup {n + 1}
    BY <1>5
  <2>2. IsFiniteSet(U \cup {n + 1}) /\ Cardinality(U \cup {n + 1}) <= Cardinality(U) + 1
    <3>1. n + 1 \notin U
      BY <1>1, <1>2
    <3>2. /\ IsFiniteSet(U \cup {n + 1})
          /\ Cardinality(U \cup {n + 1}) = IF n + 1 \in U THEN Cardinality(U) ELSE Cardinality(U) + 1
      BY <1>2, FS_AddElement
    <3>3. QED
      BY <1>2, <3>1, <3>2
  <2>3. Cardinality(V) <= Cardinality(U \cup {n + 1})
    BY <2>1, <2>2, FS_Subset
  <2>4. Cardinality(U \cup {n + 1}) \in Nat
    BY <2>2, FS_CardinalityType
  <2>5. QED
    BY <1>1, <1>2, <1>3, <1>6, <1>9, <2>2, <2>3, <2>4 DEF V
<1>10. CASE x.token = token /\ x.txType = "SEND"
  <2>1. V \subseteq {n + 1}
    BY <1>5, <1>10
  <2>2. IsFiniteSet({n + 1}) /\ Cardinality({n + 1}) = 1
    BY FS_Singleton
  <2>3. Cardinality(V) <= 1
    BY <2>1, <2>2, FS_Subset
  <2>4. QED
    BY <1>1, <1>3, <2>3 DEF V
<1>11. QED
  BY <1>7, <1>8, <1>9, <1>10

(* A chained sequence stays chained when a transaction that fits follows.    *)
LEMMA ChainedAppend ==
    ASSUME NEW s \in Seq(ElusivTx), Chained(s), NEW x \in ElusivTx, Fits(s, Len(s), x)
    PROVE  Chained(Append(s, x))
<1> DEFINE r == Append(s, x)
           n == Len(s)
<1>1. n \in Nat /\ Len(r) = n + 1 /\ r[n + 1] = x /\ \A i \in 1..n : r[i] = s[i]
  OBVIOUS
<1>2. \A token \in Tokens : Cardinality(Unspent(r, n + 1, token)) <= SendArity
  BY CountAfter
<1> HIDE DEF r
<1>3. \A i \in 1..Len(r) : Fits(r, i - 1, r[i])
  <2> SUFFICES ASSUME NEW i \in 1..n + 1 PROVE Fits(r, i - 1, r[i])
    BY <1>1
  <2>1. i - 1 \in Nat /\ \A h \in 1..i - 1 : r[h] = s[h]
    BY <1>1
  <2>2. Fits(s, i - 1, r[i])
    <3>1. CASE i = n + 1
      BY <1>1, <3>1
    <3>2. CASE i \in 1..n
      BY <1>1, <3>2 DEF Chained
    <3>3. QED
      BY <1>1, <3>1, <3>2
  <2>3. QED
    BY <2>1, <2>2, SamePrefix
<1>4. ASSUME NEW k \in 0..Len(r), NEW token \in Tokens
      PROVE  Cardinality(Unspent(r, k, token)) <= SendArity
  <2>1. CASE k \in 0..n
    <3>1. k \in Nat /\ \A h \in 1..k : r[h] = s[h]
      BY <1>1, <2>1
    <3>2. Unspent(r, k, token) = Unspent(s, k, token)
      BY <3>1, SamePrefix
    <3>3. QED
      BY <2>1, <3>2 DEF Chained
  <2>2. CASE k = n + 1
    BY <1>2, <2>2
  <2>3. QED
    BY <1>1, <2>1, <2>2
<1>5. ASSUME NEW k \in 0..Len(r), NEW token \in Tokens
      PROVE  \/ \A i \in 1..k : ~IsSend(r, i, token)
             \/ \E m \in 1..k : IsSend(r, m, token) /\ \A i \in m + 1..k : ~IsSend(r, i, token)
  <2>1. ASSUME NEW l \in 0..n
        PROVE  \/ \A i \in 1..l : ~IsSend(r, i, token)
               \/ \E m \in 1..l : IsSend(r, m, token) /\ \A i \in m + 1..l : ~IsSend(r, i, token)
    <3>1. \A i \in 1..l : IsSend(r, i, token) <=> IsSend(s, i, token)
      BY <1>1 DEF IsSend
    <3>2. \/ \A i \in 1..l : ~IsSend(s, i, token)
          \/ \E m \in 1..l : IsSend(s, m, token) /\ \A i \in m + 1..l : ~IsSend(s, i, token)
      BY DEF Chained
    <3>3. ASSUME NEW m \in 1..l, IsSend(s, m, token), \A i \in m + 1..l : ~IsSend(s, i, token)
          PROVE  IsSend(r, m, token) /\ \A i \in m + 1..l : ~IsSend(r, i, token)
      <4>1. \A i \in m + 1..l : i \in 1..l
        OBVIOUS
      <4>2. QED
        BY <3>1, <3>3, <4>1
    <3>4. QED
      BY <3>1, <3>2, <3>3
  <2>2. CASE k \in 0..n
    BY <2>1, <2>2
  <2>3. CASE k = n + 1 /\ IsSend(r, n + 1, token)
    <3>1. n + 1 \in 1..k /\ \A i \in n + 1 + 1..k : FALSE
      BY <1>1, <2>3
    <3>2. QED
      BY <2>3, <3>1
  <2>4. CASE k = n + 1 /\ ~IsSend(r, n + 1, token)
    <3>1. \A i \in 1..k : i = n + 1 \/ i \in 1..n
      BY <1>1, <2>4
    <3>2. CASE \A i \in 1..n : ~IsSend(r, i, token)
      BY <2>4, <3>1, <3>2
    <3>3. ASSUME NEW m \in 1..n, IsSend(r, m, token), \A i \in m + 1..n : ~IsSend(r, i, token)
          PROVE  \E h \in 1..k : IsSend(r, h, token) /\ \A i \in h + 1..k : ~IsSend(r, i, token)
      <4>1. m \in 1..k /\ \A i \in m + 1..k : i = n + 1 \/ i \in m + 1..n
        BY <1>1, <2>4
      <4>2. QED
        BY <2>4, <3>3, <4>1
    <3>4. n \in 0..n
      BY <1>1
    <3>5. QED
      BY <2>1, <3>2, <3>3, <3>4
  <2>5. QED
    BY <1>1, <2>2, <2>3, <2>4
<1>6. QED
  BY <1>3, <1>4, <1>5 DEF Chained, r

-----------------------------------------------------------------------------
(* The inductive invariant.                                                  *)

(* One operation at a time, none begun on what a failed one left under way,  *)
(* and no new instance for a history of more than two batches.               *)
LoneClient == Careful /\ (\E p \in Clients : Clients = {p}) /\ MaxRestart <= 2 * BatchSize

(* All that landed is finalized and in the tree, and besides nothing is on   *)
(* its way.                                                                  *)
CaughtUp == visible = Len(ledger) /\ inserted = Len(ledger)
Quiet == warden = {} /\ CaughtUp

(* x is the next transaction of the account.                                 *)
Follows(x) == Fits(ledger, Len(ledger), x) /\ x.id < built

(* At most one transaction is under way, and it is the next.                 *)
ChainInv ==
    /\ Chained(ledger)
    /\ \A i \in 1..Len(ledger) : ledger[i].id < built
    /\ \/ warden = {} /\ visible >= Len(ledger) - 1 /\ inserted >= Len(ledger) - 1
       \/ \E x \in ElusivTx : warden = {x} /\ CaughtUp /\ Follows(x)

(* What the reads have returned is the whole account.                        *)
ParamsInv(o) ==
    /\ Quiet /\ ~o.merging /\ ~o.merge
    /\ o.active # "read" => o.activeTxs = TxsAt(ledger, Unspent(ledger, Len(ledger), o.token))
    /\ o.recent = "check" => Len(ledger) > 0 /\ o.recentTx = ledger[Len(ledger)]
    /\ o.recent = "done" => o.lastNonce = Len(ledger) - 1

(* findSig will look for the transaction by its own nonce.                   *)
TxInv(o) ==
    /\ o.tx.token = o.token
    /\ o.tx.nonce = SigNonce(o)
    /\ o.merging => o.tx.txType = "SEND" /\ ~o.merge

(* What is built can follow.                                                 *)
BuiltInv(o) == Quiet /\ TxInv(o) /\ ~o.merging /\ Follows(o.tx)

(* What is sent has not landed yet, or is the last that did.                 *)
SentInv(o) ==
    /\ TxInv(o)
    /\ \/ Follows(o.tx) /\ CaughtUp /\ warden \subseteq {o.tx}
       \/ Len(ledger) > 0 /\ o.tx = ledger[Len(ledger)] /\ warden = {}
    /\ o.pc \in {"awaiting", "findSig"} /\ ~o.merge => o.tx \in Landed
    /\ o.pc = "findSig" => o.tx \in InTree

OpInv(o) ==
    /\ o.pc = "idle" /\ o.outcome # "failed" => Quiet
    /\ o.pc = "params" => ParamsInv(o)
    /\ o.pc = "built" => BuiltInv(o)
    /\ o.pc \in {"sending", "recovering", "awaiting", "findSig"} => SentInv(o)
    /\ o.pc # "params" => o.active = "done" /\ o.recent = "done"

(* A read that remains of a failed build reads a chain that had caught up.   *)
ClientInv(p) ==
    /\ OpInv(op[p])
    /\ stray[p] # {} => Quiet /\ op[p].pc = "idle" /\ op[p].outcome = "failed"

(* How far the cache is behind: never more than a transaction and two        *)
(* batches, so that the reads of a build, of which one may end early after   *)
(* two batches, still tell the newest transaction; once one of them is back, *)
(* not at all; and from then on no more than what is being sent.             *)
Due == Len(ledger) + (IF warden = {} THEN 0 ELSE 1)
CacheInv(p) ==
    /\ fetched[p] \in -1..visible - 1
    /\ Due <= fetched[p] + 1 + 2 * BatchSize
    /\ op[p].pc = "params" =>
          /\ Len(ledger) <= op[p].from + 1 + 2 * BatchSize
          /\ op[p].active # "read" \/ op[p].recent # "read" => fetched[p] = Len(ledger) - 1
    /\ op[p].pc = "built" => fetched[p] = Len(ledger) - 1
    /\ op[p].pc \in {"sending", "recovering", "awaiting", "findSig"} => Due <= fetched[p] + 2

LoneInv == ChainInv /\ \A p \in Clients : ClientInv(p) /\ CacheInv(p)

-----------------------------------------------------------------------------
LEMMA Views ==
    ASSUME TypeOK
    PROVE  /\ ledger \in Seq(ElusivTx) /\ Len(ledger) \in Nat
           /\ visible \in 0..Len(ledger) /\ inserted \in 0..Len(ledger)
           /\ Landed = TxsAt(ledger, 1..Len(ledger))
           /\ Visible = TxsAt(ledger, 1..visible) /\ InTree = TxsAt(ledger, 1..inserted)
BY DEF TypeOK, TxsAt, Landed, Visible, InTree

(* The newest of the first k transactions is the k-th.                       *)
LEMMA FirstIsLast ==
    ASSUME NEW s \in Seq(ElusivTx), Chained(s), NEW k \in 0..Len(s),
           NEW tx \in First(TxsAt(s, 1..k))
    PROVE  k > 0 /\ tx = s[k] /\ tx.nonce = k - 1
<1>1. PICK i \in 1..k : tx = s[i]
  BY DEF First, TxsAt
<1>2. k \in 1..k /\ i \in 1..Len(s) /\ k \in 1..Len(s)
  OBVIOUS
<1>3. s[k].nonce <= s[i].nonce
  BY <1>1, <1>2 DEF First, TxsAt
<1>4. s[k].nonce = k - 1 /\ s[i].nonce = i - 1
  BY <1>2, ChainedEntries
<1>5. i = k
  BY <1>2, <1>3, <1>4
<1>6. QED
  BY <1>1, <1>4, <1>5

(* What has not landed is not in the ledger, and the last of the ledger is   *)
(* in no shorter part of it.                                                 *)
LEMMA FollowsIsNew ==
    ASSUME TypeOK, NEW x, Follows(x)
    PROVE  x \notin Landed /\ x \notin InTree
BY DEF TypeOK, Follows, Fits, Landed, InTree

LEMMA LastInTree ==
    ASSUME TypeOK, Chained(ledger), Len(ledger) > 0, ledger[Len(ledger)] \in InTree
    PROVE  inserted = Len(ledger)
<1>1. PICK i \in 1..inserted : ledger[Len(ledger)] = ledger[i]
  BY DEF InTree
<1>2. i \in 1..Len(ledger) /\ Len(ledger) \in 1..Len(ledger)
  BY Views
<1>3. i = Len(ledger)
  BY <1>1, <1>2, Views, ChainedEntries
<1>4. QED
  BY <1>3, Views

(* The chain invariant, of a step that leaves the chain alone.               *)
LEMMA ChainStays ==
    ASSUME TypeOK, ChainInv, UNCHANGED chainVars, built' \in {built, built + 1}
    PROVE  ChainInv'
<1>1. built \in Nat /\ built' >= built /\ \A x \in ElusivTx : x.id \in Nat
  BY DEF TypeOK, ElusivTx
<1>2. \A i \in 1..Len(ledger) : ledger[i] \in ElusivTx
  BY Views
<1>3. \A i \in 1..Len(ledger) : ledger[i].id < built'
  BY <1>1, <1>2 DEF ChainInv
<1>4. \A x \in ElusivTx : Follows(x) => Follows(x)'
  BY <1>1 DEF Follows, chainVars
<1>5. QED
  BY <1>3, <1>4 DEF ChainInv, CaughtUp, chainVars

(* A transaction that fits is given to the warden.                           *)
LEMMA ChainSends ==
    ASSUME TypeOK, ChainInv, Quiet, NEW x \in ElusivTx, warden' = {x}, Follows(x)',
           UNCHANGED <<ledger, visible, inserted>>, built' \in {built, built + 1}
    PROVE  ChainInv'
<1>1. built \in Nat /\ built' >= built /\ \A t \in ElusivTx : t.id \in Nat
  BY DEF TypeOK, ElusivTx
<1>2. \A i \in 1..Len(ledger) : ledger[i] \in ElusivTx
  BY Views
<1>3. \A i \in 1..Len(ledger) : ledger[i].id < built'
  BY <1>1, <1>2 DEF ChainInv
<1>4. QED
  BY <1>3 DEF ChainInv, CaughtUp, Quiet

LEMMA IdleFields ==
    ASSUME NEW outcome
    PROVE  /\ Idle(outcome).pc = "idle" /\ Idle(outcome).outcome = outcome
           /\ Idle(outcome).active = "done" /\ Idle(outcome).recent = "done"
BY DEF Idle

(* An operation that ends with an error asks nothing of the chain, unless a  *)
(* read of it remains: then it ended before anything was sent.               *)
LEMMA FailKeeps ==
    ASSUME TypeOK, NEW p \in Clients, ClientInv(p), op[p].pc # "idle",
           op' = [op EXCEPT ![p] = Idle("failed")],
           stray'[p] = stray[p] \/ op[p].active = "read" \/ op[p].recent = "read",
           UNCHANGED chainVars
    PROVE  ClientInv(p)'
<1>1. op'[p] = Idle("failed")
  BY DEF TypeOK
<1>2. OpInv(op[p])'
  BY <1>1, IdleFields DEF OpInv
<1>3. stray'[p] # {} => op[p].pc = "params"
  BY DEF ClientInv, OpInv
<1>4. stray'[p] # {} => Quiet
  BY <1>3 DEF ClientInv, OpInv, ParamsInv
<1>5. Quiet => Quiet'
  BY DEF Quiet, CaughtUp, chainVars
<1>6. QED
  BY <1>1, <1>2, <1>4, <1>5, IdleFields DEF ClientInv

LEMMA FailInv ==
    ASSUME TypeOK, NEW p \in Clients, ChainInv, ClientInv(p), op[p].pc # "idle",
           Fail(p), UNCHANGED <<chainVars, built>>
    PROVE  ChainInv' /\ ClientInv(p)'
<1>1. stray'[p] = stray[p] \/ op[p].active = "read" \/ op[p].recent = "read"
  BY DEF Fail, Reading, TypeOK
<1>2. QED
  BY <1>1, FailKeeps, ChainStays DEF Fail

-----------------------------------------------------------------------------
(* The chain's steps and the user's.                                         *)

LEMMA LandInv ==
    ASSUME TypeOK, NEW p \in Clients, ChainInv, ClientInv(p), NEW x \in warden, Land(x)
    PROVE  ChainInv' /\ ClientInv(p)'
<1> DEFINE n == Len(ledger)
           o == op[p]
<1>1. ledger \in Seq(ElusivTx) /\ n \in Nat /\ x \in ElusivTx
  BY Views DEF TypeOK
<1>2. warden = {x} /\ CaughtUp /\ Follows(x) /\ Chained(ledger)
  BY DEF ChainInv
<1>3. /\ ledger' = Append(ledger, x) /\ warden' = {}
      /\ UNCHANGED <<visible, inserted, built, op, stray, fetched>>
  BY <1>2 DEF Land
<1>4. Len(ledger') = n + 1 /\ ledger'[n + 1] = x /\ \A i \in 1..n : ledger'[i] = ledger[i]
  BY <1>1, <1>3
<1>5. Chained(ledger')
  BY <1>1, <1>2, <1>3, ChainedAppend DEF Follows
<1>6. \A i \in 1..n + 1 : ledger'[i].id < built
  <2>1. \A i \in 1..n : ledger[i].id < built
    BY DEF ChainInv
  <2>2. \A i \in 1..n + 1 : i = n + 1 \/ i \in 1..n
    BY <1>1
  <2>3. QED
    BY <1>2, <1>4, <2>1, <2>2 DEF Follows
<1>7. ChainInv'
  BY <1>1, <1>2, <1>3, <1>4, <1>5, <1>6 DEF ChainInv, CaughtUp
<1>8. \A t \in Landed : t \in Landed'
  BY <1>1, <1>4 DEF Landed
<1>9. InTree' = InTree
  BY <1>1, <1>2, <1>3, <1>4 DEF InTree, CaughtUp
<1>10. ~Quiet
  BY DEF Quiet
<1>11. SentInv(o) => SentInv(o)'
  <2> SUFFICES ASSUME SentInv(o) PROVE SentInv(o)'
    OBVIOUS
  <2>1. o.tx = x
    BY <1>2 DEF SentInv
  <2>2. (Len(ledger) > 0 /\ o.tx = ledger[Len(ledger)] /\ warden = {})'
    BY <1>1, <1>3, <1>4, <2>1
  <2>3. TxInv(o)'
    BY <1>3 DEF SentInv, TxInv, SigNonce
  <2>4. QED
    BY <1>3, <1>8, <1>9, <2>2, <2>3 DEF SentInv
<1>12. OpInv(o)'
  BY <1>3, <1>10, <1>11 DEF ClientInv, OpInv, ParamsInv, BuiltInv
<1>13. QED
  BY <1>3, <1>7, <1>9, <1>10, <1>12 DEF ClientInv

LEMMA RejectInv ==
    ASSUME TypeOK, NEW p \in Clients, ChainInv, ClientInv(p), NEW x \in warden, Reject(x)
    PROVE  ChainInv' /\ ClientInv(p)'
<1> DEFINE o == op[p]
<1>1. warden = {x} /\ CaughtUp
  BY DEF ChainInv
<1>2. warden' = {} /\ UNCHANGED <<ledger, visible, inserted, built, op, stray, fetched>>
  BY <1>1 DEF Reject
<1>3. ChainInv'
  BY <1>1, <1>2, Views DEF ChainInv, CaughtUp
<1>4. Landed' = Landed /\ InTree' = InTree
  BY <1>2 DEF Landed, InTree
<1>5. ~Quiet
  BY DEF Quiet
<1>6. SentInv(o) => SentInv(o)'
  <2> SUFFICES ASSUME SentInv(o) PROVE SentInv(o)'
    OBVIOUS
  <2>1. Follows(o.tx)' /\ CaughtUp' /\ TxInv(o)'
    BY <1>1, <1>2 DEF SentInv, Follows, CaughtUp, TxInv, SigNonce
  <2>2. QED
    BY <1>2, <1>4, <2>1 DEF SentInv
<1>7. OpInv(o)'
  BY <1>2, <1>5, <1>6 DEF ClientInv, OpInv, ParamsInv, BuiltInv
<1>8. QED
  BY <1>2, <1>3, <1>4, <1>5, <1>7 DEF ClientInv

(* Finalize and Insert: what has landed catches up.                          *)
LEMMA CatchUpInv ==
    ASSUME TypeOK, NEW p \in Clients, ChainInv, ClientInv(p), Finalize \/ Insert
    PROVE  ChainInv' /\ ClientInv(p)'
<1> DEFINE o == op[p]
<1>1. /\ ~CaughtUp /\ visible' >= visible /\ inserted' >= inserted
      /\ UNCHANGED <<ledger, warden, built, op, stray, fetched>>
  BY Views DEF Finalize, Insert, CaughtUp
<1>2. warden = {} /\ visible >= Len(ledger) - 1 /\ inserted >= Len(ledger) - 1
  BY <1>1 DEF ChainInv
<1>3. visible' \in Int /\ inserted' \in Int
  BY Views DEF Finalize, Insert
<1>4. ChainInv'
  BY <1>1, <1>2, <1>3, Views DEF ChainInv
<1>5. Landed' = Landed /\ InTree \subseteq InTree'
  BY <1>1, <1>3, Views DEF Landed, InTree
<1>6. SentInv(o) => SentInv(o)'
  <2> SUFFICES ASSUME SentInv(o) PROVE SentInv(o)'
    OBVIOUS
  <2>1. (Len(ledger) > 0 /\ o.tx = ledger[Len(ledger)] /\ warden = {})' /\ TxInv(o)'
    BY <1>1 DEF SentInv, TxInv, SigNonce
  <2>2. QED
    BY <1>1, <1>5, <2>1 DEF SentInv
<1>7. OpInv(o)'
  BY <1>1, <1>6 DEF ClientInv, OpInv, ParamsInv, BuiltInv, Quiet
<1>8. QED
  BY <1>1, <1>4, <1>5, <1>7 DEF ClientInv, Quiet

LEMMA BuildInv ==
    ASSUME TypeOK, NEW p \in Clients, ChainInv, ClientInv(p), Careful,
           NEW txType, NEW token, Build(p, txType, token)
    PROVE  ChainInv' /\ ClientInv(p)'
<1>1. Quiet /\ stray[p] = {}
  BY DEF Build, Settled, Quiet, CaughtUp, ClientInv, OpInv, Idle
<1>2. /\ op'[p].pc = "params" /\ op'[p].active = "read" /\ op'[p].recent = "read"
      /\ op'[p].merging = FALSE /\ op'[p].merge = FALSE
  BY DEF TypeOK, Build, Idle
<1>3. UNCHANGED <<chainVars, built, stray>>
  BY DEF Build
<1>4. Quiet'
  BY <1>1, <1>3 DEF Quiet, CaughtUp, chainVars
<1>5. OpInv(op[p])'
  BY <1>2, <1>4 DEF OpInv, ParamsInv
<1>6. QED
  BY <1>1, <1>3, <1>4, <1>5, ChainStays DEF ClientInv

LEMMA SendInv ==
    ASSUME TypeOK, NEW p \in Clients, ChainInv, ClientInv(p), Send(p)
    PROVE  ChainInv' /\ ClientInv(p)'
<1> DEFINE o == op[p]
           n == Len(ledger)
<1>1. /\ Quiet /\ TxInv(o) /\ ~o.merging /\ Follows(o.tx) /\ stray[p] = {}
      /\ o.active = "done" /\ o.recent = "done"
  BY DEF Send, ClientInv, OpInv, BuiltInv
<1>2. o.tx \in ElusivTx /\ o \in Operations
  BY DEF TypeOK, HasTx, Send
<1>3. /\ op'[p].pc = "sending" /\ op'[p].tx = o.tx /\ op'[p].token = o.token
      /\ op'[p].lastNonce = o.lastNonce /\ op'[p].merging = o.merging /\ op'[p].merge = o.merge
      /\ op'[p].active = o.active /\ op'[p].recent = o.recent
  BY <1>2 DEF TypeOK, Send, Operations
<1>4. warden' = {o.tx} /\ UNCHANGED <<ledger, visible, inserted, built, stray>>
  BY <1>1 DEF Send, Quiet
<1>5. Follows(o.tx)' /\ CaughtUp' /\ InTree' = InTree
  <2>1. o.tx = op'[p].tx
    BY <1>3
  <2>2. QED
    BY <1>1, <1>3, <1>4, <2>1 DEF Follows, CaughtUp, Quiet, InTree
<1>6. ChainInv'
  BY <1>1, <1>2, <1>3, <1>4, <1>5, ChainSends
<1>7. OpInv(op[p])'
  BY <1>1, <1>3, <1>4, <1>5 DEF OpInv, SentInv, TxInv, SigNonce
<1>8. QED
  BY <1>1, <1>4, <1>5, <1>6, <1>7 DEF ClientInv

LEMMA DropInv ==
    ASSUME TypeOK, NEW p \in Clients, ChainInv, ClientInv(p), Drop(p)
    PROVE  ChainInv' /\ ClientInv(p)'
<1>1. Quiet /\ stray[p] = {}
  BY DEF Drop, ClientInv, OpInv, BuiltInv
<1>2. op'[p] = Idle("none") /\ UNCHANGED <<chainVars, built, stray>>
  BY DEF TypeOK, Drop
<1>3. Quiet'
  BY <1>1, <1>2 DEF Quiet, CaughtUp, chainVars
<1>4. OpInv(op[p])'
  BY <1>2, <1>3, IdleFields DEF OpInv
<1>5. QED
  BY <1>1, <1>2, <1>3, <1>4, ChainStays DEF ClientInv

(* A new instance asks nothing of the chain.                                 *)
LEMMA RestartInv ==
    ASSUME TypeOK, NEW p \in Clients, ChainInv, ClientInv(p), Restart(p)
    PROVE  ChainInv' /\ ClientInv(p)'
<1>1. stray'[p] = {} /\ UNCHANGED <<chainVars, built>>
  BY DEF TypeOK, Restart
<1>2. CASE op'[p] = Idle("failed")
  <2>1. OpInv(op[p])'
    BY <1>2, IdleFields DEF OpInv
  <2>2. QED
    BY <1>1, <2>1, ChainStays DEF ClientInv
<1>3. CASE op'[p] = op[p] /\ op[p].pc = "idle"
  <2>1. Quiet => Quiet'
    BY <1>1 DEF Quiet, CaughtUp, chainVars
  <2>2. OpInv(op[p])'
    BY <1>3, <2>1 DEF ClientInv, OpInv
  <2>3. QED
    BY <1>1, <2>2, ChainStays DEF ClientInv
<1>4. QED
  BY <1>2, <1>3 DEF TypeOK, Restart

-----------------------------------------------------------------------------
(* The reads of the history.                                                 *)

(* getActiveTxs, once everything has caught up.                              *)
LEMMA ActiveWhenQuiet ==
    ASSUME TypeOK, ChainInv, Quiet, NEW token \in Tokens,
           NEW active \in ActiveTxs(Newest(SendArity, OfToken(Visible, token)))
    PROVE  active = TxsAt(ledger, Unspent(ledger, Len(ledger), token))
<1>1. Visible = TxsAt(ledger, 1..Len(ledger)) /\ Len(ledger) \in 0..Len(ledger)
  BY Views DEF Quiet, CaughtUp
<1>2. QED
  BY <1>1, Views, ActiveIsUnspent DEF ChainInv

(* While the cache is no more than a transaction and two batches behind, a   *)
(* read tells everything even if it ends early.                              *)
LEMMA ToldWhenQuiet ==
    ASSUME TypeOK, ChainInv, Quiet, NEW p \in Clients, NEW from \in Int, NEW overlaps,
           Len(ledger) <= from + 1 + 2 * BatchSize, NEW told \in Told(p, from, overlaps)
    PROVE  told = Visible
<1>1. BatchSize \in Nat
  <2>1. BatchSize \in Nat \ {0}
    BY ClientAssumption
  <2>2. QED
    BY <2>1
<1>2. Visible = TxsAt(ledger, 1..Len(ledger)) /\ Len(ledger) \in Nat
  BY Views DEF Quiet, CaughtUp
<1>3. \A t \in Visible : t.nonce \in Int /\ t.nonce <= Len(ledger) - 1
  <2> SUFFICES ASSUME NEW t \in Visible PROVE t.nonce \in Int /\ t.nonce <= Len(ledger) - 1
    OBVIOUS
  <2>1. PICK i \in 1..Len(ledger) : t = ledger[i]
    BY <1>2 DEF TxsAt
  <2>2. t.nonce = i - 1
    BY <2>1, Views, ChainedEntries DEF ChainInv
  <2>3. QED
    BY <1>2, <2>2
<1>4. ASSUME NEW n \in Early(p, from) PROVE UpTo(n) = Visible
  <2>1. n \in Int /\ n >= from + 2 * BatchSize
    BY <1>3 DEF Early
  <2>2. n >= Len(ledger) - 1
    BY <1>1, <1>2, <2>1
  <2>3. \A t \in Visible : t.nonce <= n
    BY <1>2, <1>3, <2>1, <2>2
  <2>4. QED
    BY <2>3 DEF UpTo
<1>5. QED
  BY <1>4 DEF Told

LEMMA ToldAlone ==
    ASSUME NEW p, NEW from, NEW told \in Told(p, from, FALSE)
    PROVE  told = Visible
BY DEF Told

(* What the cache then holds.                                                *)
LEMMA NewestCached ==
    ASSUME TypeOK, ChainInv, NEW p \in Clients, fetched[p] \in -1..visible - 1,
           CacheNewest(p, Visible)
    PROVE  fetched'[p] = visible - 1
<1>1. Visible = TxsAt(ledger, 1..visible) /\ visible \in 0..Len(ledger) /\ Len(ledger) \in Nat
  BY Views
<1>2. CASE Visible = {} /\ UNCHANGED fetched
  <2>1. visible > 0 => ledger[1] \in Visible
    BY <1>1 DEF TxsAt
  <2>2. visible = 0
    BY <1>1, <1>2, <2>1
  <2>3. QED
    BY <1>2, <2>2
<1>3. ASSUME NEW newest \in First(Visible), fetched' = [fetched EXCEPT ![p] = newest.nonce]
      PROVE  fetched'[p] = visible - 1
  <2>1. newest.nonce = visible - 1
    BY <1>1, Views, FirstIsLast DEF ChainInv
  <2>2. QED
    BY <1>3, <2>1 DEF TypeOK
<1>4. QED
  BY <1>2, <1>3 DEF CacheNewest

LEMMA SomeCached ==
    ASSUME TypeOK, ChainInv, NEW p \in Clients, fetched[p] \in -1..visible - 1, CacheSome(p)
    PROVE  fetched'[p] \in fetched[p]..visible - 1
<1>1. visible \in 0..Len(ledger) /\ Len(ledger) \in Nat
  BY Views
<1>2. CASE UNCHANGED fetched
  BY <1>1, <1>2
<1>3. ASSUME NEW t \in Visible, t.nonce >= fetched[p], fetched' = [fetched EXCEPT ![p] = t.nonce]
      PROVE  fetched'[p] \in fetched[p]..visible - 1
  <2>1. PICK i \in 1..visible : t = ledger[i]
    BY DEF Visible
  <2>2. i \in 1..Len(ledger)
    BY <1>1
  <2>3. t.nonce = i - 1
    BY <2>1, <2>2, Views, ChainedEntries DEF ChainInv
  <2>4. fetched'[p] = i - 1
    BY <1>3, <2>3 DEF TypeOK
  <2>5. QED
    BY <1>1, <1>3, <2>3, <2>4
<1>4. QED
  BY <1>2, <1>3 DEF CacheSome

(* What a build's read tells is everything.                                  *)
LEMMA ToldInParams ==
    ASSUME TypeOK, NEW p \in Clients, ChainInv, ClientInv(p), CacheInv(p), op[p].pc = "params",
           NEW overlaps, NEW told \in Told(p, op[p].from, overlaps)
    PROVE  told = Visible
<1>1. Quiet /\ Len(ledger) <= op[p].from + 1 + 2 * BatchSize
  BY DEF ClientInv, OpInv, ParamsInv, CacheInv
<1>2. op[p].from \in Int
  BY DEF TypeOK, Operations
<1>3. QED
  BY <1>1, <1>2, ToldWhenQuiet

LEMMA GetActiveTxsInv ==
    ASSUME TypeOK, NEW p \in Clients, ChainInv, ClientInv(p), CacheInv(p), GetActiveTxs(p)
    PROVE  ChainInv' /\ ClientInv(p)'
<1> DEFINE o == op[p]
<1>1. o \in Operations /\ o.token \in Tokens /\ o.pc = "params"
  BY DEF TypeOK, Operations, GetActiveTxs
<1>2. ParamsInv(o) /\ Quiet /\ stray[p] = {}
  BY <1>1 DEF ClientInv, OpInv, ParamsInv
<1>3. PICK active \in ActiveTxs(Newest(SendArity, OfToken(Visible, o.token))) :
         op' = [op EXCEPT ![p].activeTxs = active, ![p].active = "check"]
  BY <1>1, ToldInParams DEF GetActiveTxs
<1>4. active = TxsAt(ledger, Unspent(ledger, Len(ledger), o.token))
  BY <1>1, <1>2, ActiveWhenQuiet
<1>5. /\ op'[p].pc = "params" /\ op'[p].activeTxs = active /\ op'[p].token = o.token
      /\ op'[p].recent = o.recent /\ op'[p].recentTx = o.recentTx /\ op'[p].lastNonce = o.lastNonce
      /\ op'[p].merging = o.merging /\ op'[p].merge = o.merge
  BY <1>1, <1>3 DEF TypeOK, Operations
<1>6. UNCHANGED <<chainVars, built, stray>>
  BY DEF GetActiveTxs
<1>7. Quiet'
  BY <1>2, <1>6 DEF Quiet, CaughtUp, chainVars
<1>8. OpInv(op[p])'
  <2>1. op'[p].activeTxs = TxsAt(ledger', Unspent(ledger', Len(ledger'), op'[p].token))
    BY <1>4, <1>5, <1>6 DEF chainVars
  <2>2. ParamsInv(op[p])'
    BY <1>2, <1>5, <1>6, <1>7, <2>1 DEF ParamsInv, chainVars
  <2>3. QED
    BY <1>5, <2>2 DEF OpInv
<1>9. QED
  BY <1>2, <1>6, <1>8, ChainStays DEF ClientInv

LEMMA StrayInv ==
    ASSUME TypeOK, NEW p \in Clients, ChainInv, ClientInv(p), NEW read, StrayRead(p, read)
    PROVE  ChainInv' /\ ClientInv(p)'
<1>1. Quiet /\ op[p].pc = "idle" /\ op[p].outcome = "failed"
  BY DEF StrayRead, ClientInv
<1>2. UNCHANGED <<chainVars, built, op>>
  BY DEF StrayRead
<1>3. Quiet'
  BY <1>1, <1>2 DEF Quiet, CaughtUp, chainVars
<1>4. op'[p] = op[p] /\ op[p].active = "done" /\ op[p].recent = "done"
  BY <1>1, <1>2 DEF ClientInv, OpInv
<1>5. OpInv(op[p])'
  BY <1>1, <1>4 DEF OpInv
<1>6. QED
  BY <1>1, <1>2, <1>3, <1>4, <1>5, ChainStays DEF ClientInv

(* A step of the two reads that leaves the chain alone.                      *)
LEMMA ParamsKeeps ==
    ASSUME TypeOK, NEW p \in Clients, ChainInv, ClientInv(p), op[p].pc = "params",
           UNCHANGED <<chainVars, built, stray>>,
           op'[p].pc = "params" /\ op'[p].token = op[p].token,
           op'[p].merging = op[p].merging /\ op'[p].merge = op[p].merge,
           op'[p].activeTxs = op[p].activeTxs,
           op'[p].active # "read" => op[p].active # "read",
           op'[p].recent = "check" => Len(ledger) > 0 /\ op'[p].recentTx = ledger[Len(ledger)],
           op'[p].recent = "done" => op'[p].lastNonce = Len(ledger) - 1
    PROVE  ChainInv' /\ ClientInv(p)'
<1>1. ParamsInv(op[p]) /\ Quiet /\ stray[p] = {}
  BY DEF ClientInv, OpInv, ParamsInv
<1>2. Quiet'
  BY <1>1 DEF Quiet, CaughtUp, chainVars
<1>3. op'[p].active # "read" =>
        op'[p].activeTxs = TxsAt(ledger', Unspent(ledger', Len(ledger'), op'[p].token))
  BY <1>1 DEF ParamsInv, chainVars
<1>4. ParamsInv(op[p])'
  BY <1>1, <1>2, <1>3 DEF ParamsInv, chainVars
<1>5. OpInv(op[p])'
  BY <1>4 DEF OpInv
<1>6. QED
  BY <1>1, <1>2, <1>5, ChainStays DEF ClientInv

LEMMA ActivateInv ==
    ASSUME TypeOK, NEW p \in Clients, ChainInv, ClientInv(p), ActivateCommitments(p)
    PROVE  ChainInv' /\ ClientInv(p)'
<1> DEFINE o == op[p]
<1>1. /\ o \in Operations /\ o.pc = "params" /\ o.active = "check"
      /\ UNCHANGED <<chainVars, built>>
  BY DEF TypeOK, ActivateCommitments
<1>2. CASE Fail(p)
  BY <1>1, <1>2, FailInv
<1>3. CASE op' = [op EXCEPT ![p].active = "done"] /\ UNCHANGED stray
  <2>1. /\ op'[p].pc = "params" /\ op'[p].activeTxs = o.activeTxs /\ op'[p].token = o.token
        /\ op'[p].recent = o.recent /\ op'[p].recentTx = o.recentTx /\ op'[p].lastNonce = o.lastNonce
        /\ op'[p].merging = o.merging /\ op'[p].merge = o.merge
    BY <1>1, <1>3 DEF TypeOK, Operations
  <2>2. ParamsInv(o)
    BY <1>1 DEF ClientInv, OpInv
  <2>3. /\ op'[p].recent = "check" => Len(ledger) > 0 /\ op'[p].recentTx = ledger[Len(ledger)]
        /\ op'[p].recent = "done" => op'[p].lastNonce = Len(ledger) - 1
    BY <2>1, <2>2 DEF ParamsInv
  <2>4. QED
    BY <1>1, <1>3, <2>1, <2>3, ParamsKeeps
<1>4. QED
  BY <1>2, <1>3 DEF ActivateCommitments

LEMMA GetMostRecentTxInv ==
    ASSUME TypeOK, NEW p \in Clients, ChainInv, ClientInv(p), CacheInv(p), GetMostRecentTx(p)
    PROVE  ChainInv' /\ ClientInv(p)'
<1> DEFINE o == op[p]
<1>1. o \in Operations /\ o.pc = "params" /\ UNCHANGED <<chainVars, built, stray>>
  BY DEF TypeOK, GetMostRecentTx
<1>2. Quiet
  BY <1>1 DEF ClientInv, OpInv, ParamsInv
<1>3. Visible = TxsAt(ledger, 1..Len(ledger)) /\ Len(ledger) \in 0..Len(ledger)
  BY <1>2, Views DEF Quiet, CaughtUp
<1>4. CASE Visible = {} /\ op' = [op EXCEPT ![p].recent = "done", ![p].lastNonce = -1]
  <2>1. Len(ledger) = 0
    <3>1. Len(ledger) > 0 => ledger[1] \in Visible
      BY <1>3, Views DEF TxsAt
    <3>2. QED
      BY <1>4, <3>1, Views
  <2>2. /\ op'[p].pc = "params" /\ op'[p].activeTxs = o.activeTxs /\ op'[p].token = o.token
        /\ op'[p].recent = "done" /\ op'[p].lastNonce = -1 /\ op'[p].active = o.active
        /\ op'[p].merging = o.merging /\ op'[p].merge = o.merge
    BY <1>1, <1>4 DEF TypeOK, Operations
  <2>3. QED
    BY <1>1, <2>1, <2>2, ParamsKeeps
<1>5. ASSUME NEW tx \in First(Visible), op' = [op EXCEPT ![p].recent = "check", ![p].recentTx = tx]
      PROVE  ChainInv' /\ ClientInv(p)'
  <2>1. Len(ledger) > 0 /\ tx = ledger[Len(ledger)]
    BY <1>3, <1>5, Views, FirstIsLast DEF ChainInv
  <2>2. /\ op'[p].pc = "params" /\ op'[p].activeTxs = o.activeTxs /\ op'[p].token = o.token
        /\ op'[p].recent = "check" /\ op'[p].recentTx = tx /\ op'[p].active = o.active
        /\ op'[p].merging = o.merging /\ op'[p].merge = o.merge
    BY <1>1, <1>5 DEF TypeOK, Operations
  <2>3. QED
    BY <1>1, <2>1, <2>2, ParamsKeeps
<1>6. QED
  BY <1>1, <1>4, <1>5, ToldInParams DEF GetMostRecentTx

LEMMA IsTransactionConfirmedInv ==
    ASSUME TypeOK, NEW p \in Clients, ChainInv, ClientInv(p), IsTransactionConfirmed(p)
    PROVE  ChainInv' /\ ClientInv(p)'
<1> DEFINE o == op[p]
           n == Len(ledger)
<1>1. /\ o \in Operations /\ o.pc = "params" /\ o.recent = "check"
      /\ UNCHANGED <<chainVars, built>>
  BY DEF TypeOK, IsTransactionConfirmed
<1>2. CASE Fail(p)
  BY <1>1, <1>2, FailInv
<1>3. CASE /\ op' = [op EXCEPT ![p].recent = "done", ![p].lastNonce = op[p].recentTx.nonce]
           /\ UNCHANGED stray
  <2>1. n > 0 /\ o.recentTx = ledger[n]
    BY <1>1 DEF ClientInv, OpInv, ParamsInv
  <2>2. n \in 1..n
    BY <2>1, Views
  <2>3. o.recentTx.nonce = n - 1
    BY <2>1, <2>2, Views, ChainedEntries DEF ChainInv
  <2>4. /\ op'[p].pc = "params" /\ op'[p].activeTxs = o.activeTxs /\ op'[p].token = o.token
        /\ op'[p].recent = "done" /\ op'[p].lastNonce = n - 1 /\ op'[p].active = o.active
        /\ op'[p].merging = o.merging /\ op'[p].merge = o.merge
    BY <1>1, <1>3, <2>3 DEF TypeOK, Operations
  <2>5. QED
    BY <1>1, <1>3, <2>4, ParamsKeeps
<1>4. QED
  BY <1>2, <1>3 DEF IsTransactionConfirmed

-----------------------------------------------------------------------------
(* What is built.                                                            *)

(* The transactions that BuildTx and FindSig make follow the ledger.         *)
LEMMA SendFits ==
    ASSUME TypeOK, ChainInv, NEW x, x.id = built, x.nonce = Len(ledger), x.txType = "SEND",
           NEW active, active = TxsAt(ledger, Unspent(ledger, Len(ledger), x.token)),
           active # {}, x.inputs = {t.id : t \in active}
    PROVE  Fits(ledger, Len(ledger), x)
<1> DEFINE U == Unspent(ledger, Len(ledger), x.token)
<1>1. \A i \in 1..Len(ledger) : ledger[i].id # x.id
  <2>1. \A i \in 1..Len(ledger) : ledger[i].id < built /\ ledger[i] \in ElusivTx
    BY Views DEF ChainInv
  <2>2. built \in Nat
    BY DEF TypeOK
  <2>3. \A i \in 1..Len(ledger) : ledger[i].id \in Nat
    BY <2>1 DEF ElusivTx
  <2>4. QED
    BY <2>1, <2>2, <2>3
<1> HIDE DEF U
<1>2. active = TxsAt(ledger, U)
  BY DEF U
<1>3. U # {} /\ x.inputs = {ledger[j].id : j \in U}
  <2>1. U # {}
    BY <1>2 DEF TxsAt
  <2>2. \A i : i \in x.inputs <=> \E t \in active : i = t.id
    OBVIOUS
  <2>3. \A t : t \in active <=> \E j \in U : t = ledger[j]
    BY <1>2 DEF TxsAt
  <2>4. x.inputs = {ledger[j].id : j \in U}
    BY <2>2, <2>3
  <2>5. QED
    BY <2>1, <2>4
<1>4. QED
  BY <1>1, <1>3 DEF Fits, U

LEMMA TopUpFits ==
    ASSUME TypeOK, ChainInv, NEW x, x.id = built, x.nonce = Len(ledger), x.txType = "TOPUP",
           Cardinality(Unspent(ledger, Len(ledger), x.token)) < SendArity, x.inputs = {}
    PROVE  Fits(ledger, Len(ledger), x)
<1>1. \A i \in 1..Len(ledger) : ledger[i].id # x.id
  <2>1. \A i \in 1..Len(ledger) : ledger[i].id < built /\ ledger[i] \in ElusivTx
    BY Views DEF ChainInv
  <2>2. built \in Nat
    BY DEF TypeOK
  <2>3. \A i \in 1..Len(ledger) : ledger[i].id \in Nat
    BY <2>1 DEF ElusivTx
  <2>4. QED
    BY <2>1, <2>2, <2>3
<1>2. QED
  BY <1>1 DEF Fits

(* A transaction is built on a chain that has caught up.                     *)
LEMMA BuiltKeeps ==
    ASSUME TypeOK, NEW p \in Clients, ChainInv,
           stray[p] = {}, UNCHANGED <<chainVars, stray>>, built' = built + 1, Quiet,
           op'[p].pc = "built" /\ ~op'[p].merging,
           op'[p].active = "done" /\ op'[p].recent = "done",
           op'[p].tx.token = op'[p].token, op'[p].tx.nonce = SigNonce(op'[p]),
           op'[p].tx.id = built, Fits(ledger, Len(ledger), op'[p].tx)
    PROVE  ChainInv' /\ ClientInv(p)'
<1>1. Quiet'
  BY DEF Quiet, CaughtUp, chainVars
<1>2. built \in Nat
  BY DEF TypeOK
<1>3. Follows(op[p].tx)'
  BY <1>2 DEF Follows, chainVars
<1>4. TxInv(op[p])'
  BY DEF TxInv, SigNonce
<1>5. OpInv(op[p])'
  BY <1>1, <1>3, <1>4 DEF OpInv, BuiltInv
<1>6. QED
  BY <1>1, <1>5, ChainStays DEF ClientInv

LEMMA NewTxFields ==
    ASSUME NEW p, NEW nonce, NEW txType, NEW inputs
    PROVE  LET x == NewTx(p, nonce, txType, inputs)
           IN /\ x.id = built /\ x.nonce = nonce /\ x.txType = txType
              /\ x.token = op[p].token /\ x.inputs = inputs
BY DEF NewTx

LEMMA BuildTxInv ==
    ASSUME TypeOK, NEW p \in Clients, ChainInv, ClientInv(p), BuildTx(p)
    PROVE  ChainInv' /\ ClientInv(p)'
<1> DEFINE o == op[p]
           n == Len(ledger)
           nonce == NextNonce(o.lastNonce)
           inputs == {t.id : t \in o.activeTxs}
           send == NewTx(p, nonce, "SEND", inputs)
           topUp == NewTx(p, nonce, "TOPUP", {})
           active == Cardinality(o.activeTxs)
<1>1. /\ o \in Operations /\ o.pc = "params" /\ o.active = "done" /\ o.recent = "done"
      /\ UNCHANGED <<ledger, visible, inserted, failures>>
  BY DEF TypeOK, BuildTx
<1>2. ParamsInv(o) /\ Quiet /\ stray[p] = {}
  BY <1>1 DEF ClientInv, OpInv, ParamsInv
<1>3. /\ o.activeTxs = TxsAt(ledger, Unspent(ledger, n, o.token)) /\ o.lastNonce = n - 1
      /\ ~o.merging /\ ~o.merge /\ n \in Nat /\ o.token \in Tokens
  BY <1>1, <1>2, Views DEF ParamsInv, Operations
<1>4. nonce = n
  BY <1>3 DEF NextNonce
<1>5. o.activeTxs # {} => Fits(ledger, n, send)
  BY <1>3, <1>4, NewTxFields, SendFits
<1>6. active < SendArity => Fits(ledger, n, topUp)
  <2>1. Unspent(ledger, n, o.token) \subseteq 1..n
    BY <1>3, UnspentFinite
  <2>2. active = Cardinality(Unspent(ledger, n, o.token))
    BY <1>3, <2>1, Views, TxsAtCount DEF ChainInv
  <2>3. QED
    BY <1>4, <2>2, NewTxFields, TopUpFits
<1>7. SendArity \in Nat /\ SendArity > 1
  <2>1. SendArity \in Nat \ {0, 1}
    BY ClientAssumption
  <2>2. QED
    BY <2>1
<1>8. active \in 1..SendArity => o.activeTxs # {}
  BY FS_EmptySet
<1>9. send.id = built /\ send.nonce = n /\ send.txType = "SEND" /\ send.token = o.token
  BY <1>4, NewTxFields
<1>10. topUp.id = built /\ topUp.nonce = n /\ topUp.token = o.token
  BY <1>4, NewTxFields
<1>11. send \in ElusivTx
  <2>1. inputs \in SUBSET Nat
    BY <1>1, IdsAreNumbers DEF Operations
  <2>2. QED
    BY <1>3, <1>4, <2>1, NewTxType
<1>12. \/ Fail(p) /\ UNCHANGED <<warden, built>>
       \/ /\ active \in 1..SendArity
          /\ op' = [op EXCEPT ![p].pc = "built", ![p].tx = send]
          /\ built' = built + 1 /\ UNCHANGED <<warden, stray>>
       \/ /\ active <= SendArity /\ ~NeedMerge(active)
          /\ op' = [op EXCEPT ![p].pc = "built", ![p].tx = topUp]
          /\ built' = built + 1 /\ UNCHANGED <<warden, stray>>
       \/ /\ NeedMerge(active)
          /\ op' = [op EXCEPT ![p].pc = "sending", ![p].tx = send, ![p].merging = TRUE]
          /\ warden' = warden \cup {send}
          /\ built' = built + 1 /\ UNCHANGED stray
  BY Zenon DEF BuildTx
<1> HIDE DEF nonce, inputs, send, topUp
<1>13. CASE Fail(p) /\ UNCHANGED <<warden, built>>
  BY <1>1, <1>13, FailInv DEF chainVars
<1>14. ASSUME NEW tx, op' = [op EXCEPT ![p].pc = "built", ![p].tx = tx],
              built' = built + 1, UNCHANGED <<warden, stray>>,
              tx.id = built, tx.nonce = n, tx.token = o.token, Fits(ledger, n, tx)
       PROVE  ChainInv' /\ ClientInv(p)'
  <2>1. /\ op'[p].pc = "built" /\ op'[p].tx = tx /\ op'[p].token = o.token
        /\ op'[p].active = "done" /\ op'[p].recent = "done" /\ op'[p].lastNonce = n - 1
        /\ op'[p].merging = o.merging /\ op'[p].merge = o.merge
    BY <1>1, <1>3, <1>14 DEF TypeOK, Operations
  <2>2. SigNonce(op'[p]) = n
    BY <1>3, <2>1 DEF SigNonce
  <2>3. QED
    BY <1>1, <1>2, <1>3, <1>14, <2>1, <2>2, BuiltKeeps DEF chainVars
<1>15. CASE /\ active \in 1..SendArity
            /\ op' = [op EXCEPT ![p].pc = "built", ![p].tx = send]
            /\ built' = built + 1 /\ UNCHANGED <<warden, stray>>
  BY <1>5, <1>8, <1>9, <1>14, <1>15
<1>16. CASE /\ active <= SendArity /\ ~NeedMerge(active)
            /\ op' = [op EXCEPT ![p].pc = "built", ![p].tx = topUp]
            /\ built' = built + 1 /\ UNCHANGED <<warden, stray>>
  <2>1. active < SendArity
    <3>1. IsFiniteSet(o.activeTxs)
      <4>1. Unspent(ledger, n, o.token) \subseteq 1..n
        BY <1>3, UnspentFinite
      <4>2. QED
        BY <1>3, <4>1, Views, TxsAtCount DEF ChainInv
    <3>2. active \in Nat
      BY <3>1, FS_CardinalityType
    <3>3. QED
      BY <1>7, <1>16, <3>2 DEF NeedMerge
  <2>2. QED
    BY <1>6, <1>10, <1>14, <1>16, <2>1
<1>17. ASSUME NEW tx \in ElusivTx, tx = send, NeedMerge(active),
              op' = [op EXCEPT ![p].pc = "sending", ![p].tx = tx, ![p].merging = TRUE],
              warden' = warden \cup {tx}, built' = built + 1, UNCHANGED stray
       PROVE  ChainInv' /\ ClientInv(p)'
  <2>1. /\ op'[p].pc = "sending" /\ op'[p].tx = tx /\ op'[p].token = o.token
        /\ op'[p].active = "done" /\ op'[p].recent = "done" /\ op'[p].lastNonce = n - 1
        /\ op'[p].merging = TRUE /\ op'[p].merge = o.merge
    BY <1>1, <1>3, <1>17 DEF TypeOK, Operations
  <2>2. o.activeTxs # {}
    BY <1>7, <1>8, <1>17 DEF NeedMerge
  <2>3. tx.id = built /\ tx.nonce = n /\ tx.txType = "SEND" /\ tx.token = o.token
        /\ Fits(ledger, n, tx) /\ built \in Nat
    BY <1>5, <1>9, <1>17, <2>2 DEF TypeOK
  <2>4. warden' = {tx} /\ CaughtUp' /\ InTree' = InTree
    BY <1>1, <1>2, <1>17 DEF Quiet, CaughtUp, InTree
  <2>5. Follows(tx)'
    BY <1>1, <1>17, <2>3 DEF Follows
  <2>6. ChainInv'
    BY <1>1, <1>2, <1>17, <2>4, <2>5, ChainSends
  <2>7. TxInv(op[p])'
    BY <1>3, <2>1, <2>3 DEF TxInv, SigNonce
  <2>8. Follows(op[p].tx)'
    BY <2>1, <2>5 DEF Follows
  <2>9. SentInv(op[p])'
    BY <2>1, <2>4, <2>7, <2>8 DEF SentInv
  <2>10. OpInv(op[p])'
    BY <2>1, <2>9 DEF OpInv
  <2>11. QED
    BY <1>1, <1>2, <1>17, <2>4, <2>6, <2>10 DEF ClientInv
<1>18. QED
  BY <1>11, <1>12, <1>13, <1>15, <1>16, <1>17

-----------------------------------------------------------------------------
(* The warden's answers, the recovery from a lost one, and the tracking.     *)

(* The client goes on with the transaction it has sent.                      *)
LEMMA GoOnKeeps ==
    ASSUME TypeOK, NEW p \in Clients, ChainInv, ClientInv(p),
           op[p].pc \in {"sending", "recovering", "awaiting", "findSig"},
           NEW pc \in {"sending", "recovering", "awaiting", "findSig"},
           op' = [op EXCEPT ![p].pc = pc], UNCHANGED <<chainVars, built, stray>>,
           pc \in {"awaiting", "findSig"} /\ ~op[p].merge => op[p].tx \in Landed,
           pc = "findSig" => op[p].tx \in InTree
    PROVE  ChainInv' /\ ClientInv(p)'
<1> DEFINE o == op[p]
<1>1. o \in Operations
  BY DEF TypeOK
<1>2. SentInv(o) /\ stray[p] = {} /\ o.active = "done" /\ o.recent = "done"
  BY DEF ClientInv, OpInv
<1>3. /\ op'[p].pc = pc /\ op'[p].tx = o.tx /\ op'[p].token = o.token
      /\ op'[p].active = o.active /\ op'[p].recent = o.recent
      /\ op'[p].lastNonce = o.lastNonce /\ op'[p].merging = o.merging /\ op'[p].merge = o.merge
  BY <1>1 DEF TypeOK, Operations
<1>4. Landed' = Landed /\ InTree' = InTree /\ (CaughtUp' <=> CaughtUp)
  BY DEF Landed, InTree, CaughtUp, chainVars
<1>5. TxInv(op[p])'
  BY <1>2, <1>3 DEF SentInv, TxInv, SigNonce
<1>6. Follows(o.tx) => Follows(op[p].tx)'
  BY <1>3 DEF Follows, chainVars
<1>7. SentInv(op[p])'
  BY <1>2, <1>3, <1>4, <1>5, <1>6 DEF SentInv, chainVars
<1>8. OpInv(op[p])'
  BY <1>2, <1>3, <1>7 DEF OpInv
<1>9. QED
  BY <1>2, <1>4, <1>8, ChainStays DEF ClientInv

LEMMA WardenReplyInv ==
    ASSUME TypeOK, NEW p \in Clients, ChainInv, ClientInv(p), WardenReply(p)
    PROVE  ChainInv' /\ ClientInv(p)'
<1>1. CASE WardenOk(p)
  BY <1>1, GoOnKeeps DEF WardenOk
<1>2. CASE WardenError(p)
  BY <1>2, FailInv DEF WardenError
<1>3. CASE FetchFailed(p)
  BY <1>3, GoOnKeeps DEF FetchFailed
<1>4. QED
  BY <1>1, <1>2, <1>3 DEF WardenReply

(* The nonce of the newest transaction tells a send or top-up that landed    *)
(* from one that did not.                                                    *)
LEMMA RecoverInv ==
    ASSUME TypeOK, NEW p \in Clients, ChainInv, ClientInv(p), Recover(p)
    PROVE  ChainInv' /\ ClientInv(p)'
<1> DEFINE o == op[p]
<1>1. /\ o.pc = "recovering" /\ UNCHANGED <<chainVars, built>>
      /\ o.lastNonce \in Int
  BY DEF Recover, TypeOK, Operations
<1>2. CASE Fail(p)
  BY <1>1, <1>2, FailInv
<1>3. ASSUME NEW mostRecent \in First(Visible), mostRecent.nonce = o.lastNonce + 1,
             op' = [op EXCEPT ![p].pc = "awaiting"], UNCHANGED stray
      PROVE  ChainInv' /\ ClientInv(p)'
  <2>1. mostRecent.nonce = visible - 1
    BY Views, FirstIsLast DEF ChainInv
  <2>2. SentInv(o)
    BY <1>1 DEF ClientInv, OpInv
  <2>3. ASSUME ~o.merge PROVE o.tx \in Landed
    <3>1. o.tx.nonce = visible - 1
      BY <1>3, <2>1, <2>2, <2>3 DEF SentInv, TxInv, SigNonce
    <3>2. ~Follows(o.tx) \/ ~CaughtUp
      BY <3>1, Views DEF Follows, Fits, CaughtUp
    <3>3. QED
      BY <2>2, <3>2, Views DEF SentInv, Landed
  <2>4. QED
    BY <1>1, <1>3, <2>3, GoOnKeeps
<1>4. QED
  <2>1. stray[p] = {}
    BY <1>1 DEF ClientInv
  <2>2. PICK mostRecent \in First(Visible) \cup {NoTx} :
           IF mostRecent # NoTx /\ mostRecent.nonce = o.lastNonce + 1
           THEN op' = [op EXCEPT ![p].pc = "awaiting"] /\ UNCHANGED stray
           ELSE Fail(p)
    BY <2>1, ToldAlone DEF Recover
  <2>3. QED
    BY <1>2, <1>3, <2>2

LEMMA EndingInv ==
    ASSUME TypeOK, NEW p \in Clients, ChainInv, ClientInv(p),
           AwaitCommitmentInsertion(p) \/ Timeout(p) \/ NodeError(p)
    PROVE  ChainInv' /\ ClientInv(p)'
<1>1. CASE AwaitCommitmentInsertion(p)
  <2>1. op[p].tx \in Landed
    BY <1>1, Views DEF AwaitCommitmentInsertion, InTree, Landed
  <2>2. QED
    BY <1>1, <2>1, GoOnKeeps DEF AwaitCommitmentInsertion
<1>2. CASE Timeout(p)
  BY <1>2, FailInv DEF Timeout
<1>3. CASE NodeError(p)
  <2>1. op[p].pc # "idle" /\ UNCHANGED <<chainVars, built>>
    BY <1>3 DEF NodeError
  <2>2. stray'[p] = stray[p] \/ op[p].active = "read" \/ op[p].recent = "read"
    <3>1. PICK left \in SUBSET Reading(op[p]) : stray' = [stray EXCEPT ![p] = @ \cup left]
      BY <1>3 DEF NodeError
    <3>2. stray'[p] = stray[p] \cup left
      BY <3>1 DEF TypeOK
    <3>3. op[p].active # "read" /\ op[p].recent # "read" => left = {}
      BY <3>1 DEF Reading
    <3>4. QED
      BY <3>2, <3>3
  <2>3. QED
    BY <1>3, <2>1, <2>2, FailKeeps, ChainStays DEF NodeError
<1>4. QED
  BY <1>1, <1>2, <1>3

(* When findSig has found it, the transaction is the newest, finalized and   *)
(* in the tree: the chain has caught up.                                     *)
LEMMA FoundWhenQuiet ==
    ASSUME TypeOK, NEW p \in Clients, ChainInv, ClientInv(p), op[p].pc = "findSig"
    PROVE  /\ inserted = Len(ledger) /\ warden = {} /\ Len(ledger) > 0
           /\ op[p].tx = ledger[Len(ledger)] /\ op[p].tx.nonce = Len(ledger) - 1
           /\ SigFound(op[p], Newest(FindSigCount, Visible)) => Quiet
<1> DEFINE o == op[p]
           n == Len(ledger)
<1>1. SentInv(o) /\ o.tx \in InTree
  BY DEF ClientInv, OpInv, SentInv
<1>2. ~Follows(o.tx)
  BY <1>1, FollowsIsNew
<1>3. n > 0 /\ o.tx = ledger[n] /\ warden = {}
  BY <1>1, <1>2 DEF SentInv
<1>4. inserted = n
  BY <1>1, <1>3, LastInTree DEF ChainInv
<1>5. n \in 1..n
  BY <1>3, Views
<1>6. o.tx.nonce = n - 1
  BY <1>3, <1>5, Views, ChainedEntries DEF ChainInv
<1>7. ASSUME SigFound(o, Newest(FindSigCount, Visible)) PROVE Quiet
  <2>1. PICK t \in Visible : t.nonce = SigNonce(o)
    BY <1>7 DEF SigFound, Newest
  <2>2. PICK i \in 1..visible : t = ledger[i]
    BY DEF Visible
  <2>3. i \in 1..n /\ visible \in 0..n
    BY Views
  <2>4. t.nonce = i - 1 /\ t.nonce = n - 1
    BY <1>1, <1>6, <2>1, <2>2, <2>3, Views, ChainedEntries DEF ChainInv, SentInv, TxInv
  <2>5. visible = n
    BY <2>3, <2>4, Views
  <2>6. QED
    BY <1>3, <1>4, <2>5 DEF Quiet, CaughtUp
<1>8. QED
  BY <1>3, <1>4, <1>6, <1>7

(* After a merge, what it left is all that is unspent.                       *)
LEMMA UnspentAfterSend ==
    ASSUME NEW s \in Seq(ElusivTx), Chained(s), Len(s) > 0, s[Len(s)].txType = "SEND"
    PROVE  Cardinality(Unspent(s, Len(s), s[Len(s)].token)) < SendArity
<1> DEFINE n == Len(s)
           token == s[n].token
           U == Unspent(s, n, token)
<1>1. n \in Nat /\ n \in 0..Len(s) /\ n \in 1..n
  OBVIOUS
<1>2. IsSend(s, n, token)
  BY DEF IsSend
<1>3. U = {j \in 1..n : s[j].token = token /\ \A i \in j + 1..n : ~IsSend(s, i, token)}
  BY <1>1, UnspentSinceSend
<1>4. \A j \in U : j = n
  <2> SUFFICES ASSUME NEW j \in 1..n, \A i \in j + 1..n : ~IsSend(s, i, token), j # n PROVE FALSE
    BY <1>3
  <2>1. n \in j + 1..n
    BY <1>1
  <2>2. QED
    BY <1>2, <2>1
<1> HIDE DEF U
<1>5. U \subseteq {n}
  BY <1>4
<1>6. IsFiniteSet({n}) /\ Cardinality({n}) = 1
  BY FS_Singleton
<1>7. IsFiniteSet(U) /\ Cardinality(U) <= 1
  BY <1>5, <1>6, FS_Subset
<1>8. Cardinality(U) \in Nat
  BY <1>7, FS_CardinalityType
<1>9. SendArity \in Nat /\ SendArity > 1
  <2>1. SendArity \in Nat \ {0, 1}
    BY ClientAssumption
  <2>2. QED
    BY <2>1
<1>10. QED
  BY <1>7, <1>8, <1>9 DEF U

LEMMA FindSigInv ==
    ASSUME TypeOK, NEW p \in Clients, ChainInv, ClientInv(p), FindSig(p)
    PROVE  ChainInv' /\ ClientInv(p)'
<1> DEFINE o == op[p]
           n == Len(ledger)
           txs == Newest(FindSigCount, Visible)
<1>1. o \in Operations /\ o.pc = "findSig" /\ UNCHANGED <<chainVars, stray>>
  BY DEF TypeOK, FindSig
<1>2. /\ inserted = n /\ warden = {} /\ n > 0 /\ o.tx = ledger[n] /\ o.tx.nonce = n - 1
      /\ SigFound(o, txs) => Quiet
  BY <1>1, FoundWhenQuiet
<1>3. SentInv(o) /\ stray[p] = {} /\ o.active = "done" /\ o.recent = "done"
  BY <1>1 DEF ClientInv, OpInv
<1>5. InTree' = InTree /\ Landed' = Landed /\ (CaughtUp' <=> CaughtUp) /\ (Quiet' <=> Quiet)
  BY <1>1 DEF InTree, Landed, CaughtUp, Quiet, chainVars
<1>6. \/ UNCHANGED <<op, built>>
      \/ /\ SigFound(o, txs) /\ o.merging
         /\ op' = [op EXCEPT ![p].pc = "built", ![p].merging = FALSE, ![p].merge = TRUE,
                             ![p].tx = NewTx(p, NextNonce(op[p].lastNonce + 1), "TOPUP", {})]
         /\ built' = built + 1
      \/ SigFound(o, txs) /\ op' = [op EXCEPT ![p] = Idle("resolved")] /\ UNCHANGED built
  BY <1>3, ToldAlone DEF FindSig
<1> HIDE DEF txs
<1>7. CASE UNCHANGED <<op, built>>
  <2>1. op'[p] = o
    BY <1>7
  <2>2. SentInv(op[p])'
    BY <1>1, <1>2, <1>3, <1>5, <2>1 DEF SentInv, TxInv, SigNonce, chainVars
  <2>3. OpInv(op[p])'
    BY <1>1, <1>3, <2>1, <2>2 DEF OpInv
  <2>4. QED
    BY <1>1, <1>3, <1>5, <1>7, <2>3, ChainStays DEF ClientInv
<1>8. CASE SigFound(o, txs) /\ op' = [op EXCEPT ![p] = Idle("resolved")] /\ UNCHANGED built
  <2>1. op'[p] = Idle("resolved")
    BY <1>8 DEF TypeOK
  <2>2. OpInv(op[p])'
    BY <1>2, <1>5, <1>8, <2>1, IdleFields DEF OpInv
  <2>3. QED
    BY <1>1, <1>3, <1>5, <1>8, <2>2, ChainStays DEF ClientInv
<1>9. ASSUME SigFound(o, txs), o.merging, NEW tx,
             tx = NewTx(p, NextNonce(op[p].lastNonce + 1), "TOPUP", {}),
             op' = [op EXCEPT ![p].pc = "built", ![p].merging = FALSE, ![p].merge = TRUE, ![p].tx = tx],
             built' = built + 1
      PROVE  ChainInv' /\ ClientInv(p)'
  <2>1. o.tx.txType = "SEND" /\ ~o.merge /\ o.tx.token = o.token /\ SigNonce(o) = n - 1
    BY <1>2, <1>3, <1>9 DEF SentInv, TxInv
  <2>2. o.lastNonce = n - 2 /\ n \in Nat
    BY <1>1, <2>1, Views DEF SigNonce, Operations
  <2>3. /\ tx.id = built /\ tx.nonce = n /\ tx.txType = "TOPUP" /\ tx.inputs = {}
        /\ tx.token = o.token
    <3>1. NextNonce(o.lastNonce + 1) = n
      BY <2>2 DEF NextNonce
    <3>2. QED
      BY <1>9, <3>1, NewTxFields
  <2>4. Cardinality(Unspent(ledger, n, o.token)) < SendArity
    BY <1>2, <2>1, Views, UnspentAfterSend DEF ChainInv
  <2>5. Fits(ledger, n, tx)
    BY <2>3, <2>4, TopUpFits
  <2>6. /\ op'[p].pc = "built" /\ op'[p].tx = tx /\ op'[p].token = o.token
        /\ op'[p].active = "done" /\ op'[p].recent = "done" /\ op'[p].lastNonce = n - 2
        /\ op'[p].merging = FALSE /\ op'[p].merge = TRUE
    BY <1>1, <1>3, <1>9, <2>2 DEF TypeOK, Operations
  <2>7. SigNonce(op'[p]) = n
    BY <2>2, <2>6 DEF SigNonce
  <2>8. QED
    BY <1>1, <1>2, <1>3, <1>9, <2>3, <2>5, <2>6, <2>7, BuiltKeeps
<1>10. QED
  BY <1>6, <1>7, <1>8, <1>9

-----------------------------------------------------------------------------
(* How far the cache is behind.                                              *)
LEMMA BatchSizeType ==
    BatchSize \in Nat /\ BatchSize > 0
<1>1. BatchSize \in Nat \ {0}
  BY ClientAssumption
<1>2. QED
  BY <1>1

LEMMA DueType ==
    ASSUME TypeOK
    PROVE  /\ Due \in Nat /\ Len(ledger) \in Nat /\ visible \in 0..Len(ledger)
           /\ Len(ledger) <= Due /\ Due <= Len(ledger) + 1
BY Views DEF Due

(* Sending and landing keep what is due, but for what is newly sent.         *)
LEMMA ChainCache ==
    ASSUME TypeOK, NEW p \in Clients, ChainInv, ClientInv(p), CacheInv(p), Chain
    PROVE  CacheInv(p)'
<1>1. UNCHANGED <<op, fetched>>
  BY DEF Chain, Land, Reject, Finalize, Insert
<1>2. fetched[p] \in Int /\ visible' \in Int /\ visible' >= visible
  BY Views DEF TypeOK, Chain, Land, Reject, Finalize, Insert
<1>3. fetched[p] \in -1..visible' - 1
  BY <1>2, Views DEF CacheInv
<1>4. ASSUME NEW x \in warden, Land(x) PROVE CacheInv(p)'
  <2>1. warden = {x} /\ ~Quiet
    BY <1>4 DEF ChainInv, Quiet
  <2>2. Len(ledger') = Len(ledger) + 1 /\ warden' = {}
    BY <1>4, <2>1, Views DEF Land
  <2>3. Due' = Due
    BY <2>1, <2>2, Views DEF Due
  <2>4. op[p].pc \notin {"params", "built"}
    BY <2>1 DEF ClientInv, OpInv, ParamsInv, BuiltInv
  <2>5. QED
    BY <1>1, <1>3, <2>3, <2>4 DEF CacheInv
<1>5. ASSUME NEW x \in warden, Reject(x) PROVE CacheInv(p)'
  <2>1. Len(ledger') = Len(ledger) /\ Due' <= Due /\ Due' \in Int
    BY <1>5, Views DEF Reject, Due
  <2>2. Due' <= fetched[p] + 1 + 2 * BatchSize
    BY <1>2, <2>1, BatchSizeType, DueType DEF CacheInv
  <2>3. op[p].pc \in {"sending", "recovering", "awaiting", "findSig"} => Due' <= fetched[p] + 2
    BY <1>2, <2>1, DueType DEF CacheInv
  <2>4. QED
    BY <1>1, <1>3, <2>1, <2>2, <2>3 DEF CacheInv
<1>6. CASE Finalize \/ Insert
  <2>1. Len(ledger') = Len(ledger) /\ Due' = Due
    BY <1>6 DEF Finalize, Insert, Due
  <2>2. QED
    BY <1>1, <1>3, <2>1 DEF CacheInv
<1>7. QED
  BY <1>4, <1>5, <1>6 DEF Chain

(* A step of the client that leaves the chain alone: what it has cached it   *)
(* keeps, and once a read of a build is back everything is cached.           *)
LEMMA CacheKeeps ==
    ASSUME TypeOK, NEW p \in Clients, CacheInv(p), UNCHANGED chainVars,
           fetched'[p] \in fetched[p]..visible - 1,
           op'[p].pc = "params" =>
              /\ op[p].pc = "params" /\ op'[p].from = op[p].from
              /\ op'[p].active # "read" \/ op'[p].recent # "read" => fetched'[p] = Len(ledger) - 1,
           op'[p].pc = "built" => fetched'[p] = Len(ledger) - 1,
           op'[p].pc \in {"sending", "recovering", "awaiting", "findSig"} =>
              op[p].pc \in {"sending", "recovering", "awaiting", "findSig"}
    PROVE  CacheInv(p)'
<1>1. Due' = Due /\ Len(ledger') = Len(ledger) /\ visible' = visible
  BY DEF Due, chainVars
<1>2. fetched[p] \in Int /\ fetched'[p] \in Int /\ fetched'[p] >= fetched[p]
  <2>1. fetched[p] \in Int /\ visible \in Int
    BY DEF TypeOK
  <2>2. QED
    BY <2>1
<1>3. fetched'[p] \in -1..visible' - 1
  BY <1>1, <1>2, Views DEF CacheInv
<1>4. Due \in Nat /\ Due <= fetched[p] + 1 + 2 * BatchSize
  BY DueType DEF CacheInv
<1>5. Due' <= fetched'[p] + 1 + 2 * BatchSize
  <2> SUFFICES Due <= fetched'[p] + 1 + 2 * BatchSize
    BY <1>1
  <2>1. QED
    BY <1>2, <1>4, BatchSizeType
<1>6. op'[p].pc \in {"sending", "recovering", "awaiting", "findSig"} => Due' <= fetched'[p] + 2
  <2>1. op'[p].pc \in {"sending", "recovering", "awaiting", "findSig"} => Due <= fetched[p] + 2
    BY DEF CacheInv
  <2>2. QED
    BY <1>1, <1>2, <1>4, <2>1
<1>7. op'[p].pc = "params" => Len(ledger') <= op'[p].from + 1 + 2 * BatchSize
  BY <1>1 DEF CacheInv
<1>8. QED
  BY <1>1, <1>3, <1>5, <1>6, <1>7 DEF CacheInv

LEMMA SameCached ==
    ASSUME TypeOK, NEW p \in Clients, CacheInv(p), UNCHANGED fetched
    PROVE  fetched'[p] \in fetched[p]..visible - 1
BY Views DEF TypeOK, CacheInv

(* An operation that ends.                                                   *)
LEMMA EndCache ==
    ASSUME TypeOK, NEW p \in Clients, CacheInv(p), UNCHANGED chainVars,
           fetched'[p] \in fetched[p]..visible - 1,
           NEW outcome, op' = [op EXCEPT ![p] = Idle(outcome)]
    PROVE  CacheInv(p)'
<1>1. op'[p].pc = "idle"
  BY IdleFields DEF TypeOK
<1>2. QED
  BY <1>1, CacheKeeps

LEMMA FailCache ==
    ASSUME TypeOK, NEW p \in Clients, CacheInv(p), UNCHANGED chainVars,
           fetched'[p] \in fetched[p]..visible - 1, Fail(p)
    PROVE  CacheInv(p)'
BY EndCache DEF Fail

LEMMA GoOnCache ==
    ASSUME TypeOK, NEW p \in Clients, CacheInv(p), UNCHANGED chainVars,
           fetched'[p] \in fetched[p]..visible - 1,
           op[p].pc \in {"sending", "recovering", "awaiting", "findSig"},
           NEW pc \in {"sending", "recovering", "awaiting", "findSig"},
           op' = [op EXCEPT ![p].pc = pc]
    PROVE  CacheInv(p)'
<1>1. op'[p].pc = pc
  BY DEF TypeOK, Operations
<1>2. QED
  BY <1>1, CacheKeeps

LEMMA UserCache ==
    ASSUME TypeOK, NEW p \in Clients, ChainInv, ClientInv(p), CacheInv(p),
           MaxRestart <= 2 * BatchSize, User(p)
    PROVE  CacheInv(p)'
<1>1. ASSUME NEW txType, NEW token, Build(p, txType, token) PROVE CacheInv(p)'
  <2>1. /\ op'[p].pc = "params" /\ op'[p].active = "read" /\ op'[p].recent = "read"
        /\ op'[p].from = fetched[p]
    BY <1>1 DEF TypeOK, Build, Idle
  <2>2. Due' = Due /\ UNCHANGED <<ledger, visible, fetched>>
    BY <1>1 DEF Build, Due, chainVars
  <2>3. Len(ledger) <= fetched[p] + 1 + 2 * BatchSize
    BY DueType, BatchSizeType DEF CacheInv, TypeOK
  <2>4. QED
    BY <2>1, <2>2, <2>3 DEF CacheInv
<1>2. CASE Send(p)
  <2>1. op'[p].pc = "sending"
    BY <1>2 DEF TypeOK, Send, Operations
  <2>2. Quiet /\ UNCHANGED <<ledger, visible, fetched>>
    BY <1>2 DEF Send, ClientInv, OpInv, BuiltInv
  <2>3. Due' <= Len(ledger) + 1 /\ Due' \in Int
    BY <2>2, Views DEF Due
  <2>4. fetched[p] = Len(ledger) - 1
    BY <1>2 DEF Send, CacheInv
  <2>5. Due' <= fetched[p] + 2 /\ Due' <= fetched[p] + 1 + 2 * BatchSize
    BY <2>3, <2>4, Views, BatchSizeType
  <2>6. QED
    BY <2>1, <2>2, <2>5 DEF CacheInv
<1>3. CASE Drop(p)
  BY <1>3, SameCached, EndCache DEF Drop
<1>4. CASE Restart(p)
  <2>1. op'[p].pc = "idle" /\ fetched'[p] = -1 /\ UNCHANGED <<ledger, visible, warden>>
    BY <1>4, IdleFields DEF TypeOK, Restart, chainVars
  <2>2. Due <= MaxRestart
    <3>1. Cardinality({}) = 0 /\ \A x : Cardinality({x}) = 1
      BY FS_EmptySet, FS_Singleton
    <3>2. Due = Len(ledger) + Cardinality(warden)
      BY <3>1, Views DEF ChainInv, Due
    <3>3. QED
      BY <1>4, <3>2 DEF Restart
  <2>3. Due' = Due
    BY <2>1 DEF Due
  <2>4. Due' <= fetched'[p] + 1 + 2 * BatchSize
    <3>1. MaxRestart \in Int
      BY ClientAssumption
    <3>2. QED
      BY <2>1, <2>2, <2>3, <3>1, DueType, BatchSizeType
  <2>5. QED
    BY <2>1, <2>4, Views DEF CacheInv
<1>5. QED
  BY <1>1, <1>2, <1>3, <1>4 DEF User

LEMMA FetchCache ==
    ASSUME TypeOK, NEW p \in Clients, ChainInv, ClientInv(p), CacheInv(p), Fetch(p)
    PROVE  CacheInv(p)'
<1> DEFINE o == op[p]
<1>1. o \in Operations /\ fetched[p] \in -1..visible - 1 /\ fetched[p] \in Int
  BY DEF TypeOK, CacheInv
<1>2. o.pc = "params" => Quiet /\ visible = Len(ledger)
  BY DEF ClientInv, OpInv, ParamsInv, Quiet, CaughtUp
<1>3. CASE GetActiveTxs(p)
  <2>1. o.pc = "params" /\ CacheNewest(p, Visible) /\ UNCHANGED chainVars
    BY <1>3, ToldInParams DEF GetActiveTxs
  <2>2. fetched'[p] = Len(ledger) - 1 /\ fetched'[p] \in fetched[p]..visible - 1
    BY <1>1, <1>2, <2>1, NewestCached, Views
  <2>3. op'[p].pc = "params" /\ op'[p].from = o.from
    BY <1>1, <1>3 DEF GetActiveTxs, TypeOK, Operations
  <2>4. QED
    BY <2>1, <2>2, <2>3, CacheKeeps
<1>4. CASE GetMostRecentTx(p)
  <2>1. o.pc = "params" /\ CacheNewest(p, Visible) /\ UNCHANGED chainVars
    BY <1>4, ToldInParams DEF GetMostRecentTx
  <2>2. fetched'[p] = Len(ledger) - 1 /\ fetched'[p] \in fetched[p]..visible - 1
    BY <1>1, <1>2, <2>1, NewestCached, Views
  <2>3. op'[p].pc = "params" /\ op'[p].from = o.from
    BY <1>1, <1>4 DEF GetMostRecentTx, TypeOK, Operations
  <2>4. QED
    BY <2>1, <2>2, <2>3, CacheKeeps
<1>5. CASE ActivateCommitments(p)
  <2>1. /\ o.pc = "params" /\ o.active = "check" /\ UNCHANGED chainVars
        /\ fetched'[p] = fetched[p] /\ fetched'[p] \in fetched[p]..visible - 1
    BY <1>5, SameCached DEF ActivateCommitments
  <2>2. CASE Fail(p)
    BY <2>1, <2>2, FailCache
  <2>3. CASE op' = [op EXCEPT ![p].active = "done"]
    <3>1. op'[p].pc = "params" /\ op'[p].from = o.from /\ fetched'[p] = Len(ledger) - 1
      BY <1>1, <2>1, <2>3 DEF TypeOK, Operations, CacheInv
    <3>2. QED
      BY <2>1, <3>1, CacheKeeps
  <2>4. QED
    BY <1>5, <2>2, <2>3 DEF ActivateCommitments
<1>6. CASE IsTransactionConfirmed(p)
  <2>1. /\ o.pc = "params" /\ o.recent = "check" /\ UNCHANGED chainVars
        /\ fetched'[p] = fetched[p] /\ fetched'[p] \in fetched[p]..visible - 1
    BY <1>6, SameCached DEF IsTransactionConfirmed
  <2>2. CASE Fail(p)
    BY <2>1, <2>2, FailCache
  <2>3. CASE op' = [op EXCEPT ![p].recent = "done", ![p].lastNonce = op[p].recentTx.nonce]
    <3>1. op'[p].pc = "params" /\ op'[p].from = o.from /\ fetched'[p] = Len(ledger) - 1
      BY <1>1, <2>1, <2>3 DEF TypeOK, Operations, CacheInv
    <3>2. QED
      BY <2>1, <3>1, CacheKeeps
  <2>4. QED
    BY <1>6, <2>2, <2>3 DEF IsTransactionConfirmed
<1>7. CASE BuildTx(p)
  <2>1. /\ o.pc = "params" /\ o.active = "done" /\ UNCHANGED <<ledger, visible, inserted, fetched, failures>>
        /\ fetched'[p] = fetched[p] /\ fetched'[p] \in fetched[p]..visible - 1
    BY <1>7, SameCached DEF BuildTx
  <2>2. fetched[p] = Len(ledger) - 1
    BY <2>1 DEF CacheInv
  <2>3. CASE Fail(p) /\ UNCHANGED warden
    BY <2>1, <2>3, FailCache DEF chainVars
  <2>4. ASSUME NEW tx, op' = [op EXCEPT ![p].pc = "built", ![p].tx = tx], UNCHANGED warden
        PROVE  CacheInv(p)'
    <3>1. op'[p].pc = "built"
      BY <1>1, <2>4 DEF TypeOK, Operations
    <3>2. QED
      BY <2>1, <2>2, <2>4, <3>1, CacheKeeps DEF chainVars
  <2>5. ASSUME NEW tx,
               op' = [op EXCEPT ![p].pc = "sending", ![p].tx = tx, ![p].merging = TRUE]
        PROVE  CacheInv(p)'
    <3>1. op'[p].pc = "sending"
      BY <1>1, <2>5 DEF TypeOK, Operations
    <3>2. Due' <= Len(ledger) + 1 /\ Due' \in Int
      BY <2>1, Views DEF Due
    <3>3. Due' <= fetched[p] + 2 /\ Due' <= fetched[p] + 1 + 2 * BatchSize
      BY <2>2, <3>2, Views, BatchSizeType
    <3>4. QED
      BY <1>1, <2>1, <3>1, <3>3 DEF CacheInv
  <2>6. QED
    BY <1>7, <2>3, <2>4, <2>5, Zenon DEF BuildTx
<1>8. CASE Recover(p)
  <2>1. o.pc = "recovering" /\ stray[p] = {} /\ UNCHANGED chainVars
    BY <1>8 DEF Recover, ClientInv
  <2>2. CacheNewest(p, Visible) /\ (Fail(p) \/ op' = [op EXCEPT ![p].pc = "awaiting"])
    BY <1>8, <2>1, ToldAlone DEF Recover
  <2>3. fetched'[p] \in fetched[p]..visible - 1
    BY <1>1, <2>2, NewestCached, Views
  <2>4. QED
    BY <2>1, <2>2, <2>3, FailCache, GoOnCache
<1>9. QED
  BY <1>3, <1>4, <1>5, <1>6, <1>7, <1>8 DEF Fetch

LEMMA FindSigCache ==
    ASSUME TypeOK, NEW p \in Clients, ChainInv, ClientInv(p), CacheInv(p), FindSig(p)
    PROVE  CacheInv(p)'
<1> DEFINE o == op[p]
<1>1. o \in Operations /\ o.pc = "findSig" /\ stray[p] = {} /\ UNCHANGED chainVars
  BY DEF TypeOK, FindSig, ClientInv
<1>2. CacheNewest(p, Visible)
  BY <1>1, ToldAlone DEF FindSig
<1>3. fetched'[p] = visible - 1 /\ fetched'[p] \in fetched[p]..visible - 1
  <2>1. fetched[p] \in -1..visible - 1
    BY DEF CacheInv
  <2>2. QED
    BY <1>2, <2>1, NewestCached, Views
<1>4. CASE UNCHANGED op
  BY <1>1, <1>3, <1>4, CacheKeeps
<1>5. ASSUME NEW tx, SigFound(o, Newest(FindSigCount, Visible)),
             op' = [op EXCEPT ![p].pc = "built", ![p].merging = FALSE, ![p].merge = TRUE, ![p].tx = tx]
      PROVE  CacheInv(p)'
  <2>1. visible = Len(ledger)
    BY <1>1, <1>5, FoundWhenQuiet DEF Quiet, CaughtUp
  <2>2. op'[p].pc = "built"
    BY <1>1, <1>5 DEF TypeOK, Operations
  <2>3. QED
    BY <1>1, <1>3, <2>1, <2>2, CacheKeeps
<1>6. CASE op' = [op EXCEPT ![p] = Idle("resolved")]
  BY <1>1, <1>3, <1>6, EndCache
<1>7. QED
  BY <1>1, <1>4, <1>5, <1>6, ToldAlone DEF FindSig

LEMMA ClientCache ==
    ASSUME TypeOK, NEW p \in Clients, ChainInv, ClientInv(p), CacheInv(p),
           MaxRestart <= 2 * BatchSize, Client(p)
    PROVE  CacheInv(p)'
<1>1. CASE WardenReply(p)
  BY <1>1, SameCached, FailCache, GoOnCache DEF WardenReply, WardenOk, WardenError, FetchFailed
<1>2. CASE AwaitCommitmentInsertion(p)
  BY <1>2, SameCached, GoOnCache DEF AwaitCommitmentInsertion
<1>3. CASE Timeout(p)
  BY <1>3, SameCached, FailCache DEF Timeout
<1>4. CASE NodeError(p)
  BY <1>4, SomeCached, EndCache DEF NodeError, CacheInv
<1>5. ASSUME NEW read, StrayRead(p, read) PROVE CacheInv(p)'
  <2>1. op[p].pc = "idle" /\ UNCHANGED <<chainVars, op>> /\ CacheSome(p)
    BY <1>5 DEF StrayRead, ClientInv
  <2>2. QED
    BY <2>1, SomeCached, CacheKeeps DEF CacheInv
<1>6. QED
  BY <1>1, <1>2, <1>3, <1>4, <1>5, UserCache, FetchCache, FindSigCache DEF Client, Track

-----------------------------------------------------------------------------
(* The invariant holds, and what follows from it.                            *)

LEMMA InitLone ==
    Init => LoneInv
<1> SUFFICES ASSUME Init PROVE LoneInv
  OBVIOUS
<1>1. ledger = <<>> /\ Len(ledger) = 0 /\ warden = {} /\ visible = 0 /\ inserted = 0
  BY DEF Init
<1>2. CaughtUp /\ Quiet
  BY <1>1 DEF CaughtUp, Quiet
<1>3. Chained(ledger)
  <2>1. SendArity \in Nat
    <3>1. SendArity \in Nat \ {0, 1}
      BY ClientAssumption
    <3>2. QED
      BY <3>1
  <2>2. \A k \in 0..Len(ledger), token \in Tokens :
           Unspent(ledger, k, token) = {} /\ \A i \in 1..k : ~IsSend(ledger, i, token)
    BY <1>1 DEF Unspent
  <2>3. Cardinality({}) = 0
    BY FS_EmptySet
  <2>4. \A k \in 0..Len(ledger), token \in Tokens : Cardinality(Unspent(ledger, k, token)) = 0
    BY <2>2, <2>3
  <2>5. \A i \in 1..Len(ledger) : FALSE
    BY <1>1
  <2>6. QED
    BY <2>1, <2>2, <2>4, <2>5 DEF Chained
<1>4. ChainInv
  BY <1>1, <1>3 DEF ChainInv
<1>5. ASSUME NEW p \in Clients PROVE ClientInv(p) /\ CacheInv(p)
  <2>1. op[p] = Idle("none") /\ stray[p] = {} /\ fetched[p] = -1
    BY DEF Init
  <2>2. OpInv(op[p])
    BY <1>2, <2>1, IdleFields DEF OpInv
  <2>3. CacheInv(p)
    BY <1>1, <2>1, IdleFields, BatchSizeType DEF CacheInv, Due
  <2>4. QED
    BY <2>1, <2>2, <2>3 DEF ClientInv
<1>6. QED
  BY <1>4, <1>5 DEF LoneInv

LEMMA NextLone ==
    LoneClient /\ TypeOK /\ LoneInv /\ [Next]_vars => LoneInv'
<1> SUFFICES ASSUME LoneClient, TypeOK, LoneInv, [Next]_vars PROVE LoneInv'
  OBVIOUS
<1>1. PICK p \in Clients : Clients = {p}
  BY DEF LoneClient
<1>2. Careful /\ ChainInv /\ ClientInv(p) /\ CacheInv(p)
  BY DEF LoneClient, LoneInv
<1>3. ChainInv' /\ ClientInv(p)'
  <2>1. CASE Chain
    BY <1>2, <2>1, LandInv, RejectInv, CatchUpInv DEF Chain
  <2>2. CASE User(p)
    BY <1>2, <2>2, BuildInv, SendInv, DropInv, RestartInv DEF User
  <2>3. CASE Fetch(p)
    BY <1>2, <2>3, GetActiveTxsInv, ActivateInv, GetMostRecentTxInv, IsTransactionConfirmedInv,
       BuildTxInv, RecoverInv DEF Fetch
  <2>4. CASE Track(p)
    BY <1>2, <2>4, EndingInv, FindSigInv DEF Track
  <2>5. CASE UNCHANGED vars
    <3>1. UNCHANGED <<chainVars, built, op, stray, fetched>>
      BY <2>5 DEF vars, chainVars
    <3>2. ClientInv(p)'
      BY <1>2, <3>1 DEF ClientInv, OpInv, ParamsInv, BuiltInv, SentInv, TxInv, SigNonce, Quiet,
         CaughtUp, Follows, InTree, Landed, chainVars
    <3>3. QED
      BY <1>2, <3>1, <3>2, ChainStays
  <2>6. QED
    BY <1>1, <1>2, <2>1, <2>2, <2>3, <2>4, <2>5, WardenReplyInv, EndingInv, StrayInv DEF Next, Client
<1>4. CacheInv(p)'
  <2>1. CASE Chain
    BY <1>2, <2>1, ChainCache
  <2>2. CASE Client(p)
    BY <1>2, <1>3, <2>2, ClientCache DEF LoneClient
  <2>3. CASE UNCHANGED vars
    BY <1>2, <2>3 DEF CacheInv, Due, vars
  <2>4. QED
    BY <1>1, <2>1, <2>2, <2>3 DEF Next
<1>5. QED
  BY <1>1, <1>3, <1>4 DEF LoneInv

(* The chain and the operation of a lone, careful client are always in step. *)
THEOREM LoneInductive ==
    ASSUME LoneClient
    PROVE  Spec => []LoneInv
BY InitLone, NextLone, TypeCorrect, PTL DEF Spec

(* What getActiveTxs takes to be active is what can be spent, for every      *)
(* arity of a send and however many top-ups, merges and failures there were. *)
THEOREM LoneActive ==
    ASSUME LoneClient
    PROVE  Spec => []ActiveAreUnspent
<1>1. TypeOK /\ LoneInv => ActiveAreUnspent
  <2> SUFFICES ASSUME TypeOK, LoneInv, NEW token \in Tokens,
                      NEW active \in ActiveTxs(Newest(SendArity, OfToken(Visible, token)))
               PROVE  active = {t \in OfToken(Visible, token) : t.id \notin SpentBy(Visible)}
    BY DEF ActiveAreUnspent
  <2>1. visible \in 0..Len(ledger) /\ Visible = TxsAt(ledger, 1..visible) /\ Chained(ledger)
    BY Views DEF LoneInv, ChainInv
  <2>2. active = TxsAt(ledger, Unspent(ledger, visible, token))
    BY <2>1, Views, ActiveIsUnspent
  <2>3. \A t : t \in active <=> \E j \in 1..visible :
           /\ t = ledger[j] /\ ledger[j].token = token
           /\ \A i \in 1..visible : ledger[j].id \notin ledger[i].inputs
    BY <2>2 DEF TxsAt, Unspent
  <2>4. \A id : id \in SpentBy(Visible) <=> \E i \in 1..visible : id \in ledger[i].inputs
    BY <2>1 DEF SpentBy, TxsAt
  <2>5. \A t : t \in OfToken(Visible, token) <=>
                   \E j \in 1..visible : t = ledger[j] /\ ledger[j].token = token
    BY <2>1 DEF OfToken, TxsAt
  <2>6. QED
    BY <2>3, <2>4, <2>5
<1>2. QED
  BY <1>1, LoneInductive, TypeCorrect, PTL

(* When an operation has resolved, nothing is on its way and all that landed *)
(* is finalized and in the tree.                                             *)
THEOREM LoneReady ==
    ASSUME LoneClient
    PROVE  Spec => []ReadyWhenResolved
<1>1. LoneInv => ReadyWhenResolved
  BY DEF LoneInv, ClientInv, OpInv, Quiet, CaughtUp, ReadyWhenResolved
<1>2. QED
  BY <1>1, LoneInductive, PTL

(* An operation goes on without the warden's answer only if its transaction  *)
(* has landed, unless it is a top-up after a merge.                          *)
THEOREM LoneAccepted ==
    ASSUME LoneClient
    PROVE  Spec => []AcceptedHasLanded
<1>1. LoneInv => AcceptedHasLanded
  BY DEF LoneInv, ClientInv, OpInv, SentInv, AcceptedHasLanded
<1>2. QED
  BY <1>1, LoneInductive, PTL

-----------------------------------------------------------------------------
(* The history of Account.                                                   *)
History == [i \in 1..Len(ledger) |-> [nonce |-> ledger[i].nonce, txType |-> ledger[i].txType,
                                      token |-> ledger[i].token]]

(* What Account takes to be unspent is what no transaction spends.           *)
LEMMA CommitmentsAreUnspent ==
    ASSUME TypeOK, Chained(ledger), NEW token \in Tokens
    PROVE  Promise!Commitments(token) = Unspent(ledger, Len(ledger), token)
<1> DEFINE n == Len(ledger)
<1>1. n \in Nat /\ n \in 0..n /\ \A i \in 1..n : ledger[i].txType \in {"TOPUP", "SEND"}
  <2>1. n \in Nat /\ \A i \in 1..n : ledger[i] \in ElusivTx
    BY Views
  <2>2. QED
    BY <2>1 DEF ElusivTx
<1>2. Len(History) = n /\ \A i \in 1..n : /\ History[i].token = ledger[i].token
                                          /\ History[i].txType = ledger[i].txType
  BY <1>1 DEF History
<1>3. Promise!Commitments(token) =
        {j \in 1..n : /\ ledger[j].token = token
                      /\ \A i \in j + 1..n : ledger[i].token = token => ledger[i].txType = "TOPUP"}
  <2>1. Promise!Commitments(token) =
          {j \in 1..Len(History) :
             /\ History[j].token = token
             /\ \A i \in j + 1..Len(History) : History[i].token = token => History[i].txType = "TOPUP"}
    BY DEF Promise!Commitments, History
  <2>2. \A j \in 1..n : \A i \in j + 1..n : i \in 1..n
    BY <1>1
  <2>3. QED
    BY <1>2, <2>1, <2>2
<1>4. \A j \in 1..n : \A i \in j + 1..n :
        (ledger[i].token = token => ledger[i].txType = "TOPUP") <=> ~IsSend(ledger, i, token)
  BY <1>1 DEF IsSend
<1>5. Unspent(ledger, n, token) =
        {j \in 1..n : ledger[j].token = token /\ \A i \in j + 1..n : ~IsSend(ledger, i, token)}
  BY <1>1, Views, UnspentSinceSend
<1>6. QED
  BY <1>3, <1>4, <1>5

(* The instance has a Cardinality of its own.                                *)
LEMMA SameCardinality ==
    ASSUME NEW S
    PROVE  Promise!Cardinality(S) = Cardinality(S)
BY Zenon DEF Promise!Cardinality, Cardinality

LEMMA LandKeeps ==
    ASSUME TypeOK, ChainInv, NEW x \in warden, Land(x)
    PROVE  Promise!Next
<1> DEFINE n == Len(ledger)
           record == [nonce |-> n, txType |-> x.txType, token |-> x.token]
<1>1. x \in ElusivTx /\ Fits(ledger, n, x) /\ Chained(ledger) /\ n \in Nat
  BY Views DEF TypeOK, ChainInv, Follows
<1>2. x.token \in Tokens /\ x.nonce = n
  BY <1>1 DEF ElusivTx, Fits
<1>3. Promise!Commitments(x.token) = Unspent(ledger, n, x.token)
  BY <1>1, <1>2, CommitmentsAreUnspent
<1>4. ledger' = Append(ledger, x)
  BY DEF Land
<1>5. Len(ledger') = n + 1 /\ ledger'[n + 1] = x /\ \A i \in 1..n : ledger'[i] = ledger[i]
  BY <1>1, <1>4, Views
<1>6. History' = Append(History, record) /\ Len(History) = n
  BY <1>1, <1>2, <1>5 DEF History
<1>7. CASE x.txType = "SEND"
  <2>1. Promise!Send(x.token)
    BY <1>1, <1>3, <1>6, <1>7 DEF Promise!Send, Promise!Extend, Fits, History
  <2>2. QED
    BY <1>2, <2>1 DEF Promise!Next
<1>8. CASE x.txType = "TOPUP"
  <2>1. Promise!TopUp(x.token)
    <3>1. Promise!Cardinality(Promise!Commitments(x.token)) < SendArity
      BY <1>1, <1>3, <1>8, SameCardinality DEF Fits
    <3>2. Promise!Extend("TOPUP", x.token)
      BY <1>6, <1>8 DEF Promise!Extend, History
    <3>3. QED
      BY <3>1, <3>2 DEF Promise!TopUp
  <2>2. QED
    BY <1>2, <2>1 DEF Promise!Next
<1>9. QED
  BY <1>1, <1>7, <1>8 DEF Fits

(* A lone, careful client implements Account: each of its transactions has   *)
(* the next nonce, a send finds something to spend and a top-up finds room.  *)
THEOREM LoneKeepsAccount ==
    ASSUME LoneClient
    PROVE  Spec => KeepsAccount
<1>1. Init => Promise!Init
  BY DEF Init, Promise!Init
<1>2. TypeOK /\ LoneInv /\ [Next]_vars => [Promise!Next]_History
  <2> SUFFICES ASSUME TypeOK, LoneInv, [Next]_vars PROVE Promise!Next \/ UNCHANGED ledger
    BY DEF History
  <2>1. ASSUME NEW x \in warden, Land(x) PROVE Promise!Next
    BY <2>1, LandKeeps DEF LoneInv
  <2>2. ASSUME NEW p \in Clients, User(p) \/ Fetch(p) PROVE UNCHANGED ledger
    BY <2>2 DEF User, Build, Send, Drop, Restart, Fetch, GetActiveTxs, ActivateCommitments, GetMostRecentTx,
       IsTransactionConfirmed, BuildTx, Recover, chainVars
  <2>3. ASSUME NEW p \in Clients, WardenReply(p) \/ Track(p) \/ Timeout(p) \/ NodeError(p)
        PROVE  UNCHANGED ledger
    BY <2>3 DEF WardenReply, WardenOk, WardenError, FetchFailed, Track, AwaitCommitmentInsertion,
       FindSig, Timeout, NodeError, chainVars
  <2>4. ASSUME NEW p \in Clients, NEW read, StrayRead(p, read)
        PROVE  UNCHANGED ledger
    BY <2>4 DEF StrayRead, chainVars
  <2>5. CASE Chain
    BY <2>1, <2>5 DEF Chain, Reject, Finalize, Insert
  <2>6. CASE UNCHANGED vars
    BY <2>6 DEF vars
  <2>7. QED
    BY <2>2, <2>3, <2>4, <2>5, <2>6 DEF Next, Client
<1>3. QED
  BY <1>1, <1>2, LoneInductive, TypeCorrect, PTL DEF Spec, KeepsAccount, Promise!Spec, History
=============================================================================
