----------------------------- MODULE Responses -----------------------------
(* What the Solana transactions of one identifier key are told to be. A send *)
(* leaves two of them, an init and a finalize, which may be far apart; two   *)
(* sends share an identifier when one was built before the node knew of the  *)
(* nonce of the other, and so may a top-up and a send. ResponseConverter     *)
(* pairs each finalize with an init by the verification account both use.    *)
(* The program on chain gives an account to one send at a time.              *)
EXTENDS Integers, Sequences, FiniteSets

CONSTANTS
    Sends,     \* sends with this identifier, each initialised at most once
    TopUps,    \* top-ups with this identifier
    Legacy,    \* those of both in a format before metadata was added
    InTokens,  \* top-ups of a token other than LAMPORTS
    Accounts,  \* verification accounts
    None,      \* no send
    MaxFailed  \* bound: transactions that fail on chain

ASSUME ResponseAssumption ==
    /\ None \notin Sends /\ MaxFailed \in Nat
    /\ Sends \cap TopUps = {} /\ Legacy \subseteq Sends \cup TopUps /\ InTokens \subseteq TopUps

VARIABLES
    chain,   \* the transactions, with their place in the order on chain
    slot,    \* the place of the next
    account  \* which send uses a verification account

vars == <<chain, slot, account>>

-----------------------------------------------------------------------------
(* A transaction is a sequence of instructions; only some of the elusiv      *)
(* program's have the identifier key among their accounts.                   *)
Ix(code, of, ver) == [code |-> code, of |-> of, ver |-> ver]

Budget == Ix("budget", None, None)
StoreIxs(topUp) == <<Budget, Budget, Ix("store", topUp, None), Ix("compute", topUp, None)>>
InitIxs(send, ver) == <<Budget, Ix("init", send, ver)>>
FinalizeIxs(send, ver) == <<Ix("finalize", send, ver), Ix("transfer", send, ver)>>

IsElusivIx(ix) == ix.code # "budget"
IsIdentifierIx(ix) == IsElusivIx(ix) /\ ix.code \in {"store", "init", "finalize"}

(* The first instruction of a code that has the identifier, if there is one. *)
Has(tx, code) == \E k \in DOMAIN tx.ixs : IsIdentifierIx(tx.ixs[k]) /\ tx.ixs[k].code = code
Get(tx, code) ==
    tx.ixs[CHOOSE k \in DOMAIN tx.ixs :
               /\ IsIdentifierIx(tx.ixs[k]) /\ tx.ixs[k].code = code
               /\ \A l \in 1..(k - 1) : ~(IsIdentifierIx(tx.ixs[l]) /\ tx.ixs[l].code = code)]

IsStoreTx(tx) == Has(tx, "store")
IsSendTx(tx) == Has(tx, "init") \/ Has(tx, "finalize")
IsElusivTx(tx) == IsStoreTx(tx) \/ IsSendTx(tx)

(* Transactions come with the newest first: the first is the newest.         *)
First(txs) == CHOOSE tx \in txs : \A other \in txs : other.sig <= tx.sig

-----------------------------------------------------------------------------
(* TransactionParsing and InstructionParsing. An instruction is parsed in    *)
(* the format of today and then in the legacy one, and has metadata only in  *)
(* the former.                                                               *)
Parsed(ix, code) == ix.code = code /\ ix.of \notin Legacy

(* Mutant: only the format of today is known.                                *)
ParsesToday(ix, code) == Parsed(ix, code)

Parses(ix, code) == Parsed(ix, code) \/ (ix.code = code /\ ix.of \in Legacy)

ParsesStore(tx) ==
    /\ Len(tx.ixs) = 4
    /\ Parses(tx.ixs[3], "store") /\ tx.ixs[4].code = "compute"
    /\ tx.cpis = IF tx.ixs[3].of \in InTokens THEN 6 ELSE 5

Store(tx) ==
    [txType |-> "TOPUP", of |-> Get(tx, "store").of, finalizedBy |-> None, transactionStatus |-> "PENDING",
     signature |-> tx.sig, metadata |-> Parsed(Get(tx, "store"), "store")]

ParsesSend(txs) ==
    /\ \E tx \in txs : Has(tx, "init")
    /\ Parses(Get(First({tx \in txs : Has(tx, "init")}), "init"), "init")

Send(txs) ==
    LET initIx == Get(First({tx \in txs : Has(tx, "init")}), "init")
        finalizeTxs == {tx \in txs : Has(tx, "finalize")}
        finalizedBy == IF finalizeTxs = {} THEN None ELSE Get(First(finalizeTxs), "finalize").of
    IN [txType |-> "SEND", of |-> initIx.of, finalizedBy |-> finalizedBy,
        transactionStatus |-> IF finalizedBy = None THEN "PENDING" ELSE "PROCESSED",
        signature |-> First(txs).sig, metadata |-> Parsed(initIx, "init")]

-----------------------------------------------------------------------------
(* ResponseConverter, of the transactions that have not failed. From a       *)
(* finalize on it looks for the next init, which is older, with the same     *)
(* verification account.                                                     *)
GetElusivTxs(txs) == {tx \in txs : IsElusivTx(tx)}

Response == {tx \in chain : ~tx.err}

SameVerificationAcc(initTx, finalizeTx) == Get(initTx, "init").ver = Get(finalizeTx, "finalize").ver

(* Mutant: the next init, whatever account it uses.                          *)
InitPartnersAny(txs, finalizeTx) == {tx \in txs : tx.sig <= finalizeTx.sig /\ Has(tx, "init")}

InitPartners(txs, finalizeTx) ==
    {tx \in txs : tx.sig <= finalizeTx.sig /\ Has(tx, "init") /\ SameVerificationAcc(tx, finalizeTx)}

(* Mutant: an init that has been paired is not remembered.                   *)
ViewedNot(txs, initTx) == FALSE

(* A finalize that is newer has this init as its partner.                    *)
Viewed(txs, initTx) ==
    \E tx \in txs : /\ tx.sig > initTx.sig /\ Has(tx, "finalize")
                    /\ InitPartners(txs, tx) # {} /\ First(InitPartners(txs, tx)) = initTx

Stores(txs) == {tx \in txs : IsStoreTx(tx)}
Finalizes(txs) == {tx \in txs : Has(tx, "finalize")}
Pending(txs) == {tx \in txs : Has(tx, "init") /\ ~Viewed(txs, tx)}
Pair(txs, finalizeTx) == {finalizeTx, First(InitPartners(txs, finalizeTx))}

(* A failure to parse one of them fails the call.                            *)
Throws(response) ==
    LET txs == GetElusivTxs(response)
    IN \/ txs = {}
       \/ \E tx \in Stores(txs) : ~ParsesStore(tx)
       \/ \E tx \in Finalizes(txs) : InitPartners(txs, tx) = {} \/ ~ParsesSend(Pair(txs, tx))
       \/ \E tx \in Pending(txs) : ~ParsesSend({tx})

Convert(response) ==
    LET txs == GetElusivTxs(response)
    IN {Store(tx) : tx \in Stores(txs)}
       \cup {Send(Pair(txs, tx)) : tx \in Finalizes(txs)}
       \cup {Send({tx}) : tx \in Pending(txs)}

(* getSendTxWithViewingKey, which takes all transactions, the failed ones    *)
(* too, for those of one send.                                               *)

(* Mutant: the oldest init is taken.                                         *)
ViewOldest(txs) == Send({tx \in txs : \A other \in txs : Has(tx, "init") /\ Has(other, "init") => tx.sig <= other.sig})

ViewThrows(txs) == ~ParsesSend(txs) \/ Send(txs).finalizedBy = None
View(txs) == Send(txs)

-----------------------------------------------------------------------------
(* The chain: each transaction lands after those before.                     *)

Land(ixs, err, cpis) ==
    /\ chain' = chain \cup {[sig |-> slot, err |-> err, ixs |-> ixs, cpis |-> cpis]}
    /\ slot' = slot + 1

Landed(code, of) == \E tx \in Response : Has(tx, code) /\ Get(tx, code).of = of

TopUp(topUp) ==
    /\ ~Landed("store", topUp)
    /\ Land(StoreIxs(topUp), FALSE, IF topUp \in InTokens THEN 6 ELSE 5)
    /\ UNCHANGED account

InitVerification(send, ver) ==
    /\ ~Landed("init", send) /\ account[ver] = None
    /\ Land(InitIxs(send, ver), FALSE, 0)
    /\ account' = [account EXCEPT ![ver] = send]

FinalizeVerification(send, ver) ==
    /\ account[ver] = send /\ ~Landed("finalize", send)
    /\ Land(FinalizeIxs(send, ver), FALSE, 0)
    /\ UNCHANGED account

(* After its transfer, or when a warden gives up.                            *)
CloseVerification(ver) ==
    /\ account[ver] # None
    /\ account' = [account EXCEPT ![ver] = None]
    /\ UNCHANGED <<chain, slot>>

Fail(ixs) ==
    /\ Cardinality({tx \in chain : tx.err}) < MaxFailed
    /\ Land(ixs, TRUE, 0)
    /\ UNCHANGED account

(* A verification account in use, or a verification that is not complete.    *)
InitFails(send, ver) == account[ver] # None /\ Fail(InitIxs(send, ver))
FinalizeFails(send, ver) == account[ver] = send /\ Fail(FinalizeIxs(send, ver))

Init == chain = {} /\ slot = 1 /\ account = [ver \in Accounts |-> None]

Next ==
    \/ \E topUp \in TopUps : TopUp(topUp)
    \/ \E send \in Sends, ver \in Accounts :
           \/ InitVerification(send, ver)
           \/ FinalizeVerification(send, ver)
           \/ InitFails(send, ver)
           \/ FinalizeFails(send, ver)
    \/ \E ver \in Accounts : CloseVerification(ver)

Spec == Init /\ [][Next]_vars

-----------------------------------------------------------------------------
(* Whatever has landed, in whatever order, its history can be told.          *)
NeverThrows == GetElusivTxs(Response) # {} => ~Throws(Response)

(* A send is told with its own finalize, and as processed if it has landed:  *)
(* an account that is used again, or a send that is initialised before       *)
(* another is finalized, does not mix them up.                               *)
PairedWithOwn ==
    \A tx \in Convert(Response) :
        tx.txType = "SEND" =>
            tx.finalizedBy = IF Landed("finalize", tx.of) THEN tx.of ELSE None

(* Each top-up and each send that has landed is told exactly once.           *)
ToldOnce ==
    LET converted == Convert(Response)
        told(txType, of) == {tx \in converted : tx.txType = txType /\ tx.of = of}
    IN /\ \A topUp \in TopUps : Cardinality(told("TOPUP", topUp)) = IF Landed("store", topUp) THEN 1 ELSE 0
       /\ \A send \in Sends : Cardinality(told("SEND", send)) = IF Landed("init", send) THEN 1 ELSE 0

(* If sends of the key come one after another, each finalized before the next*)
(* is initialised, and no transaction fails, a viewing key shows the last of *)
(* them with its own finalize.                                               *)
OneAfterAnother ==
    \A tx \in chain :
        Has(tx, "init") =>
            \E finalizeTx \in Finalizes(chain) :
                /\ Get(finalizeTx, "finalize").of = Get(tx, "init").of /\ finalizeTx.sig > tx.sig
                /\ \A other \in chain \ {tx} : Has(other, "init") => other.sig \notin tx.sig..finalizeTx.sig

ViewedIsOneSend ==
    chain = Response /\ Finalizes(chain) # {} /\ OneAfterAnother =>
        ~ViewThrows(chain) /\ View(chain).finalizedBy = View(chain).of
=============================================================================
