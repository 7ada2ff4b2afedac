-------------------------------- MODULE Fees --------------------------------
(* What transactions cost. FeeCalculator computes the lamports a send has to *)
(* pay for, which depend on the number of Solana transactions its public     *)
(* inputs take, the amount and thereby the fee itself among them; FeeUtils   *)
(* turns them into tokens. buildWithdrawTx estimates the fee with what the   *)
(* client has cached, and builds with what holds when it builds: in between  *)
(* the governor may change the fees, the price moves, the owner's token      *)
(* account is opened or closed and top-ups arrive.                           *)
EXTENDS Integers, Sequences, FiniteSets, SequencesExt, FiniteSetsExt

CONSTANTS
    Base,          \* values of a byte
    InputBytes,    \* bytes of a public input
    AddMixedCost,  \* ADD_MIXED_COST, of a byte that is not 0
    AddCost,       \* ADD_COST, of an input that is not 0
    MaxCUs,        \* MAX_CUS of a transaction
    BatchTxCounts, \* transactions of a batch of hashes, by batching rate from 0 on
    BaseTxPerHash, \* BASE_TX_PER_HASH
    Governors,     \* the fee data the governor account may hold
    Tokens,        \* the token types
    Prices,        \* lamports per token that is not LAMPORTS
    Rent,          \* lamports of a token account
    MinAmount,     \* min of a token
    Balances,      \* private balances to begin with
    ExtraFees,     \* what a third party collects
    TopUps,        \* amounts that may arrive while a withdrawal is built
    RealInputs,    \* [nHashes, roots, feeVersion, tokenId] of proofs
    MaxCommIndex,  \* the last leaf
    SendArity,     \* SEND_ARITY
    MaxChanges,    \* bound: changes around a withdrawal
    MaxBatch       \* bound: top-ups in an estimate; the estimates of fewer are its first ones

LAMPORTS == "LAMPORTS"

ASSUME InputAssumption ==
    /\ Base \in Nat \ {0, 1} /\ {InputBytes, AddCost} \subseteq Nat \ {0}
    /\ {AddMixedCost, MaxCUs, MaxCommIndex} \subseteq Nat
    /\ InputBytes * AddMixedCost + AddCost <= MaxCUs

ASSUME FeeAssumption ==
    /\ Prices \subseteq Nat \ {0} /\ LAMPORTS \in Tokens
    /\ {Rent, MinAmount, BaseTxPerHash, MaxChanges, MaxBatch} \subseteq Nat
    /\ SendArity \in Nat \ {0, 1}
    /\ Balances \cup ExtraFees \cup TopUps \subseteq Nat

ASSUME DataAssumption ==
    /\ BatchTxCounts \in Seq(Nat)
    /\ Governors \subseteq
           [lamportsPerTx : Nat, baseCommNetworkFee : Nat, proofNetworkFee : Nat, baseCommSubvention : Nat,
            proofSubvention : Nat, hashTxReward : Nat, proofReward : Nat, proofBaseTxCount : Nat,
            batchingRate : 0..(Len(BatchTxCounts) - 1)]
    /\ RealInputs \subseteq [nHashes : Seq(Nat), roots : Seq(Nat), feeVersion : Nat, tokenId : Nat]

VARIABLES
    governor, \* program_fee and commitment_batching_rate of the governor account
    price,    \* lamports per token, as Pyth has it
    exists,   \* the owner has a token account
    balance,  \* the private balance
    cached,   \* feeCalculatorCached, a set with the fee data or empty
    changes,  \* how much has changed
    op        \* the call in progress

vars == <<governor, price, exists, balance, cached, changes, op>>

CeilDiv(a, b) == (a + b - 1) \div b

-----------------------------------------------------------------------------
(* FeeCalculator: how many transactions the preparation of inputs takes. One *)
(* round for each byte and one for the whole; a transaction is full when the *)
(* next round does not fit.                                                  *)
Byte(x, b) == (x \div Base ^ (b - 1)) % Base
RoundCost(x, b) ==
    IF b > InputBytes THEN IF x = 0 THEN 0 ELSE AddCost
    ELSE IF Byte(x, b) = 0 THEN 0 ELSE AddMixedCost
Rounds(x) == [b \in 1..(InputBytes + 1) |-> RoundCost(x, b)]

Pack(acc, cus) ==
    IF acc.computeUnits + cus > MaxCUs THEN [txCount |-> acc.txCount + 1, computeUnits |-> cus]
    ELSE [acc EXCEPT !.computeUnits = @ + cus]

InputPreparation(inputs) ==
    FoldLeft(Pack, [txCount |-> 1, computeUnits |-> 0],
             FlattenSeq([n \in 1..Len(inputs) |-> Rounds(inputs[n])]))

(* Mutant: what the last transaction already computes is forgotten.          *)
TxCountForExtraInputAlone(input, startingCUs) == InputPreparation(<<input>>).txCount - 1

TxCountForExtraInput(input, startingCUs) ==
    LET alone == InputPreparation(<<input>>)
    IN alone.txCount - 1 + (IF alone.computeUnits + startingCUs > MaxCUs THEN 1 ELSE 0)

AllOnes == Base ^ InputBytes - 1
PublicInputs(inputs, recentCommIndex) ==
    inputs.nHashes \o inputs.roots \o
    <<inputs.feeVersion, inputs.tokenId, AllOnes, AllOnes, recentCommIndex>>

(* The prices of the parts, from the fee data of the governor account.       *)
HashTxCompensation(gov) == gov.lamportsPerTx + gov.hashTxReward
ProofTxCompensation(gov) == gov.lamportsPerTx + gov.proofReward
CommitmentHashFee(gov) == CeilDiv(BatchTxCounts[gov.batchingRate + 1] * HashTxCompensation(gov), 2 ^ gov.batchingRate)
FixedCosts(gov) == gov.proofReward + CommitmentHashFee(gov) + gov.proofBaseTxCount * ProofTxCompensation(gov)
SendPrivacyFee(gov, amount) == (gov.proofNetworkFee * amount) \div 10000

StoreTotalFee(gov, amount) ==
    BaseTxPerHash * HashTxCompensation(gov) + (gov.baseCommNetworkFee * amount) \div 10000
    + CommitmentHashFee(gov) + gov.lamportsPerTx - gov.baseCommSubvention

(* getSendTotalFeeInner: the amount is an input as well, so it is tried with *)
(* more and more transactions until it needs no more than are paid for.      *)
MaxExtraTx == CeilDiv((InputBytes - 1) * AddMixedCost + AddCost, MaxCUs)

SendTotalFee(gov, pubInputs, amount) ==
    LET noAmount == InputPreparation(pubInputs)
        base == amount + FixedCosts(gov) + SendPrivacyFee(gov, amount)
                + noAmount.txCount * ProofTxCompensation(gov)
        subvention == gov.proofSubvention
        total(i) == (IF base > subvention THEN base - subvention ELSE 0) + i * ProofTxCompensation(gov)
        extraTx == Min({i \in 0..MaxExtraTx : TxCountForExtraInput(total(i), noAmount.computeUnits) <= i})
    IN total(extraTx) - amount - (IF base > subvention THEN 0 ELSE subvention)

LamportFee(txFee, privacyFee, rent) == [txFee |-> txFee, privacyFee |-> privacyFee, tokenAccRent |-> rent]
StoreFee(gov, amount) == LamportFee(StoreTotalFee(gov, amount), 0, 0)
SendFee(gov, inputs, amount, recentCommIndex, recipientExists) ==
    LamportFee(SendTotalFee(gov, PublicInputs(inputs, recentCommIndex), amount) - SendPrivacyFee(gov, amount),
               SendPrivacyFee(gov, amount), IF recipientExists THEN 0 ELSE Rent)

-----------------------------------------------------------------------------
(* FeeUtils: in tokens, with 2% for fluctuations unless they are lamports,   *)
(* each part rounded up.                                                     *)
LamportsPerToken(token) == IF token = LAMPORTS THEN 1 ELSE price
TokenFee(fee, token, lamportsPerToken, extraFee) ==
    LET inToken(lamports) ==
            CeilDiv(lamports * (IF token = LAMPORTS THEN 100 ELSE 102), 100 * lamportsPerToken)
    IN [txFee |-> inToken(fee.txFee), privacyFee |-> inToken(fee.privacyFee),
        tokenAccRent |-> inToken(fee.tokenAccRent), extraFee |-> extraFee]

ComputationFeeTotal(fee) == fee.privacyFee + fee.txFee

(* Mutant: the rent of the token account is not counted.                     *)
TotalFeeAmountWithoutRent(fee) == ComputationFeeTotal(fee) + fee.extraFee

TotalFeeAmount(fee) == ComputationFeeTotal(fee) + fee.tokenAccRent + fee.extraFee
AddFees(f, g) == [part \in DOMAIN f |-> f[part] + g[part]]

(* An estimate is made with inputs of which half the bytes are 0, the longest*)
(* there are of the fee version and the token, and the last leaf.            *)
DummyInputs ==
    LET half == [n \in 1..SendArity |-> Base ^ (InputBytes \div 2) - 1]
    IN [nHashes |-> half, roots |-> half, feeVersion |-> Base - 1, tokenId |-> Base - 1]

EstimateSendFee(gov, amount, recipientExists) == SendFee(gov, DummyInputs, amount, MaxCommIndex, recipientExists)
EstimateSend(gov, token, amount, recipientExists) ==
    TokenFee(EstimateSendFee(gov, amount, recipientExists), token, LamportsPerToken(token), 0)
EstimateTopup(gov, token, amount) == TokenFee(StoreFee(gov, amount), token, LamportsPerToken(token), 0)

(* The calculator a client estimates with, the first it has fetched.         *)
Calculator == IF cached = {} THEN governor ELSE CHOOSE gov \in cached : TRUE

Caching == {Calculator}

(* There is no token account for lamports.                                   *)
RecipientExists(token) == token = LAMPORTS \/ exists

-----------------------------------------------------------------------------
(* estimateTopupFeesBatch: top-ups in a row, with a merge before each that   *)
(* finds SEND_ARITY of its token counted.                                    *)

(* Mutant: after a merge only its own commitment is counted.                 *)
CountTopupOneAfterMerge(count) == IF count = SendArity THEN 1 ELSE count + 1

CountTopup(count) == IF count = SendArity THEN 2 ELSE count + 1

SeenCounts(batch) ==
    [n \in 0..Len(batch) |->
        FoldLeft(LAMBDA seen, token : [seen EXCEPT ![token] = CountTopup(@)],
                 [token \in Tokens |-> 0], SubSeq(batch, 1, n))]

(* The merge is estimated as a send of the amount to the system program,     *)
(* which has no token account.                                               *)
EstimateTopups(gov, batch, amount) ==
    LET topup(token) == EstimateTopup(gov, token, amount)
        seen == SeenCounts(batch)
        withMerge == [token \in Tokens |->
                         AddFees(EstimateSend(gov, token, amount, token = LAMPORTS), topup(token))]
    IN [n \in 1..Len(batch) |->
           IF seen[n - 1][batch[n]] = SendArity THEN withMerge[batch[n]] ELSE topup(batch[n])]

(* The client: before a top-up that finds SEND_ARITY active commitments it   *)
(* merges them into one, and the top-up adds its own.                        *)
NeedMerge(active) == active = SendArity
TopUpClient(client, topUp) ==
    IF NeedMerge(client.active) THEN [active |-> 2, merges |-> client.merges + 1]
    ELSE [client EXCEPT !.active = @ + 1]
ClientMerges(active, topUps) ==
    FoldLeft(TopUpClient, [active |-> active, merges |-> 0], [n \in 1..topUps |-> n]).merges

-----------------------------------------------------------------------------
(* What changes around the client.                                           *)
Change(var) == changes < MaxChanges /\ changes' = changes + 1

ChangeGovernor(gov) ==
    /\ Change(governor) /\ governor' = gov
    /\ UNCHANGED <<price, exists, balance, cached, op>>

MovePrice(p) ==
    /\ Change(price) /\ price' = p
    /\ UNCHANGED <<governor, exists, balance, cached, op>>

OpenOrCloseAccount ==
    /\ Change(exists) /\ exists' = ~exists
    /\ UNCHANGED <<governor, price, balance, cached, op>>

TopUpArrives(amount) ==
    /\ Change(balance) /\ balance' = balance + amount
    /\ UNCHANGED <<governor, price, exists, cached, op>>

-----------------------------------------------------------------------------
(* buildWithdrawTx. Hundredths of the fee make its buffer of 5%.             *)
Context == [governor |-> governor, price |-> price, exists |-> exists]
Idle == op.pc \notin {"estimate", "build"}

Withdraw(token, extraFee) ==
    /\ Idle
    /\ op' = [pc |-> "estimate", token |-> token, extraFee |-> extraFee, balance |-> balance]
    /\ UNCHANGED <<governor, price, exists, balance, cached, changes>>

(* Mutant: no buffer.                                                        *)
WithBufferNone(fee) == 100 * TotalFeeAmount(fee)

WithBuffer(fee) == 105 * TotalFeeAmount(fee)

EstimateWithdraw ==
    LET fee == EstimateSend(Calculator, op.token, op.balance, RecipientExists(op.token))
    IN /\ op.pc = "estimate"
       /\ cached' = Caching
       /\ op' = IF 100 * op.balance <= WithBuffer(fee)
                THEN [pc |-> "refused", why |-> "insufficient funds"]
                ELSE [pc |-> "build", token |-> op.token, extraFee |-> op.extraFee, balance |-> op.balance,
                      withdrawFee |-> WithBuffer(fee),
                      asOf |-> [governor |-> Calculator, price |-> price, exists |-> exists]]
       /\ UNCHANGED <<governor, price, exists, balance, changes>>

IsGreaterThanMinAmount(amount, token) == amount * LamportsPerToken(token) > Rent /\ amount > MinAmount
GenerateSendFee(lamportFee, token, extraFee) == TokenFee(lamportFee, token, LamportsPerToken(token), extraFee)

(* buildSendTx: the rent, if there is no token account, and the extra fee are*)
(* added to the amount; a negative balance cannot be put into the metadata.  *)
BuildWithdraw(inputs, recentCommIndex) ==
    LET lamportsPerToken == LamportsPerToken(op.token)
        amount == (100 * op.balance - op.withdrawFee) \div 100
        rent == IF RecipientExists(op.token) THEN 0 ELSE CeilDiv(Rent, lamportsPerToken)
        realAmount == amount + rent + op.extraFee
        lamportFee == SendFee(governor, inputs, realAmount, recentCommIndex, RecipientExists(op.token))
        fee == GenerateSendFee(lamportFee, op.token, op.extraFee)
        left == balance - realAmount - ComputationFeeTotal(fee)
        refuse(why) == op' = [pc |-> "refused", why |-> why, changed |-> op.asOf # Context, extraFee |-> op.extraFee]
    IN /\ op.pc = "build"
       /\ IF ~IsGreaterThanMinAmount(amount, op.token) THEN refuse("below minimum")
          ELSE IF left < 0 THEN refuse("overdraws")
          ELSE IF 100 * TotalFeeAmount(fee) > op.withdrawFee THEN refuse("insufficient fee")
          ELSE op' = [pc |-> "built", token |-> op.token, amount |-> realAmount, fee |-> lamportFee, left |-> left,
                      pubInputs |-> PublicInputs(inputs, recentCommIndex),
                      governor |-> governor, balance |-> op.balance, withdrawFee |-> op.withdrawFee,
                      arrived |-> balance - op.balance]
       /\ UNCHANGED <<governor, price, exists, balance, cached, changes>>

EstimateTopupFeesBatch(batch, amount) ==
    /\ op.pc = "idle" /\ changes = 0
    /\ cached' = Caching
    /\ op' = [pc |-> "estimated", batch |-> batch, amount |-> amount, governor |-> Calculator,
              fees |-> EstimateTopups(Calculator, batch, amount), asOf |-> Context]
    /\ UNCHANGED <<governor, price, exists, balance, changes>>

-----------------------------------------------------------------------------
Init ==
    /\ governor \in Governors /\ price \in Prices /\ exists \in BOOLEAN /\ balance \in Balances
    /\ cached = {} /\ changes = 0
    /\ op = [pc |-> "idle"]

Next ==
    \/ \E gov \in Governors : ChangeGovernor(gov)
    \/ \E p \in Prices : MovePrice(p)
    \/ OpenOrCloseAccount
    \/ \E amount \in TopUps : TopUpArrives(amount)
    \/ \E token \in Tokens, extraFee \in ExtraFees : Withdraw(token, extraFee)
    \/ EstimateWithdraw
    \/ \E inputs \in RealInputs, recentCommIndex \in {0, MaxCommIndex} : BuildWithdraw(inputs, recentCommIndex)
    \/ \E batch \in [1..MaxBatch -> Tokens], amount \in TopUps : EstimateTopupFeesBatch(batch, amount)

Spec == Init /\ [][Next]_vars

-----------------------------------------------------------------------------
(* What the fee data has to be like for the fees to be right. The subvention *)
(* does not pay for all of a send. FeeCalculator provides for a subvention   *)
(* larger than a send and all its costs, but then keeps all of it: it takes  *)
(* it off a base amount that it has set to 0 just before.                    *)
SubventionBelowCosts == \A gov \in Governors : gov.proofSubvention < FixedCosts(gov)

(* What real inputs, and the amount as one more, cost beyond the inputs of an*)
(* estimate is no more than a twentieth of the least estimate: the buffer of *)
(* 5% that a withdrawal keeps is enough for it.                              *)
MoreThanEstimated(gov, inputs, recentCommIndex) ==
    (InputPreparation(PublicInputs(inputs, recentCommIndex)).txCount + 1
        - InputPreparation(PublicInputs(DummyInputs, MaxCommIndex)).txCount) * ProofTxCompensation(gov)
LeastEstimated(gov) ==
    FixedCosts(gov) - gov.proofSubvention
        + InputPreparation(PublicInputs(DummyInputs, MaxCommIndex)).txCount * ProofTxCompensation(gov)
TxFeeInToken(lamports, token, p) ==
    TokenFee(LamportFee(lamports, 0, 0), token, IF token = LAMPORTS THEN 1 ELSE p, 0).txFee

BufferCovers ==
    \A gov \in Governors, inputs \in RealInputs, recentCommIndex \in {0, MaxCommIndex},
       token \in Tokens, p \in Prices :
        20 * TxFeeInToken(MoreThanEstimated(gov, inputs, recentCommIndex), token, p)
            <= TxFeeInToken(LeastEstimated(gov), token, p)

-----------------------------------------------------------------------------
(* The fee of a send of lamports pays for every transaction it takes to      *)
(* prepare its public inputs, the amount with this very fee being the last.  *)
PaysForItself ==
    op.pc = "built" /\ op.token = LAMPORTS =>
        LET all == InputPreparation(Append(op.pubInputs, op.amount + op.fee.txFee + op.fee.privacyFee))
        IN op.fee.txFee + op.governor.proofSubvention
           >= FixedCosts(op.governor) + all.txCount * ProofTxCompensation(op.governor)

(* A withdrawal leaves what has arrived in the meantime, and of the rest no  *)
(* more than what was kept for the whole fee, buffer included, whatever has  *)
(* changed since the estimate.                                               *)
WithdrawsAll ==
    op.pc = "built" => /\ op.arrived <= op.left
                       /\ 100 * (op.left - op.arrived) <= op.withdrawFee + 99

(* A withdrawal fails for want of a fee only if something has changed since  *)
(* what it was estimated with, or a third party collects a fee, for which the*)
(* estimate does not provide.                                                *)
RefusedOnlyIfChanged ==
    op.pc = "refused" /\ op.why \in {"overdraws", "insufficient fee"} => op.changed \/ op.extraFee > 0

(* A batch estimate counts top-ups from none, whatever the account holds.    *)
(* What the client merges, from what it finds active on, may be two times    *)
(* more for a token, but never less, and is what is estimated if the account *)
(* holds nothing.                                                            *)
MergesEstimated ==
    op.pc = "estimated" /\ op.asOf = Context =>
        \A token \in Tokens, active \in 0..SendArity :
            LET topUps == {n \in DOMAIN op.batch : op.batch[n] = token}
                topUpFee == TotalFeeAmount(EstimateTopup(op.governor, token, op.amount))
                estimated == {n \in topUps : TotalFeeAmount(op.fees[n]) > topUpFee}
                missing == ClientMerges(active, Cardinality(topUps)) - Cardinality(estimated)
            IN missing \in 0..2 /\ (active = 0 => missing = 0)
=============================================================================
