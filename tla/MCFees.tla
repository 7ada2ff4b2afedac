------------------------------- MODULE MCFees -------------------------------
(* A small instance of Fees for TLC: bytes of 8 values, 3 of them in an      *)
(* input, and transactions in which the work of one input just fits.         *)
EXTENDS Fees

Governor(lamportsPerTx, proofNetworkFee, batchingRate) ==
    [lamportsPerTx |-> lamportsPerTx, baseCommNetworkFee |-> 100, proofNetworkFee |-> proofNetworkFee,
     baseCommSubvention |-> 1, proofSubvention |-> 4, hashTxReward |-> 0, proofReward |-> 1,
     proofBaseTxCount |-> 84, batchingRate |-> batchingRate]
TwoGovernors == {Governor(1, 0, 0), Governor(2, 200, 1)}

Inputs(hashes, roots) == [nHashes |-> hashes, roots |-> roots, feeVersion |-> 1, tokenId |-> 1]
Proofs == {Inputs(<<511, 8>>, <<7>>), Inputs(<<64>>, <<7>>), Inputs(<<511, 511, 511>>, <<511, 511, 511>>)}

TxCounts == <<24, 24, 25, 29, 37>>

(* The fee data is such as the proofs ask for.                               *)
ASSUME FeesAreRight == SubventionBelowCosts /\ BufferCovers
=============================================================================
