---------------------------- MODULE MCTxHistory ----------------------------
(* Small instances of TxHistory for TLC.                                     *)
EXTENDS TxHistory

Tx(n, type, token) == [nonce |-> n, txType |-> type, tokenType |-> token]
Request(count, token, lim) == [count |-> count, tokenType |-> token, before |-> lim]

(* Enough nonces for two batches of one scan, two tokens, both kinds.        *)
HistoryTxs == {Tx(0, "TOPUP", "LAMPORTS"), Tx(1, "SEND", "LAMPORTS"),
               Tx(2, "TOPUP", "LAMPORTS"), Tx(3, "TOPUP", "USDC")}
HistoryRequests == {Request(4, AnyToken, NoBefore), Request(2, "LAMPORTS", NoBefore)}

(* More batches than the refresh of one caller needs to overtake another's.  *)
OverlapTxs == {Tx(n, "TOPUP", "LAMPORTS") : n \in 0..2}
OverlapRequests == {Request(1, AnyToken, NoBefore)}
=============================================================================
