--------------------------- MODULE MCElusivViewer ---------------------------
(* A small instance of ElusivViewer for TLC.                                 *)
EXTENDS ElusivViewer

BothTokens == {LAMPORTS, "USDC"}
AllKinds == {"topup", "init", "finalize"}

(* A top-up puts two into the pool of its token, a send takes one out of it  *)
(* when it is finalized.                                                     *)
ChangeOf(t, u, kind) == IF t # u THEN 0 ELSE CASE kind = "topup" -> 2 [] kind = "init" -> 0 [] OTHER -> -1
=============================================================================
