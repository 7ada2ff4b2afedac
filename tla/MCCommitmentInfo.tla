------------------------- MODULE MCCommitmentInfo -------------------------
(* Small instances of CommitmentInfo for TLC.                                *)
EXTENDS CommitmentInfo
=============================================================================
