------------------------ MODULE MCCommitmentSearch ------------------------
(* Small instances of CommitmentSearch for TLC.                              *)
EXTENDS CommitmentSearch, TLC

WantedSymmetry == Permutations(Wanted)
=============================================================================
