-------------------------- MODULE MCPrivateBalance --------------------------
(* Small instances of PrivateBalance for TLC.                                *)
EXTENDS PrivateBalance

Symmetry == Permutations(Tokens)
=============================================================================
