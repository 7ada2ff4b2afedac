----------------------------- MODULE MCResponses -----------------------------
(* A small instance of Responses for TLC.                                    *)
EXTENDS Responses, TLC

CONSTANTS s1, s2, t1, v1, v2

Symmetry == Permutations(Accounts)
=============================================================================
