------------------------------ MODULE Awaited ------------------------------
(* What awaitCommitmentInsertion promises: a promise that settles once, and  *)
(* resolves only when the commitment is in the tree.                         *)
VARIABLES inTree, promise

Insert == ~inTree /\ inTree' = TRUE /\ UNCHANGED promise
Resolve == promise = "pending" /\ inTree /\ promise' = "resolved" /\ UNCHANGED inTree
Reject == promise = "pending" /\ promise' = "rejected" /\ UNCHANGED inTree

Init == inTree \in BOOLEAN /\ promise = "pending"
Spec == Init /\ [][Insert \/ Resolve \/ Reject]_<<inTree, promise>>
=============================================================================
