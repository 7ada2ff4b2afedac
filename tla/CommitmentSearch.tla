-------------------------- MODULE CommitmentSearch --------------------------
(* Where in the on-chain Merkle tree are my commitments? TreeManager asks    *)
(* StorageAccountReader for several of them at once, each with the index the *)
(* tree had reached when it was built. The tree lies in chunk accounts; one  *)
(* search for each chunk in which a start index falls reads that chunk and   *)
(* the ones after it, each chunk in a call to the node of its own, while     *)
(* other users' commitments go on being inserted.                            *)
EXTENDS Integers, Sequences, FiniteSets, Functions

CONSTANTS
    Height,     \* MERKLE_TREE_HEIGHT
    ChunkSize,  \* STORAGE_MT_VALUES_PER_ACCOUNT
    ChunkCount, \* STORAGE_MT_CHUNK_COUNT
    Wanted,     \* the commitments looked for, one of Commitment each
    Other,      \* somebody else's commitment
    Older,      \* how many leaves there are before the account is used
    Starts      \* the leaf indices from which a commitment may be looked for

(* A chunk holds entries of every level of the tree, from the root down.     *)
NodeCountLevel(level) == 2 ^ level
FirstLeaf == NodeCountLevel(Height) - 1
Leaves == NodeCountLevel(Height)

ASSUME TreeAssumption ==
    /\ Height \in Nat
    /\ Leaves \in Nat \ {0}
    /\ ChunkSize \in Nat \ {0} /\ ChunkSize <= 100000
    /\ ChunkCount \in Nat
    /\ FirstLeaf + Leaves <= ChunkCount * ChunkSize
    /\ Older \in 0..Leaves

(* The index of a commitment not found; entries that are no commitment.       *)
Missing == -1
Zero == "zero"
Inner == "inner"

ASSUME WantedAssumption ==
    /\ IsFiniteSet(Wanted) /\ Wanted # {}
    /\ Other \notin Wanted /\ {Zero, Inner} \cap (Wanted \cup {Other}) = {}
    /\ Starts \subseteq 0..(Leaves - 1) /\ Starts # {}

VARIABLES
    tree,    \* the leaves inserted so far
    start,   \* the start index of each wanted commitment
    phase,   \* of the call: idle, searching, found, error or nodeError
    present, \* the wanted commitments in the tree when the call began
    keys,    \* how many leaves there were when the chunk keys were read
    found,   \* the global index of each commitment found
    pc,      \* for each chunk, where the search that begins there stands
    chunk,   \* accIndex: the chunk it is at
    seen,    \* how many leaves there were when it fetched that chunk
    order,   \* the commitments left to find, in the order of sortedStartIndices
    i,       \* the index in the chunk that it looks at next
    skip     \* startIndexIndex: the commitments found in this chunk

searchVars == <<pc, chunk, seen, order, i, skip>>
vars == <<tree, start, phase, present, keys, found, pc, chunk, seen, order, i, skip>>

Chunks == 0..(ChunkCount - 1)

-----------------------------------------------------------------------------
(* IndexConverter.                                                           *)
LeafToGlobal(leaf) == FirstLeaf + leaf
IndexOfAccount(global) == global \div ChunkSize
IndexInAccount(global) == global % ChunkSize
AccIndexToGlobal(account, index) == account * ChunkSize + index

(* groupAccIndices: the searches of a call, by the chunk they begin in.      *)
StartChunk(c) == IndexOfAccount(LeafToGlobal(start[c]))
Group(g) == {c \in Wanted : StartChunk(c) = g}
LeftToFind(g) == {c \in Group(g) : found[c] = Missing}

(* Mutants: every chunk is searched from the start index of the first; the    *)
(* start index is not converted to one in the chunk.                         *)
StartInEvery(c, account) == IndexInAccount(LeafToGlobal(start[c]))
StartInGlobal(c, account) == LeafToGlobal(start[c])

(* The start index in a chunk: beyond the first chunk, search from 0.        *)
StartIn(c, account) ==
    IF StartChunk(c) = account THEN IndexInAccount(LeafToGlobal(start[c])) ELSE 0

(* Array.prototype.sort without a comparator puts numbers in the order of    *)
(* their decimal strings. An index in a chunk has at most five digits.       *)
Aligned(n) == IF n < 10 THEN 10000 * n
              ELSE IF n < 100 THEN 1000 * n
              ELSE IF n < 1000 THEN 100 * n
              ELSE IF n < 10000 THEN 10 * n
              ELSE n
SortsBefore(m, n) == Aligned(m) < Aligned(n) \/ (Aligned(m) = Aligned(n) /\ m < n)

(* The orders of some commitments that sort their start indices.             *)
Sorted(comms, account) ==
    {o \in Bijection(1..Cardinality(comms), comms) :
        \A m, n \in 1..Cardinality(comms) :
            m < n => ~SortsBefore(StartIn(o[n], account), StartIn(o[m], account))}

(* What a chunk holds at an index, to one who fetched it at n leaves.        *)
Entry(account, index, n) ==
    LET leaf == AccIndexToGlobal(account, index) - FirstLeaf
    IN IF leaf < 0 THEN Inner ELSE IF leaf < n THEN tree[leaf + 1] ELSE Zero

(* A chunk has a key once something is stored in it, if not before.          *)
MustHaveKey(account) == account * ChunkSize < FirstLeaf + keys

-----------------------------------------------------------------------------
(* The tree, and the commitments of this account among those inserted: each  *)
(* at or after the index the tree had reached when it was built.             *)
Insert(c) ==
    /\ Len(tree) < Leaves
    /\ c \in Wanted => start[c] <= Len(tree) /\ \A n \in 1..Len(tree) : tree[n] # c
    /\ tree' = Append(tree, c)
    /\ UNCHANGED <<start, phase, present, keys, found, searchVars>>

(* findCommitmentIndicesFromStartIndex reads the storage account, and starts *)
(* every search.                                                             *)
FindCommitmentIndices ==
    /\ phase = "idle"
    /\ phase' = "searching"
    /\ present' = {c \in Wanted : \E n \in 1..Len(tree) : tree[n] = c}
    /\ keys' = Len(tree)
    /\ found' = [c \in Wanted |-> Missing]
    /\ pc' = [g \in Chunks |-> IF Group(g) = {} THEN "idle" ELSE "fetch"]
    /\ chunk' = [g \in Chunks |-> g]
    /\ UNCHANGED <<tree, start, seen, order, i, skip>>

(* findCommitmentIndicesAcrossChunks, the head of its loop: stop, or fetch   *)
(* the next chunk and look for what is left to find.                         *)
NextChunk(g) ==
    /\ phase = "searching" /\ pc[g] = "fetch"
    /\ \/ /\ LeftToFind(g) = {} \/ chunk[g] = ChunkCount
          /\ pc' = [pc EXCEPT ![g] = "done"]
          /\ UNCHANGED <<seen, order, i, skip>>
       \/ /\ LeftToFind(g) # {} /\ chunk[g] < ChunkCount
          /\ seen' = [seen EXCEPT ![g] = Len(tree)]
          /\ \E o \in Sorted(LeftToFind(g), chunk[g]) :
                /\ order' = [order EXCEPT ![g] = o]
                /\ i' = [i EXCEPT ![g] = StartIn(o[1], chunk[g])]
          /\ skip' = [skip EXCEPT ![g] = 0]
          /\ pc' = [pc EXCEPT ![g] = "scan"]
       \/ /\ LeftToFind(g) # {} /\ chunk[g] < ChunkCount /\ ~MustHaveKey(chunk[g])
          /\ pc' = [pc EXCEPT ![g] = "failed"]
          /\ UNCHANGED <<seen, order, i, skip>>
    /\ UNCHANGED <<tree, start, phase, present, keys, found, chunk>>

(* The node fails to answer a request for a chunk, and the search with it.   *)
NodeError(g) ==
    /\ phase = "searching" /\ pc[g] = "fetch"
    /\ LeftToFind(g) # {} /\ chunk[g] < ChunkCount
    /\ pc' = [pc EXCEPT ![g] = "unanswered"]
    /\ UNCHANGED <<tree, start, phase, present, keys, found, chunk, seen, order, i, skip>>

(* Mutant: one entry past the next start index.                              *)
AfterFoundOneFurther(g, n) ==
    IF n + 1 \in DOMAIN order[g] /\ StartIn(order[g][n + 1], chunk[g]) > i[g]
    THEN StartIn(order[g][n + 1], chunk[g]) + 1
    ELSE i[g] + 1

(* The index to look at after one where a commitment was found: the next     *)
(* start index, if there is one further on.                                  *)
AfterFound(g, n) ==
    IF n + 1 \in DOMAIN order[g] /\ StartIn(order[g][n + 1], chunk[g]) > i[g]
    THEN StartIn(order[g][n + 1], chunk[g])
    ELSE i[g] + 1

(* findCommitmentIndicesInChunk, one turn of its loop. A zero is where the   *)
(* tree ends; what was not found before it is nowhere.                       *)
FindInChunk(g) ==
    LET entry == Entry(chunk[g], i[g], seen[g])
        hits == {c \in LeftToFind(g) : c = entry}
    IN /\ phase = "searching" /\ pc[g] = "scan"
       /\ \/ /\ i[g] < ChunkSize /\ entry = Zero
             /\ pc' = [pc EXCEPT ![g] = "failed"]
             /\ UNCHANGED <<found, chunk, i, skip>>
          \/ /\ i[g] < ChunkSize /\ entry # Zero
             /\ found' = [c \in Wanted |-> IF c \in hits THEN AccIndexToGlobal(chunk[g], i[g])
                                           ELSE found[c]]
             /\ IF hits = {}
                THEN skip' = skip /\ i' = [i EXCEPT ![g] = @ + 1]
                ELSE /\ skip' = [skip EXCEPT ![g] = @ + 1]
                     /\ i' = [i EXCEPT ![g] = AfterFound(g, skip[g] + 1)]
             /\ IF LeftToFind(g) = hits
                THEN pc' = [pc EXCEPT ![g] = "fetch"] /\ chunk' = [chunk EXCEPT ![g] = @ + 1]
                ELSE UNCHANGED <<pc, chunk>>
          \/ /\ i[g] >= ChunkSize
             /\ pc' = [pc EXCEPT ![g] = "fetch"]
             /\ chunk' = [chunk EXCEPT ![g] = @ + 1]
             /\ UNCHANGED <<found, i, skip>>
       /\ UNCHANGED <<tree, start, phase, present, keys, seen, order>>

(* One failed search fails the call; when all are done, a commitment without *)
(* an index does. hasCommitment makes false of every error.                  *)
GetCommitmentIndices ==
    /\ phase = "searching"
    /\ \/ /\ \E g \in Chunks : pc[g] = "failed"
          /\ phase' = "error"
       \/ /\ \E g \in Chunks : pc[g] = "unanswered"
          /\ phase' = "nodeError"
       \/ /\ \A g \in Chunks : pc[g] \in {"idle", "done"}
          /\ phase' = IF \A c \in Wanted : found[c] # Missing THEN "found" ELSE "error"
    /\ UNCHANGED <<tree, start, present, keys, found, searchVars>>

(* The caller has its answer, what the call kept is garbage.                 *)
Return ==
    /\ phase \in {"found", "error", "nodeError"}
    /\ phase' = "idle" /\ present' = {} /\ keys' = 0
    /\ found' = [c \in Wanted |-> Missing]
    /\ pc' = [g \in Chunks |-> "idle"]
    /\ chunk' = [g \in Chunks |-> g]
    /\ seen' = [g \in Chunks |-> 0]
    /\ order' = [g \in Chunks |-> <<>>]
    /\ i' = [g \in Chunks |-> 0]
    /\ skip' = [g \in Chunks |-> 0]
    /\ UNCHANGED <<tree, start>>

-----------------------------------------------------------------------------
Init ==
    /\ tree = [n \in 1..Older |-> Other]
    /\ start \in [Wanted -> Starts]
    /\ phase = "idle" /\ present = {} /\ keys = 0
    /\ found = [c \in Wanted |-> Missing]
    /\ pc = [g \in Chunks |-> "idle"]
    /\ chunk = [g \in Chunks |-> g]
    /\ seen = [g \in Chunks |-> 0]
    /\ order = [g \in Chunks |-> <<>>]
    /\ i = [g \in Chunks |-> 0]
    /\ skip = [g \in Chunks |-> 0]

Search(g) == NextChunk(g) \/ NodeError(g) \/ FindInChunk(g)
Next == \/ \E c \in Wanted \cup {Other} : Insert(c)
        \/ FindCommitmentIndices \/ GetCommitmentIndices \/ Return
        \/ \E g \in Chunks : Search(g)

Spec == Init /\ [][Next]_vars

-----------------------------------------------------------------------------
(* Properties.                                                               *)

(* Every variable holds values of its kind.                                  *)
TypeOK ==
    /\ tree \in Seq(Wanted \cup {Other}) /\ Len(tree) <= Leaves
    /\ start \in [Wanted -> Starts]
    /\ phase \in {"idle", "searching", "found", "error", "nodeError"}
    /\ present \in SUBSET Wanted
    /\ keys \in 0..Leaves
    /\ found \in [Wanted -> 0..(FirstLeaf + Leaves - 1) \cup {Missing}]
    /\ pc \in [Chunks -> {"idle", "fetch", "scan", "done", "failed", "unanswered"}]
    /\ chunk \in [Chunks -> 0..ChunkCount]
    /\ seen \in [Chunks -> 0..Leaves]
    /\ order \in [Chunks -> Seq(Wanted)]
    /\ i \in [Chunks -> 0..ChunkSize]
    /\ skip \in [Chunks -> Nat]

(* "Start index is always a minimum where that commitment has to be ... So   *)
(* there is no commitment that could be any where between": a search never   *)
(* steps over a commitment it still has to find.                             *)
NeverSkipped ==
    \A g \in Chunks : pc[g] = "scan" =>
        \A c \in LeftToFind(g), n \in 1..seen[g] :
            tree[n] = c => LeafToGlobal(n - 1) >= AccIndexToGlobal(chunk[g], i[g])

(* "We start at the lowest one to make sure we don't miss any commitments":  *)
(* unless the node does, a call fails only if some commitment was not in the *)
(* tree when it began, so no confirmed transaction is taken for pending.     *)
SearchComplete == phase = "error" => present # Wanted
=============================================================================
