--------------------------- MODULE CommitmentInfo ---------------------------
(* What a proof needs of the commitments it spends: TreeManager looks for    *)
(* them, as in CommitmentSearch, and then reads the partners of each on the  *)
(* way to the root, and the root. Each chunk with a partner is read once, and*)
(* the first chunk once more for the root, each in a call to the node of its *)
(* own, while other users' commitments go on being inserted.                 *)
EXTENDS CommitmentSearch

VARIABLES
    opening, \* of getOpenings: none, reading, done, noChunk or nodeError
    stored,  \* how many leaves there were when it read the chunk keys
    read,    \* uniqueAccs: how many when it read each chunk with a partner
    root     \* how many when it read the root

infoVars == <<opening, stored, read, root>>
allVars == <<vars, infoVars>>

Unread == -1

-----------------------------------------------------------------------------
(* IndexConverter: the tree lies level by level, from the root on.           *)
LocalIndex(level, index) == [level |-> level, index |-> index]
LocalToGlobal(local) == NodeCountLevel(local.level) - 1 + local.index
LevelFromIndex(global) ==
    CHOOSE level \in 0..Height :
        NodeCountLevel(level) <= global + 1 /\ global + 1 < NodeCountLevel(level + 1)
GlobalToLocal(global) ==
    LocalIndex(LevelFromIndex(global), global - (NodeCountLevel(LevelFromIndex(global)) - 1))
AccountOf(local) == IndexOfAccount(LocalToGlobal(local))

-----------------------------------------------------------------------------
(* Hashes. A node stands for the leaves below it, and is stored as zeros as  *)
(* long as there are none; two nodes of one level hash to the one above.     *)
LeavesBelow(level) == NodeCountLevel(Height - level)
Node(level, leaves) == [level |-> level, leaves |-> leaves]
NoNode == Node(-1, <<>>)

Hash(left, right) ==
    IF /\ left.level = right.level
       /\ right.leaves = <<>> \/ Len(left.leaves) = LeavesBelow(left.level)
    THEN Node(left.level - 1, left.leaves \o right.leaves)
    ELSE NoNode

(* What lies at an index in a chunk, to one who read it at n leaves.         *)
StoredNode(account, index, n) ==
    LET local == GlobalToLocal(AccIndexToGlobal(account, index))
        below == LeavesBelow(local.level)
        last == IF n < (local.index + 1) * below THEN n ELSE (local.index + 1) * below
    IN Node(local.level, SubSeq(tree, local.index * below + 1, last))

(* Mutant: the default of a leaf for all.                                    *)
DefaultOfLeaf(level) == Node(Height, <<>>)

(* The hash of a node without leaves, by level.                              *)
Default(level) == Node(level, <<>>)
ParseTreeBytes(node, level) == IF node.leaves = <<>> THEN Default(level) ELSE node

-----------------------------------------------------------------------------
(* getOpeningIndices: the other child at each node on the way up.            *)
Leaf(c) == GlobalToLocal(found[c])
PathIndex(leaf, level) == leaf.index \div 2 ^ (leaf.level - level)
OnTheRight(index) == index % 2 = 1

(* Mutant: the next node, also for one on the right.                         *)
PartnerNext(index) == index + 1

Partner(index) == IF OnTheRight(index) THEN index - 1 ELSE index + 1
OpeningIndex(leaf, level) == LocalIndex(level, Partner(PathIndex(leaf, level)))

(* Mutant: every chunk is read.                                              *)
UniqueAccsAll == Chunks

(* getCommitmentsAtLocalIndices: the chunks with a partner.                  *)
UniqueAccs ==
    UNION {{AccountOf(OpeningIndex(Leaf(c), level)) : level \in 1..Leaf(c).level} : c \in Wanted}

(* What the call returns: an opening, with a partner for each level, and the *)
(* root, each as of the moment it was read.                                  *)
ReadNode(local, n) ==
    ParseTreeBytes(StoredNode(AccountOf(local), IndexInAccount(LocalToGlobal(local)), n), local.level)
Opening(c) ==
    [level \in 1..Leaf(c).level |->
        LET local == OpeningIndex(Leaf(c), level) IN ReadNode(local, read[AccountOf(local)])]
Root == ReadNode(LocalIndex(0, 0), root)

-----------------------------------------------------------------------------
(* getCommitmentsInfo, when the search has found them all: the storage       *)
(* account is read again, then the chunks and the root in any order.         *)
GetOpenings ==
    /\ phase = "found" /\ opening = "none"
    /\ opening' = "reading" /\ stored' = Len(tree)
    /\ read' = [account \in UniqueAccs |-> Unread]
    /\ UNCHANGED <<vars, root>>

ReadChunk(account) ==
    /\ opening = "reading" /\ account \in DOMAIN read /\ read[account] = Unread
    /\ read' = [read EXCEPT ![account] = Len(tree)]
    /\ UNCHANGED <<vars, opening, stored, root>>

ReadRoot ==
    /\ opening = "reading" /\ root = Unread
    /\ root' = Len(tree)
    /\ UNCHANGED <<vars, opening, stored, read>>

(* A chunk has a key once something is stored in it, if not before.          *)
NoChunk(account) ==
    /\ opening = "reading" /\ account \in DOMAIN read /\ read[account] = Unread
    /\ account * ChunkSize >= FirstLeaf + stored
    /\ opening' = "noChunk"
    /\ UNCHANGED <<vars, stored, read, root>>

OpeningNodeError ==
    /\ opening = "reading"
    /\ root = Unread \/ \E account \in DOMAIN read : read[account] = Unread
    /\ opening' = "nodeError"
    /\ UNCHANGED <<vars, stored, read, root>>

(* Mutant: waits for every chunk, also those without a partner.              *)
GetCommitmentsInfoAll ==
    /\ opening = "reading" /\ root # Unread
    /\ \A account \in Chunks : account \in DOMAIN read /\ read[account] # Unread
    /\ opening' = "done"
    /\ UNCHANGED <<vars, stored, read, root>>

GetCommitmentsInfo ==
    /\ opening = "reading"
    /\ root # Unread /\ \A account \in DOMAIN read : read[account] # Unread
    /\ opening' = "done"
    /\ UNCHANGED <<vars, stored, read, root>>

(* The caller has its answer; hasCommitment asks for no opening.             *)
ReturnInfo ==
    /\ opening # "reading" /\ Return
    /\ opening' = "none" /\ stored' = 0
    /\ read' = <<>> /\ root' = Unread

-----------------------------------------------------------------------------
InfoInit ==
    /\ Init
    /\ opening = "none" /\ stored = 0
    /\ read = <<>> /\ root = Unread

SearchGrows == (\E c \in Wanted \cup {Other} : Insert(c)) /\ UNCHANGED infoVars
SearchBegins == FindCommitmentIndices /\ UNCHANGED infoVars
SearchSteps(g) == Search(g) /\ UNCHANGED infoVars
SearchReturns == GetCommitmentIndices /\ UNCHANGED infoVars
ReadStep == \/ \E account \in Chunks : ReadChunk(account) \/ NoChunk(account)
            \/ ReadRoot \/ OpeningNodeError \/ GetCommitmentsInfo

InfoNext == \/ SearchGrows \/ SearchBegins \/ SearchReturns \/ ReturnInfo
            \/ \E g \in Chunks : SearchSteps(g)
            \/ GetOpenings \/ ReadStep

InfoSpec == InfoInit /\ [][InfoNext]_allVars

(* As for a search, the node answers every request of an opening or fails.   *)
InfoFairness ==
    /\ WF_allVars(SearchReturns) /\ \A g \in Chunks : WF_allVars(SearchSteps(g))
    /\ WF_allVars(ReadStep)
FairInfoSpec == InfoSpec /\ InfoFairness

-----------------------------------------------------------------------------
(* The circuit: from the commitment to the root by its opening.              *)
Climb(c) ==
    LET leaf == Leaf(c)
        partners == Opening(c)
        up[level \in 0..Height] ==
            IF level = Height THEN Node(Height, <<c>>)
            ELSE IF OnTheRight(PathIndex(leaf, level + 1))
            THEN Hash(partners[level + 1], up[level + 1])
            ELSE Hash(up[level + 1], partners[level + 1])
    IN up[0]

(* "getOpening also returns root": what is read of one state of the tree is  *)
(* an opening of each commitment at its index to that root, wherever the     *)
(* chunks end and whatever is not stored yet.                                *)
OpeningVerifies ==
    opening = "done" /\ (\A account \in DOMAIN read : read[account] = root) =>
        \A c \in Wanted : Climb(c) = Root

(* If the tree grows between the reads, only what comes after a commitment   *)
(* can be of another state: each partner before it is complete, and as it    *)
(* will be for ever, since the search came first.                            *)
LeftPartnersSettled ==
    opening = "done" =>
        \A c \in Wanted, level \in 1..Height :
            OnTheRight(PathIndex(Leaf(c), level)) =>
                LET below == LeavesBelow(level)
                    left == PathIndex(Leaf(c), level) - 1
                IN Opening(c)[level] = Node(level, SubSeq(tree, left * below + 1, (left + 1) * below))

(* A commitment that is in the tree can be spent: its opening cannot be read *)
(* only if it is the last entry of a chunk after which nothing is stored.    *)
UnreadableAtChunkEnd ==
    opening = "noChunk" => \E c \in Wanted : IndexInAccount(found[c]) = ChunkSize - 1

(* Every search and every reading of openings comes to an end, whatever is   *)
(* inserted meanwhile.                                                       *)
InfoEnds == phase = "searching" \/ opening = "reading" ~>
                phase # "searching" /\ opening # "reading"
=============================================================================
