------------------------ MODULE CommitmentInfoProofs ------------------------
(* Proofs about CommitmentSearch and CommitmentInfo, for every height of the *)
(* tree, size of its chunks and set of commitments. First about a search: as *)
(* long as the start indices it sorts have the same number of digits, nothing*)
(* is skipped and nothing missed. Then about the search within CommitmentInfo*)
(* which is one of those, and about what is read of partners and root.       *)
EXTENDS CommitmentInfo, TLAPS, FiniteSetTheorems, SequenceTheorems, WellFoundedInduction

(* Whenever two searched commitments begin in the same chunk, the decimal    *)
(* strings of their indices in it are as long as each other.                 *)
Digits(n) == IF n < 10 THEN 1 ELSE IF n < 100 THEN 2 ELSE IF n < 1000 THEN 3
             ELSE IF n < 10000 THEN 4 ELSE 5
SameDigits ==
    \A m, n \in Starts :
        IndexOfAccount(LeafToGlobal(m)) = IndexOfAccount(LeafToGlobal(n)) =>
            Digits(IndexInAccount(LeafToGlobal(m))) = Digits(IndexInAccount(LeafToGlobal(n)))

-----------------------------------------------------------------------------
(* The invariant.                                                            *)

(* No wanted commitment is in the tree before its start index.               *)
TreeInv == \A n \in 1..Len(tree) : tree[n] \in Wanted => start[tree[n]] <= n - 1

(* What was in the tree when the call began is among the leaves it counted.  *)
CallInv ==
    /\ keys <= Len(tree)
    /\ \A c \in present : \E n \in 1..keys : tree[n] = c
    /\ phase = "searching" => \A g \in Chunks : pc[g] = "idle" => Group(g) = {}

(* The first entry of the chunk a search is at, as a global index.           *)
Base(g) == AccIndexToGlobal(chunk[g], 0)
GlobalOf(n) == LeafToGlobal(n - 1)

(* A search that comes to a chunk has nothing left to find before it, now or *)
(* when the tree grows.                                                      *)
FetchInv(g) == pc[g] = "fetch" =>
    /\ chunk[g] \in g..ChunkCount
    /\ \A c \in LeftToFind(g), n \in 1..Len(tree) : tree[n] = c => GlobalOf(n) >= Base(g)
    /\ chunk[g] > g /\ LeftToFind(g) # {} => GlobalOf(Len(tree) + 1) >= Base(g)

Ordered(g) == {order[g][m] : m \in DOMAIN order[g]}
FoundHere(g) == Ordered(g) \ LeftToFind(g)

(* While it is in a chunk: what it sorted, in numeric order; what it found,  *)
(* as many commitments as it skipped start indices, all behind; and ahead    *)
(* everything that it still has to find.                                     *)
ScanInv(g) == pc[g] = "scan" =>
    /\ chunk[g] \in g..(ChunkCount - 1)
    /\ keys <= seen[g] /\ seen[g] <= Len(tree)
    /\ LeftToFind(g) # {} /\ LeftToFind(g) \subseteq Ordered(g) /\ Ordered(g) \subseteq Group(g)
    /\ order[g] \in Bijection(1..Cardinality(Ordered(g)), Ordered(g))
    /\ \A m, n \in 1..Cardinality(Ordered(g)) :
          m < n => StartIn(order[g][m], chunk[g]) <= StartIn(order[g][n], chunk[g])
    /\ \A c \in FoundHere(g) : StartIn(c, chunk[g]) < i[g]
    /\ skip[g] = Cardinality(FoundHere(g))
    /\ \A c \in LeftToFind(g), n \in 1..seen[g] : tree[n] = c => GlobalOf(n) >= Base(g) + i[g]
    /\ chunk[g] > g => GlobalOf(seen[g] + 1) >= Base(g)
    /\ i[g] = ChunkSize => GlobalOf(seen[g] + 1) >= Base(g) + ChunkSize

(* A search ends without all its commitments only if one was not there.      *)
EndInv(g) ==
    /\ pc[g] = "failed" => present # Wanted
    /\ pc[g] = "done" => LeftToFind(g) = {} \/ present # Wanted

SearchInv ==
    /\ TypeOK /\ TreeInv /\ CallInv /\ SearchComplete
    /\ \A g \in Chunks : FetchInv(g) /\ ScanInv(g) /\ EndInv(g)

-----------------------------------------------------------------------------
(* Arithmetic of the indices.                                                *)
LEMMA DivMod ==
  ASSUME NEW x \in Nat, NEW n \in Nat \ {0}
  PROVE  x \div n \in Nat /\ x % n \in 0..(n - 1) /\ (x \div n) * n + (x % n) = x
OBVIOUS

LEMMA Multiples ==
  ASSUME NEW a \in Int, NEW b \in Int, NEW n \in Nat
  PROVE  /\ (a + 1) * n = a * n + n /\ a * n \in Int
         /\ a <= b => a * n <= b * n
OBVIOUS

LEMMA Sizes ==
  FirstLeaf \in Nat /\ Leaves \in Nat \ {0} /\ ChunkSize \in Nat \ {0} /\ ChunkCount \in Nat
BY TreeAssumption DEF FirstLeaf, Leaves

LEMMA TreeFits == FirstLeaf + Leaves <= ChunkCount * ChunkSize
BY TreeAssumption

LEMMA Globals ==
  ASSUME NEW m \in Nat, NEW n \in Nat
  PROVE  /\ GlobalOf(n) = FirstLeaf + n - 1 /\ GlobalOf(n) \in Int
         /\ m < n => GlobalOf(m + 1) <= GlobalOf(n)
BY Sizes DEF GlobalOf, LeafToGlobal

(* Where a start index lies: in one chunk, at an index of that chunk.        *)
LEMMA StartFacts ==
  ASSUME NEW s \in Starts
  PROVE  /\ LeafToGlobal(s) \in Nat
         /\ IndexOfAccount(LeafToGlobal(s)) \in Chunks
         /\ IndexInAccount(LeafToGlobal(s)) \in 0..(ChunkSize - 1)
         /\ AccIndexToGlobal(IndexOfAccount(LeafToGlobal(s)), 0)
               + IndexInAccount(LeafToGlobal(s)) = FirstLeaf + s
<1>1. s \in 0..(Leaves - 1) /\ LeafToGlobal(s) = FirstLeaf + s /\ LeafToGlobal(s) \in Nat
      /\ LeafToGlobal(s) < ChunkCount * ChunkSize
  <2> DEFINE end == ChunkCount * ChunkSize
  <2>1. end \in Int /\ FirstLeaf + Leaves <= end /\ FirstLeaf \in Nat /\ Leaves \in Nat
    BY Sizes, TreeFits, Multiples
  <2> HIDE DEF end
  <2>2. s \in 0..(Leaves - 1)
    BY WantedAssumption
  <2>3. s \in Nat /\ FirstLeaf + s \in Nat /\ FirstLeaf + s < end
    BY <2>1, <2>2
  <2> QED BY <2>2, <2>3, Zenon DEF LeafToGlobal, end
<1> DEFINE x == LeafToGlobal(s)
<1>2. x \in Nat
  BY <1>1
<1> HIDE DEF x
<1>3. x \div ChunkSize \in Nat /\ x % ChunkSize \in 0..(ChunkSize - 1)
      /\ (x \div ChunkSize) * ChunkSize + (x % ChunkSize) = x
  BY <1>2, Sizes, DivMod
<1>4. x \div ChunkSize < ChunkCount
  <2> DEFINE q == x \div ChunkSize
             low == q * ChunkSize
             end == ChunkCount * ChunkSize
  <2>1. x < end /\ low <= x /\ low \in Int /\ end \in Int
    <3>1. x < end
      BY <1>1 DEF x
    <3>2. low \in Int /\ end \in Int
      BY <1>3, Sizes, Multiples
    <3> HIDE DEF end
    <3>3. low <= x
      <4>1. low + (x % ChunkSize) = x /\ (x % ChunkSize) \in Nat
        BY <1>3, Sizes
      <4> HIDE DEF low
      <4> QED BY <3>2, <4>1, <1>2
    <3> QED BY <3>1, <3>2, <3>3
  <2>2. ChunkCount <= q => end <= low
    BY <1>3, Sizes, Multiples
  <2>3. q \in Int
    BY <1>3
  <2> HIDE DEF q, low, end
  <2>4. q < ChunkCount
    BY <1>2, <2>1, <2>2, <2>3, Sizes
  <2> QED BY <2>4 DEF q
<1>5. AccIndexToGlobal(x \div ChunkSize, 0) = (x \div ChunkSize) * ChunkSize
  <2>1. (x \div ChunkSize) * ChunkSize \in Int
    BY <1>3, Sizes, Multiples
  <2> QED BY <2>1 DEF AccIndexToGlobal
<1> QED BY <1>1, <1>3, <1>4, <1>5, Sizes DEF x, IndexOfAccount, IndexInAccount, Chunks

LEMMA StartInFacts ==
  ASSUME start \in [Wanted -> Starts], NEW c \in Wanted, NEW a \in Int
  PROVE  /\ StartChunk(c) \in Chunks
         /\ StartIn(c, a) \in 0..(ChunkSize - 1)
         /\ StartChunk(c) # a => StartIn(c, a) = 0
         /\ StartChunk(c) = a => AccIndexToGlobal(a, 0) + StartIn(c, a) = FirstLeaf + start[c]
<1>1. start[c] \in Starts
  OBVIOUS
<1> QED BY <1>1, StartFacts, Sizes DEF StartIn, StartChunk

(* Among indices with as many digits, sort() is the numeric order.           *)
LEMMA NumericSort ==
  ASSUME NEW m \in Nat, NEW n \in Nat, m < 100000, n < 100000, Digits(m) = Digits(n)
  PROVE  SortsBefore(m, n) <=> m < n
<1>1. CASE m < 10
  <2>1. n < 10
    BY <1>1 DEF Digits
  <2> QED BY <1>1, <2>1 DEF SortsBefore, Aligned
<1>2. CASE m >= 10 /\ m < 100
  <2>1. n >= 10 /\ n < 100
    BY <1>2 DEF Digits
  <2> QED BY <1>2, <2>1 DEF SortsBefore, Aligned
<1>3. CASE m >= 100 /\ m < 1000
  <2>1. n >= 100 /\ n < 1000
    BY <1>3 DEF Digits
  <2> QED BY <1>3, <2>1 DEF SortsBefore, Aligned
<1>4. CASE m >= 1000 /\ m < 10000
  <2>1. n >= 1000 /\ n < 10000
    BY <1>4 DEF Digits
  <2> QED BY <1>4, <2>1 DEF SortsBefore, Aligned
<1>5. CASE m >= 10000
  <2>1. n >= 10000
    BY <1>5 DEF Digits
  <2> QED BY <1>5, <2>1 DEF SortsBefore, Aligned
<1> QED BY <1>1, <1>2, <1>3, <1>4, <1>5

LEMMA SortedNumerically ==
  ASSUME SameDigits, start \in [Wanted -> Starts], NEW g \in Chunks, NEW a \in Int,
         NEW comms \in SUBSET Group(g), NEW o \in Sorted(comms, a)
  PROVE  /\ o \in Bijection(1..Cardinality(comms), comms)
         /\ \A m, n \in 1..Cardinality(comms) : m < n => StartIn(o[m], a) <= StartIn(o[n], a)
<1>1. o \in Bijection(1..Cardinality(comms), comms)
  BY DEF Sorted
<1>2. ASSUME NEW m \in 1..Cardinality(comms), NEW n \in 1..Cardinality(comms), m < n
      PROVE  StartIn(o[m], a) <= StartIn(o[n], a)
  <2>1. o[m] \in Group(g) /\ o[n] \in Group(g)
    BY <1>1 DEF Bijection, Injection
  <2>2. o[m] \in Wanted /\ o[n] \in Wanted /\ StartChunk(o[m]) = StartChunk(o[n])
    BY <2>1 DEF Group
  <2>3. /\ StartIn(o[m], a) \in Nat /\ StartIn(o[m], a) < 100000
        /\ StartIn(o[n], a) \in Nat /\ StartIn(o[n], a) < 100000
    BY <2>2, StartInFacts, TreeAssumption
  <2>4. Digits(StartIn(o[m], a)) = Digits(StartIn(o[n], a))
    BY <2>2 DEF SameDigits, StartIn, StartChunk
  <2>5. ~SortsBefore(StartIn(o[n], a), StartIn(o[m], a))
    BY <1>2 DEF Sorted
  <2> DEFINE x == StartIn(o[m], a)
             y == StartIn(o[n], a)
  <2>6. x \in Nat /\ y \in Nat /\ x < 100000 /\ y < 100000 /\ Digits(y) = Digits(x) /\ ~SortsBefore(y, x)
    BY <2>3, <2>4, <2>5
  <2> HIDE DEF x, y
  <2>7. x <= y
    BY <2>6, NumericSort
  <2> QED BY <2>7 DEF x, y
<1> QED BY <1>1, <1>2

-----------------------------------------------------------------------------
(* The skip. As many commitments as start indices were skipped are found and *)
(* lie at or before x; if the next start index is beyond x, the commitments  *)
(* found are the ones it was skipped for, and all others start at or after   *)
(* that index.                                                               *)
LEMMA Skip ==
  ASSUME NEW S, NEW N \in Nat, NEW o \in Bijection(1..N, S), NEW v \in [S -> Int],
         \A m, n \in 1..N : m < n => v[o[m]] <= v[o[n]],
         NEW F \in SUBSET S, NEW k \in Nat, k = Cardinality(F), k + 1 \in 1..N,
         NEW x \in Int, \A f \in F : v[f] <= x, v[o[k + 1]] > x
  PROVE  \A c \in S \ F : v[c] >= v[o[k + 1]]
<1> DEFINE P == {o[m] : m \in 1..k}
<1>1. /\ o \in [1..N -> S]
      /\ \A m, n \in 1..N : o[m] = o[n] => m = n
      /\ \A c \in S : \E m \in 1..N : o[m] = c
      /\ 1..k \subseteq 1..N
  BY DEF Bijection, Injection, Surjection, IsInjective
<1>2. F \subseteq P
  <2> SUFFICES ASSUME NEW f \in F PROVE f \in P
    OBVIOUS
  <2>1. PICK m \in 1..N : o[m] = f
    BY <1>1
  <2>2. ASSUME m > k PROVE FALSE
    <3>1. m = k + 1 \/ k + 1 < m
      BY <2>2
    <3>2. v[o[k + 1]] <= v[o[m]] /\ v[o[k + 1]] \in Int /\ v[o[m]] \in Int
      BY <1>1, <3>1
    <3> QED BY <2>1, <3>2
  <2> QED BY <2>1, <2>2
<1>3. IsFiniteSet(P) /\ Cardinality(P) = k
  <2> DEFINE h == [m \in 1..k |-> o[m]]
  <2>1. h \in Bijection(1..k, P)
    BY <1>1 DEF Bijection, Injection, Surjection, IsInjective
  <2>2. ExistsBijection(1..k, P)
    BY <2>1 DEF ExistsBijection
  <2> QED BY <2>2, FS_CountingElements, FS_NatBijection
<1>4. F = P
  BY <1>2, <1>3, FS_Subset
<1> SUFFICES ASSUME NEW c \in S \ F PROVE v[c] >= v[o[k + 1]]
  OBVIOUS
<1>5. PICK m \in 1..N : o[m] = c
  BY <1>1
<1>6. m = k + 1 \/ k + 1 < m
  <2>1. m \notin 1..k
    BY <1>4, <1>5
  <2> QED BY <2>1
<1> QED BY <1>1, <1>5, <1>6
-----------------------------------------------------------------------------
(* Where a chunk begins, and where the commitments of a group may be.        *)
LEMMA BaseFacts ==
  ASSUME NEW a \in Nat
  PROVE  /\ AccIndexToGlobal(a, 0) \in Int
         /\ \A x \in Int : AccIndexToGlobal(a, x) = AccIndexToGlobal(a, 0) + x
         /\ AccIndexToGlobal(a + 1, 0) = AccIndexToGlobal(a, 0) + ChunkSize
         /\ AccIndexToGlobal(ChunkCount, 0) >= FirstLeaf + Leaves
<1>1. /\ a * ChunkSize \in Int /\ (a + 1) * ChunkSize = a * ChunkSize + ChunkSize
      /\ ChunkCount * ChunkSize \in Int
  BY Sizes, Multiples
<1> QED BY <1>1, Sizes, TreeFits DEF AccIndexToGlobal

LEMMA GroupFacts ==
  ASSUME TypeOK, NEW g \in Chunks, NEW c \in Group(g)
  PROVE  /\ c \in Wanted /\ start[c] \in Nat
         /\ AccIndexToGlobal(g, 0) + StartIn(c, g) = FirstLeaf + start[c]
         /\ \A a \in Int : StartIn(c, a) \in 0..(ChunkSize - 1) /\ (a # g => StartIn(c, a) = 0)
<1>1. c \in Wanted /\ StartChunk(c) = g /\ g \in Int /\ start \in [Wanted -> Starts]
  BY Sizes DEF Group, Chunks, TypeOK
<1>2. start[c] \in Nat
  <2>1. start[c] \in 0..(Leaves - 1)
    BY <1>1, WantedAssumption
  <2> QED BY <2>1
<1> QED BY <1>1, <1>2, StartInFacts

LEMMA StartInGroup ==
  ASSUME TypeOK, NEW g \in Chunks, NEW c \in Group(g), NEW a \in Nat
  PROVE  StartIn(c, a) \in 0..(ChunkSize - 1) /\ (a # g => StartIn(c, a) = 0)
<1>1. a \in Int
  OBVIOUS
<1> QED BY <1>1, GroupFacts

(* A search that nothing touches keeps its part of the invariant.            *)
LEMMA SameSearch ==
  ASSUME NEW g \in Chunks, FetchInv(g), ScanInv(g), EndInv(g),
         UNCHANGED <<tree, start, present, keys>>,
         pc'[g] = pc[g], chunk'[g] = chunk[g], seen'[g] = seen[g],
         order'[g] = order[g], i'[g] = i[g], skip'[g] = skip[g], LeftToFind(g)' = LeftToFind(g)
  PROVE  FetchInv(g)' /\ ScanInv(g)' /\ EndInv(g)'
<1>1. Group(g)' = Group(g) /\ Base(g)' = Base(g) /\ Ordered(g)' = Ordered(g)
  BY DEF Group, StartChunk, Base, Ordered
<1>2. FoundHere(g)' = FoundHere(g)
  BY <1>1 DEF FoundHere
<1>3. \A c, a : StartIn(c, a)' = StartIn(c, a)
  BY DEF StartIn, StartChunk
<1>4. FetchInv(g)'
  BY <1>1 DEF FetchInv
<1>5. ScanInv(g)'
  BY <1>1, <1>2, <1>3 DEF ScanInv
<1>6. EndInv(g)'
  BY DEF EndInv
<1> QED BY <1>4, <1>5, <1>6

-----------------------------------------------------------------------------
(* The initial states.                                                       *)
LEMMA InitInv == Init => SearchInv
<1> SUFFICES ASSUME Init PROVE SearchInv
  OBVIOUS
<1>1. tree \in [1..Older -> {Other}] /\ Older \in Nat /\ Older <= Leaves
  BY TreeAssumption, Sizes DEF Init
<1>2. tree \in Seq(Wanted \cup {Other}) /\ Len(tree) = Older
  BY <1>1
<1>3. TypeOK
  BY <1>2, <1>1, Sizes DEF Init, TypeOK, Missing, Chunks
<1>4. TreeInv
  BY <1>1, <1>2, WantedAssumption DEF TreeInv
<1>5. CallInv /\ SearchComplete
  BY <1>1, <1>2 DEF Init, CallInv, SearchComplete
<1>6. \A g \in Chunks : FetchInv(g) /\ ScanInv(g) /\ EndInv(g)
  BY DEF Init, FetchInv, ScanInv, EndInv
<1> QED BY <1>3, <1>4, <1>5, <1>6 DEF SearchInv

-----------------------------------------------------------------------------
(* The tree grows.                                                           *)
LEMMA InsertInv ==
  ASSUME SearchInv, NEW c \in Wanted \cup {Other}, Insert(c)
  PROVE  SearchInv'
<1>1. /\ TypeOK /\ tree \in Seq(Wanted \cup {Other}) /\ Len(tree) < Leaves /\ Len(tree) \in Nat
      /\ tree' = Append(tree, c)
      /\ UNCHANGED <<start, phase, present, keys, found, pc, chunk, seen, order, i, skip>>
      /\ c \in Wanted => start[c] <= Len(tree)
  BY DEF SearchInv, TypeOK, Insert, searchVars
<1>2. /\ tree' \in Seq(Wanted \cup {Other}) /\ Len(tree') = Len(tree) + 1
      /\ tree'[Len(tree) + 1] = c
      /\ \A n \in 1..Len(tree) : tree'[n] = tree[n]
  BY <1>1
<1>3. TypeOK'
  BY <1>1, <1>2, Sizes, SMTT(30) DEF TypeOK
<1>4. TreeInv'
  <2> SUFFICES ASSUME NEW n \in 1..Len(tree'), tree'[n] \in Wanted
               PROVE  start[tree'[n]] <= n - 1
    BY <1>1 DEF TreeInv
  <2>1. n \in 1..Len(tree) \/ n = Len(tree) + 1
    BY <1>1, <1>2
  <2> QED BY <1>1, <1>2, <2>1 DEF SearchInv, TreeInv
<1>5. CallInv' /\ SearchComplete'
  <2>1. keys \in Nat /\ keys <= Len(tree)
    BY <1>1, Sizes DEF SearchInv, CallInv, TypeOK
  <2>2. \A g \in Chunks : Group(g)' = Group(g)
    BY <1>1 DEF Group, StartChunk
  <2>3. \A d \in present : \E n \in 1..keys : tree'[n] = d
    BY <1>1, <1>2, <2>1 DEF SearchInv, CallInv
  <2> QED BY <1>1, <1>2, <2>1, <2>2, <2>3 DEF SearchInv, CallInv, SearchComplete
<1>6. ASSUME NEW g \in Chunks PROVE FetchInv(g)' /\ ScanInv(g)' /\ EndInv(g)'
  <2>1. FetchInv(g) /\ ScanInv(g) /\ EndInv(g)
    BY DEF SearchInv
  <2>2. Group(g)' = Group(g) /\ LeftToFind(g)' = LeftToFind(g) /\ Base(g)' = Base(g)
        /\ Ordered(g)' = Ordered(g)
    BY <1>1 DEF Group, StartChunk, LeftToFind, Base, Ordered
  <2>3. FoundHere(g)' = FoundHere(g) /\ \A d, a : StartIn(d, a)' = StartIn(d, a)
    BY <1>1, <2>2 DEF FoundHere, StartIn, StartChunk
  <2>4. FirstLeaf \in Int /\ GlobalOf(Len(tree) + 1) = FirstLeaf + Len(tree)
        /\ GlobalOf(Len(tree) + 2) = FirstLeaf + Len(tree) + 1
    BY <1>1, Sizes DEF GlobalOf, LeafToGlobal
  <2>5. FetchInv(g)'
    <3> SUFFICES ASSUME pc[g] = "fetch" PROVE FetchInv(g)'
      BY <1>1 DEF FetchInv
    <3>1. chunk[g] \in g..ChunkCount /\ chunk[g] \in Nat /\ Base(g) \in Int
      <4>1. chunk[g] \in g..ChunkCount /\ chunk[g] \in Nat
        BY <1>1, <2>1, Sizes DEF FetchInv, TypeOK
      <4> QED BY <4>1, BaseFacts DEF Base
    <3>2. ASSUME chunk[g] > g, LeftToFind(g) # {} PROVE GlobalOf(Len(tree') + 1) >= Base(g)
      <4>1. GlobalOf(Len(tree) + 1) >= Base(g)
        BY <2>1, <3>2 DEF FetchInv
      <4>2. Len(tree') + 1 = Len(tree) + 2
        BY <1>1, <1>2
      <4> QED BY <1>1, <2>4, <3>1, <4>1, <4>2
    <3>3. ASSUME NEW d \in LeftToFind(g), NEW n \in 1..Len(tree'), tree'[n] = d
          PROVE  GlobalOf(n) >= Base(g)
      <4>1. CASE n \in 1..Len(tree)
        BY <1>2, <2>1, <3>3, <4>1 DEF FetchInv
      <4>2. CASE n = Len(tree) + 1 /\ chunk[g] > g
        BY <2>1, <3>3, <4>2 DEF FetchInv
      <4>3. CASE n = Len(tree) + 1 /\ chunk[g] = g
        <5>1. d = c /\ d \in Group(g)
          BY <1>2, <3>3, <4>3 DEF LeftToFind
        <5>2. /\ start[d] \in Nat /\ start[d] <= Len(tree)
              /\ Base(g) + StartIn(d, g) = FirstLeaf + start[d] /\ StartIn(d, g) \in Nat
          <6>1. g \in Int
            BY Sizes DEF Chunks
          <6>2. StartIn(d, g) \in 0..(ChunkSize - 1) /\ d \in Wanted /\ start[d] \in Nat
                /\ AccIndexToGlobal(g, 0) + StartIn(d, g) = FirstLeaf + start[d]
            BY <1>1, <5>1, <6>1, GroupFacts
          <6> QED BY <1>1, <4>3, <5>1, <6>2, Sizes DEF Base
        <5> QED BY <1>1, <2>4, <3>1, <4>3, <5>2
      <4>4. n \in 1..Len(tree) \/ n = Len(tree) + 1
        BY <1>1, <1>2
      <4> QED BY <3>1, <4>1, <4>2, <4>3, <4>4, Sizes DEF Chunks
    <3> QED BY <1>1, <2>2, <3>1, <3>2, <3>3 DEF FetchInv
  <2>6. ScanInv(g)'
    <3> SUFFICES ASSUME pc[g] = "scan" PROVE ScanInv(g)'
      BY <1>1 DEF ScanInv
    <3>1. seen[g] \in Nat /\ seen[g] <= Len(tree) /\ \A n \in 1..seen[g] : tree'[n] = tree[n]
      BY <1>1, <1>2, <2>1, Sizes DEF ScanInv, TypeOK
    <3>2. seen[g] <= Len(tree')
      BY <1>1, <1>2, <3>1
    <3>3. \A d \in LeftToFind(g), n \in 1..seen[g] : tree'[n] = d => GlobalOf(n) >= Base(g) + i[g]
      BY <2>1, <3>1 DEF ScanInv
    <3> QED BY <1>1, <2>1, <2>2, <2>3, <3>2, <3>3 DEF ScanInv
  <2>7. EndInv(g)'
    BY <1>1, <2>1, <2>2 DEF EndInv
  <2> QED BY <2>5, <2>6, <2>7
<1> QED BY <1>3, <1>4, <1>5, <1>6 DEF SearchInv

-----------------------------------------------------------------------------
(* A call begins, ends or is given up.                                       *)
LEMMA BeginInv ==
  ASSUME SearchInv, FindCommitmentIndices
  PROVE  SearchInv'
<1>1. /\ TypeOK /\ tree \in Seq(Wanted \cup {Other}) /\ Len(tree) \in Nat /\ Len(tree) <= Leaves
      /\ UNCHANGED <<tree, start, seen, order, i, skip>>
  BY DEF SearchInv, TypeOK, FindCommitmentIndices
<1>2. TypeOK'
  <2>1. present' \in SUBSET Wanted /\ keys' \in 0..Leaves
    BY <1>1, Sizes DEF FindCommitmentIndices
  <2>2. found' \in [Wanted -> 0..(FirstLeaf + Leaves - 1) \cup {Missing}]
    BY DEF FindCommitmentIndices
  <2>3. /\ pc' \in [Chunks -> {"idle", "fetch", "scan", "done", "failed", "unanswered"}]
        /\ chunk' \in [Chunks -> 0..ChunkCount] /\ phase' = "searching"
    BY Sizes DEF FindCommitmentIndices, Chunks
  <2> QED BY <1>1, <2>1, <2>2, <2>3 DEF TypeOK
<1>3. TreeInv'
  BY <1>1 DEF SearchInv, TreeInv
<1>4. CallInv' /\ SearchComplete'
  <2>1. \A g \in Chunks : Group(g)' = Group(g)
    BY <1>1 DEF Group, StartChunk
  <2>2. /\ keys' = Len(tree) /\ phase' = "searching"
        /\ \A c \in present' : \E n \in 1..Len(tree) : tree[n] = c
        /\ \A g \in Chunks : pc'[g] = "idle" => Group(g) = {}
    BY DEF FindCommitmentIndices
  <2> QED BY <1>1, <2>1, <2>2 DEF CallInv, SearchComplete
<1>5. ASSUME NEW g \in Chunks PROVE FetchInv(g)' /\ ScanInv(g)' /\ EndInv(g)'
  <2>1. pc'[g] \in {"idle", "fetch"} /\ chunk'[g] = g
    BY DEF FindCommitmentIndices
  <2>2. g \in Nat /\ g \in g..ChunkCount
    BY Sizes DEF Chunks
  <2>3. LeftToFind(g)' \subseteq Group(g) /\ Base(g)' = AccIndexToGlobal(g, 0)
    BY <1>1, <2>1 DEF LeftToFind, Group, StartChunk, Base
  <2>4. ASSUME NEW c \in Group(g), NEW n \in 1..Len(tree), tree[n] = c
        PROVE  GlobalOf(n) >= AccIndexToGlobal(g, 0)
    <3>1. /\ c \in Wanted /\ start[c] \in Nat /\ StartIn(c, g) \in 0..(ChunkSize - 1)
          /\ AccIndexToGlobal(g, 0) + StartIn(c, g) = FirstLeaf + start[c]
      BY <1>1, <2>2, GroupFacts
    <3>2. start[c] <= n - 1
      BY <2>4, <3>1 DEF SearchInv, TreeInv
    <3>3. AccIndexToGlobal(g, 0) \in Int /\ GlobalOf(n) = FirstLeaf + (n - 1)
      BY <2>2, BaseFacts DEF GlobalOf, LeafToGlobal
    <3> QED BY <1>1, <3>1, <3>2, <3>3, Sizes
  <2>5. FetchInv(g)'
    BY <1>1, <2>1, <2>2, <2>3, <2>4 DEF FetchInv
  <2> QED BY <2>1, <2>5 DEF ScanInv, EndInv
<1> QED BY <1>2, <1>3, <1>4, <1>5 DEF SearchInv

LEMMA EndCallInv ==
  ASSUME SearchInv, GetCommitmentIndices
  PROVE  SearchInv'
<1>1. /\ UNCHANGED <<tree, start, present, keys, found, pc, chunk, seen, order, i, skip>>
      /\ phase = "searching" /\ phase' \in {"found", "error", "nodeError"}
  BY DEF GetCommitmentIndices, searchVars
<1>2. TypeOK' /\ TreeInv' /\ CallInv'
  BY <1>1 DEF SearchInv, TypeOK, TreeInv, CallInv
<1>3. SearchComplete'
  <2> SUFFICES ASSUME phase' = "error" PROVE present # Wanted
    BY <1>1 DEF SearchComplete
  <2>1. CASE \E g \in Chunks : pc[g] = "failed"
    BY <2>1 DEF SearchInv, EndInv
  <2>2. CASE \A g \in Chunks : pc[g] \in {"idle", "done"}
    <3>1. PICK c \in Wanted : found[c] = Missing
      BY <2>2 DEF GetCommitmentIndices
    <3> DEFINE g == StartChunk(c)
    <3>2. g \in Chunks
      <4>1. start[c] \in Starts
        BY DEF SearchInv, TypeOK
      <4> QED BY <4>1, StartFacts DEF StartChunk
    <3>3. c \in Group(g) /\ c \in LeftToFind(g)
      BY <3>1 DEF LeftToFind, Group
    <3> HIDE DEF g
    <3>4. pc[g] # "idle"
      BY <1>1, <3>2, <3>3 DEF SearchInv, CallInv
    <3> QED BY <2>2, <3>2, <3>3, <3>4 DEF SearchInv, EndInv
  <2> QED BY <2>1, <2>2 DEF GetCommitmentIndices
<1>4. ASSUME NEW g \in Chunks PROVE FetchInv(g)' /\ ScanInv(g)' /\ EndInv(g)'
  <2>1. LeftToFind(g)' = LeftToFind(g)
    BY <1>1 DEF LeftToFind, Group, StartChunk
  <2> QED BY <1>1, <2>1, SameSearch DEF SearchInv
<1> QED BY <1>2, <1>3, <1>4 DEF SearchInv

LEMMA ReturnInv ==
  ASSUME SearchInv, Return
  PROVE  SearchInv'
<1>1. UNCHANGED <<tree, start>>
  BY DEF Return
<1>2. TypeOK'
  BY Sizes DEF SearchInv, Return, TypeOK, Chunks, Missing
<1>3. TreeInv' /\ CallInv' /\ SearchComplete'
  <2>1. tree \in Seq(Wanted \cup {Other}) /\ Len(tree) \in Nat
    BY DEF SearchInv, TypeOK
  <2> QED BY <1>1, <2>1 DEF SearchInv, Return, TreeInv, CallInv, SearchComplete
<1>4. ASSUME NEW g \in Chunks PROVE FetchInv(g)' /\ ScanInv(g)' /\ EndInv(g)'
  BY DEF Return, FetchInv, ScanInv, EndInv
<1> QED BY <1>2, <1>3, <1>4 DEF SearchInv

-----------------------------------------------------------------------------
(* A step of one search leaves the tree, the call and the others alone.      *)
LEMMA OtherSearches ==
  ASSUME SearchInv, NEW g \in Chunks, UNCHANGED <<tree, start, phase, present, keys>>,
         pc'[g] # "idle",
         \A h \in Chunks \ {g} :
            /\ pc'[h] = pc[h] /\ chunk'[h] = chunk[h] /\ seen'[h] = seen[h]
            /\ order'[h] = order[h] /\ i'[h] = i[h] /\ skip'[h] = skip[h]
            /\ LeftToFind(h)' = LeftToFind(h),
         TypeOK', FetchInv(g)', ScanInv(g)', EndInv(g)'
  PROVE  SearchInv'
<1>1. TreeInv' /\ SearchComplete'
  BY DEF SearchInv, TreeInv, SearchComplete
<1>2. CallInv'
  <2>1. \A h \in Chunks : Group(h)' = Group(h)
    BY DEF Group, StartChunk
  <2>2. \A h \in Chunks : pc'[h] = "idle" => pc[h] = "idle"
    OBVIOUS
  <2> QED BY <2>1, <2>2 DEF SearchInv, CallInv
<1>3. ASSUME NEW h \in Chunks, h # g PROVE FetchInv(h)' /\ ScanInv(h)' /\ EndInv(h)'
  BY <1>3, SameSearch DEF SearchInv
<1> QED BY <1>1, <1>2, <1>3 DEF SearchInv

(* A search is done, or waits, or fails at a chunk without a key; or it      *)
(* fetches the chunk, and sorts what is left to find.                        *)
LEMMA NextChunkInv ==
  ASSUME SearchInv, SameDigits, NEW g \in Chunks, NextChunk(g) \/ NodeError(g)
  PROVE  SearchInv'
<1>1. /\ TypeOK /\ TreeInv /\ CallInv /\ FetchInv(g) /\ pc[g] = "fetch"
      /\ UNCHANGED <<tree, start, phase, present, keys, found, chunk>>
      /\ tree \in Seq(Wanted \cup {Other}) /\ Len(tree) \in Nat /\ Len(tree) <= Leaves
      /\ keys \in Nat /\ keys <= Len(tree)
  BY Sizes DEF SearchInv, TypeOK, CallInv, NextChunk, NodeError
<1>2. \A h \in Chunks : LeftToFind(h)' = LeftToFind(h) /\ Group(h)' = Group(h) /\ Base(h)' = Base(h)
  BY <1>1 DEF LeftToFind, Group, StartChunk, Base
<1>3. /\ chunk[g] \in g..ChunkCount /\ chunk[g] \in Nat /\ Base(g) \in Int /\ g \in Nat
      /\ AccIndexToGlobal(ChunkCount, 0) >= FirstLeaf + Leaves
      /\ \A n \in Nat : GlobalOf(n) = FirstLeaf + n - 1
  <2>1. chunk[g] \in g..ChunkCount /\ chunk[g] \in Nat /\ g \in Nat
    BY <1>1, Sizes DEF FetchInv, TypeOK, Chunks
  <2> QED BY <2>1, BaseFacts, Sizes DEF Base, GlobalOf, LeafToGlobal
<1>4. ASSUME NEW p \in {"done", "failed", "unanswered"}, pc' = [pc EXCEPT ![g] = p],
             UNCHANGED <<seen, order, i, skip>>, EndInv(g)'
      PROVE  SearchInv'
  <2>1. TypeOK'
    BY <1>1, <1>4 DEF TypeOK
  <2>2. pc'[g] = p /\ \A h \in Chunks \ {g} : pc'[h] = pc[h]
    BY <1>1, <1>4 DEF TypeOK
  <2>3. FetchInv(g)' /\ ScanInv(g)'
    BY <2>2 DEF FetchInv, ScanInv
  <2> QED BY <1>1, <1>2, <1>4, <2>1, <2>2, <2>3, OtherSearches
<1>5. CASE NodeError(g)
  <2>1. pc'[g] = "unanswered"
    BY <1>1, <1>5 DEF NodeError, TypeOK
  <2>2. EndInv(g)'
    BY <2>1 DEF EndInv
  <2> QED BY <1>4, <1>5, <2>2 DEF NodeError
<1>6. CASE /\ LeftToFind(g) = {} \/ chunk[g] = ChunkCount
           /\ pc' = [pc EXCEPT ![g] = "done"]
           /\ UNCHANGED <<seen, order, i, skip>>
  <2>1. pc'[g] = "done"
    BY <1>1, <1>6 DEF TypeOK
  <2>2. ASSUME NEW c \in LeftToFind(g), chunk[g] = ChunkCount PROVE c \in Wanted /\ c \notin present
    <3>1. c \in Wanted
      BY DEF LeftToFind, Group
    <3>2. ASSUME NEW n \in 1..keys, tree[n] = c PROVE FALSE
      <4>1. n \in 1..Len(tree) /\ GlobalOf(n) >= Base(g) /\ GlobalOf(n) = FirstLeaf + n - 1
        <5>1. n \in 1..Len(tree) /\ n \in Nat
          BY <1>1, <3>2
        <5>2. GlobalOf(n) >= Base(g)
          BY <1>1, <2>2, <3>2, <5>1 DEF FetchInv
        <5> QED BY <1>3, <5>1, <5>2
      <4>2. Base(g) >= FirstLeaf + Leaves
        BY <1>3, <2>2 DEF Base
      <4>3. n \in Nat /\ n <= Leaves
        BY <1>1, <4>1, Sizes
      <4>4. Base(g) \in Int
        BY <1>3
      <4> QED BY <4>1, <4>2, <4>3, <4>4, Sizes
    <3> QED BY <1>1, <3>1, <3>2 DEF CallInv
  <2>3. LeftToFind(g) = {} \/ present # Wanted
    BY <1>6, <2>2
  <2>4. EndInv(g)'
    BY <1>1, <1>2, <2>1, <2>3 DEF EndInv
  <2> QED BY <1>4, <1>6, <2>4
<1>7. CASE /\ LeftToFind(g) # {} /\ ~MustHaveKey(chunk[g])
           /\ pc' = [pc EXCEPT ![g] = "failed"]
           /\ UNCHANGED <<seen, order, i, skip>>
  <2>1. pc'[g] = "failed"
    BY <1>1, <1>7 DEF TypeOK
  <2>2. PICK c \in LeftToFind(g) : c \in Wanted
    BY <1>7 DEF LeftToFind, Group
  <2>3. ASSUME NEW n \in 1..keys, tree[n] = c PROVE FALSE
    <3>1. n \in 1..Len(tree) /\ GlobalOf(n) >= Base(g) /\ GlobalOf(n) = FirstLeaf + n - 1
      <4>1. n \in 1..Len(tree) /\ n \in Nat
        BY <1>1, <2>3
      <4>2. GlobalOf(n) >= Base(g)
        BY <1>1, <2>2, <2>3, <4>1 DEF FetchInv
      <4> QED BY <1>3, <4>1, <4>2
    <3>2. Base(g) >= FirstLeaf + keys
      <4>1. ~(chunk[g] * ChunkSize < FirstLeaf + keys)
        BY <1>7 DEF MustHaveKey
      <4>2. chunk[g] * ChunkSize \in Int
        BY <1>3, Sizes, Multiples
      <4> QED BY <1>1, <4>1, <4>2, Sizes DEF Base, AccIndexToGlobal
    <3>3. n \in Nat /\ n <= keys /\ keys \in Nat
      BY <1>1, <2>3
    <3>4. Base(g) \in Int
      BY <1>3
    <3> QED BY <3>1, <3>2, <3>3, <3>4, Sizes
  <2>4. present # Wanted
    BY <1>1, <2>2, <2>3 DEF CallInv
  <2>5. EndInv(g)'
    BY <1>1, <2>1, <2>4 DEF EndInv
  <2> QED BY <1>4, <1>7, <2>5
<1>8. CASE /\ LeftToFind(g) # {} /\ chunk[g] < ChunkCount
           /\ seen' = [seen EXCEPT ![g] = Len(tree)]
           /\ \E o \in Sorted(LeftToFind(g), chunk[g]) :
                 /\ order' = [order EXCEPT ![g] = o]
                 /\ i' = [i EXCEPT ![g] = StartIn(o[1], chunk[g])]
           /\ skip' = [skip EXCEPT ![g] = 0]
           /\ pc' = [pc EXCEPT ![g] = "scan"]
  <2> DEFINE L == LeftToFind(g)
             N == Cardinality(L)
  <2>1. PICK o \in Sorted(L, chunk[g]) :
           /\ order' = [order EXCEPT ![g] = o]
           /\ i' = [i EXCEPT ![g] = StartIn(o[1], chunk[g])]
    BY <1>8
  <2>2. L \subseteq Group(g) /\ L \subseteq Wanted /\ L # {} /\ IsFiniteSet(L)
    <3>1. L \subseteq Group(g) /\ L \subseteq Wanted
      BY DEF LeftToFind, Group
    <3> QED BY <1>8, <3>1, FS_Subset, WantedAssumption
  <2>3. N \in Nat \ {0}
    BY <2>2, FS_CardinalityType, FS_EmptySet
  <2>4. /\ o \in Bijection(1..N, L)
        /\ \A m, n \in 1..N : m < n => StartIn(o[m], chunk[g]) <= StartIn(o[n], chunk[g])
    <3>1. start \in [Wanted -> Starts] /\ L \in SUBSET Group(g) /\ chunk[g] \in Int
      <4>1. start \in [Wanted -> Starts]
        BY <1>1 DEF TypeOK
      <4>2. L \in SUBSET Group(g)
        BY <2>2
      <4>3. chunk[g] \in Int
        BY <1>3
      <4> QED BY <4>1, <4>2, <4>3
    <3>2. o \in Sorted(L, chunk[g])
      OBVIOUS
    <3> HIDE DEF L
    <3> QED BY <3>1, <3>2, SortedNumerically
  <2> HIDE DEF L, N
  <2>5. /\ o \in [1..N -> L] /\ \A c \in L : \E m \in 1..N : o[m] = c
        /\ o \in Seq(Wanted) /\ DOMAIN o = 1..N /\ L = {o[m] : m \in DOMAIN o}
    <3>1. o \in [1..N -> L] /\ \A c \in L : \E m \in 1..N : o[m] = c
      BY <2>4 DEF Bijection, Injection, Surjection
    <3>2. o \in [1..N -> Wanted]
      BY <2>2, <3>1
    <3> QED BY <2>3, <3>1, <3>2
  <2> DEFINE x == StartIn(o[1], chunk[g])
  <2>6. x \in 0..(ChunkSize - 1) /\ \A c \in L : x <= StartIn(c, chunk[g])
    <3>1. \A c \in L : StartIn(c, chunk[g]) \in 0..(ChunkSize - 1)
      <4>1. TypeOK /\ chunk[g] \in Nat /\ L \subseteq Group(g)
        BY <1>1, <1>3, <2>2
      <4> QED BY <4>1, StartInGroup
    <3>2. ASSUME NEW c \in L PROVE x <= StartIn(c, chunk[g])
      <4>1. PICK m \in 1..N : o[m] = c
        BY <2>5
      <4>2. CASE m = 1
        BY <3>1, <4>1, <4>2
      <4>3. CASE 1 < m
        BY <2>3, <2>4, <4>1, <4>3, SMTT(30)
      <4> QED BY <2>3, <4>2, <4>3
    <3> QED BY <2>3, <2>5, <3>1, <3>2
  <2>7. /\ pc'[g] = "scan" /\ seen'[g] = Len(tree) /\ order'[g] = o /\ i'[g] = x /\ skip'[g] = 0
        /\ \A h \in Chunks \ {g} :
              /\ pc'[h] = pc[h] /\ seen'[h] = seen[h] /\ order'[h] = order[h]
              /\ i'[h] = i[h] /\ skip'[h] = skip[h]
    BY <1>1, <1>8, <2>1 DEF TypeOK
  <2>8. TypeOK'
    <3>1. x \in 0..ChunkSize /\ Len(tree) \in 0..Leaves
      BY <1>1, <2>6, Sizes
    <3> HIDE DEF x
    <3>2. i' \in [Chunks -> 0..ChunkSize]
      BY <1>1, <2>1, <3>1 DEF TypeOK, x
    <3> QED BY <1>1, <1>8, <2>1, <2>5, <3>1, <3>2 DEF TypeOK
  <2>9. Ordered(g)' = L /\ FoundHere(g)' = {} /\ \A c, a : StartIn(c, a)' = StartIn(c, a)
    <3>1. Ordered(g)' = L
      BY <2>5, <2>7 DEF Ordered
    <3> QED BY <1>1, <1>2, <3>1 DEF FoundHere, L, StartIn, StartChunk
  <2>10. ASSUME NEW c \in L, NEW n \in 1..Len(tree), tree[n] = c
         PROVE  GlobalOf(n) >= Base(g) + x
    <3>1. c \in Wanted /\ c \in Group(g) /\ start[c] <= n - 1
      BY <1>1, <2>2, <2>10 DEF TreeInv
    <3>2. /\ start[c] \in Nat /\ StartIn(c, g) \in 0..(ChunkSize - 1)
          /\ AccIndexToGlobal(g, 0) + StartIn(c, g) = FirstLeaf + start[c]
          /\ chunk[g] # g => StartIn(c, chunk[g]) = 0
          /\ StartIn(c, chunk[g]) \in 0..(ChunkSize - 1)
      <4>1. TypeOK /\ chunk[g] \in Nat /\ g \in Nat /\ g \in Int /\ c \in Group(g)
        BY <1>1, <1>3, <3>1
      <4> QED BY <4>1, GroupFacts, StartInGroup
    <3>3. x <= StartIn(c, chunk[g])
      BY <2>6
    <3>4. CASE chunk[g] = g
      <4>1. AccIndexToGlobal(g, 0) = Base(g)
        BY <3>4 DEF Base
      <4>2. GlobalOf(n) = FirstLeaf + n - 1 /\ n \in Int
        BY <1>1, <1>3
      <4>3. x \in 0..(ChunkSize - 1) /\ x <= StartIn(c, g)
        BY <2>6, <3>3, <3>4
      <4>4. /\ Base(g) + StartIn(c, g) = FirstLeaf + start[c] /\ start[c] <= n - 1
            /\ Base(g) \in Int /\ FirstLeaf \in Int /\ start[c] \in Int /\ ChunkSize \in Int
            /\ StartIn(c, g) \in 0..(ChunkSize - 1)
        <5>1. Base(g) + StartIn(c, g) = FirstLeaf + start[c]
          BY <3>2, <4>1, Zenon
        <5>2. FirstLeaf \in Int /\ ChunkSize \in Int /\ start[c] \in Int
          BY <3>2, Sizes
        <5> QED BY <1>3, <3>1, <3>2, <5>1, <5>2, Zenon
      <4> HIDE DEF x
      <4> QED BY <4>2, <4>3, <4>4
    <3>5. CASE chunk[g] # g
      <4>1. GlobalOf(n) >= Base(g)
        BY <1>1, <2>10 DEF FetchInv, L
      <4>2. x = 0
        BY <2>6, <3>2, <3>3, <3>5, Sizes
      <4> QED BY <1>3, <4>1, <4>2, Sizes
    <3> QED BY <3>4, <3>5
  <2>11. ScanInv(g)'
    <3>1. chunk[g] > g => GlobalOf(Len(tree) + 1) >= Base(g)
      BY <1>1, <1>8 DEF FetchInv
    <3>2. x # ChunkSize
      BY <2>6, Sizes
    <3>3. Cardinality({}) = 0
      BY FS_EmptySet
    <3>4. chunk[g] \in g..(ChunkCount - 1)
      BY <1>3, <1>8, Sizes
    <3> HIDE DEF x
    <3>5. L = LeftToFind(g)
      BY DEF L
    <3>6. N = Cardinality(L)
      BY DEF N, L
    <3> QED BY <1>1, <1>2, <2>2, <2>4, <2>7, <2>9, <2>10, <3>1, <3>2, <3>3, <3>4, <3>5, <3>6 DEF ScanInv
  <2>12. FetchInv(g)' /\ EndInv(g)'
    BY <2>7 DEF FetchInv, EndInv
  <2> QED BY <1>1, <1>2, <2>7, <2>8, <2>11, <2>12, OtherSearches
<1> QED BY <1>5, <1>6, <1>7, <1>8 DEF NextChunk

-----------------------------------------------------------------------------
(* One turn of the loop over a chunk. What it looks at:                      *)
EntryHere(g) == Entry(chunk[g], i[g], seen[g])
Hits(g) == {c \in LeftToFind(g) : c = EntryHere(g)}
Here(g) == Base(g) + i[g]

LEMMA EntryAt ==
  ASSUME TypeOK, NEW g \in Chunks, seen[g] <= Len(tree)
  PROVE  /\ chunk[g] \in Nat /\ i[g] \in 0..ChunkSize /\ seen[g] \in Nat /\ Base(g) \in Int
         /\ Here(g) \in Int /\ AccIndexToGlobal(chunk[g], i[g]) = Here(g)
         /\ \A n \in Nat : GlobalOf(n) = FirstLeaf + n - 1
         /\ \A n \in 1..seen[g] : tree[n] \in Wanted \cup {Other}
         /\ EntryHere(g) = Zero => Here(g) >= GlobalOf(seen[g] + 1)
         /\ EntryHere(g) # Zero => Here(g) < GlobalOf(seen[g] + 1)
         /\ \A n \in 1..seen[g] : GlobalOf(n) = Here(g) => EntryHere(g) = tree[n]
         /\ EntryHere(g) \in Wanted => \E n \in 1..seen[g] : GlobalOf(n) = Here(g) /\ tree[n] = EntryHere(g)
<1>1. /\ chunk[g] \in Nat /\ i[g] \in 0..ChunkSize /\ i[g] \in Int /\ seen[g] \in Nat /\ Len(tree) \in Nat
      /\ seen[g] <= Len(tree) /\ tree \in Seq(Wanted \cup {Other})
  BY Sizes DEF TypeOK
<1>2. Base(g) \in Int /\ AccIndexToGlobal(chunk[g], i[g]) = Here(g) /\ Here(g) \in Int
  <2>1. Base(g) \in Int /\ AccIndexToGlobal(chunk[g], i[g]) = Base(g) + i[g]
    BY <1>1, BaseFacts DEF Base
  <2> QED BY <1>1, <2>1 DEF Here
<1>3. FirstLeaf \in Int /\ \A n \in Nat : GlobalOf(n) = FirstLeaf + n - 1
  BY Sizes DEF GlobalOf, LeafToGlobal
<1>4. \A n \in 1..seen[g] : tree[n] \in Wanted \cup {Other}
  BY <1>1
<1> DEFINE leaf == Here(g) - FirstLeaf
<1>5. /\ leaf \in Int
      /\ EntryHere(g) = IF leaf < 0 THEN Inner ELSE IF leaf < seen[g] THEN tree[leaf + 1] ELSE Zero
  BY <1>2, <1>3 DEF EntryHere, Entry
<1>6. Inner # Zero /\ Inner \notin Wanted /\ Zero \notin Wanted /\ \A n \in 1..seen[g] : tree[n] # Zero
  BY <1>4, WantedAssumption DEF Inner, Zero
<1>7. GlobalOf(seen[g] + 1) = FirstLeaf + seen[g]
  BY <1>1, <1>3
<1>8. EntryHere(g) = Zero => Here(g) >= GlobalOf(seen[g] + 1)
  <2> SUFFICES ASSUME EntryHere(g) = Zero, leaf < seen[g] PROVE FALSE
    BY <1>1, <1>2, <1>3, <1>7
  <2>1. leaf >= 0
    BY <1>5, <1>6
  <2>2. leaf + 1 \in 1..seen[g] /\ EntryHere(g) = tree[leaf + 1]
    BY <1>1, <1>5, <2>1
  <2> QED BY <1>6, <2>2
<1>9. EntryHere(g) # Zero => Here(g) < GlobalOf(seen[g] + 1)
  <2> SUFFICES ASSUME EntryHere(g) # Zero, ~(leaf < seen[g]) PROVE FALSE
    BY <1>1, <1>2, <1>3, <1>7
  <2>1. ~(leaf < 0)
    BY <1>1, <1>5
  <2> QED BY <1>5, <2>1
<1>10. ASSUME NEW n \in 1..seen[g], GlobalOf(n) = Here(g) PROVE EntryHere(g) = tree[n]
  <2>1. leaf = n - 1 /\ ~(leaf < 0) /\ leaf < seen[g] /\ leaf + 1 = n
    <3>1. n \in Nat /\ 1 <= n /\ n <= seen[g] /\ seen[g] \in Nat
      BY <1>1, <1>10
    <3>2. Here(g) = FirstLeaf + n - 1 /\ FirstLeaf \in Int
      BY <1>3, <1>10, <3>1
    <3> QED BY <3>1, <3>2
  <2> QED BY <1>5, <2>1
<1>11. ASSUME EntryHere(g) \in Wanted
       PROVE  \E n \in 1..seen[g] : GlobalOf(n) = Here(g) /\ tree[n] = EntryHere(g)
  <2>1. ~(leaf < 0) /\ leaf < seen[g] /\ EntryHere(g) = tree[leaf + 1]
    <3>1. EntryHere(g) # Inner /\ EntryHere(g) # Zero
      BY <1>6, <1>11
    <3> QED BY <1>5, <3>1
  <2>2. leaf + 1 \in 1..seen[g] /\ leaf + 1 \in Nat
    BY <1>1, <1>5, <2>1
  <2>3. Here(g) = FirstLeaf + (leaf + 1) - 1
    BY <1>2, <1>3
  <2> HIDE DEF leaf
  <2>4. GlobalOf(leaf + 1) = Here(g)
    BY <1>3, <2>2, <2>3
  <2> QED BY <2>1, <2>2, <2>4
<1> QED BY <1>1, <1>2, <1>3, <1>4, <1>8, <1>9, <1>10, <1>11

LEMMA EntryFacts ==
  ASSUME TypeOK, NEW g \in Chunks, ScanInv(g), pc[g] = "scan"
  PROVE  /\ chunk[g] \in Nat /\ i[g] \in 0..ChunkSize /\ seen[g] \in Nat /\ Base(g) \in Int
         /\ Here(g) \in Int /\ AccIndexToGlobal(chunk[g], i[g]) = Here(g)
         /\ \A n \in Nat : GlobalOf(n) = FirstLeaf + n - 1
         /\ \A n \in 1..seen[g] : tree[n] \in Wanted \cup {Other}
         /\ EntryHere(g) = Zero => Here(g) >= GlobalOf(seen[g] + 1)
         /\ EntryHere(g) # Zero => Here(g) < GlobalOf(seen[g] + 1)
         /\ \A n \in 1..seen[g] : GlobalOf(n) = Here(g) => EntryHere(g) = tree[n]
         /\ EntryHere(g) \in Wanted => \E n \in 1..seen[g] : GlobalOf(n) = Here(g) /\ tree[n] = EntryHere(g)
BY EntryAt DEF ScanInv

(* A zero ends the search: what is left to find is not in the tree.          *)
LEMMA FindZeroInv ==
  ASSUME SearchInv, NEW g \in Chunks, phase = "searching", pc[g] = "scan",
         EntryHere(g) = Zero, pc' = [pc EXCEPT ![g] = "failed"],
         UNCHANGED <<tree, start, phase, present, keys, found, chunk, seen, order, i, skip>>
  PROVE  SearchInv'
<1>1. TypeOK /\ ScanInv(g) /\ CallInv
  BY DEF SearchInv
<1>2. seen[g] \in Nat /\ Here(g) \in Int /\ Here(g) >= GlobalOf(seen[g] + 1)
  BY <1>1, EntryFacts
<1>3. keys \in Nat /\ keys <= seen[g]
  BY <1>1, Sizes DEF TypeOK, ScanInv
<1>4. PICK c \in LeftToFind(g) : c \in Wanted
  BY <1>1 DEF ScanInv, LeftToFind, Group
<1>5. ASSUME NEW n \in 1..keys, tree[n] = c PROVE FALSE
  <2>1. n \in 1..seen[g] /\ n \in Nat /\ n < seen[g] + 1
    BY <1>2, <1>3
  <2>2. GlobalOf(n) >= Here(g)
    BY <1>1, <1>5, <2>1 DEF ScanInv, Here
  <2>3. GlobalOf(n + 1) <= GlobalOf(seen[g] + 1) /\ GlobalOf(n + 1) = GlobalOf(n) + 1
        /\ GlobalOf(n) \in Int /\ GlobalOf(seen[g] + 1) \in Int
    BY <1>2, <2>1, Globals, Sizes
  <2> QED BY <1>2, <2>2, <2>3
<1>6. present # Wanted
  BY <1>1, <1>4, <1>5 DEF CallInv
<1>7. pc'[g] = "failed" /\ \A h \in Chunks \ {g} : pc'[h] = pc[h]
  BY <1>1 DEF TypeOK
<1>8. FetchInv(g)' /\ ScanInv(g)' /\ EndInv(g)' /\ TypeOK'
  BY <1>1, <1>6, <1>7 DEF FetchInv, ScanInv, EndInv, TypeOK
<1>9. \A h \in Chunks : LeftToFind(h)' = LeftToFind(h)
  BY DEF LeftToFind, Group, StartChunk
<1> QED BY <1>7, <1>8, <1>9, OtherSearches

(* At the end of the chunk the search goes on to the next one.               *)
LEMMA FindEndInv ==
  ASSUME SearchInv, NEW g \in Chunks, phase = "searching", pc[g] = "scan",
         i[g] >= ChunkSize, pc' = [pc EXCEPT ![g] = "fetch"], chunk' = [chunk EXCEPT ![g] = @ + 1],
         UNCHANGED <<tree, start, phase, present, keys, found, seen, order, i, skip>>
  PROVE  SearchInv'
<1>1. TypeOK /\ ScanInv(g)
  BY DEF SearchInv
<1>2. /\ pc'[g] = "fetch" /\ chunk'[g] = chunk[g] + 1
      /\ \A h \in Chunks \ {g} : pc'[h] = pc[h] /\ chunk'[h] = chunk[h]
  BY <1>1 DEF TypeOK
<1>3. \A h \in Chunks : LeftToFind(h)' = LeftToFind(h)
  BY DEF LeftToFind, Group, StartChunk
<1>4. /\ chunk[g] \in Nat /\ chunk[g] \in g..(ChunkCount - 1) /\ g \in Nat
      /\ chunk[g] + 1 \in g..ChunkCount /\ chunk[g] + 1 \in 0..ChunkCount
  BY <1>1, Sizes DEF ScanInv, Chunks
<1>5. Base(g)' = Base(g) + ChunkSize
  BY <1>2, <1>4, BaseFacts DEF Base
<1>6. seen[g] \in Nat /\ seen[g] <= Len(tree) /\ Len(tree) \in Nat /\ Base(g) \in Int /\ i[g] = ChunkSize
  <2>1. seen[g] \in Nat /\ i[g] \in 0..ChunkSize /\ Base(g) \in Int
    BY <1>1, EntryFacts
  <2>2. seen[g] <= Len(tree) /\ Len(tree) \in Nat
    BY <1>1 DEF ScanInv, TypeOK
  <2> QED BY <2>1, <2>2, Sizes
<1>7. GlobalOf(seen[g] + 1) >= Base(g) + ChunkSize
  BY <1>1, <1>6 DEF ScanInv
<1>8. \A n \in Nat : n > seen[g] => GlobalOf(n) >= Base(g) + ChunkSize
  <2> SUFFICES ASSUME NEW n \in Nat, n > seen[g] PROVE GlobalOf(n) >= Base(g) + ChunkSize
    OBVIOUS
  <2>1. PICK m \in Nat : m = seen[g]
    BY <1>6
  <2>2. m + 1 \in Nat /\ m < n
    BY <2>1
  <2>3. GlobalOf(m + 1) <= GlobalOf(n) /\ GlobalOf(n) \in Int /\ GlobalOf(m + 1) \in Int
    BY <2>2, Globals
  <2> QED BY <1>6, <1>7, <2>1, <2>3, Sizes
<1>9. ASSUME NEW c \in LeftToFind(g), NEW n \in 1..Len(tree), tree[n] = c
      PROVE  GlobalOf(n) >= Base(g) + ChunkSize
  <2>1. CASE n \in 1..seen[g]
    BY <1>1, <1>6, <1>9, <2>1 DEF ScanInv
  <2> QED BY <1>6, <1>8, <2>1
<1>10. GlobalOf(Len(tree) + 1) >= Base(g) + ChunkSize
  BY <1>6, <1>8
<1>11. FetchInv(g)'
  BY <1>2, <1>3, <1>4, <1>5, <1>9, <1>10 DEF FetchInv
<1>12. ScanInv(g)' /\ EndInv(g)'
  BY <1>2 DEF ScanInv, EndInv
<1>13. TypeOK'
  BY <1>1, <1>4 DEF TypeOK
<1> QED BY <1>2, <1>3, <1>11, <1>12, <1>13, OtherSearches

(* Where the search goes after a commitment: to a later index of the chunk,  *)
(* or, if that leaves start indices out, only when they are of commitments   *)
(* found already.                                                            *)
LEMMA AfterFoundFacts ==
  ASSUME TypeOK, NEW g \in Chunks, ScanInv(g), pc[g] = "scan", i[g] < ChunkSize,
         NEW k \in Nat, NEW F \in SUBSET Ordered(g), k = Cardinality(F),
         \A c \in F : StartIn(c, chunk[g]) <= i[g]
  PROVE  /\ AfterFound(g, k) \in 0..ChunkSize /\ AfterFound(g, k) > i[g]
         /\ \/ AfterFound(g, k) = i[g] + 1
            \/ /\ AfterFound(g, k) < ChunkSize
               /\ \A c \in Ordered(g) \ F : StartIn(c, chunk[g]) >= AfterFound(g, k)
<1> DEFINE S == Ordered(g)
           N == Cardinality(S)
           o == order[g]
           a == chunk[g]
           x == i[g]
<1>1. x \in Int /\ x \in 0..ChunkSize /\ x < ChunkSize /\ a \in Nat /\ ChunkSize \in Nat
  BY EntryFacts, Sizes
<1>2. /\ o \in Bijection(1..N, S) /\ S \subseteq Group(g)
      /\ \A m, n \in 1..N : m < n => StartIn(o[m], a) <= StartIn(o[n], a)
  BY DEF ScanInv
<1>3. N \in Nat
  <2>1. S \subseteq Wanted
    BY <1>2 DEF Group
  <2> QED BY <2>1, WantedAssumption, FS_Subset, FS_CardinalityType
<1>4. o \in [1..N -> S] /\ DOMAIN o = 1..N
  BY <1>2 DEF Bijection, Injection
<1>5. \A c \in S : StartIn(c, a) \in 0..(ChunkSize - 1)
  BY <1>1, <1>2, StartInGroup
<1>6. CASE ~(k + 1 \in DOMAIN o /\ StartIn(o[k + 1], a) > x)
  <2>1. AfterFound(g, k) = x + 1
    BY <1>6 DEF AfterFound
  <2> QED BY <1>1, <2>1
<1>7. CASE k + 1 \in DOMAIN o /\ StartIn(o[k + 1], a) > x
  <2>1. AfterFound(g, k) = StartIn(o[k + 1], a)
    BY <1>7 DEF AfterFound
  <2>2. k + 1 \in 1..N /\ o[k + 1] \in S
    BY <1>4, <1>7
  <2> DEFINE v == [c \in S |-> StartIn(c, a)]
  <2>3. /\ v \in [S -> Int] /\ v[o[k + 1]] > x /\ \A c \in F : v[c] <= x
        /\ \A m, n \in 1..N : m < n => v[o[m]] <= v[o[n]]
    <3>1. \A m \in 1..N : o[m] \in S
      BY <1>4
    <3> HIDE DEF S, o, a, x, N
    <3>2. v \in [S -> Int]
      BY <1>5
    <3>3. \A c \in F : v[c] <= x
      BY DEF S, a, x
    <3> QED BY <1>2, <1>7, <2>2, <3>1, <3>2, <3>3
  <2>4. F \in SUBSET S
    OBVIOUS
  <2> HIDE DEF S, N, o, a, x, v
  <2>5. \A c \in S \ F : v[c] >= v[o[k + 1]]
    BY <1>1, <1>2, <1>3, <2>2, <2>3, <2>4, Skip
  <2>6. \A c \in S \ F : StartIn(c, a) >= StartIn(o[k + 1], a)
    BY <2>2, <2>5 DEF v
  <2>7. StartIn(o[k + 1], a) \in 0..(ChunkSize - 1)
    BY <1>5, <2>2
  <2>8. /\ AfterFound(g, k) \in 0..ChunkSize /\ AfterFound(g, k) > x /\ AfterFound(g, k) < ChunkSize
        /\ \A c \in S \ F : StartIn(c, a) >= AfterFound(g, k)
    BY <1>1, <1>7, <2>1, <2>6, <2>7
  <2> QED BY <2>8 DEF S, a, x
<1> QED BY <1>6, <1>7

(* An entry is looked at: it may be a commitment left to find, and then      *)
(* other start indices are skipped; when it is the last one, the search goes *)
(* to the next chunk to be told so.                                          *)
FindEntry(g) ==
    /\ phase = "searching" /\ pc[g] = "scan" /\ i[g] < ChunkSize /\ EntryHere(g) # Zero
    /\ found' = [c \in Wanted |-> IF c \in Hits(g) THEN AccIndexToGlobal(chunk[g], i[g]) ELSE found[c]]
    /\ IF Hits(g) = {}
       THEN skip' = skip /\ i' = [i EXCEPT ![g] = @ + 1]
       ELSE /\ skip' = [skip EXCEPT ![g] = @ + 1]
            /\ i' = [i EXCEPT ![g] = AfterFound(g, skip[g] + 1)]
    /\ IF LeftToFind(g) = Hits(g)
       THEN pc' = [pc EXCEPT ![g] = "fetch"] /\ chunk' = [chunk EXCEPT ![g] = @ + 1]
       ELSE UNCHANGED <<pc, chunk>>
    /\ UNCHANGED <<tree, start, phase, present, keys, seen, order>>

LEMMA FindEntryInv ==
  ASSUME SearchInv, NEW g \in Chunks, FindEntry(g)
  PROVE  SearchInv'
<1> DEFINE H == Hits(g)
           F == FoundHere(g) \cup H
           next == i'[g]
<1>1. TypeOK /\ TreeInv /\ ScanInv(g) /\ pc[g] = "scan" /\ i[g] < ChunkSize /\ EntryHere(g) # Zero
  BY DEF SearchInv, FindEntry
<1>2. /\ chunk[g] \in Nat /\ i[g] \in 0..ChunkSize /\ seen[g] \in Nat /\ Base(g) \in Int
      /\ Here(g) \in Int /\ AccIndexToGlobal(chunk[g], i[g]) = Here(g)
      /\ Here(g) < GlobalOf(seen[g] + 1)
  BY <1>1, EntryFacts
<1>3. /\ H \subseteq LeftToFind(g) /\ H \subseteq {EntryHere(g)} /\ LeftToFind(g) \subseteq Group(g)
      /\ Group(g) \subseteq Wanted /\ LeftToFind(g) \subseteq Ordered(g) /\ Ordered(g) \subseteq Group(g)
  BY <1>1 DEF Hits, LeftToFind, Group, ScanInv
<1>4. ASSUME NEW c \in H
      PROVE  \E n \in 1..seen[g] : GlobalOf(n) = Here(g) /\ tree[n] = c
  <2>1. EntryHere(g) \in Wanted /\ c = EntryHere(g)
    BY <1>3
  <2> QED BY <1>1, <2>1, EntryFacts
<1>5. H # {} => Here(g) \in 0..(FirstLeaf + Leaves - 1)
  <2> SUFFICES ASSUME H # {} PROVE Here(g) \in 0..(FirstLeaf + Leaves - 1)
    OBVIOUS
  <2>1. PICK n \in 1..seen[g] : GlobalOf(n) = Here(g)
    BY <1>4
  <2>2. n \in Nat /\ n >= 1 /\ n <= Leaves
    BY <1>1, <1>2, Sizes DEF TypeOK
  <2>3. Here(g) = FirstLeaf + n - 1
    BY <2>1, <2>2, Globals
  <2> QED BY <2>2, <2>3, Sizes
<1>6. found' \in [Wanted -> 0..(FirstLeaf + Leaves - 1) \cup {Missing}]
      /\ \A c \in Wanted : found'[c] = IF c \in H THEN Here(g) ELSE found[c]
  <2>1. found' = [c \in Wanted |-> IF c \in H THEN Here(g) ELSE found[c]]
    BY <1>2 DEF FindEntry
  <2> QED BY <1>1, <1>5, <2>1 DEF TypeOK
<1>7. /\ \A h \in Chunks : Group(h)' = Group(h)
      /\ \A h \in Chunks \ {g} : LeftToFind(h)' = LeftToFind(h)
      /\ LeftToFind(g)' = LeftToFind(g) \ H
  <2>1. \A h \in Chunks : Group(h)' = Group(h)
    BY DEF FindEntry, Group, StartChunk
  <2>2. \A h \in Chunks \ {g} : H \cap Group(h) = {}
    BY <1>3 DEF Group
  <2>3. \A h \in Chunks \ {g} : LeftToFind(h)' = LeftToFind(h)
    BY <1>6, <2>1, <2>2 DEF LeftToFind, Group
  <2>4. \A c \in H : found'[c] # Missing
    BY <1>3, <1>5, <1>6, Sizes DEF Missing
  <2>5. LeftToFind(g)' = LeftToFind(g) \ H
    BY <1>3, <1>6, <2>1, <2>4 DEF LeftToFind, Group
  <2> QED BY <2>1, <2>3, <2>5
<1>8. IsFiniteSet(FoundHere(g)) /\ H \cap FoundHere(g) = {} /\ FoundHere(g) \subseteq Ordered(g)
      /\ F \subseteq Ordered(g) /\ skip[g] = Cardinality(FoundHere(g)) /\ skip[g] \in Nat
      /\ Cardinality(F) = IF H = {} THEN skip[g] ELSE skip[g] + 1
  <2>1. FoundHere(g) \subseteq Ordered(g) /\ H \cap FoundHere(g) = {} /\ F \subseteq Ordered(g)
    BY <1>3 DEF FoundHere
  <2>2. FoundHere(g) \subseteq Wanted /\ IsFiniteSet(FoundHere(g))
    BY <1>3, <2>1, WantedAssumption, FS_Subset
  <2>3. skip[g] = Cardinality(FoundHere(g)) /\ skip[g] \in Nat
    BY <1>1 DEF ScanInv, TypeOK
  <2>4. CASE H = {}
    <3>1. F = FoundHere(g)
      BY <2>4
    <3> QED BY <2>1, <2>2, <2>3, <2>4, <3>1
  <2>5. CASE H # {}
    <3>1. H = {EntryHere(g)} /\ EntryHere(g) \notin FoundHere(g)
      BY <1>3, <2>1, <2>5
    <3>2. Cardinality(FoundHere(g) \cup {EntryHere(g)}) = Cardinality(FoundHere(g)) + 1
      BY <2>2, <3>1, FS_AddElement
    <3> QED BY <2>1, <2>2, <2>3, <2>5, <3>1, <3>2
  <2> QED BY <2>4, <2>5
<1>9. \A c \in F : StartIn(c, chunk[g]) <= i[g]
  <2>1. \A c \in F : c \in Group(g) /\ StartIn(c, chunk[g]) \in 0..(ChunkSize - 1)
    BY <1>1, <1>2, <1>3, <1>8, StartInGroup
  <2>2. ASSUME NEW c \in FoundHere(g) PROVE StartIn(c, chunk[g]) <= i[g]
    <3>1. StartIn(c, chunk[g]) < i[g]
      BY <1>1 DEF ScanInv
    <3> QED BY <1>2, <2>1, <3>1, Sizes
  <2>3. ASSUME NEW c \in H PROVE StartIn(c, chunk[g]) <= i[g]
    <3>1. CASE chunk[g] # g
      <4>1. StartIn(c, chunk[g]) = 0
        BY <1>1, <1>2, <2>1, <3>1, StartInGroup
      <4> QED BY <1>2, <4>1, Sizes
    <3>2. CASE chunk[g] = g
      <4>1. PICK n \in 1..seen[g] : GlobalOf(n) = Here(g) /\ tree[n] = c
        BY <1>4
      <4>2. n \in 1..Len(tree) /\ n \in Nat /\ c \in Wanted
        BY <1>1, <1>2, <1>3 DEF ScanInv, TypeOK
      <4>3. start[c] <= n - 1
        BY <1>1, <4>1, <4>2 DEF TreeInv
      <4>4. start[c] \in Nat /\ Base(g) + StartIn(c, chunk[g]) = FirstLeaf + start[c]
        BY <1>1, <2>1, <3>2, GroupFacts DEF Base
      <4>5. Base(g) + i[g] = FirstLeaf + n - 1
        BY <4>1, <4>2, Globals DEF Here
      <4>6. StartIn(c, chunk[g]) \in Int /\ i[g] \in Int /\ FirstLeaf \in Int
        BY <1>2, <2>1, Sizes
      <4> QED BY <1>2, <4>2, <4>3, <4>4, <4>5, <4>6, SMTT(30)
    <3> QED BY <3>1, <3>2
  <2> QED BY <2>2, <2>3
<1>10. /\ skip' \in [Chunks -> Nat] /\ i' \in [Chunks -> 0..ChunkSize]
       /\ skip'[g] = Cardinality(F) /\ next \in 0..ChunkSize /\ next > i[g]
       /\ \/ next = i[g] + 1
          \/ /\ next < ChunkSize
             /\ \A c \in Ordered(g) \ F : StartIn(c, chunk[g]) >= next
       /\ \A h \in Chunks \ {g} : skip'[h] = skip[h] /\ i'[h] = i[h]
  <2>1. CASE H = {}
    <3>1. i[g] + 1 \in 0..ChunkSize /\ i[g] + 1 > i[g]
      BY <1>1, <1>2, Sizes
    <3> QED BY <1>1, <1>8, <2>1, <3>1 DEF FindEntry, TypeOK
  <2>2. CASE H # {}
    <3> DEFINE k == skip[g] + 1
               a == AfterFound(g, k)
    <3>1. /\ a \in 0..ChunkSize /\ a > i[g]
          /\ \/ a = i[g] + 1
             \/ a < ChunkSize /\ \A c \in Ordered(g) \ F : StartIn(c, chunk[g]) >= a
      <4>1. k \in Nat /\ F \in SUBSET Ordered(g) /\ k = Cardinality(F)
        BY <1>8, <2>2
      <4> HIDE DEF F, k
      <4> QED BY <1>1, <1>9, <4>1, AfterFoundFacts
    <3>2. skip' = [skip EXCEPT ![g] = k] /\ i' = [i EXCEPT ![g] = a]
      BY <2>2 DEF FindEntry
    <3>3. k \in Nat /\ k = Cardinality(F)
      BY <1>8, <2>2
    <3> HIDE DEF a, k, F
    <3> QED BY <1>1, <3>1, <3>2, <3>3 DEF TypeOK
  <2> QED BY <2>1, <2>2
<1>11. CASE LeftToFind(g) = H
  <2>1. /\ pc' = [pc EXCEPT ![g] = "fetch"] /\ chunk' = [chunk EXCEPT ![g] = @ + 1]
        /\ UNCHANGED <<tree, start, phase, present, keys, seen, order>>
    BY <1>11 DEF FindEntry
  <2>2. /\ pc'[g] = "fetch" /\ chunk'[g] = chunk[g] + 1
        /\ \A h \in Chunks \ {g} : pc'[h] = pc[h] /\ chunk'[h] = chunk[h]
    BY <1>1, <2>1 DEF TypeOK
  <2>3. chunk[g] + 1 \in g..ChunkCount /\ chunk[g] + 1 \in 0..ChunkCount
    BY <1>1, <1>2, Sizes DEF ScanInv, Chunks
  <2>4. TypeOK'
    BY <1>1, <1>6, <1>10, <2>1, <2>3 DEF TypeOK
  <2>5. FetchInv(g)' /\ ScanInv(g)' /\ EndInv(g)'
    BY <1>7, <1>11, <2>2, <2>3 DEF FetchInv, ScanInv, EndInv
  <2> QED BY <1>7, <1>10, <2>1, <2>2, <2>4, <2>5, OtherSearches
<1>12. CASE LeftToFind(g) # H
  <2>1. UNCHANGED <<tree, start, phase, present, keys, seen, order, pc, chunk>>
    BY <1>12 DEF FindEntry
  <2>2. TypeOK'
    BY <1>1, <1>6, <1>10, <2>1 DEF TypeOK
  <2>3. /\ Base(g)' = Base(g) /\ Ordered(g)' = Ordered(g)
        /\ \A c, a : StartIn(c, a)' = StartIn(c, a)
    BY <2>1 DEF Base, Ordered, StartIn, StartChunk
  <2>4. FoundHere(g)' = F
    BY <1>3, <1>7, <2>3 DEF FoundHere
  <2>5. \A c \in F : StartIn(c, chunk[g]) < next
    <3>1. \A c \in F : StartIn(c, chunk[g]) \in 0..(ChunkSize - 1)
      BY <1>1, <1>2, <1>3, <1>8, StartInGroup
    <3> HIDE DEF F, next
    <3> QED BY <1>2, <1>9, <1>10, <3>1, Sizes
  <2>6. ASSUME NEW c \in LeftToFind(g) \ H, NEW n \in 1..seen[g], tree[n] = c
        PROVE  GlobalOf(n) >= Base(g) + next
    <3>1. /\ n \in Nat /\ n \in 1..Len(tree) /\ GlobalOf(n) \in Int /\ GlobalOf(n) = FirstLeaf + n - 1
          /\ i[g] \in Int /\ next \in Int
      <4>1. n \in Nat /\ n \in 1..Len(tree)
        BY <1>1, <1>2 DEF ScanInv, TypeOK
      <4> HIDE DEF next
      <4> QED BY <1>2, <1>10, <4>1, Globals, Sizes
    <3>2. CASE next = i[g] + 1
      <4>1. GlobalOf(n) >= Base(g) + i[g]
        BY <1>1, <2>6 DEF ScanInv
      <4>2. ASSUME GlobalOf(n) = Here(g) PROVE FALSE
        <5>1. EntryHere(g) = c
          BY <1>1, <2>6, <4>2, EntryFacts
        <5> QED BY <2>6, <5>1 DEF Hits
      <4>3. GlobalOf(n) # Base(g) + i[g]
        BY <4>2 DEF Here
      <4>4. GlobalOf(n) \in Int /\ Base(g) \in Int /\ i[g] \in Int
        BY <1>2, <3>1
      <4>5. GlobalOf(n) >= Base(g) + (i[g] + 1)
        BY <4>1, <4>3, <4>4
      <4> QED BY <3>2, <4>5
    <3>3. CASE next # i[g] + 1
      <4>1. c \in Ordered(g) \ F /\ c \in Group(g) /\ c \in Wanted
        BY <1>3 DEF FoundHere
      <4>2. StartIn(c, chunk[g]) >= next /\ next > i[g]
        BY <1>10, <3>3, <4>1
      <4>3. StartIn(c, chunk[g]) \in 0..(ChunkSize - 1) /\ (chunk[g] # g => StartIn(c, chunk[g]) = 0)
        BY <1>1, <1>2, <4>1, StartInGroup
      <4>4. chunk[g] = g
        <5> HIDE DEF next
        <5> QED BY <1>2, <3>1, <4>2, <4>3, Sizes
      <4>5. start[c] \in Nat /\ Base(g) + StartIn(c, chunk[g]) = FirstLeaf + start[c]
        BY <1>1, <4>1, <4>4, GroupFacts DEF Base
      <4>6. start[c] <= n - 1
        BY <1>1, <2>6, <3>1, <4>1 DEF TreeInv
      <4>7. FirstLeaf \in Int /\ StartIn(c, chunk[g]) \in Int
        BY <4>3, Sizes
      <4> HIDE DEF next
      <4> QED BY <1>2, <3>1, <4>2, <4>5, <4>6, <4>7, SMTT(30)
    <3> QED BY <3>2, <3>3
  <2>7. next = ChunkSize => GlobalOf(seen[g] + 1) >= Base(g) + ChunkSize
    <3> SUFFICES ASSUME next = ChunkSize PROVE GlobalOf(seen[g] + 1) >= Base(g) + ChunkSize
      OBVIOUS
    <3>1. i[g] + 1 = ChunkSize
      <4>1. next # i[g] + 1 => next < ChunkSize
        BY <1>10
      <4> HIDE DEF next
      <4> QED BY <4>1, Sizes
    <3>2. Here(g) = Base(g) + i[g] /\ i[g] \in Int /\ GlobalOf(seen[g] + 1) \in Int
      BY <1>2, Globals, Sizes DEF Here
    <3> QED BY <1>2, <3>1, <3>2
  <2>8. LeftToFind(g) \ H # {} /\ LeftToFind(g) \ H \subseteq Ordered(g)
    BY <1>3, <1>12
  <2>9. ScanInv(g)'
    <3> HIDE DEF F, H
    <3> QED BY <1>1, <1>7, <1>10, <2>1, <2>3, <2>4, <2>5, <2>6, <2>7, <2>8 DEF ScanInv
  <2>10. FetchInv(g)' /\ EndInv(g)'
    BY <1>1, <2>1 DEF FetchInv, EndInv
  <2> QED BY <1>1, <1>7, <1>10, <2>1, <2>2, <2>9, <2>10, OtherSearches
<1> QED BY <1>11, <1>12

LEMMA FindInChunkInv ==
  ASSUME SearchInv, NEW g \in Chunks, FindInChunk(g)
  PROVE  SearchInv'
<1>1. CASE /\ EntryHere(g) = Zero /\ pc' = [pc EXCEPT ![g] = "failed"]
           /\ UNCHANGED <<found, chunk, i, skip>>
  BY <1>1, FindZeroInv DEF FindInChunk
<1>2. CASE FindEntry(g)
  BY <1>2, FindEntryInv
<1>3. CASE /\ i[g] >= ChunkSize /\ pc' = [pc EXCEPT ![g] = "fetch"]
           /\ chunk' = [chunk EXCEPT ![g] = @ + 1] /\ UNCHANGED <<found, i, skip>>
  BY <1>3, FindEndInv DEF FindInChunk
<1> QED BY <1>1, <1>2, <1>3 DEF FindInChunk, FindEntry, EntryHere, Hits

-----------------------------------------------------------------------------
(* The theorems: where numbers sort as their decimal strings do, whatever is *)
(* inserted, and whenever, while the searches of a call run.                 *)
LEMMA NextInv == SearchInv /\ SameDigits /\ [Next]_vars => SearchInv'
<1> SUFFICES ASSUME SearchInv, SameDigits, [Next]_vars PROVE SearchInv'
  OBVIOUS
<1>1. ASSUME UNCHANGED vars PROVE SearchInv'
  <2>1. TypeOK' /\ TreeInv' /\ CallInv' /\ SearchComplete'
    BY <1>1 DEF vars, SearchInv, TypeOK, TreeInv, CallInv, SearchComplete, Group, StartChunk
  <2>2. ASSUME NEW g \in Chunks PROVE FetchInv(g)' /\ ScanInv(g)' /\ EndInv(g)'
    <3>1. LeftToFind(g)' = LeftToFind(g)
      BY <1>1 DEF vars, LeftToFind, Group, StartChunk
    <3> QED BY <1>1, <3>1, SameSearch DEF vars, SearchInv
  <2> QED BY <2>1, <2>2 DEF SearchInv
<1>2. ASSUME NEW g \in Chunks, Search(g) PROVE SearchInv'
  BY <1>2, NextChunkInv, FindInChunkInv DEF Search
<1> QED BY <1>1, <1>2, InsertInv, BeginInv, EndCallInv, ReturnInv DEF Next

LEMMA SearchInvariant == SameDigits => (Spec => []SearchInv)
<1> SUFFICES ASSUME SameDigits PROVE Spec => []SearchInv
  OBVIOUS
<1>1. SearchInv /\ [Next]_vars => SearchInv'
  BY NextInv
<1> QED BY <1>1, InitInv, PTL DEF Spec

(* A search never steps over a commitment that it still has to find: skipping *)
(* as many start indices as commitments were found is right.                 *)
THEOREM SkipsNothing == SameDigits => (Spec => []NeverSkipped)
<1> SUFFICES ASSUME SameDigits PROVE Spec => []NeverSkipped
  OBVIOUS
<1>1. SearchInv => NeverSkipped
  <2> SUFFICES ASSUME SearchInv, NEW g \in Chunks, pc[g] = "scan",
                      NEW c \in LeftToFind(g), NEW n \in 1..seen[g], tree[n] = c
               PROVE  LeafToGlobal(n - 1) >= AccIndexToGlobal(chunk[g], i[g])
    BY DEF NeverSkipped
  <2>1. TypeOK /\ ScanInv(g)
    BY DEF SearchInv
  <2>2. GlobalOf(n) >= Here(g)
    BY <2>1 DEF ScanInv, Here
  <2>3. AccIndexToGlobal(chunk[g], i[g]) = Here(g)
    BY <2>1, EntryFacts
  <2> QED BY <2>2, <2>3 DEF GlobalOf
<1> QED BY <1>1, SearchInvariant, PTL

(* A call that fails, unless the node does, fails because a commitment was   *)
(* not yet in the tree when it began: a confirmed transaction is not taken   *)
(* for a pending one.                                                        *)
THEOREM FindsAll == SameDigits => (Spec => []SearchComplete)
<1> SUFFICES ASSUME SameDigits PROVE Spec => []SearchComplete
  OBVIOUS
<1>1. SearchInv => SearchComplete
  BY DEF SearchInv
<1> QED BY <1>1, SearchInvariant, PTL

-----------------------------------------------------------------------------
(* However numbers sort, what is found is where it was found.                *)
FoundInv ==
    /\ TypeOK
    /\ \A g \in Chunks : seen[g] <= Len(tree) /\ (pc[g] = "scan" => chunk[g] < ChunkCount)
    /\ \A c \in Wanted : found[c] # Missing =>
          \E n \in 1..Len(tree) : tree[n] = c /\ found[c] = GlobalOf(n)
    /\ phase = "found" => \A c \in Wanted : found[c] # Missing

LEMMA InitFound == Init => FoundInv
<1> SUFFICES ASSUME Init PROVE FoundInv
  OBVIOUS
<1>1. TypeOK
  BY InitInv DEF SearchInv
<1>2. Len(tree) \in Nat
  BY <1>1 DEF TypeOK
<1>3. \A g \in Chunks : seen[g] = 0 /\ pc[g] # "scan"
  BY DEF Init
<1>4. \A c \in Wanted : found[c] = Missing
  BY DEF Init
<1>5. phase # "found"
  BY DEF Init
<1> QED BY <1>1, <1>2, <1>3, <1>4, <1>5 DEF FoundInv

LEMMA InsertFound ==
  ASSUME FoundInv, NEW c \in Wanted \cup {Other}, Insert(c)
  PROVE  FoundInv'
<1>1. /\ TypeOK /\ tree \in Seq(Wanted \cup {Other}) /\ Len(tree) < Leaves /\ Len(tree) \in Nat
      /\ tree' = Append(tree, c)
      /\ UNCHANGED <<start, phase, present, keys, found, pc, chunk, seen, order, i, skip>>
  BY DEF FoundInv, TypeOK, Insert, searchVars
<1>2. /\ tree' \in Seq(Wanted \cup {Other}) /\ Len(tree') = Len(tree) + 1
      /\ \A n \in 1..Len(tree) : tree'[n] = tree[n]
  BY <1>1
<1>3. TypeOK'
  BY <1>1, <1>2, Sizes, SMTT(30) DEF TypeOK
<1>4. \A g \in Chunks : seen'[g] <= Len(tree') /\ (pc'[g] = "scan" => chunk'[g] < ChunkCount)
  <2>1. \A g \in Chunks : seen[g] \in Nat
    BY <1>1, Sizes DEF TypeOK
  <2> QED BY <1>1, <1>2, <2>1 DEF FoundInv
<1>5. ASSUME NEW d \in Wanted, found'[d] # Missing
      PROVE  \E n \in 1..Len(tree') : tree'[n] = d /\ found'[d] = GlobalOf(n)
  <2>1. PICK n \in 1..Len(tree) : tree[n] = d /\ found[d] = GlobalOf(n)
    BY <1>1, <1>5 DEF FoundInv
  <2>2. n \in 1..Len(tree')
    BY <1>1, <1>2
  <2> QED BY <1>1, <1>2, <2>1, <2>2
<1> QED BY <1>1, <1>3, <1>4, <1>5 DEF FoundInv

LEMMA CallFound ==
  ASSUME FoundInv, FindCommitmentIndices \/ GetCommitmentIndices \/ Return
  PROVE  FoundInv'
<1>1. TypeOK /\ Len(tree) \in Nat /\ tree' = tree /\ start' = start
  BY DEF FoundInv, TypeOK, FindCommitmentIndices, GetCommitmentIndices, Return
<1>2. CASE FindCommitmentIndices
  <2>1. TypeOK'
    BY <1>1, <1>2, Sizes, SMTT(30) DEF FindCommitmentIndices, TypeOK, Chunks
  <2> QED BY <1>1, <1>2, <2>1 DEF FindCommitmentIndices, FoundInv
<1>3. CASE GetCommitmentIndices
  <2>1. TypeOK'
    BY <1>3, <1>1 DEF GetCommitmentIndices, TypeOK, searchVars
  <2> QED BY <1>1, <1>3, <2>1 DEF GetCommitmentIndices, FoundInv, searchVars
<1>4. CASE Return
  <2>1. TypeOK'
    BY <1>1, <1>4, Sizes DEF Return, TypeOK, Chunks
  <2>2. \A g \in Chunks : seen'[g] <= Len(tree')
    BY <1>1, <1>4 DEF Return
  <2> QED BY <1>1, <1>4, <2>1, <2>2 DEF Return, FoundInv
<1> QED BY <1>2, <1>3, <1>4

LEMMA NextChunkFound ==
  ASSUME FoundInv, NEW g \in Chunks, NextChunk(g) \/ NodeError(g)
  PROVE  FoundInv'
<1>1. /\ TypeOK /\ UNCHANGED <<tree, start, phase, present, keys, found, chunk>>
      /\ Len(tree) \in Nat /\ Len(tree) <= Leaves
  BY DEF FoundInv, TypeOK, NextChunk, NodeError
<1>2. CASE pc'[g] # "scan" /\ UNCHANGED <<seen, order, i, skip>>
  <2>1. TypeOK' /\ \A h \in Chunks : pc'[h] = "scan" => pc[h] = "scan"
    BY <1>1, <1>2 DEF TypeOK, NextChunk, NodeError
  <2> QED BY <1>1, <1>2, <2>1 DEF FoundInv
<1>3. CASE /\ LeftToFind(g) # {} /\ chunk[g] < ChunkCount
           /\ seen' = [seen EXCEPT ![g] = Len(tree)]
           /\ \E o \in Sorted(LeftToFind(g), chunk[g]) :
                 /\ order' = [order EXCEPT ![g] = o]
                 /\ i' = [i EXCEPT ![g] = StartIn(o[1], chunk[g])]
           /\ skip' = [skip EXCEPT ![g] = 0]
           /\ pc' = [pc EXCEPT ![g] = "scan"]
  <2>1. PICK o \in Sorted(LeftToFind(g), chunk[g]) :
                 /\ order' = [order EXCEPT ![g] = o]
                 /\ i' = [i EXCEPT ![g] = StartIn(o[1], chunk[g])]
    BY <1>3
  <2> DEFINE N == Cardinality(LeftToFind(g))
  <2>2. LeftToFind(g) \subseteq Wanted /\ N \in Nat \ {0}
    <3>1. LeftToFind(g) \subseteq Wanted
      BY DEF LeftToFind, Group
    <3>2. IsFiniteSet(LeftToFind(g)) /\ N \in Nat
      BY <3>1, WantedAssumption, FS_Subset, FS_CardinalityType
    <3> QED BY <1>3, <3>1, <3>2, FS_EmptySet
  <2>3. o \in [1..N -> LeftToFind(g)]
    BY <2>1 DEF Sorted, Bijection, Injection
  <2>4. o \in Seq(Wanted) /\ o[1] \in Wanted
    BY <2>2, <2>3
  <2>5. StartIn(o[1], chunk[g]) \in 0..ChunkSize
    <3>1. chunk[g] \in Int
      BY <1>1, Sizes DEF TypeOK
    <3>2. StartIn(o[1], chunk[g]) \in 0..(ChunkSize - 1)
      BY <1>1, <2>4, <3>1, StartInFacts DEF TypeOK
    <3> QED BY <3>2, Sizes
  <2>6. TypeOK'
    BY <1>1, <1>3, <2>1, <2>4, <2>5, Sizes, SMTT(30) DEF TypeOK
  <2>7. \A h \in Chunks : seen'[h] <= Len(tree') /\ (pc'[h] = "scan" => chunk'[h] < ChunkCount)
    BY <1>1, <1>3 DEF FoundInv, TypeOK
  <2> QED BY <1>1, <2>6, <2>7 DEF FoundInv
<1> QED
  <2>1. CASE NodeError(g)
    BY <1>1, <1>2, <2>1 DEF NodeError, TypeOK
  <2>2. CASE NextChunk(g)
    BY <1>1, <1>2, <1>3, <2>2 DEF NextChunk, TypeOK
  <2> QED BY <2>1, <2>2

LEMMA FindFound ==
  ASSUME FoundInv, NEW g \in Chunks, FindInChunk(g)
  PROVE  FoundInv'
<1>1. /\ TypeOK /\ seen[g] <= Len(tree) /\ chunk[g] < ChunkCount /\ phase = "searching"
      /\ chunk[g] \in 0..ChunkCount /\ chunk[g] + 1 \in 0..ChunkCount /\ i[g] \in 0..ChunkSize
      /\ UNCHANGED <<tree, start, phase, present, keys, seen, order>>
  <2>1. /\ TypeOK /\ seen[g] <= Len(tree) /\ chunk[g] < ChunkCount /\ phase = "searching"
        /\ UNCHANGED <<tree, start, phase, present, keys, seen, order>>
    BY DEF FoundInv, FindInChunk
  <2>2. chunk[g] \in 0..ChunkCount /\ i[g] \in 0..ChunkSize
    BY <2>1 DEF TypeOK
  <2>3. chunk[g] + 1 \in 0..ChunkCount
    BY <2>1, <2>2, Sizes
  <2> QED BY <2>1, <2>2, <2>3
<1>2. ASSUME UNCHANGED <<found, i, skip>>,
             \/ chunk' = chunk /\ pc' = [pc EXCEPT ![g] = "failed"]
             \/ chunk' = [chunk EXCEPT ![g] = @ + 1] /\ pc' = [pc EXCEPT ![g] = "fetch"]
      PROVE  FoundInv'
  <2>1. TypeOK'
    BY <1>1, <1>2 DEF TypeOK
  <2>2. \A h \in Chunks : pc'[h] = "scan" => pc[h] = "scan" /\ chunk'[h] = chunk[h]
    BY <1>1, <1>2 DEF TypeOK
  <2> QED BY <1>1, <1>2, <2>1, <2>2 DEF FoundInv
<1>3. CASE FindEntry(g)
  <2>1. ASSUME NEW c \in Hits(g)
        PROVE  \E n \in 1..Len(tree) : tree[n] = c /\ AccIndexToGlobal(chunk[g], i[g]) = GlobalOf(n)
    <3>1. c = EntryHere(g) /\ c \in Wanted
      BY DEF Hits, LeftToFind, Group
    <3>2. PICK n \in 1..seen[g] : GlobalOf(n) = Here(g) /\ tree[n] = c
      BY <1>1, <3>1, EntryAt
    <3>3. n \in 1..Len(tree)
      BY <1>1, Sizes DEF TypeOK
    <3> QED BY <1>1, <3>2, <3>3, EntryAt
  <2>2. \A n \in 1..Len(tree) : GlobalOf(n) \in 0..(FirstLeaf + Leaves - 1)
    <3> TAKE n \in 1..Len(tree)
    <3>1. n \in Nat /\ n >= 1 /\ n <= Leaves
      BY <1>1, Sizes DEF TypeOK
    <3>2. GlobalOf(n) = FirstLeaf + n - 1
      BY <3>1, Globals
    <3> QED BY <3>1, <3>2, Sizes
  <2>3. /\ found' \in [Wanted -> 0..(FirstLeaf + Leaves - 1) \cup {Missing}]
        /\ \A c \in Wanted : found'[c] =
              IF c \in Hits(g) THEN AccIndexToGlobal(chunk[g], i[g]) ELSE found[c]
    <3>1. found' = [c \in Wanted |-> IF c \in Hits(g) THEN AccIndexToGlobal(chunk[g], i[g]) ELSE found[c]]
      BY <1>3 DEF FindEntry
    <3> QED BY <1>1, <2>1, <2>2, <3>1 DEF TypeOK
  <2>4. i' \in [Chunks -> 0..ChunkSize] /\ skip' \in [Chunks -> Nat]
    <3>1. AfterFound(g, skip[g] + 1) \in 0..ChunkSize /\ i[g] + 1 \in 0..ChunkSize
      <4> DEFINE n == skip[g] + 1
      <4>1. i[g] + 1 \in 0..ChunkSize
        BY <1>1, <1>3, Sizes DEF FindEntry
      <4>3. ASSUME n + 1 \in DOMAIN order[g] PROVE StartIn(order[g][n + 1], chunk[g]) \in 0..ChunkSize
        <5>1. order[g][n + 1] \in Wanted
          BY <1>1, <4>3 DEF TypeOK
        <5>2. start \in [Wanted -> Starts] /\ chunk[g] \in Int
          BY <1>1, Sizes DEF TypeOK
        <5>3. StartIn(order[g][n + 1], chunk[g]) \in 0..(ChunkSize - 1)
          BY <5>1, <5>2, StartInFacts
        <5> QED BY <5>3, Sizes
      <4> HIDE DEF n
      <4>4. AfterFound(g, n) \in 0..ChunkSize
        BY <4>1, <4>3 DEF AfterFound
      <4> QED BY <4>1, <4>4 DEF n
    <3>2. \/ skip' = skip /\ i' = [i EXCEPT ![g] = @ + 1]
          \/ skip' = [skip EXCEPT ![g] = @ + 1] /\ i' = [i EXCEPT ![g] = AfterFound(g, skip[g] + 1)]
      BY <1>3 DEF FindEntry
    <3>3. i \in [Chunks -> 0..ChunkSize] /\ skip \in [Chunks -> Nat]
      BY <1>1 DEF TypeOK
    <3>4. skip[g] + 1 \in Nat
      BY <3>3
    <3>5. CASE skip' = skip /\ i' = [i EXCEPT ![g] = @ + 1]
      BY <3>1, <3>3, <3>5
    <3>6. CASE skip' = [skip EXCEPT ![g] = @ + 1] /\ i' = [i EXCEPT ![g] = AfterFound(g, skip[g] + 1)]
      <4>1. skip' \in [Chunks -> Nat]
        BY <3>3, <3>4, <3>6
      <4>2. i' \in [Chunks -> 0..ChunkSize]
        BY <3>1, <3>3, <3>6, Zenon
      <4> QED BY <4>1, <4>2
    <3> QED BY <3>2, <3>5, <3>6
  <2>5. /\ pc' \in [Chunks -> {"idle", "fetch", "scan", "done", "failed", "unanswered"}]
        /\ chunk' \in [Chunks -> 0..ChunkCount]
        /\ \A h \in Chunks : pc'[h] = "scan" => pc[h] = "scan" /\ chunk'[h] = chunk[h]
    <3>1. /\ pc \in [Chunks -> {"idle", "fetch", "scan", "done", "failed", "unanswered"}]
          /\ chunk \in [Chunks -> 0..ChunkCount]
      BY <1>1 DEF TypeOK
    <3>2. CASE UNCHANGED <<pc, chunk>>
      BY <3>1, <3>2
    <3>3. CASE pc' = [pc EXCEPT ![g] = "fetch"] /\ chunk' = [chunk EXCEPT ![g] = @ + 1]
      BY <1>1, <3>1, <3>3
    <3> QED BY <1>3, <3>2, <3>3 DEF FindEntry
  <2>6. TypeOK'
    BY <1>1, <2>3, <2>4, <2>5 DEF TypeOK
  <2>7. ASSUME NEW c \in Wanted, found'[c] # Missing
        PROVE  \E n \in 1..Len(tree) : tree[n] = c /\ found'[c] = GlobalOf(n)
    BY <2>1, <2>3, <2>7 DEF FoundInv
  <2> QED BY <1>1, <2>5, <2>6, <2>7 DEF FoundInv
<1>4. CASE /\ EntryHere(g) = Zero /\ pc' = [pc EXCEPT ![g] = "failed"]
           /\ UNCHANGED <<found, chunk, i, skip>>
  BY <1>2, <1>4
<1>5. CASE /\ i[g] >= ChunkSize /\ pc' = [pc EXCEPT ![g] = "fetch"]
           /\ chunk' = [chunk EXCEPT ![g] = @ + 1] /\ UNCHANGED <<found, i, skip>>
  BY <1>2, <1>5
<1> QED BY <1>3, <1>4, <1>5 DEF FindInChunk, FindEntry, EntryHere, Hits

LEMMA NextFound == FoundInv /\ [Next]_vars => FoundInv'
<1> SUFFICES ASSUME FoundInv, [Next]_vars PROVE FoundInv'
  OBVIOUS
<1>1. CASE UNCHANGED vars
  BY <1>1 DEF vars, FoundInv, TypeOK
<1>2. ASSUME NEW g \in Chunks, Search(g) PROVE FoundInv'
  BY <1>2, NextChunkFound, FindFound DEF Search
<1> QED BY <1>1, <1>2, InsertFound, CallFound DEF Next

(* What a search has found is the index at which the commitment lies, also   *)
(* where decimal strings sort otherwise than numbers, and a call that ends   *)
(* well has found them all.                                                  *)
THEOREM FoundWhereItLies == Spec => []FoundInv
BY InitFound, NextFound, PTL DEF Spec

(* Types, among them that an index found is an index of the tree.            *)
THEOREM IndicesInTree == Spec => []TypeOK
<1>1. FoundInv => TypeOK
  BY DEF FoundInv
<1> QED BY <1>1, FoundWhereItLies, PTL

-----------------------------------------------------------------------------
(* The search within CommitmentInfo.                                         *)
LEMMA InfoStep == [InfoNext]_allVars => [Next]_vars
<1> SUFFICES ASSUME [InfoNext]_allVars PROVE [Next]_vars
  OBVIOUS
<1>1. CASE UNCHANGED allVars
  BY <1>1 DEF allVars
<1>2. CASE SearchGrows \/ SearchBegins \/ SearchReturns \/ ReturnInfo
  BY <1>2 DEF SearchGrows, SearchBegins, SearchReturns, ReturnInfo, Next
<1>3. CASE \E g \in Chunks : SearchSteps(g)
  BY <1>3 DEF SearchSteps, Next
<1>4. CASE GetOpenings \/ ReadStep
  BY <1>4 DEF GetOpenings, ReadStep, ReadChunk, NoChunk, ReadRoot, OpeningNodeError, GetCommitmentsInfo
<1> QED BY <1>1, <1>2, <1>3, <1>4 DEF InfoNext

(* Reading the partners and the root does not disturb the search: what a     *)
(* caller of getCommitmentsInfo sees of it is a search of its own.           *)
THEOREM ImplementsSearch == InfoSpec => Spec
<1>1. InfoInit => Init
  BY DEF InfoInit
<1> QED BY <1>1, InfoStep, PTL DEF InfoSpec, Spec

(* getCommitmentsInfo too finds every commitment that was in the tree when   *)
(* it was called, as long as the start indices that one search sorts have    *)
(* the same number of digits.                                                *)
THEOREM FindsAllToOpen == SameDigits => (InfoSpec => []SearchComplete)
BY ImplementsSearch, FindsAll

-----------------------------------------------------------------------------
(* Powers of two.                                                            *)
LEMMA Least ==
    ASSUME NEW S, S \subseteq Nat, S # {}
    PROVE  \E k \in S : \A l \in S : k <= l
<1>1. PICK k \in S : \A l \in S : ~(<<l, k>> \in OpToRel(<, Nat))
  BY NatLessThanWellFounded, WFMin
<1>2. \A l \in S : <<l, k>> \in OpToRel(<, Nat) <=> l < k
  BY DEF OpToRel
<1>3. \A l \in S : ~(l < k)
  BY <1>1, <1>2, Zenon
<1> QED BY <1>3

(* A set of numbers with 0 and with the successor of each is that of all.    *)
LEMMA AllNumbers ==
    ASSUME NEW S, S \subseteq Nat, 0 \in S, \A n \in S : n + 1 \in S
    PROVE  \A n \in Nat : n \in S
<1> SUFFICES ASSUME Nat \ S # {} PROVE FALSE
  BY Zenon
<1>1. PICK k \in Nat \ S : \A l \in Nat \ S : k <= l
  <2> DEFINE T == Nat \ S
  <2>1. T \subseteq Nat /\ T # {}
    OBVIOUS
  <2> HIDE DEF T
  <2>2. PICK k \in T : \A l \in T : k <= l
    BY <2>1, Least
  <2> QED BY <2>2 DEF T
<1>2. k \in Nat /\ k # 0
  BY <1>1
<1>3. k - 1 \in Nat /\ ~(k <= k - 1) /\ (k - 1) + 1 = k
  BY <1>2
<1>4. k - 1 \in S
  BY <1>1, <1>3
<1> QED BY <1>1, <1>3, <1>4

(* Powers of two, of which the provers know only that they count subsets.    *)
LEMMA Subsets ==
    ASSUME NEW n \in Nat
    PROVE  IsFiniteSet(SUBSET (1..n)) /\ Cardinality(SUBSET (1..n)) = 2 ^ n
<1>1. IsFiniteSet(1..n) /\ Cardinality(1..n) = n
  BY FS_Interval
<1> QED BY <1>1, FS_SUBSET

LEMMA PowerZero == 2 ^ 0 = 1
<1>1. SUBSET (1..0) = {{}}
  <2>1. 1..0 = {}
    OBVIOUS
  <2> QED BY <2>1
<1>2. Cardinality({{}}) = 1
  BY FS_Singleton
<1> QED BY <1>1, <1>2, Subsets

LEMMA PowerNext ==
    ASSUME NEW n \in Nat
    PROVE  2 ^ n \in Nat \ {0} /\ 2 ^ (n + 1) = 2 * 2 ^ n
<1> DEFINE A == SUBSET (1..n)
           f == [s \in A |-> s \cup {n + 1}]
           B == {s \cup {n + 1} : s \in A}
<1>1. IsFiniteSet(A) /\ Cardinality(A) = 2 ^ n
  BY Subsets
<1>2. SUBSET (1..(n + 1)) = A \cup B /\ A \cap B = {}
  <2>1. 1..(n + 1) = (1..n) \cup {n + 1} /\ n + 1 \notin 1..n
    OBVIOUS
  <2>2. ASSUME NEW s \in SUBSET (1..(n + 1)) PROVE s \in A \cup B
    <3>1. CASE n + 1 \in s
      <4>1. s \ {n + 1} \in A /\ s = (s \ {n + 1}) \cup {n + 1}
        BY <2>1, <3>1
      <4> QED BY <4>1
    <3>2. CASE n + 1 \notin s
      BY <2>1, <3>2
    <3> QED BY <3>1, <3>2
  <2>3. ASSUME NEW s \in A \cup B PROVE s \in SUBSET (1..(n + 1))
    BY <2>1
  <2>4. A \cap B = {}
    BY <2>1
  <2> QED BY <2>2, <2>3, <2>4
<1>3. ExistsBijection(A, B)
  <2>1. f \in [A -> B]
    OBVIOUS
  <2>2. ASSUME NEW s \in A, NEW t \in A, f[s] = f[t] PROVE s = t
    <3>1. s \cup {n + 1} = t \cup {n + 1} /\ n + 1 \notin s /\ n + 1 \notin t
      BY <2>2
    <3> QED BY <3>1
  <2>3. \A u \in B : \E s \in A : f[s] = u
    OBVIOUS
  <2>4. f \in Bijection(A, B)
    <3> HIDE DEF A, B, f
    <3> QED BY <2>1, <2>2, <2>3 DEF Bijection, Injection, Surjection, IsInjective
  <2> QED BY <2>4 DEF ExistsBijection
<1>4. IsFiniteSet(B) /\ Cardinality(B) = 2 ^ n
  BY <1>1, <1>3, FS_Bijection
<1>5. Cardinality(A \cup B) = 2 ^ n + 2 ^ n
  <2>1. Cardinality(A \cap B) = 0
    BY <1>2, FS_EmptySet
  <2>2. 2 ^ n \in Nat
    BY <1>1, FS_CardinalityType
  <2> HIDE DEF A, B
  <2>3. Cardinality(A \cup B) = Cardinality(A) + Cardinality(B) - Cardinality(A \cap B)
    BY <1>1, <1>4, FS_Union
  <2> QED BY <1>1, <1>4, <2>1, <2>2, <2>3
<1>6. 2 ^ n \in Nat /\ 2 ^ n # 0
  <2>1. {} \in A
    OBVIOUS
  <2> HIDE DEF A
  <2>2. Cardinality(A) \in Nat /\ Cardinality(A) # 0
    BY <1>1, <2>1, FS_CardinalityType, FS_EmptySet
  <2> QED BY <1>1, <2>2
<1>7. n + 1 \in Nat
  OBVIOUS
<1>8. 2 ^ (n + 1) = 2 ^ n + 2 ^ n
  BY <1>2, <1>5, <1>7, Subsets
<1> QED BY <1>6, <1>8

LEMMA PowerSum ==
    ASSUME NEW m \in Nat, NEW n \in Nat
    PROVE  2 ^ (m + n) = 2 ^ m * 2 ^ n
<1> DEFINE S == {k \in Nat : 2 ^ (m + k) = 2 ^ m * 2 ^ k}
<1>1. S \subseteq Nat /\ 0 \in S
  <2>1. m + 0 = m /\ 2 ^ m \in Nat /\ 2 ^ m * 1 = 2 ^ m
    BY PowerNext
  <2> QED BY <2>1, PowerZero
<1>2. ASSUME NEW k \in S PROVE k + 1 \in S
  <2>1. k \in Nat /\ k + 1 \in Nat /\ m + (k + 1) = (m + k) + 1 /\ m + k \in Nat
    OBVIOUS
  <2>2. 2 ^ (m + (k + 1)) = 2 * (2 ^ m * 2 ^ k)
    BY <2>1, PowerNext
  <2>3. 2 ^ m \in Nat /\ 2 ^ k \in Nat /\ 2 ^ (k + 1) = 2 * 2 ^ k
    BY <2>1, PowerNext
  <2>4. ASSUME NEW a \in Nat, NEW b \in Nat PROVE 2 * (a * b) = a * (2 * b)
    OBVIOUS
  <2>5. 2 ^ (m + (k + 1)) = 2 ^ m * 2 ^ (k + 1)
    BY <2>2, <2>3, <2>4
  <2> QED BY <2>1, <2>5
<1> HIDE DEF S
<1>3. n \in S
  BY <1>1, <1>2, AllNumbers
<1> QED BY <1>3 DEF S

LEMMA PowerGrows ==
    ASSUME NEW m \in Nat, NEW n \in Nat, m <= n
    PROVE  2 ^ m <= 2 ^ n
<1>1. n - m \in Nat /\ m + (n - m) = n
  OBVIOUS
<1>2. 2 ^ n = 2 ^ m * 2 ^ (n - m)
  BY <1>1, PowerSum
<1>3. 2 ^ m \in Nat \ {0} /\ 2 ^ (n - m) \in Nat \ {0}
  BY <1>1, PowerNext
<1>4. \A a, b \in Nat \ {0} : a <= a * b
  OBVIOUS
<1> QED BY <1>2, <1>3, <1>4

-----------------------------------------------------------------------------
(* Where the nodes of the tree lie.                                          *)

(* Between two multiples there is one quotient.                              *)
LEMMA Quotient ==
    ASSUME NEW k \in Nat, NEW n \in Nat \ {0}, NEW q \in Nat
    PROVE  /\ k \div n \in Nat /\ (k \div n) * n <= k /\ k < (k \div n + 1) * n
           /\ q * n <= k /\ k < (q + 1) * n => k \div n = q
<1> DEFINE d == k \div n
<1>1. d \in Nat /\ k % n \in 0..(n - 1) /\ d * n + (k % n) = k
  BY DivMod
<1>2. d * n \in Int /\ q * n \in Int /\ (d + 1) * n = d * n + n /\ (q + 1) * n = q * n + n
  BY <1>1, Multiples
<1>3. k % n \in Int /\ k % n >= 0 /\ k % n < n
  BY <1>1
<1> DEFINE r == k % n
           dn == d * n
           qn == q * n
<1>4. dn <= k /\ k < dn + n
  <2> HIDE DEF d, r, dn
  <2> QED BY <1>1, <1>2, <1>3 DEF dn, r
<1>5. ASSUME q * n <= k, k < (q + 1) * n PROVE d = q
  <2>1. d + 1 <= q => (d + 1) * n <= q * n
    BY <1>1, Multiples
  <2>2. q + 1 <= d => (q + 1) * n <= d * n
    BY <1>1, Multiples
  <2>3. d \in Nat
    BY <1>1
  <2>4. qn <= k /\ k < qn + n /\ (d + 1 <= q => dn + n <= qn) /\ (q + 1 <= d => qn + n <= dn)
    BY <1>2, <1>5, <2>1, <2>2
  <2>5. qn \in Int /\ dn \in Int
    BY <1>2
  <2> HIDE DEF d, dn, qn
  <2> QED BY <1>4, <2>3, <2>4, <2>5
<1> QED BY <1>1, <1>2, <1>4, <1>5

Index(level) == 0..(NodeCountLevel(level) - 1)

LEMMA Levels ==
    ASSUME NEW level \in 0..Height
    PROVE  /\ level \in Nat /\ Height - level \in Nat
           /\ NodeCountLevel(level) \in Nat \ {0} /\ LeavesBelow(level) \in Nat \ {0}
           /\ NodeCountLevel(level) * LeavesBelow(level) = Leaves
           /\ FirstLeaf = Leaves - 1
<1>1. level \in Nat /\ Height - level \in Nat /\ level + (Height - level) = Height
  BY TreeAssumption
<1> QED BY <1>1, PowerNext, PowerSum DEF NodeCountLevel, LeavesBelow, Leaves, FirstLeaf

(* One level up there are half as many nodes, each with twice the leaves.    *)
LEMMA LevelUp ==
    ASSUME NEW level \in 1..Height
    PROVE  /\ level - 1 \in 0..Height /\ level \in 0..Height
           /\ NodeCountLevel(level) = 2 * NodeCountLevel(level - 1)
           /\ LeavesBelow(level - 1) = 2 * LeavesBelow(level)
<1>1. level - 1 \in Nat /\ (level - 1) + 1 = level /\ level - 1 \in 0..Height /\ level \in 0..Height
  BY TreeAssumption
<1>2. Height - level \in Nat /\ (Height - level) + 1 = Height - (level - 1)
  BY TreeAssumption
<1> QED BY <1>1, <1>2, PowerNext DEF NodeCountLevel, LeavesBelow

LEMMA ToLocal ==
    ASSUME NEW level \in 0..Height, NEW index \in Index(level)
    PROVE  GlobalToLocal(LocalToGlobal(LocalIndex(level, index))) = LocalIndex(level, index)
<1> DEFINE g == LocalToGlobal(LocalIndex(level, index))
           N == NodeCountLevel(level)
<1>1. N \in Nat /\ NodeCountLevel(level + 1) = 2 * N /\ level \in Nat /\ level + 1 \in Nat
  BY Levels, PowerNext DEF NodeCountLevel
<1>2. g = N - 1 + index /\ index \in Nat /\ index < N
  BY <1>1 DEF LocalToGlobal, LocalIndex, Index
<1>3. g \in Int /\ N <= g + 1 /\ g + 1 < NodeCountLevel(level + 1)
  <2> HIDE DEF g, N
  <2> QED BY <1>1, <1>2
<1>4. ASSUME NEW l \in 0..Height, NodeCountLevel(l) <= g + 1, g + 1 < NodeCountLevel(l + 1)
      PROVE  l = level
  <2>1. l \in Nat /\ l + 1 \in Nat
    OBVIOUS
  <2>2. l + 1 <= level => NodeCountLevel(l + 1) <= N
    BY <1>1, <2>1, PowerGrows DEF NodeCountLevel
  <2>3. level + 1 <= l => NodeCountLevel(level + 1) <= NodeCountLevel(l)
    BY <1>1, <2>1, PowerGrows DEF NodeCountLevel
  <2>4. NodeCountLevel(l + 1) \in Nat /\ NodeCountLevel(l) \in Nat
    BY <2>1, PowerNext DEF NodeCountLevel
  <2> HIDE DEF g, N
  <2> QED BY <1>1, <1>3, <1>4, <2>1, <2>2, <2>3, <2>4
<1>5. LevelFromIndex(g) = level
  <2> HIDE DEF g
  <2> QED BY <1>3, <1>4 DEF LevelFromIndex
<1>6. g - (N - 1) = index
  <2> HIDE DEF g, N
  <2> QED BY <1>1, <1>2
<1> QED BY <1>5, <1>6 DEF GlobalToLocal

LEMMA InChunk ==
    ASSUME NEW g \in Nat
    PROVE  /\ AccIndexToGlobal(IndexOfAccount(g), IndexInAccount(g)) = g
           /\ IndexOfAccount(g) \in Nat /\ IndexOfAccount(g) * ChunkSize \in Nat
           /\ IndexInAccount(g) \in 0..(ChunkSize - 1)
           /\ g = IndexOfAccount(g) * ChunkSize + IndexInAccount(g)
<1>1. g \div ChunkSize \in Nat /\ g % ChunkSize \in 0..(ChunkSize - 1)
      /\ (g \div ChunkSize) * ChunkSize + (g % ChunkSize) = g
  BY Sizes, DivMod
<1>2. (g \div ChunkSize) * ChunkSize \in Nat
  BY <1>1, Sizes
<1> QED BY <1>1, <1>2 DEF AccIndexToGlobal, IndexOfAccount, IndexInAccount

(* The nodes on the way up from a leaf, and their partners.                  *)
LEMMA OnThePath ==
    ASSUME NEW k \in 0..(Leaves - 1), NEW level \in 0..Height
    PROVE  LET p == PathIndex(LocalIndex(Height, k), level)
           IN  /\ p \in Index(level)
               /\ p * LeavesBelow(level) <= k /\ k < (p + 1) * LeavesBelow(level)
               /\ p * LeavesBelow(level) \in Nat
<1> DEFINE p == PathIndex(LocalIndex(Height, k), level)
           b == LeavesBelow(level)
           N == NodeCountLevel(level)
<1>1. b \in Nat \ {0} /\ N \in Nat \ {0} /\ N * b = Leaves /\ k \in Nat /\ k < Leaves /\ Leaves \in Nat
  BY Levels, Sizes
<1>2. p = k \div b
  BY DEF PathIndex, LocalIndex, LeavesBelow, NodeCountLevel
<1>3. p \in Nat /\ p * b <= k /\ k < (p + 1) * b
  <2> HIDE DEF b, p
  <2> QED BY <1>1, <1>2, Quotient
<1>4. p < N
  <2> HIDE DEF b, p, N
  <2>1. N <= p => N * b <= p * b
    BY <1>1, <1>3, Multiples
  <2>2. p * b \in Int
    BY <1>1, <1>3, Multiples
  <2> QED BY <1>1, <1>3, <2>1, <2>2
<1>5. p * b \in Nat
  <2> HIDE DEF b, p
  <2> QED BY <1>1, <1>3
<1> QED BY <1>1, <1>3, <1>4, <1>5 DEF Index

LEMMA PathUp ==
    ASSUME NEW k \in 0..(Leaves - 1), NEW level \in 1..Height
    PROVE  LET p == PathIndex(LocalIndex(Height, k), level)
               up == PathIndex(LocalIndex(Height, k), level - 1)
           IN  /\ up \in Nat
               /\ IF OnTheRight(p) THEN Partner(p) = 2 * up /\ p = 2 * up + 1
                                   ELSE p = 2 * up /\ Partner(p) = 2 * up + 1
               /\ Partner(p) \in Index(level)
<1> DEFINE p == PathIndex(LocalIndex(Height, k), level)
           up == PathIndex(LocalIndex(Height, k), level - 1)
           b == LeavesBelow(level)
           N == NodeCountLevel(level - 1)
<1>1. level \in 0..Height /\ level - 1 \in 0..Height /\ NodeCountLevel(level) = 2 * N
      /\ LeavesBelow(level - 1) = 2 * b /\ b \in Nat \ {0} /\ N \in Nat \ {0}
  BY LevelUp, Levels
<1>2. p \in Nat /\ p < 2 * N /\ p * b <= k /\ k < (p + 1) * b
  BY <1>1, OnThePath DEF Index
<1>3. up \in Nat /\ up < N /\ up * (2 * b) <= k /\ k < (up + 1) * (2 * b)
  BY <1>1, OnThePath DEF Index
<1> HIDE DEF p, up, b, N
<1>4. p \div 2 = up
  <2> DEFINE h == p \div 2
  <2>1. h \in Nat /\ h * 2 <= p /\ p < (h + 1) * 2
    BY <1>2, Quotient
  <2> HIDE DEF h
  <2>2. (h * 2) * b <= p * b /\ (p + 1) * b <= ((h + 1) * 2) * b
    <3>1. h * 2 \in Int /\ p \in Int /\ p + 1 \in Int /\ (h + 1) * 2 \in Int /\ p + 1 <= (h + 1) * 2
      BY <1>2, <2>1
    <3> QED BY <1>1, <2>1, <3>1, Multiples
  <2>3. (h * 2) * b = h * (2 * b) /\ ((h + 1) * 2) * b = (h + 1) * (2 * b)
    <3>1. \A x \in Nat, y \in Nat : (x * 2) * y = x * (2 * y)
      OBVIOUS
    <3> QED BY <1>1, <2>1, <3>1
  <2>4. p * b \in Int /\ (p + 1) * b \in Int /\ h * (2 * b) \in Int /\ (h + 1) * (2 * b) \in Int
    BY <1>1, <1>2, <2>1
  <2>5. h * (2 * b) <= k /\ k < (h + 1) * (2 * b)
    BY <1>2, <2>2, <2>3, <2>4
  <2>6. k \div (2 * b) = h /\ k \div (2 * b) = up
    <3>1. 2 * b \in Nat \ {0} /\ k \in Nat
      BY <1>1
    <3> QED BY <1>3, <2>1, <2>5, <3>1, Quotient
  <2> QED BY <2>6 DEF h
<1>5. p = 2 * up + (p % 2) /\ p % 2 \in {0, 1}
  <2>1. p % 2 \in 0..(2 - 1) /\ (p \div 2) * 2 + (p % 2) = p
    BY <1>2, DivMod
  <2> DEFINE r == p % 2
  <2>2. r \in {0, 1} /\ up * 2 + r = p
    BY <1>4, <2>1
  <2> HIDE DEF r
  <2>3. r \in {0, 1} /\ p = 2 * up + r
    BY <1>2, <1>3, <2>2
  <2> QED BY <2>3 DEF r
<1>6. CASE OnTheRight(p)
  <2>1. p = 2 * up + 1 /\ Partner(p) = p - 1
    BY <1>5, <1>6 DEF OnTheRight, Partner
  <2> QED BY <1>1, <1>3, <1>6, <2>1 DEF Index, p, up
<1>7. CASE ~OnTheRight(p)
  <2>1. p % 2 = 0 /\ Partner(p) = p + 1
    BY <1>5, <1>7 DEF OnTheRight, Partner
  <2>2. p = 2 * up
    BY <1>3, <1>5, <2>1
  <2> QED BY <1>1, <1>3, <1>7, <2>1, <2>2 DEF Index, p, up
<1> QED BY <1>6, <1>7

-----------------------------------------------------------------------------
(* What an opening has read so far is of trees in which all the commitments  *)
(* are, where they were found.                                               *)
ReadAt(n) == n = Unread \/ n \in stored..Len(tree)

ReadingInv ==
    /\ stored \in 0..Len(tree)
    /\ \A c \in Wanted : \E n \in 1..stored : tree[n] = c /\ found[c] = GlobalOf(n)
    /\ DOMAIN read = UniqueAccs
    /\ \A account \in UniqueAccs : ReadAt(read[account])
    /\ ReadAt(root)

OpeningInv ==
    /\ opening \in {"none", "reading", "done", "noChunk", "nodeError"}
    /\ opening = "none" => root = Unread
    /\ opening # "none" => phase = "found" /\ ReadingInv
    /\ opening = "done" => root # Unread /\ \A account \in UniqueAccs : read[account] # Unread
    /\ opening = "noChunk" => \E account \in UniqueAccs : account * ChunkSize >= FirstLeaf + stored

(* The tree grows; nothing else that a reading depends on changes.           *)
LEMMA TreeGrows ==
    ASSUME FoundInv, OpeningInv, UNCHANGED <<phase, found, infoVars>>,
           \/ tree' = tree
           \/ \E c \in Wanted \cup {Other} : tree' = Append(tree, c)
    PROVE  OpeningInv'
<1>1. /\ tree \in Seq(Wanted \cup {Other}) /\ Len(tree) \in Nat
      /\ Len(tree') \in Nat /\ Len(tree) <= Len(tree')
      /\ \A n \in 1..Len(tree) : tree'[n] = tree[n]
  <2>1. tree \in Seq(Wanted \cup {Other}) /\ Len(tree) \in Nat
    BY DEF FoundInv, TypeOK
  <2>2. ASSUME NEW c \in Wanted \cup {Other}, tree' = Append(tree, c)
        PROVE  Len(tree') = Len(tree) + 1 /\ \A n \in 1..Len(tree) : tree'[n] = tree[n]
    BY <2>1, <2>2
  <2> QED BY <2>1, <2>2
<1>2. UniqueAccs' = UniqueAccs
  BY DEF UniqueAccs, Leaf
<1>3. ASSUME opening # "none" PROVE ReadingInv'
  <2>1. ReadingInv /\ stored \in Nat /\ stored <= Len(tree)
    BY <1>1, <1>3 DEF OpeningInv, ReadingInv
  <2>2. \A n \in 1..stored : n \in 1..Len(tree)
    BY <1>1, <2>1
  <2>3. ASSUME NEW n, ReadAt(n) PROVE ReadAt(n)'
    BY <1>1, <2>1, <2>3 DEF ReadAt, infoVars
  <2>4. \A c \in Wanted : \E n \in 1..stored : tree'[n] = c /\ found'[c] = GlobalOf(n)
    <3> TAKE c \in Wanted
    <3>1. PICK n \in 1..stored : tree[n] = c /\ found[c] = GlobalOf(n)
      BY <2>1 DEF ReadingInv
    <3> QED BY <1>1, <2>2, <3>1
  <2>5. stored \in 0..Len(tree')
    BY <1>1, <2>1
  <2> QED BY <1>2, <2>1, <2>3, <2>4, <2>5 DEF ReadingInv, infoVars
<1> QED BY <1>2, <1>3 DEF OpeningInv, infoVars

LEMMA SearchOpening ==
    ASSUME FoundInv, OpeningInv,
           SearchGrows \/ SearchBegins \/ SearchReturns \/ \E g \in Chunks : SearchSteps(g)
    PROVE  OpeningInv'
<1>1. CASE SearchGrows
  BY <1>1, TreeGrows DEF SearchGrows, Insert
<1>2. CASE SearchBegins \/ SearchReturns \/ \E g \in Chunks : SearchSteps(g)
  <2>1. phase # "found" /\ UNCHANGED infoVars
    BY <1>2 DEF SearchBegins, SearchReturns, SearchSteps, FindCommitmentIndices, GetCommitmentIndices,
       Search, NextChunk, NodeError, FindInChunk
  <2>2. opening = "none" /\ root = Unread
    BY <2>1 DEF OpeningInv
  <2> QED BY <2>1, <2>2 DEF OpeningInv, infoVars
<1> QED BY <1>1, <1>2

LEMMA GetOpeningsInv ==
    ASSUME FoundInv, OpeningInv, GetOpenings
    PROVE  OpeningInv'
<1>1. /\ phase = "found" /\ Len(tree) \in Nat /\ root = Unread
      /\ opening' = "reading" /\ stored' = Len(tree) /\ UNCHANGED <<vars, root>>
      /\ read' = [account \in UniqueAccs |-> Unread]
  BY DEF OpeningInv, FoundInv, TypeOK, GetOpenings
<1>2. UNCHANGED <<tree, phase, found>>
  BY <1>1 DEF vars
<1>3. UniqueAccs' = UniqueAccs
  BY <1>2 DEF UniqueAccs, Leaf
<1>4. \A c \in Wanted : \E n \in 1..stored' : tree'[n] = c /\ found'[c] = GlobalOf(n)
  BY <1>1, <1>2 DEF FoundInv
<1>5. stored' \in 0..Len(tree') /\ ReadAt(root)' /\ \A account \in UniqueAccs : ReadAt(read[account])'
  BY <1>1, <1>2, <1>3 DEF ReadAt
<1>6. ReadingInv'
  BY <1>1, <1>3, <1>4, <1>5 DEF ReadingInv
<1> QED BY <1>1, <1>2, <1>6 DEF OpeningInv

(* A request is answered, or fails, or the caller has what it asked for.     *)
LEMMA ReadStepInv ==
    ASSUME FoundInv, OpeningInv, ReadStep
    PROVE  OpeningInv'
<1>1. /\ opening = "reading" /\ UNCHANGED <<tree, phase, found, stored>>
      /\ phase = "found" /\ ReadingInv /\ stored \in Nat /\ Len(tree) \in Nat /\ stored <= Len(tree)
  <2>1. opening = "reading" /\ UNCHANGED <<vars, stored>>
    BY DEF ReadStep, ReadChunk, NoChunk, ReadRoot, OpeningNodeError, GetCommitmentsInfo
  <2>2. Len(tree) \in Nat /\ phase = "found" /\ ReadingInv
    BY <2>1 DEF FoundInv, TypeOK, OpeningInv
  <2> QED BY <2>1, <2>2 DEF vars, ReadingInv
<1>2. UniqueAccs' = UniqueAccs
  BY <1>1 DEF UniqueAccs, Leaf
<1>3. ASSUME DOMAIN read' = UniqueAccs, ReadAt(root'),
             \A account \in UniqueAccs : ReadAt(read'[account])
      PROVE  ReadingInv'
  <2>1. \A n : ReadAt(n)' <=> ReadAt(n')
    BY <1>1 DEF ReadAt
  <2> QED BY <1>1, <1>2, <1>3 DEF ReadingInv, ReadAt
<1>4. ReadAt(Len(tree))
  BY <1>1 DEF ReadAt
<1>5. ASSUME NEW account, ReadChunk(account) PROVE OpeningInv'
  <2>1. /\ account \in UniqueAccs /\ opening' = opening /\ root' = root
        /\ read' = [read EXCEPT ![account] = Len(tree)]
    BY <1>1, <1>5 DEF ReadChunk, ReadingInv
  <2>2. DOMAIN read' = UniqueAccs /\ \A a \in UniqueAccs : read'[a] \in {read[a], Len(tree)}
    BY <1>1, <2>1 DEF ReadingInv
  <2>3. \A a \in UniqueAccs : ReadAt(read'[a])
    BY <1>1, <1>4, <2>2 DEF ReadingInv
  <2>4. ReadingInv'
    BY <1>1, <1>3, <2>1, <2>2, <2>3 DEF ReadingInv
  <2> QED BY <1>1, <2>1, <2>4 DEF OpeningInv
<1>6. CASE ReadRoot
  <2>1. opening' = opening /\ root' = Len(tree) /\ read' = read
    BY <1>6 DEF ReadRoot
  <2>2. ReadingInv'
    BY <1>1, <1>3, <1>4, <2>1 DEF ReadingInv
  <2> QED BY <1>1, <2>1, <2>2 DEF OpeningInv
<1>7. ASSUME UNCHANGED <<read, root>> PROVE ReadingInv'
  BY <1>1, <1>3, <1>7 DEF ReadingInv
<1>8. ASSUME NEW account, NoChunk(account) PROVE OpeningInv'
  <2>1. /\ account \in UniqueAccs /\ account * ChunkSize >= FirstLeaf + stored
        /\ opening' = "noChunk" /\ UNCHANGED <<read, root>>
    BY <1>1, <1>8 DEF NoChunk, ReadingInv
  <2> QED BY <1>1, <1>2, <1>7, <2>1 DEF OpeningInv
<1>9. CASE OpeningNodeError
  <2>1. opening' = "nodeError" /\ UNCHANGED <<read, root>>
    BY <1>9 DEF OpeningNodeError
  <2> QED BY <1>1, <1>7, <2>1 DEF OpeningInv
<1>10. CASE GetCommitmentsInfo
  <2>1. /\ opening' = "done" /\ UNCHANGED <<read, root>>
        /\ root # Unread /\ \A account \in UniqueAccs : read[account] # Unread
    BY <1>1, <1>10 DEF GetCommitmentsInfo, ReadingInv
  <2> QED BY <1>1, <1>2, <1>7, <2>1 DEF OpeningInv
<1> QED BY <1>5, <1>6, <1>8, <1>9, <1>10 DEF ReadStep

LEMMA OpeningNext == FoundInv /\ OpeningInv /\ [InfoNext]_allVars => OpeningInv'
<1> SUFFICES ASSUME FoundInv, OpeningInv, [InfoNext]_allVars PROVE OpeningInv'
  OBVIOUS
<1>1. CASE UNCHANGED allVars
  <2>1. UNCHANGED <<phase, found, infoVars>> /\ tree' = tree
    BY <1>1 DEF allVars, vars
  <2> QED BY <2>1, TreeGrows
<1>2. CASE ReturnInfo
  BY <1>2 DEF ReturnInfo, OpeningInv
<1> QED BY <1>1, <1>2, SearchOpening, GetOpeningsInv, ReadStepInv DEF InfoNext

LEMMA OpeningInvariant == InfoSpec => [](FoundInv /\ OpeningInv)
<1>1. InfoSpec => []FoundInv
  BY ImplementsSearch, FoundWhereItLies, PTL
<1>2. InfoInit => OpeningInv
  BY DEF InfoInit, OpeningInv
<1> QED BY <1>1, <1>2, OpeningNext, PTL DEF InfoSpec

-----------------------------------------------------------------------------
(* Where a commitment and the partners of its path are.                      *)
LEMMA LeafOf ==
    ASSUME FoundInv, ReadingInv, NEW c \in Wanted
    PROVE  \E n \in 1..stored :
              /\ tree[n] = c /\ n - 1 \in 0..(Leaves - 1) /\ stored \in Nat /\ stored <= Len(tree)
              /\ found[c] = FirstLeaf + (n - 1) /\ Leaf(c) = LocalIndex(Height, n - 1)
<1>1. PICK n \in 1..stored : tree[n] = c /\ found[c] = GlobalOf(n)
  BY DEF ReadingInv
<1>2. stored \in Nat /\ stored <= Len(tree) /\ Len(tree) <= Leaves /\ Len(tree) \in Nat
  BY Sizes DEF ReadingInv, FoundInv, TypeOK
<1>3. n \in Nat /\ n - 1 \in 0..(Leaves - 1)
  BY <1>2, Sizes
<1>4. found[c] = FirstLeaf + (n - 1)
  <2>1. GlobalOf(n) = FirstLeaf + n - 1
    BY <1>3, Globals
  <2> QED BY <1>1, <1>3, <2>1, Sizes
<1>5. Height \in 0..Height /\ n - 1 \in Index(Height)
  BY <1>3, TreeAssumption DEF Index, Leaves
<1>6. LocalToGlobal(LocalIndex(Height, n - 1)) = found[c]
  BY <1>4 DEF LocalToGlobal, LocalIndex, FirstLeaf
<1>7. Leaf(c) = LocalIndex(Height, n - 1)
  BY <1>5, <1>6, ToLocal DEF Leaf
<1> QED BY <1>1, <1>2, <1>3, <1>4, <1>7

LEMMA GlobalIn ==
    ASSUME NEW level \in 0..Height, NEW index \in Index(level)
    PROVE  /\ LocalToGlobal(LocalIndex(level, index)) \in Nat
           /\ level < Height => LocalToGlobal(LocalIndex(level, index)) < FirstLeaf
           /\ level = Height => LocalToGlobal(LocalIndex(level, index)) = FirstLeaf + index
<1>1. NodeCountLevel(level) \in Nat \ {0} /\ index \in Nat /\ index < NodeCountLevel(level)
  BY Levels DEF Index
<1>2. LocalToGlobal(LocalIndex(level, index)) = NodeCountLevel(level) - 1 + index
  BY DEF LocalToGlobal, LocalIndex
<1>3. level < Height => 2 * NodeCountLevel(level) <= Leaves
  <2>1. level + 1 \in Nat /\ level \in Nat /\ Height \in Nat /\ (level < Height => level + 1 <= Height)
    BY TreeAssumption
  <2> QED BY <2>1, PowerNext, PowerGrows DEF NodeCountLevel, Leaves
<1>4. FirstLeaf = Leaves - 1 /\ Leaves \in Nat
  BY Sizes DEF FirstLeaf, Leaves
<1> QED BY <1>1, <1>2, <1>3, <1>4 DEF FirstLeaf

(* A commitment that is in the tree can be spent: an opening cannot be read  *)
(* only because the partner of a last entry lies in a chunk of which nothing *)
(* is stored yet.                                                            *)
THEOREM OnlyAtChunkEnd == InfoSpec => []UnreadableAtChunkEnd
<1>1. FoundInv /\ OpeningInv => UnreadableAtChunkEnd
  <2> SUFFICES ASSUME FoundInv, OpeningInv, opening = "noChunk"
               PROVE  \E c \in Wanted : IndexInAccount(found[c]) = ChunkSize - 1
    BY DEF UnreadableAtChunkEnd
  <2>1. ReadingInv
    BY DEF OpeningInv
  <2>2. PICK account \in UniqueAccs : account * ChunkSize >= FirstLeaf + stored
    BY DEF OpeningInv
  <2>3. PICK c \in Wanted : \E level \in 1..Leaf(c).level : account = AccountOf(OpeningIndex(Leaf(c), level))
    BY DEF UniqueAccs
  <2>4. PICK level \in 1..Leaf(c).level : account = AccountOf(OpeningIndex(Leaf(c), level))
    BY <2>3
  <2>5. PICK n \in 1..stored :
           /\ n - 1 \in 0..(Leaves - 1) /\ stored \in Nat /\ found[c] = FirstLeaf + (n - 1)
           /\ Leaf(c) = LocalIndex(Height, n - 1)
    BY <2>1, LeafOf
  <2> DEFINE p == PathIndex(LocalIndex(Height, n - 1), level)
             g == LocalToGlobal(LocalIndex(level, Partner(p)))
  <2>6. level \in 1..Height /\ level \in 0..Height
    BY <2>5, LevelUp DEF LocalIndex
  <2>7. account = IndexOfAccount(g)
    BY <2>4, <2>5 DEF AccountOf, OpeningIndex
  <2>8. Partner(p) \in Index(level)
    BY <2>5, <2>6, PathUp
  <2>9. g \in Nat /\ (level < Height => g < FirstLeaf) /\ (level = Height => g = FirstLeaf + Partner(p))
    BY <2>6, <2>8, GlobalIn
  <2> HIDE DEF g
  <2>10. account * ChunkSize <= g /\ account * ChunkSize \in Nat
        /\ g = account * ChunkSize + IndexInAccount(g) /\ IndexInAccount(g) \in 0..(ChunkSize - 1)
    <3>1. /\ account * ChunkSize \in Nat /\ IndexInAccount(g) \in 0..(ChunkSize - 1)
          /\ g = account * ChunkSize + IndexInAccount(g)
      BY <2>7, <2>9, InChunk
    <3> DEFINE a == account * ChunkSize
    <3>2. a <= g
      <4> HIDE DEF a
      <4> QED BY <2>9, <3>1, Sizes DEF a
    <3> QED BY <3>1, <3>2
  <2>11. n \in Nat /\ n >= 1 /\ n <= stored /\ FirstLeaf \in Nat
    BY <2>5, Sizes
  <2> DEFINE a == account * ChunkSize
  <2>12. a \in Nat /\ a <= g /\ FirstLeaf + stored <= a
    BY <2>2, <2>5, <2>10, <2>11
  <2> HIDE DEF a
  <2>13. level = Height
    BY <2>5, <2>6, <2>9, <2>11, <2>12, TreeAssumption
  <2>14. p = n - 1
    <3>1. 2 ^ (Height - Height) = 1
      <4>1. Height - Height = 0
        BY TreeAssumption
      <4> QED BY <4>1, PowerZero
    <3> QED BY <2>5, <2>13, <3>1 DEF PathIndex, LocalIndex
  <2>15. g <= FirstLeaf + n
    <3>1. Partner(p) \in {n, n - 2}
      BY <2>11, <2>14 DEF Partner
    <3> QED BY <2>9, <2>11, <2>13, <3>1
  <2>16. a = FirstLeaf + n /\ found[c] = a - 1
    BY <2>5, <2>9, <2>11, <2>12, <2>15
  <2>17. IndexInAccount(found[c]) = ChunkSize - 1
    <3> DEFINE x == found[c]
               q == x \div ChunkSize
    <3>1. x \in Nat /\ x = a - 1
      BY <2>11, <2>16
    <3> HIDE DEF x
    <3>2. q \in Nat /\ x % ChunkSize \in 0..(ChunkSize - 1) /\ q * ChunkSize + (x % ChunkSize) = x
      BY <3>1, Sizes, DivMod
    <3>3. account \in Nat
      BY <2>7, <2>9, InChunk
    <3>4. account - 1 \in Nat /\ (account - 1) * ChunkSize = a - ChunkSize
      <4>1. account # 0
        <5>1. a # 0
          BY <2>11, <2>16
        <5>2. 0 * ChunkSize = 0
          BY Sizes
        <5> QED BY <5>1, <5>2 DEF a
      <4>2. account - 1 \in Nat /\ (account - 1) + 1 = account
        BY <3>3, <4>1
      <4>3. account * ChunkSize = (account - 1) * ChunkSize + ChunkSize
        BY <4>2, Sizes, Multiples
      <4>4. (account - 1) * ChunkSize \in Int
        BY <4>2, Sizes, Multiples
      <4> DEFINE b == (account - 1) * ChunkSize
      <4>5. a = b + ChunkSize /\ b \in Int
        BY <4>3, <4>4 DEF a
      <4> HIDE DEF b
      <4>6. b = a - ChunkSize
        BY <4>5, Sizes
      <4> QED BY <4>2, <4>6 DEF b
    <3>5. (account - 1) * ChunkSize <= x /\ x < ((account - 1) + 1) * ChunkSize
      <4>1. (account - 1) + 1 = account
        BY <3>3
      <4>2. a - ChunkSize <= x /\ x < a
        BY <2>12, <3>1, Sizes
      <4> QED BY <3>4, <4>1, <4>2 DEF a
    <3>6. q = account - 1
      BY <3>1, <3>4, <3>5, Sizes, Quotient
    <3> DEFINE r == x % ChunkSize
    <3>7. (a - ChunkSize) + r = a - 1 /\ r \in Int
      BY <3>1, <3>2, <3>4, <3>6, Sizes
    <3>8. r = ChunkSize - 1
      <4> HIDE DEF r
      <4> QED BY <2>12, <3>7, Sizes
    <3> QED BY <3>8 DEF x, IndexInAccount
  <2> QED BY <2>17
<1> QED BY <1>1, OpeningInvariant, PTL

-----------------------------------------------------------------------------
(* What is read of a node: the leaves below it, as far as there were any.    *)
Upto(m, n) == IF n < m THEN n ELSE m
NodeAt(level, index, n) ==
    Node(level, SubSeq(tree, index * LeavesBelow(level) + 1, Upto((index + 1) * LeavesBelow(level), n)))

LEMMA NodeRead ==
    ASSUME NEW level \in 0..Height, NEW index \in Index(level), NEW n
    PROVE  ReadNode(LocalIndex(level, index), n) = NodeAt(level, index, n)
<1> DEFINE local == LocalIndex(level, index)
           g == LocalToGlobal(local)
<1>1. g \in Nat
  BY GlobalIn
<1>2. GlobalToLocal(AccIndexToGlobal(IndexOfAccount(g), IndexInAccount(g))) = local
  <2>1. AccIndexToGlobal(IndexOfAccount(g), IndexInAccount(g)) = g
    <3> HIDE DEF g
    <3> QED BY <1>1, InChunk
  <2>2. GlobalToLocal(g) = local
    BY ToLocal
  <2> QED BY <2>1, <2>2
<1>3. local.level = level /\ local.index = index
  BY DEF LocalIndex
<1> HIDE DEF local
<1>4. StoredNode(AccountOf(local), IndexInAccount(g), n) = NodeAt(level, index, n)
  BY <1>2, <1>3 DEF StoredNode, AccountOf, NodeAt, Upto
<1>5. ParseTreeBytes(NodeAt(level, index, n), level) = NodeAt(level, index, n)
  <2> DEFINE s == SubSeq(tree, index * LeavesBelow(level) + 1,
                         Upto((index + 1) * LeavesBelow(level), n))
  <2>1. NodeAt(level, index, n) = [level |-> level, leaves |-> s]
    BY DEF NodeAt, Node
  <2> HIDE DEF s
  <2> QED BY <2>1 DEF ParseTreeBytes, Default, Node
<1> QED BY <1>3, <1>4, <1>5 DEF ReadNode, local

(* The partner on each level of a path, and the time at which it was read.   *)
LEMMA PartnerRead ==
    ASSUME FoundInv, OpeningInv, opening = "done", NEW c \in Wanted,
           NEW k \in 0..(Leaves - 1), Leaf(c) = LocalIndex(Height, k), NEW level \in 1..Height
    PROVE  LET index == Partner(PathIndex(Leaf(c), level))
               n == read[AccountOf(LocalIndex(level, index))]
           IN  /\ index \in Index(level) /\ level \in 0..Height
               /\ AccountOf(LocalIndex(level, index)) \in UniqueAccs
               /\ n \in stored..Len(tree)
               /\ Opening(c)[level] = NodeAt(level, index, n)
<1> DEFINE index == Partner(PathIndex(Leaf(c), level))
           account == AccountOf(LocalIndex(level, index))
           n == read[account]
<1>1. index \in Index(level) /\ level \in 0..Height
  BY PathUp, LevelUp
<1>2. level \in 1..Leaf(c).level
  BY DEF LocalIndex
<1>3. OpeningIndex(Leaf(c), level) = LocalIndex(level, index)
  BY DEF OpeningIndex
<1> HIDE DEF index
<1>4. account \in UniqueAccs
  BY <1>2, <1>3 DEF UniqueAccs
<1>5. n \in stored..Len(tree)
  <2> HIDE DEF account
  <2> QED BY <1>4 DEF OpeningInv, ReadingInv, ReadAt
<1>6. Opening(c)[level] = ReadNode(LocalIndex(level, index), n)
  BY <1>2, <1>3 DEF Opening
<1>7. ReadNode(LocalIndex(level, index), n) = NodeAt(level, index, n)
  BY <1>1, NodeRead
<1> QED BY <1>1, <1>4, <1>5, <1>6, <1>7 DEF index

(* Every partner on the left is complete, and as it will be for ever,        *)
(* whenever its chunk was read: a torn opening can be wrong only about what  *)
(* comes after the commitment.                                               *)
THEOREM LeftIsSettled == InfoSpec => []LeftPartnersSettled
<1>1. FoundInv /\ OpeningInv => LeftPartnersSettled
  <2> SUFFICES ASSUME FoundInv, OpeningInv, opening = "done",
                      NEW c \in Wanted, NEW level \in 1..Height, OnTheRight(PathIndex(Leaf(c), level))
               PROVE  LET below == LeavesBelow(level)
                          left == PathIndex(Leaf(c), level) - 1
                      IN Opening(c)[level] = Node(level, SubSeq(tree, left * below + 1, (left + 1) * below))
    BY DEF LeftPartnersSettled
  <2> DEFINE p == PathIndex(Leaf(c), level)
             n == read[AccountOf(LocalIndex(level, Partner(p)))]
             b == LeavesBelow(level)
  <2>1. ReadingInv
    BY DEF OpeningInv
  <2>2. PICK m \in 1..stored : /\ m - 1 \in 0..(Leaves - 1) /\ stored \in Nat /\ stored <= Len(tree)
                               /\ Leaf(c) = LocalIndex(Height, m - 1)
    BY <2>1, LeafOf
  <2>3. n \in stored..Len(tree) /\ Opening(c)[level] = NodeAt(level, Partner(p), n)
    BY <2>2, PartnerRead
  <2>4. p \in Nat /\ p * b <= m - 1 /\ p * b \in Nat
    BY <2>2, OnThePath, LevelUp DEF Index
  <2>5. Partner(p) = p - 1 /\ (p - 1) + 1 = p
    <3> HIDE DEF p
    <3> QED BY <2>4 DEF Partner, p
  <2>6. n \in Nat /\ p * b < n
    <3> DEFINE x == p * b
    <3>1. Len(tree) \in Nat
      BY DEF FoundInv, TypeOK
    <3> HIDE DEF n, x
    <3>2. x < n
      BY <2>2, <2>3, <2>4, <3>1 DEF x
    <3> QED BY <2>2, <2>3, <3>1, <3>2 DEF x
  <2>7. Upto(p * b, n) = p * b
    <3> DEFINE x == p * b
    <3> HIDE DEF n, x
    <3>1. Upto(x, n) = x
      BY <2>4, <2>6 DEF Upto, x
    <3> QED BY <3>1 DEF x
  <2> HIDE DEF p, n, b
  <2>8. NodeAt(level, p - 1, n) = Node(level, SubSeq(tree, (p - 1) * b + 1, p * b))
    BY <2>5, <2>7 DEF NodeAt, b
  <2> QED BY <2>3, <2>5, <2>8 DEF p, b
<1> QED BY <1>1, OpeningInvariant, PTL

LEMMA HashOf ==
    ASSUME NEW level, NEW s, NEW t, t = <<>> \/ Len(s) = LeavesBelow(level)
    PROVE  Hash(Node(level, s), Node(level, t)) = Node(level - 1, s \o t)
BY DEF Hash, Node

(* Two siblings read of one state of the tree hash to their parent as read   *)
(* of that state, however far the tree had come.                             *)
LEMMA Siblings ==
    ASSUME tree \in Seq(Wanted \cup {Other}), NEW level \in 1..Height, NEW up \in Nat, NEW n \in 0..Len(tree)
    PROVE  Hash(NodeAt(level, 2 * up, n), NodeAt(level, 2 * up + 1, n)) = NodeAt(level - 1, up, n)
<1> DEFINE S == Wanted \cup {Other}
           b == LeavesBelow(level)
           x == (2 * up) * b
           end == Upto(x + 2 * b, n)
           left == SubSeq(tree, x + 1, Upto(x + b, n))
           right == SubSeq(tree, x + b + 1, end)
           parent == SubSeq(tree, x + 1, end)
<1>1. b \in Nat \ {0} /\ LeavesBelow(level - 1) = 2 * b /\ level \in Int
  BY LevelUp, Levels
<1>2. x \in Nat /\ (2 * up + 1) * b = x + b /\ (2 * up + 1 + 1) * b = x + 2 * b
      /\ up * (2 * b) = x /\ (up + 1) * (2 * b) = x + 2 * b
  <2> HIDE DEF b
  <2>1. (2 * up) * b \in Nat /\ up * (2 * b) = (2 * up) * b
    BY <1>1
  <2>2. (2 * up + 1) * b = (2 * up) * b + b
    BY <1>1
  <2>3. (2 * up + 1 + 1) * b = (2 * up) * b + 2 * b
    BY <1>1
  <2>4. (up + 1) * (2 * b) = (2 * up) * b + 2 * b
    BY <1>1
  <2> QED BY <2>1, <2>2, <2>3, <2>4
<1>3. /\ NodeAt(level, 2 * up, n) = Node(level, left)
      /\ NodeAt(level, 2 * up + 1, n) = Node(level, right)
      /\ NodeAt(level - 1, up, n) = Node(level - 1, parent)
  <2> HIDE DEF b, x
  <2>1. (2 * up + 1) * LeavesBelow(level) = x + b /\ (2 * up + 1 + 1) * LeavesBelow(level) = x + 2 * b
        /\ (2 * up) * LeavesBelow(level) = x
    BY <1>2 DEF b, x
  <2>2. up * LeavesBelow(level - 1) = x /\ (up + 1) * LeavesBelow(level - 1) = x + 2 * b
    BY <1>1, <1>2
  <2> QED BY <2>1, <2>2 DEF NodeAt
<1>4. Len(tree) \in Nat /\ n \in Nat /\ n <= Len(tree)
  OBVIOUS
<1> HIDE DEF b, x
<1>5. CASE n <= x + b
  <2>1. right = <<>>
    <3>1. end \in Int /\ end < x + b + 1 /\ x + b + 1 \in Int
      BY <1>1, <1>2, <1>4, <1>5 DEF Upto
    <3> HIDE DEF end
    <3> QED BY <3>1, SubSeqEmpty
  <2>2. Upto(x + b, n) = n /\ end = n
    BY <1>1, <1>2, <1>4, <1>5 DEF Upto
  <2>3. left = parent
    BY <2>2
  <2>4. left \in Seq(S)
    <3>1. \A j \in x + 1 .. n : tree[j] \in S
      BY <1>2, <1>4
    <3>2. SubSeq(tree, x + 1, n) \in Seq(S)
      BY <1>2, <1>4, <3>1, SubSeqProperties
    <3> QED BY <2>2, <3>2
  <2> HIDE DEF left, right, parent
  <2>5. left \o right = parent
    BY <2>1, <2>3, <2>4, ConcatEmptySeq
  <2>6. Hash(Node(level, left), Node(level, right)) = Node(level - 1, left \o right)
    BY <2>1, HashOf
  <2> QED BY <1>3, <2>5, <2>6
<1>6. CASE n > x + b
  <2>1. Upto(x + b, n) = x + b
    BY <1>1, <1>2, <1>4, <1>6 DEF Upto
  <2>2. end \in (x + b)..Len(tree)
    BY <1>1, <1>2, <1>4, <1>6 DEF Upto
  <2>3. x + 1 \in 1..Len(tree) + 1 /\ x + b \in (x + 1) - 1..Len(tree)
    BY <1>1, <1>2, <1>4, <1>6
  <2> HIDE DEF end
  <2>4. SubSeq(tree, x + 1, x + b) \o right = parent
    BY <2>2, <2>3, ConcatAdjacentSubSeq
  <2>5. left = SubSeq(tree, x + 1, x + b)
    BY <2>1
  <2>6. Len(left) = b
    <3>1. \A j \in x + 1 .. x + b : tree[j] \in S
      BY <1>1, <1>2, <1>4, <1>6
    <3>2. x + 1 \in Int /\ x + b \in Int /\ x + 1 <= x + b /\ (x + b) - (x + 1) + 1 = b
      BY <1>1, <1>2
    <3>3. Len(SubSeq(tree, x + 1, x + b)) = (x + b) - (x + 1) + 1
      BY <3>1, <3>2, SubSeqProperties
    <3> QED BY <2>5, <3>2, <3>3
  <2> HIDE DEF left, right, parent
  <2>7. left \o right = parent
    BY <2>4, <2>5
  <2>8. Hash(Node(level, left), Node(level, right)) = Node(level - 1, left \o right)
    BY <2>6, HashOf DEF b
  <2> QED BY <1>3, <2>7, <2>8
<1> QED BY <1>2, <1>4, <1>1, <1>5, <1>6


(* The climb by an opening of one state of the tree: on each level the node  *)
(* of the path, as that state has it.                                        *)
LEMMA ClimbIs ==
    ASSUME tree \in Seq(Wanted \cup {Other}), NEW c, NEW n \in 1..Len(tree),
           NEW k \in 0..(n - 1), n <= Leaves, tree[k + 1] = c, Leaf(c) = LocalIndex(Height, k),
           \A level \in 1..Height :
              Opening(c)[level] = NodeAt(level, Partner(PathIndex(Leaf(c), level)), n)
    PROVE  Climb(c) = NodeAt(0, 0, n)
<1> DEFINE leaf == Leaf(c)
           partners == Opening(c)
           Step(f, level) ==
              IF level = Height THEN Node(Height, <<c>>)
              ELSE IF OnTheRight(PathIndex(leaf, level + 1))
              THEN Hash(partners[level + 1], f[level + 1])
              ELSE Hash(f[level + 1], partners[level + 1])
           up == CHOOSE f : f = [level \in 0..Height |-> Step(f, level)]
           F == [level \in 0..Height |-> NodeAt(level, PathIndex(leaf, level), n)]
<1>1. Climb(c) = up[0]
  BY DEF Climb
<1>2. k \in 0..(Leaves - 1) /\ Height \in Nat
  BY TreeAssumption
<1>3. \A level \in 0..Height : F[level] = NodeAt(level, PathIndex(leaf, level), n)
  OBVIOUS
<1>4. Step(F, Height) = F[Height]
  <2>1. Height - Height = 0 /\ 2 ^ (Height - Height) = 1 /\ LeavesBelow(Height) = 1
    BY <1>2, PowerZero DEF LeavesBelow, NodeCountLevel
  <2>2. PathIndex(leaf, Height) = k
    BY <2>1 DEF PathIndex, LocalIndex
  <2>3. k * 1 = k /\ (k + 1) * 1 = k + 1 /\ k + 1 \in 1..Len(tree) /\ Upto(k + 1, n) = k + 1
    BY DEF Upto
  <2>4. F[Height] = Node(Height, SubSeq(tree, k + 1, k + 1))
    <3>1. NodeAt(Height, k, n) = Node(Height, SubSeq(tree, k + 1, k + 1))
      BY <2>1, <2>3 DEF NodeAt
    <3> QED BY <1>2, <1>3, <2>2, <3>1
  <2>5. SubSeq(tree, k + 1, k + 1) = <<c>>
    <3>1. SubSeq(tree, k + 1, (k + 1) - 1) = <<>>
      BY SubSeqEmpty
    <3>2. SubSeq(tree, k + 1, k + 1) = SubSeq(tree, k + 1, (k + 1) - 1) \o <<tree[k + 1]>>
      BY <2>3, SubSeqRecursiveSecond
    <3>3. <<c>> \in Seq({c})
      OBVIOUS
    <3>4. <<>> \o <<c>> = <<c>>
      BY <3>3, ConcatEmptySeq
    <3> QED BY <3>1, <3>2, <3>4
  <2> QED BY <2>4, <2>5
<1>5. ASSUME NEW level \in 0..(Height - 1) PROVE F[level] = Step(F, level)
  <2> DEFINE l == level + 1
             p == PathIndex(leaf, l)
             q == PathIndex(leaf, level)
             mine == NodeAt(l, p, n)
             other == NodeAt(l, Partner(p), n)
  <2>1. l \in 1..Height /\ l - 1 = level /\ level # Height /\ l \in 0..Height
    BY <1>2
  <2>2. /\ q \in Nat
        /\ IF OnTheRight(p) THEN Partner(p) = 2 * q /\ p = 2 * q + 1 ELSE p = 2 * q /\ Partner(p) = 2 * q + 1
    <3> HIDE DEF l
    <3>1. LET pp == PathIndex(LocalIndex(Height, k), l)
              uu == PathIndex(LocalIndex(Height, k), l - 1)
          IN  /\ uu \in Nat
              /\ IF OnTheRight(pp) THEN Partner(pp) = 2 * uu /\ pp = 2 * uu + 1
                                    ELSE pp = 2 * uu /\ Partner(pp) = 2 * uu + 1
      BY <1>2, <2>1, PathUp
    <3> QED BY <2>1, <3>1
  <2>3. partners[l] = other /\ F[l] = mine /\ F[level] = NodeAt(level, q, n)
    <3>1. partners[l] = other
      BY <2>1
    <3>2. l \in 0..Height /\ level \in 0..Height
      BY <1>2
    <3> HIDE DEF F, l
    <3> QED BY <1>3, <3>1, <3>2
  <2>4. Hash(NodeAt(l, 2 * q, n), NodeAt(l, 2 * q + 1, n)) = NodeAt(level, q, n)
    <3> HIDE DEF l, q
    <3>1. Hash(NodeAt(l, 2 * q, n), NodeAt(l, 2 * q + 1, n)) = NodeAt(l - 1, q, n)
      BY <2>1, <2>2, Siblings
    <3> QED BY <2>1, <3>1
  <2>5. IF OnTheRight(p) THEN Hash(other, mine) = NodeAt(level, q, n)
                         ELSE Hash(mine, other) = NodeAt(level, q, n)
    <3> HIDE DEF p, q, l
    <3> QED BY <2>2, <2>4
  <2>6. Step(F, level) = IF OnTheRight(p) THEN Hash(other, mine) ELSE Hash(mine, other)
    BY <2>1, <2>3
  <2> HIDE DEF p, q, l, mine, other, F, Step
  <2> QED BY <2>3, <2>5, <2>6
<1>6. F = [level \in 0..Height |-> Step(F, level)]
  <2>1. \A level \in 0..Height : level = Height \/ level \in 0..(Height - 1)
    BY <1>2
  <2>2. \A level \in 0..Height : F[level] = Step(F, level)
    <3> HIDE DEF F, Step
    <3> QED BY <1>4, <1>5, <2>1
  <2>3. F = [level \in 0..Height |-> F[level]]
    OBVIOUS
  <2> HIDE DEF F, Step
  <2> QED BY <2>2, <2>3
<1>7. up = [level \in 0..Height |-> Step(up, level)]
  <2> HIDE DEF F, Step
  <2> QED BY <1>6
<1>8. \A level \in 0..Height : up[level] = Step(up, level)
  <2> HIDE DEF up, Step
  <2> QED BY <1>7
<1> DEFINE S == {j \in Nat : j <= Height => up[Height - j] = F[Height - j]}
<1>9. S \subseteq Nat /\ 0 \in S
  <2>1. Height - 0 = Height /\ Height \in 0..Height
    BY <1>2
  <2>2. up[Height] = Step(up, Height)
    BY <1>8, <2>1
  <2>3. Step(up, Height) = Step(F, Height)
    BY DEF Step
  <2> HIDE DEF up, F, Step
  <2> QED BY <1>4, <2>1, <2>2, <2>3
<1>10. ASSUME NEW j \in S PROVE j + 1 \in S
  <2> SUFFICES ASSUME j + 1 <= Height PROVE up[Height - (j + 1)] = F[Height - (j + 1)]
    OBVIOUS
  <2> DEFINE l == Height - (j + 1)
  <2> HIDE DEF up, F
  <2>1. l \in 0..Height /\ l \in 0..(Height - 1) /\ l + 1 = Height - j /\ j <= Height /\ l # Height
    <3>1. j \in Nat /\ Height \in Nat
      BY <1>2
    <3> HIDE DEF S
    <3>2. l \in Int /\ 0 <= l /\ l <= Height - 1 /\ l + 1 = Height - j
      BY <3>1
    <3>3. l # Height /\ l <= Height /\ j <= Height
      BY <3>1
    <3> HIDE DEF l
    <3> QED BY <3>1, <3>2, <3>3
  <2> HIDE DEF S
  <2>2. up[Height - j] = F[Height - j]
    BY <2>1 DEF S
  <2> HIDE DEF l
  <2>3. up[l + 1] = F[l + 1]
    BY <2>1, <2>2
  <2>4. up[l] = Step(up, l) /\ F[l] = Step(F, l)
    BY <1>5, <1>8, <2>1
  <2>5. Step(up, l) = Step(F, l)
    BY <2>3
  <2> QED BY <2>4, <2>5 DEF l
<1>11. up[0] = F[0]
  <2> HIDE DEF S
  <2>1. Height \in S
    BY <1>2, <1>9, <1>10, AllNumbers
  <2>2. Height - Height = 0 /\ Height <= Height
    BY <1>2
  <2> HIDE DEF up, F
  <2> QED BY <2>1, <2>2 DEF S
<1>12. PathIndex(leaf, 0) = 0
  <2>1. 0 \in 0..Height /\ NodeCountLevel(0) = 1
    BY <1>2, PowerZero DEF NodeCountLevel
  <2>2. PathIndex(LocalIndex(Height, k), 0) \in Index(0)
    BY <1>2, <2>1, OnThePath
  <2> QED BY <2>1, <2>2 DEF Index
<1>13. F[0] = NodeAt(0, 0, n)
  BY <1>2, <1>3, <1>12
<1> HIDE DEF up, F
<1> QED BY <1>1, <1>11, <1>13

(* An opening that was read of one state of the tree verifies: the circuit,  *)
(* climbing from the commitment by its partners, comes to the root that was  *)
(* read, wherever chunks end and whatever is still zero.                     *)
THEOREM OpeningsVerify == InfoSpec => []OpeningVerifies
<1>1. FoundInv /\ OpeningInv => OpeningVerifies
  <2> SUFFICES ASSUME FoundInv, OpeningInv, opening = "done",
                      \A account \in DOMAIN read : read[account] = root, NEW c \in Wanted
               PROVE  Climb(c) = Root
    BY DEF OpeningVerifies
  <2>1. /\ ReadingInv /\ tree \in Seq(Wanted \cup {Other}) /\ Len(tree) \in Nat /\ Len(tree) <= Leaves
        /\ Leaves \in Nat
    BY Sizes DEF OpeningInv, FoundInv, TypeOK
  <2>2. PICK m \in 1..stored : /\ m - 1 \in 0..(Leaves - 1) /\ stored \in Nat /\ stored <= Len(tree)
                               /\ tree[m] = c /\ Leaf(c) = LocalIndex(Height, m - 1)
    BY <2>1, LeafOf
  <2>3. root \in stored..Len(tree)
    BY <2>1 DEF OpeningInv, ReadingInv, ReadAt
  <2>4. root \in 1..Len(tree) /\ m - 1 \in 0..(root - 1) /\ root <= Leaves /\ (m - 1) + 1 = m
    BY <2>1, <2>2, <2>3
  <2>5. ASSUME NEW level \in 1..Height
        PROVE  Opening(c)[level] = NodeAt(level, Partner(PathIndex(Leaf(c), level)), root)
    <3> DEFINE account == AccountOf(LocalIndex(level, Partner(PathIndex(Leaf(c), level))))
    <3>1. account \in UniqueAccs
          /\ Opening(c)[level] = NodeAt(level, Partner(PathIndex(Leaf(c), level)), read[account])
      BY <2>2, PartnerRead
    <3> HIDE DEF account
    <3>2. read[account] = root
      BY <2>1, <3>1 DEF ReadingInv
    <3> QED BY <3>1, <3>2
  <2>6. Climb(c) = NodeAt(0, 0, root)
    <3> DEFINE k == m - 1
    <3>1. k \in 0..(root - 1) /\ tree[k + 1] = c /\ Leaf(c) = LocalIndex(Height, k)
      BY <2>2, <2>4
    <3> HIDE DEF k
    <3> QED BY <2>1, <2>4, <2>5, <3>1, ClimbIs
  <2>7. Root = NodeAt(0, 0, root)
    <3>1. 0 \in 0..Height /\ 0 \in Index(0)
      BY TreeAssumption, PowerZero DEF Index, NodeCountLevel
    <3> QED BY <3>1, NodeRead DEF Root
  <2> QED BY <2>6, <2>7
<1> QED BY <1>1, OpeningInvariant, PTL
=============================================================================
