-------------------------- MODULE TxHistoryProofs --------------------------
(* Proofs about TxHistory, for every set of transactions, callers, requests  *)
(* and every batch size.                                                     *)
EXTENDS TxHistory, FiniteSetTheorems, TLAPS, WellFoundedInduction

-----------------------------------------------------------------------------
(* Every non-empty set of numbers up to m has a greatest one: the distances  *)
(* to m have a least one, the order on Nat being well-founded.               *)
LEMMA Greatest ==
  ASSUME NEW m \in Nat, NEW S \in SUBSET (0..m), S # {}
  PROVE  \E x \in S : \A y \in S : y <= x
<1> DEFINE T == {n \in 0..m : m - n \in S}
<1>1. T \subseteq Nat
  OBVIOUS
<1>2. T # {}
  <2>1. PICK s \in S : TRUE
    OBVIOUS
  <2>2. s \in 0..m /\ m - s \in 0..m /\ m - (m - s) = s
    OBVIOUS
  <2> QED BY <2>1, <2>2
<1>3. PICK x \in T : \A y \in T : ~(<<y, x>> \in OpToRel(<, Nat))
  BY <1>1, <1>2, NatLessThanWellFounded, WFMin, Zenon
<1>4. \A y \in T : ~(y < x)
  BY <1>1, <1>3, Zenon DEF OpToRel
<1>5. \A s \in S : s \in 0..m /\ m - s \in T /\ s <= m - x
  <2> TAKE s \in S
  <2>1. s \in 0..m /\ m - s \in 0..m /\ m - (m - s) = s
    OBVIOUS
  <2>2. m - s \in T
    BY <2>1
  <2> QED BY <1>4, <2>1, <2>2
<1> QED BY <1>5, m - x \in S

(* LatestCachedNonce is the nonce of a cached transaction and no cached one  *)
(* is above it; without one it is -1.                                        *)
LEMMA LatestCached ==
  /\ LatestCachedNonce \in -1..MaxNonce
  /\ \A t \in Cached : t.nonce <= LatestCachedNonce
  /\ LatestCachedNonce # -1 => IsCachedNonce(LatestCachedNonce)
<1>1. CASE Cached = {}
  BY <1>1, TxsAssumption DEF LatestCachedNonce
<1>2. CASE Cached # {}
  <2> DEFINE S == {t.nonce : t \in Cached}
  <2>1. S \in SUBSET (0..MaxNonce) /\ S # {}
    BY <1>2, TxsAssumption DEF Cached
  <2>2. PICK n \in S : \A y \in S : y <= n
    BY <2>1, Greatest, TxsAssumption
  <2>3. n \in 0..MaxNonce /\ IsCachedNonce(n) /\ \A t \in Cached : t.nonce <= n
    BY <2>1, <2>2 DEF IsCachedNonce
  <2> DEFINE Top(k) == IsCachedNonce(k) /\ \A t \in Cached : t.nonce <= k
  <2>4. LatestCachedNonce = CHOOSE k \in 0..MaxNonce : Top(k)
    BY <1>2 DEF LatestCachedNonce
  <2>5. LatestCachedNonce \in 0..MaxNonce /\ Top(LatestCachedNonce)
    <3> HIDE DEF Top
    <3>1. Top(n)
      BY <2>3 DEF Top
    <3> QED BY <2>3, <2>4, <3>1
  <2> QED BY <2>5, TxsAssumption
<1> QED BY <1>1, <1>2

(* A step of the chain adds to what landed and what is finalized, and never  *)
(* takes away.                                                               *)
LEMMA ChainGrows ==
  ASSUME TypeOK, NEW s \in SolanaTx, chain' = Append(chain, s), final' = final
  PROVE  Landed' = Landed \cup {s} /\ Finalized' = Finalized
<1>1. chain \in Seq(SolanaTx) /\ final \in 0..Len(chain) /\ Len(chain) \in Nat
  BY DEF TypeOK
<1>2. /\ Len(chain') = Len(chain) + 1
      /\ chain'[Len(chain) + 1] = s
      /\ \A i \in 1..Len(chain) : chain'[i] = chain[i]
  BY <1>1
<1>3. Landed' \subseteq Landed \cup {s}
  <2> SUFFICES ASSUME NEW u \in Landed' PROVE u \in Landed \cup {s}
    OBVIOUS
  <2>1. PICK i \in 1..(Len(chain) + 1) : u = chain'[i]
    BY <1>2 DEF Landed
  <2>2. i \in 1..Len(chain) \/ i = Len(chain) + 1
    BY <1>1
  <2> QED BY <1>2, <2>1, <2>2 DEF Landed
<1>4. Landed \subseteq Landed'
  <2> SUFFICES ASSUME NEW u \in Landed PROVE u \in Landed'
    OBVIOUS
  <2>1. PICK i \in 1..Len(chain) : u = chain[i]
    BY DEF Landed
  <2>2. i \in 1..Len(chain') /\ u = chain'[i]
    BY <1>1, <1>2, <2>1
  <2> QED BY <2>2 DEF Landed
<1>5. s \in Landed'
  <2>1. Len(chain) + 1 \in 1..Len(chain')
    BY <1>1, <1>2
  <2> QED BY <1>2, <2>1 DEF Landed
<1>6. Finalized' = Finalized
  <2>1. \A i \in 1..final : chain'[i] = chain[i]
    BY <1>1, <1>2
  <2> QED BY <2>1 DEF Finalized
<1> QED BY <1>3, <1>4, <1>5, <1>6

LEMMA FinalGrows ==
  ASSUME TypeOK, Finalize
  PROVE  Landed' = Landed /\ Finalized \subseteq Finalized' /\ Finalized' \subseteq Landed'
<1>1. chain \in Seq(SolanaTx) /\ final \in Nat /\ final' = final + 1
  /\ final' <= Len(chain) /\ Len(chain) \in Nat /\ chain' = chain
  BY DEF TypeOK, Finalize
<1>2. 1..final \subseteq 1..final' /\ 1..final' \subseteq 1..Len(chain)
  BY <1>1
<1> QED BY <1>1, <1>2 DEF Landed, Finalized

(* What is finalized has landed.                                             *)
LEMMA FinalizedLanded ==
  ASSUME TypeOK
  PROVE  Finalized \subseteq Landed /\ Landed \subseteq SolanaTx
<1>1. chain \in Seq(SolanaTx) /\ final \in 0..Len(chain) /\ Len(chain) \in Nat
  BY DEF TypeOK
<1>2. 1..final \subseteq 1..Len(chain)
  BY <1>1
<1> QED BY <1>1, <1>2 DEF Landed, Finalized

-----------------------------------------------------------------------------
(* Type correctness.                                                         *)
LEMMA InitTypeOK == Init => TypeOK
<1>1. ASSUME Init PROVE TypeOK
  <2>1. NoCall \in [request : Requests, since : SUBSET Txs]
    BY ClientAssumption DEF NoCall
  <2>2. NoBefore \in Nat
    BY TxsAssumption DEF NoBefore
  <2>3. <<>> \in Seq(SolanaTx) /\ 0 \in 0..Len(<<>>)
    OBVIOUS
  <2> QED BY <1>1, <2>1, <2>2, <2>3 DEF Init, TypeOK, PCs
<1> QED BY <1>1

(* What one step of the client adds to the inflight batches is of its kind,  *)
(* and so is what caching a batch makes of the cache.                        *)
LEMMA IssueType ==
  ASSUME TypeOK, NEW p \in Callers, NEW low, NEW high, Issue(p, NoncesToFetch(low, high))
  PROVE  inflight' \in SUBSET Batch
BY DEF TypeOK, Issue, NoncesToFetch, Batch

LEMMA CacheInnerType ==
  ASSUME TypeOK, NEW txs, NEW status \in [Txs -> Statuses \cup {NotCached}]
  PROVE  CacheInner(txs, status) \in [Txs -> Statuses \cup {NotCached}]
BY DEF TypeOK, CacheInner

LEMMA ChainTypeOK == TypeOK /\ Chain => TypeOK'
<1> SUFFICES ASSUME TypeOK, Chain PROVE TypeOK'
  OBVIOUS
<1> USE DEF callVars
<1>1. ASSUME NEW t \in Txs, Land(t) PROVE TypeOK'
  <2>1. [tx |-> t, part |-> IF t.txType = "TOPUP" THEN "store" ELSE "init"] \in SolanaTx
    BY DEF SolanaTx, Parts
  <2>2. chain' \in Seq(SolanaTx) /\ final' \in 0..Len(chain')
    BY <1>1, <2>1 DEF Land, TypeOK
  <2> QED BY <1>1, <2>2 DEF Land, TypeOK
<1>2. ASSUME NEW t \in Txs, LandFinalize(t) PROVE TypeOK'
  <2>1. [tx |-> t, part |-> "finalize"] \in SolanaTx
    BY <1>2 DEF SolanaTx, Parts, LandFinalize
  <2>2. chain' \in Seq(SolanaTx) /\ final' \in 0..Len(chain')
    BY <1>2, <2>1 DEF LandFinalize, TypeOK
  <2> QED BY <1>2, <2>2 DEF LandFinalize, TypeOK
<1>3. CASE Finalize
  BY <1>3 DEF Finalize, TypeOK
<1> QED BY <1>1, <1>2, <1>3 DEF Chain

LEMMA FetchTxsTypeOK ==
  ASSUME TypeOK, NEW p \in Callers, NEW r \in Requests, FetchTxs(p, r)
  PROVE  TypeOK'
<1>1. Settled \subseteq Txs
  BY DEF Settled
<1>2. r.before \in Nat
  BY ClientAssumption
<1>3. call' \in [Callers -> [request : Requests, since : SUBSET Txs]]
  BY <1>1 DEF FetchTxs, TypeOK
<1> QED BY <1>2, <1>3 DEF FetchTxs, TypeOK, chainVars, PCs

LEMMA RefreshBatchTypeOK ==
  ASSUME TypeOK, NEW p \in Callers, NEW i \in Int, RefreshBatch(p, i),
         UNCHANGED <<chainVars, cache, call, before, after, acc, result>>
  PROVE  TypeOK'
<1>1. CASE NoncesToFetch(i + 1, i + BatchSize) = {}
  BY <1>1 DEF RefreshBatch, TypeOK, chainVars, PCs
<1>2. CASE NoncesToFetch(i + 1, i + BatchSize) # {}
  <2>1. inflight' \in SUBSET Batch
    BY <1>2, IssueType DEF RefreshBatch
  <2> QED BY <1>2, <2>1 DEF RefreshBatch, TypeOK, chainVars, PCs
<1> QED BY <1>1, <1>2

LEMMA CollectTypeOK ==
  ASSUME TypeOK, NEW p \in Callers, Collect(p)
  PROVE  TypeOK'
<1> DEFINE request == call[p].request
           batch == GetTxsInNonceRange({t \in Cached : after[p] < t.nonce /\ t.nonce < before[p]},
                                       request.count)
           found == acc[p] \cup OfToken(batch, request.tokenType)
           txs == GetTxsInNonceRange(found, request.count)
<1>1. found \subseteq Txs /\ txs \subseteq Txs
  BY DEF TypeOK, OfToken, GetTxsInNonceRange, Cached
<1>2. \A lowest \in LowestFetchedNonce(batch) : lowest \in Int
  BY TxsAssumption DEF LowestFetchedNonce, GetTxsInNonceRange, Cached
<1> HIDE DEF batch, found, txs
<1>3. PICK lowest \in LowestFetchedNonce(batch) :
         \/ /\ lowest >= 0
            /\ acc' = [acc EXCEPT ![p] = found]
            /\ before' = [before EXCEPT ![p] = lowest]
            /\ pc' = [pc EXCEPT ![p] = "getTxs"]
            /\ UNCHANGED <<running, cache, result>>
         \/ /\ result' = [result EXCEPT ![p] = txs]
            /\ MarkConfirmed(txs)
            /\ pc' = [pc EXCEPT ![p] = "done"]
            /\ running' = NoCaller
            /\ UNCHANGED <<acc, before>>
  BY DEF Collect, batch, found, txs
<1>4. /\ acc' \in [Callers -> SUBSET Txs]
      /\ before' \in [Callers -> Nat]
      /\ pc' \in [Callers -> PCs]
      /\ running' \in Callers \cup {NoCaller}
      /\ cache' \in [Txs -> Statuses \cup {NotCached}]
      /\ result' \in [Callers -> SUBSET Txs]
  <2>1. MarkConfirmed(txs) => cache' \in [Txs -> Statuses \cup {NotCached}]
    BY DEF MarkConfirmed, TypeOK, Statuses
  <2>2. lowest >= 0 => lowest \in Nat
    BY <1>2
  <2>3. CASE /\ lowest >= 0
             /\ acc' = [acc EXCEPT ![p] = found]
             /\ before' = [before EXCEPT ![p] = lowest]
             /\ pc' = [pc EXCEPT ![p] = "getTxs"]
             /\ UNCHANGED <<running, cache, result>>
    BY <1>1, <2>2, <2>3 DEF TypeOK, PCs
  <2>4. CASE /\ result' = [result EXCEPT ![p] = txs]
             /\ MarkConfirmed(txs)
             /\ pc' = [pc EXCEPT ![p] = "done"]
             /\ running' = NoCaller
             /\ UNCHANGED <<acc, before>>
    BY <1>1, <2>1, <2>4 DEF TypeOK, PCs
  <2> QED BY <1>3, <2>3, <2>4
<1>5. UNCHANGED <<chain, final, call, after, cursor, inflight>>
  BY DEF Collect, chainVars
<1> QED BY <1>4, <1>5 DEF TypeOK

LEMMA TaskTypeOK ==
  ASSUME TypeOK, NEW p \in Callers, Task(p)
  PROVE  TypeOK'
<1> USE DEF chainVars, PCs
<1>1. LatestCachedNonce \in Int
  BY LatestCached, TxsAssumption
<1>2. BatchSize \in Int /\ cursor[p] \in Int /\ after[p] \in Int /\ before[p] \in Nat
  BY ClientAssumption DEF TypeOK
<1>3. CASE GetTxs(p)
  <2>1. CASE before[p] > LatestCachedNonce
    BY <1>1, <1>3, <2>1, RefreshBatchTypeOK DEF GetTxs
  <2>2. CASE ~(before[p] > LatestCachedNonce)
    BY <1>3, <2>2 DEF GetTxs, TypeOK
  <2> QED BY <2>1, <2>2
<1>4. CASE RefreshMore(p)
  BY <1>2, <1>4, RefreshBatchTypeOK DEF RefreshMore
<1>5. CASE PrepareTxFetchingParams(p)
  <2>1. call[p].request \in Requests /\ call[p].request.count \in Nat
    BY ClientAssumption DEF TypeOK
  <2> DEFINE beforeInner == Smaller(before[p], LatestCachedNonce + 1)
  <2>2. beforeInner \in Int
    BY <1>1, <1>2 DEF Smaller
  <2>3. beforeInner - 1 \in Int
        /\ Larger(beforeInner - call[p].request.count - 1, -1) \in Int
    BY <2>1, <2>2 DEF Larger
  <2> HIDE DEF beforeInner
  <2>4. /\ after' = [after EXCEPT ![p] = Larger(beforeInner - call[p].request.count - 1, -1)]
        /\ cursor' = [cursor EXCEPT ![p] = beforeInner - 1]
        /\ pc' = [pc EXCEPT ![p] = "scan"]
        /\ UNCHANGED <<chainVars, cache, running, call, before, acc, inflight, result>>
    BY <1>5 DEF PrepareTxFetchingParams, beforeInner
  <2> QED BY <2>3, <2>4 DEF TypeOK
<1>6. CASE FetchTxsIntoCache(p)
  <2>1. /\ cursor' \in [Callers -> Int]
        /\ pc' \in [Callers -> PCs]
        /\ running' \in Callers \cup {NoCaller}
        /\ inflight' \in SUBSET Batch
    <3>1. CASE /\ cursor' = [cursor EXCEPT ![p] = @ - 1]
               /\ UNCHANGED <<running, pc, inflight>>
      BY <1>2, <3>1 DEF TypeOK
    <3>2. CASE /\ Issue(p, NoncesToFetch(Larger(after[p] + 1, cursor[p] - BatchSize + 1), cursor[p]))
               /\ cursor' = [cursor EXCEPT ![p] = @ - BatchSize]
               /\ UNCHANGED <<running, pc>>
      <4>1. inflight' \in SUBSET Batch
        BY <3>2, IssueType
      <4> QED BY <1>2, <3>2, <4>1 DEF TypeOK
    <3>3. CASE /\ \/ pc' = [pc EXCEPT ![p] = "fetching"] /\ running' = NoCaller
                  \/ pc' = [pc EXCEPT ![p] = "collect"] /\ running' = running
               /\ UNCHANGED <<cursor, inflight>>
      BY <3>3 DEF TypeOK
    <3> QED BY <1>6, <3>1, <3>2, <3>3 DEF FetchTxsIntoCache
  <2> QED BY <1>6, <2>1 DEF FetchTxsIntoCache, TypeOK
<1>7. CASE Collect(p)
  BY <1>7, CollectTypeOK
<1> QED BY <1>3, <1>4, <1>5, <1>6, <1>7 DEF Task

LEMMA DeliverTypeOK ==
  ASSUME TypeOK, NEW b \in inflight, NEW txs, NEW status \in [Txs -> Statuses \cup {NotCached}],
         Deliver(b, txs, status), UNCHANGED <<chainVars, callVars>>
  PROVE  TypeOK'
<1>1. b.owner \in Callers \cup {NoCaller}
  BY DEF TypeOK, Batch
<1>2. cache' \in [Txs -> Statuses \cup {NotCached}]
  BY CacheInnerType DEF Deliver
<1>3. pc' \in [Callers -> PCs] /\ running' \in Callers \cup {NoCaller}
  BY <1>1 DEF Deliver, TypeOK, PCs
<1>4. inflight' \in SUBSET Batch
  BY DEF Deliver, TypeOK
<1> QED BY <1>2, <1>3, <1>4 DEF TypeOK, chainVars, callVars

LEMMA NodeErrorTypeOK ==
  ASSUME TypeOK, NEW b \in inflight, NodeError(b)
  PROVE  TypeOK'
<1>1. ASSUME NEW c \in inflight PROVE [c EXCEPT !.owner = NoCaller] \in Batch
  <2>1. c \in Batch
    BY DEF TypeOK
  <2> QED BY <2>1 DEF Batch
<1>2. inflight' \in SUBSET Batch
  BY <1>1 DEF NodeError, TypeOK
<1>3. pc' \in [Callers -> PCs]
  BY DEF NodeError, TypeOK, PCs
<1> QED BY <1>2, <1>3 DEF NodeError, TypeOK, chainVars, callVars

LEMMA AnswerTypeOK ==
  ASSUME TypeOK, NEW p \in Callers \cup {NoCaller}, Answer(p)
  PROVE  TypeOK'
<1>1. PICK b \in inflight : \/ ParsedAnswer(b) \/ NodeError(b)
                            \/ \E n \in b.pending : SignaturesAnswer(b, n)
  BY DEF Answer
<1>2. CASE ParsedAnswer(b)
  BY <1>2, DeliverTypeOK DEF ParsedAnswer, Statuses
<1>3. ASSUME NEW n \in b.pending, SignaturesAnswer(b, n) PROVE TypeOK'
  <2> DEFINE sigs == b.sigs \cup {s \in Landed : s.tx.nonce = n}
             answered == [b EXCEPT !.pending = @ \ {n}, !.sigs = sigs]
  <2>1. CASE Deliver(b, {}, cache)
    BY <1>3, <2>1, DeliverTypeOK DEF SignaturesAnswer, TypeOK
  <2>2. CASE /\ inflight' = (inflight \ {b}) \cup {answered}
             /\ UNCHANGED <<cache, pc, running>>
    <3>1. b \in Batch /\ Landed \subseteq SolanaTx
      BY FinalizedLanded DEF TypeOK
    <3>2. answered \in Batch
      BY <3>1 DEF Batch
    <3> QED BY <1>3, <2>2, <3>2 DEF SignaturesAnswer, TypeOK, chainVars, callVars
  <2> QED BY <1>3, <2>1, <2>2 DEF SignaturesAnswer
<1> QED BY <1>1, <1>2, <1>3, NodeErrorTypeOK

LEMMA ReturnTypeOK ==
  ASSUME TypeOK, NEW p \in Callers, Return(p)
  PROVE  TypeOK'
<1>1. NoCall \in [request : Requests, since : SUBSET Txs]
  BY ClientAssumption DEF NoCall
<1>2. NoBefore \in Nat
  BY TxsAssumption DEF NoBefore
<1> QED BY <1>1, <1>2 DEF Return, TypeOK, PCs, chainVars

LEMMA StutterTypeOK == TypeOK /\ UNCHANGED vars => TypeOK'
BY DEF TypeOK, vars

LEMMA NextTypeOK == TypeOK /\ [Next]_vars => TypeOK'
BY ChainTypeOK, FetchTxsTypeOK, TaskTypeOK, AnswerTypeOK, ReturnTypeOK, StutterTypeOK DEF Next

(* Every variable of the history always holds values of its kind.            *)
THEOREM TypeCorrect == Spec => []TypeOK
BY InitTypeOK, NextTypeOK, PTL DEF Spec

-----------------------------------------------------------------------------
(* What is cached is sound. CacheSound is not inductive: a SEND is processed *)
(* when its finalisation is finalized, and that its initialisation is, too,  *)
(* follows from the order in which the two land and from what a batch knows. *)
InitPart(t) == [tx |-> t, part |-> "init"]
FinalizePart(t) == [tx |-> t, part |-> "finalize"]

(* The first part of a SEND lands before the last.                           *)
InOrder == \A i \in 1..Len(chain) : chain[i].part = "finalize" =>
              \E j \in 1..(i - 1) : chain[j] = InitPart(chain[i].tx)

(* The callers only hold what is cached.                                     *)
AccCached == \A p \in Callers : acc[p] \subseteq Cached

(* A batch knows of landed transactions only, and of the first part of each  *)
(* SEND whose last part it knows.                                            *)
BatchSound == \A b \in inflight :
    /\ b.sigs \subseteq Landed
    /\ \A s \in b.sigs : s.part = "finalize" => InitPart(s.tx) \in b.sigs

SoundInv == TypeOK /\ CacheSound /\ InOrder /\ AccCached /\ BatchSound

LEMMA InitSound == Init => SoundInv
<1> SUFFICES ASSUME Init PROVE SoundInv
  OBVIOUS
<1>1. Cached = {}
  BY DEF Init, Cached
<1>2. InOrder
  BY DEF Init, InOrder
<1> QED BY <1>1, <1>2, InitTypeOK DEF Init, SoundInv, CacheSound, AccCached, BatchSound

(* The order is kept by every step of the chain.                             *)
LEMMA ChainInOrder ==
  ASSUME TypeOK, InOrder, Chain
  PROVE  InOrder'
<1>1. chain \in Seq(SolanaTx) /\ Len(chain) \in Nat
  BY DEF TypeOK
<1>2. ASSUME NEW s \in SolanaTx, chain' = Append(chain, s),
             s.part = "finalize" => \E j \in 1..Len(chain) : chain[j] = InitPart(s.tx)
      PROVE  InOrder'
  <2>1. /\ Len(chain') = Len(chain) + 1
        /\ chain'[Len(chain) + 1] = s
        /\ \A i \in 1..Len(chain) : chain'[i] = chain[i]
    BY <1>1, <1>2
  <2> SUFFICES ASSUME NEW i \in 1..Len(chain'), chain'[i].part = "finalize"
               PROVE  \E j \in 1..(i - 1) : chain'[j] = InitPart(chain'[i].tx)
    BY DEF InOrder, InitPart
  <2>2. CASE i = Len(chain) + 1
    <3>1. PICK j \in 1..Len(chain) : chain[j] = InitPart(s.tx)
      BY <1>2, <2>1, <2>2
    <3>2. j \in 1..(i - 1) /\ chain'[j] = InitPart(chain'[i].tx)
      BY <1>1, <2>1, <2>2, <3>1
    <3> QED BY <3>2
  <2>3. CASE i \in 1..Len(chain)
    <3>1. chain'[i] = chain[i]
      BY <2>1, <2>3
    <3>2. PICK j \in 1..(i - 1) : chain[j] = InitPart(chain[i].tx)
      BY <2>3, <3>1 DEF InOrder
    <3>3. j \in 1..Len(chain)
      BY <1>1, <2>3, <3>2
    <3> QED BY <2>1, <3>1, <3>2, <3>3
  <2> QED BY <1>1, <2>1, <2>2, <2>3
<1>3. ASSUME NEW t \in Txs, Land(t) PROVE InOrder'
  <2>1. [tx |-> t, part |-> IF t.txType = "TOPUP" THEN "store" ELSE "init"] \in SolanaTx
    BY DEF SolanaTx, Parts
  <2> QED BY <1>2, <1>3, <2>1 DEF Land
<1>4. ASSUME NEW t \in Txs, LandFinalize(t) PROVE InOrder'
  <2>1. FinalizePart(t) \in SolanaTx
    BY <1>4 DEF SolanaTx, Parts, LandFinalize, FinalizePart
  <2>2. PICK i \in 1..Len(chain) : chain[i].tx = t
    BY <1>4 DEF LandFinalize, LandedTxs, Landed
  <2>3. chain[i] \in SolanaTx /\ chain[i] # FinalizePart(t)
    <3>1. FinalizePart(t) \notin Landed
      BY <1>4 DEF LandFinalize, Complete, FinalizePart
    <3> QED BY <1>1, <3>1 DEF Landed
  <2>4. chain[i] = InitPart(t)
    BY <1>4, <2>2, <2>3 DEF LandFinalize, SolanaTx, Parts, InitPart, FinalizePart
  <2>5. chain' = Append(chain, FinalizePart(t)) /\ FinalizePart(t).tx = t
    BY <1>4 DEF LandFinalize, FinalizePart
  <2> QED BY <1>2, <2>1, <2>4, <2>5
<1>5. CASE Finalize
  BY <1>5 DEF Finalize, InOrder, InitPart
<1> QED BY <1>3, <1>4, <1>5 DEF Chain

(* Once the last part of a SEND is finalized, or landed, so is the first.    *)
LEMMA FirstPart ==
  ASSUME TypeOK, InOrder, NEW t \in Txs
  PROVE  /\ FinalizePart(t) \in Finalized => InitPart(t) \in Finalized
         /\ FinalizePart(t) \in Landed => InitPart(t) \in Landed
<1>1. chain \in Seq(SolanaTx) /\ final \in 0..Len(chain) /\ Len(chain) \in Nat
  BY DEF TypeOK
<1>2. ASSUME NEW n \in 0..Len(chain), NEW i \in 1..n, chain[i] = FinalizePart(t)
      PROVE  \E j \in 1..n : chain[j] = InitPart(t)
  <2>1. i \in 1..Len(chain) /\ chain[i].part = "finalize" /\ chain[i].tx = t
    BY <1>1, <1>2 DEF FinalizePart
  <2>2. PICK j \in 1..(i - 1) : chain[j] = InitPart(t)
    BY <2>1 DEF InOrder
  <2>3. j \in 1..n
    BY <1>1, <2>2
  <2> QED BY <2>2, <2>3
<1>3. ASSUME FinalizePart(t) \in Finalized PROVE InitPart(t) \in Finalized
  <2>1. PICK i \in 1..final : chain[i] = FinalizePart(t)
    BY <1>3 DEF Finalized
  <2> QED BY <1>1, <1>2, <2>1 DEF Finalized
<1>4. ASSUME FinalizePart(t) \in Landed PROVE InitPart(t) \in Landed
  <2>1. PICK i \in 1..Len(chain) : chain[i] = FinalizePart(t)
    BY <1>4 DEF Landed
  <2>2. Len(chain) \in 0..Len(chain)
    BY <1>1
  <2> QED BY <1>2, <2>1, <2>2 DEF Landed
<1> QED BY <1>3, <1>4

(* A chain that grows leaves everything sound.                               *)
LEMMA ChainMonotone ==
  ASSUME TypeOK, Chain
  PROVE  /\ Landed \subseteq Landed' /\ Finalized \subseteq Finalized'
         /\ UNCHANGED <<cache, running, pc, inflight, callVars>>
<1>1. ASSUME NEW t \in Txs, Land(t)
      PROVE  Landed \subseteq Landed' /\ Finalized \subseteq Finalized'
  <2>1. [tx |-> t, part |-> IF t.txType = "TOPUP" THEN "store" ELSE "init"] \in SolanaTx
    BY DEF SolanaTx, Parts
  <2> QED BY <1>1, <2>1, ChainGrows DEF Land
<1>2. ASSUME NEW t \in Txs, LandFinalize(t)
      PROVE  Landed \subseteq Landed' /\ Finalized \subseteq Finalized'
  <2>1. [tx |-> t, part |-> "finalize"] \in SolanaTx
    BY <1>2 DEF SolanaTx, Parts, LandFinalize
  <2> QED BY <1>2, <2>1, ChainGrows DEF LandFinalize
<1>3. Finalize => Landed \subseteq Landed' /\ Finalized \subseteq Finalized'
  BY FinalGrows
<1>4. UNCHANGED <<cache, running, pc, inflight, callVars>>
  BY DEF Chain, Land, LandFinalize, Finalize
<1> QED BY <1>1, <1>2, <1>3, <1>4 DEF Chain

LEMMA ChainSound == SoundInv /\ Chain => SoundInv'
<1> SUFFICES ASSUME SoundInv, Chain PROVE SoundInv'
  OBVIOUS
<1>1. /\ Landed \subseteq Landed' /\ Finalized \subseteq Finalized'
      /\ UNCHANGED <<cache, inflight, acc>>
  BY ChainMonotone DEF SoundInv, callVars
<1>2. TypeOK' /\ InOrder'
  BY ChainTypeOK, ChainInOrder DEF SoundInv
<1>3. Settled \subseteq Settled' /\ Cached' = Cached
  BY <1>1 DEF Settled, Cached
<1>4. CacheSound'
  <2> SUFFICES ASSUME NEW t \in Cached
               PROVE  /\ \E part \in Parts(t) \ {"finalize"} : [tx |-> t, part |-> part] \in Finalized'
                      /\ cache[t] = "PROCESSED" => t \in Settled'
    BY <1>1, <1>3 DEF CacheSound
  <2> QED BY <1>1, <1>3 DEF SoundInv, CacheSound
<1>5. AccCached'
  BY <1>1, <1>3 DEF SoundInv, AccCached
<1>6. BatchSound'
  BY <1>1 DEF SoundInv, BatchSound
<1> QED BY <1>2, <1>4, <1>5, <1>6 DEF SoundInv

(* A step that leaves the chain as it is and whose cache is sound and larger *)
(* than before.                                                              *)
LEMMA ClientSound ==
  ASSUME SoundInv, TypeOK', UNCHANGED chainVars, CacheSound', Cached \subseteq Cached',
         AccCached', \A b \in inflight' : b.sigs = {} \/ \E c \in inflight : b.sigs = c.sigs
  PROVE  SoundInv'
<1>1. InOrder'
  BY DEF SoundInv, InOrder, chainVars, InitPart
<1>2. Landed' = Landed
  BY DEF Landed, chainVars
<1>3. BatchSound'
  BY <1>2 DEF SoundInv, BatchSound, InitPart
<1> QED BY <1>1, <1>3 DEF SoundInv

(* The cache is sound after a step that left it and the chain as they were.  *)
LEMMA SameCache ==
  ASSUME SoundInv, UNCHANGED <<chain, final, cache>>
  PROVE  CacheSound' /\ Cached' = Cached
BY DEF SoundInv, CacheSound, Cached, Settled, Finalized

LEMMA TaskSound ==
  ASSUME SoundInv, NEW p \in Callers, Task(p)
  PROVE  SoundInv'
<1>1. TypeOK' /\ TypeOK
  BY TaskTypeOK DEF SoundInv
<1>2. UNCHANGED chainVars
  BY DEF Task, GetTxs, RefreshMore, PrepareTxFetchingParams, FetchTxsIntoCache, Collect, chainVars
<1>3. \A b \in inflight' : b.sigs = {} \/ \E c \in inflight : b.sigs = c.sigs
  BY DEF Task, GetTxs, RefreshMore, PrepareTxFetchingParams, FetchTxsIntoCache, Collect,
         RefreshBatch, Issue
<1>4. CASE Collect(p)
  <2> DEFINE request == call[p].request
             batch == GetTxsInNonceRange({t \in Cached : after[p] < t.nonce /\ t.nonce < before[p]},
                                         request.count)
             found == acc[p] \cup OfToken(batch, request.tokenType)
             txs == GetTxsInNonceRange(found, request.count)
  <2>1. found \subseteq Cached /\ txs \subseteq Cached
    BY DEF SoundInv, AccCached, OfToken, GetTxsInNonceRange
  <2> HIDE DEF batch, found, txs
  <2>2. \/ acc' = [acc EXCEPT ![p] = found] /\ cache' = cache
        \/ MarkConfirmed(txs) /\ acc' = acc
    BY <1>4 DEF Collect, batch, found, txs
  <2>3. CASE acc' = [acc EXCEPT ![p] = found] /\ cache' = cache
    <3>1. CacheSound' /\ Cached' = Cached
      BY <1>2, <2>3, SameCache DEF chainVars
    <3>2. AccCached'
      BY <1>1, <2>1, <2>3, <3>1 DEF SoundInv, AccCached, TypeOK
    <3> QED BY <1>1, <1>2, <1>3, <3>1, <3>2, ClientSound
  <2>4. CASE MarkConfirmed(txs) /\ acc' = acc
    <3>1. \A t \in Txs : cache'[t] = cache[t] \/ (t \in txs /\ cache'[t] = "CONFIRMED")
      BY <1>1, <2>4 DEF MarkConfirmed, TypeOK
    <3>2. Cached' = Cached
      BY <2>1, <3>1 DEF Cached, NotCached
    <3>3. Settled' = Settled /\ Finalized' = Finalized
      BY <1>2 DEF Settled, Finalized, chainVars
    <3>4. CacheSound'
      BY <3>1, <3>2, <3>3 DEF SoundInv, CacheSound, Cached
    <3>5. AccCached'
      BY <2>4, <3>2 DEF SoundInv, AccCached
    <3> QED BY <1>1, <1>2, <1>3, <3>2, <3>4, <3>5, ClientSound
  <2> QED BY <2>2, <2>3, <2>4
<1>5. CASE UNCHANGED <<cache, acc>>
  <2>1. CacheSound' /\ Cached' = Cached
    BY <1>2, <1>5, SameCache DEF chainVars
  <2>2. AccCached'
    BY <1>5, <2>1 DEF SoundInv, AccCached
  <2> QED BY <1>1, <1>2, <1>3, <2>1, <2>2, ClientSound
<1>6. Collect(p) \/ UNCHANGED <<cache, acc>>
  BY DEF Task, GetTxs, RefreshMore, PrepareTxFetchingParams, FetchTxsIntoCache
<1> QED BY <1>4, <1>5, <1>6

(* A new call and a return disturb no cached transaction and no batch.       *)
LEMMA CallSound ==
  ASSUME SoundInv, NEW p \in Callers, Return(p) \/ \E r \in Requests : FetchTxs(p, r)
  PROVE  SoundInv'
<1>1. TypeOK' /\ TypeOK
  BY ReturnTypeOK, FetchTxsTypeOK DEF SoundInv
<1>2. UNCHANGED <<chain, final, cache, inflight>> /\ acc' = [acc EXCEPT ![p] = {}]
  BY DEF Return, FetchTxs, chainVars
<1>3. CacheSound' /\ Cached' = Cached
  BY <1>2, SameCache
<1>4. AccCached'
  BY <1>1, <1>2, <1>3 DEF SoundInv, AccCached, TypeOK
<1> QED BY <1>1, <1>2, <1>3, <1>4, ClientSound DEF chainVars

(* The node's last answer to a batch: only nonces all of whose transactions  *)
(* are finalized are cached, so what a batch knows decides what is sound.    *)
LEMMA ParsedSound ==
  ASSUME SoundInv, NEW b \in inflight, ParsedAnswer(b), TypeOK'
  PROVE  SoundInv'
<1> DEFINE usable == {s \in b.sigs : \A r \in b.sigs : r.tx.nonce = s.tx.nonce => r \in Finalized}
           status == [t \in Txs |-> IF FinalizePart(t) \in usable THEN "PROCESSED" ELSE "PENDING"]
<1>1. TypeOK /\ b.sigs \subseteq SolanaTx /\ usable \subseteq Finalized
  BY DEF SoundInv, TypeOK, Batch
<1>2. UNCHANGED <<chainVars, callVars>> /\ Deliver(b, {s.tx : s \in usable}, status)
  BY DEF ParsedAnswer, FinalizePart
<1>3. ASSUME NEW t \in Txs, FinalizePart(t) \in usable PROVE InitPart(t) \in usable
  <2>1. InitPart(t) \in b.sigs /\ InitPart(t).tx.nonce = FinalizePart(t).tx.nonce
    BY <1>3 DEF SoundInv, BatchSound, InitPart, FinalizePart
  <2> QED BY <1>3, <2>1
<1>4. ASSUME NEW s \in usable
      PROVE  /\ s.tx \in Txs
             /\ \E part \in Parts(s.tx) \ {"finalize"} : [tx |-> s.tx, part |-> part] \in Finalized
  <2>1. s \in SolanaTx /\ s = [tx |-> s.tx, part |-> s.part] /\ s.part \in Parts(s.tx) /\ s.tx \in Txs
    BY <1>1 DEF SolanaTx
  <2>2. CASE s.part = "finalize"
    <3>1. InitPart(s.tx) \in Finalized
      BY <1>1, <1>3, <2>1, <2>2 DEF FinalizePart
    <3>2. "init" \in Parts(s.tx)
      BY <2>1, <2>2 DEF Parts
    <3> QED BY <2>1, <3>1, <3>2 DEF InitPart
  <2>3. CASE s.part # "finalize"
    BY <1>1, <2>1, <2>3
  <2> QED BY <2>1, <2>2, <2>3
<1>5. ASSUME NEW t \in Txs, FinalizePart(t) \in usable PROVE t \in Settled
  <2>1. FinalizePart(t) \in SolanaTx /\ FinalizePart(t) \in Finalized /\ InitPart(t) \in Finalized
    BY <1>1, <1>3, <1>5
  <2>2. "finalize" \in Parts(t)
    BY <2>1 DEF SolanaTx, FinalizePart
  <2>3. Parts(t) = {"init", "finalize"}
    BY <2>2 DEF Parts
  <2> QED BY <2>1, <2>3 DEF Settled, InitPart, FinalizePart
<1> HIDE DEF usable, status
<1>6. \A t \in Txs : \/ cache'[t] = cache[t]
                     \/ t \in {s.tx : s \in usable} /\ cache'[t] = status[t] /\ cache[t] = NotCached
  BY <1>2 DEF Deliver, CacheInner
<1>7. \A t \in Txs : status[t] \in {"PENDING", "PROCESSED"}
                     /\ (status[t] = "PROCESSED" => FinalizePart(t) \in usable)
  BY DEF status
<1>8. Cached \subseteq Cached'
  BY <1>6, <1>7 DEF Cached, NotCached
<1>9. Settled' = Settled /\ Finalized' = Finalized
  BY <1>2 DEF Settled, Finalized, chainVars
<1>10. CacheSound'
  <2> SUFFICES ASSUME NEW t \in Txs, cache'[t] # NotCached
               PROVE  /\ \E part \in Parts(t) \ {"finalize"} : [tx |-> t, part |-> part] \in Finalized
                      /\ cache'[t] = "PROCESSED" => t \in Settled
    BY <1>9 DEF CacheSound, Cached
  <2>1. CASE cache'[t] = cache[t]
    BY <2>1 DEF SoundInv, CacheSound, Cached
  <2>2. CASE t \in {s.tx : s \in usable} /\ cache'[t] = status[t]
    BY <1>4, <1>5, <1>7, <2>2
  <2> QED BY <1>6, <2>1, <2>2
<1>11. AccCached'
  BY <1>2, <1>8 DEF SoundInv, AccCached, callVars
<1>12. \A c \in inflight' : c \in inflight
  BY <1>2 DEF Deliver
<1> QED BY <1>2, <1>8, <1>10, <1>11, <1>12, ClientSound

LEMMA SignaturesSound ==
  ASSUME SoundInv, NEW b \in inflight, NEW n \in b.pending, SignaturesAnswer(b, n), TypeOK'
  PROVE  SoundInv'
<1> DEFINE sigs == b.sigs \cup {s \in Landed : s.tx.nonce = n}
           answered == [b EXCEPT !.pending = @ \ {n}, !.sigs = sigs]
<1>1. TypeOK /\ b \in Batch /\ Landed \subseteq SolanaTx /\ answered.sigs = sigs
  BY FinalizedLanded DEF SoundInv, TypeOK, Batch
<1>2. UNCHANGED <<chain, final, acc>>
  BY DEF SignaturesAnswer, chainVars, callVars
<1>3. cache' = cache
  BY <1>1 DEF SignaturesAnswer, Deliver, CacheInner, TypeOK
<1>4. CacheSound' /\ Cached' = Cached
  BY <1>2, <1>3, SameCache
<1>5. AccCached'
  BY <1>2, <1>4 DEF SoundInv, AccCached
<1>6. sigs \subseteq Landed
  BY DEF SoundInv, BatchSound
<1>7. ASSUME NEW s \in sigs, s.part = "finalize" PROVE InitPart(s.tx) \in sigs
  <2>1. CASE s \in b.sigs
    BY <1>7, <2>1 DEF SoundInv, BatchSound
  <2>2. CASE s \in Landed /\ s.tx.nonce = n
    <3>1. s \in SolanaTx /\ s = FinalizePart(s.tx) /\ s.tx \in Txs
      BY <1>1, <1>7, <2>2 DEF SolanaTx, FinalizePart
    <3>2. InitPart(s.tx) \in Landed
      BY <2>2, <3>1, FirstPart DEF SoundInv
    <3>3. InitPart(s.tx).tx.nonce = n
      BY <2>2 DEF InitPart
    <3> QED BY <3>2, <3>3
  <2> QED BY <2>1, <2>2
<1>8. \A c \in inflight' : c \in inflight \/ c = answered
  BY DEF SignaturesAnswer, Deliver
<1>9. Landed' = Landed
  BY <1>2 DEF Landed
<1> HIDE DEF sigs, answered
<1>10. BatchSound'
  BY <1>1, <1>6, <1>7, <1>8, <1>9 DEF SoundInv, BatchSound, InitPart
<1>11. InOrder'
  BY <1>2 DEF SoundInv, InOrder, InitPart
<1> QED BY <1>4, <1>5, <1>10, <1>11 DEF SoundInv

LEMMA NodeErrorSound ==
  ASSUME SoundInv, NEW b \in inflight, NodeError(b), TypeOK'
  PROVE  SoundInv'
<1>1. UNCHANGED <<chainVars, chain, final, cache, acc>>
  BY DEF NodeError, chainVars, callVars
<1>2. CacheSound' /\ Cached' = Cached
  BY <1>1, SameCache
<1>3. AccCached'
  BY <1>1, <1>2 DEF SoundInv, AccCached
<1>4. \A c \in inflight : [c EXCEPT !.owner = NoCaller].sigs = c.sigs
  BY DEF SoundInv, TypeOK, Batch
<1>5. \A d \in inflight' : \E c \in inflight : d.sigs = c.sigs
  BY <1>4 DEF NodeError
<1> QED BY <1>1, <1>2, <1>3, <1>5, ClientSound

LEMMA NextSound == SoundInv /\ [Next]_vars => SoundInv'
<1>1. ASSUME SoundInv, NEW p \in Callers \cup {NoCaller}, Answer(p) PROVE SoundInv'
  <2>1. TypeOK'
    BY <1>1, AnswerTypeOK DEF SoundInv
  <2> QED BY <1>1, <2>1, ParsedSound, SignaturesSound, NodeErrorSound DEF Answer
<1>2. ASSUME SoundInv, UNCHANGED vars PROVE SoundInv'
  <2>1. TypeOK' /\ UNCHANGED chainVars /\ UNCHANGED <<chain, final, cache>>
    BY <1>2, StutterTypeOK DEF SoundInv, vars, chainVars
  <2>2. CacheSound' /\ Cached' = Cached /\ AccCached' /\ inflight' = inflight
    BY <1>2, <2>1, SameCache DEF vars, AccCached, SoundInv
  <2> QED BY <1>2, <2>1, <2>2, ClientSound
<1> QED BY <1>1, <1>2, ChainSound, TaskSound, CallSound DEF Next

(* Whatever callers, batches and chain do, nothing is cached that the chain  *)
(* could take back: the first part of a cached transaction is finalized, and *)
(* both parts of a SEND that is cached as processed.                         *)
THEOREM CacheIsSound == Spec => []CacheSound
<1>1. SoundInv => CacheSound
  BY DEF SoundInv
<1> QED BY <1>1, InitSound, NextSound, PTL DEF Spec

-----------------------------------------------------------------------------
(* The status of a cached transaction only moves forward.                    *)
LEMMA RankValues ==
  /\ Rank[NotCached] = 0 /\ Rank["PENDING"] = 1 /\ Rank["PROCESSED"] = 2 /\ Rank["CONFIRMED"] = 3
  /\ \A s \in Statuses \cup {NotCached} : Rank[s] \in 0..3
<1>1. Rank[NotCached] = 0
  BY DEF Rank, Statuses, NotCached
<1>2. Rank["PENDING"] = 1
  BY DEF Rank, Statuses, NotCached
<1>3. Rank["PROCESSED"] = 2
  BY DEF Rank, Statuses, NotCached
<1>4. Rank["CONFIRMED"] = 3
  BY DEF Rank, Statuses, NotCached
<1> QED BY <1>1, <1>2, <1>3, <1>4 DEF Statuses

LEMMA NextForward ==
  ASSUME TypeOK, [Next]_vars
  PROVE  \A t \in Txs : Rank[cache'[t]] >= Rank[cache[t]]
<1>1. ASSUME NEW t \in Txs, cache'[t] = cache[t] PROVE Rank[cache'[t]] >= Rank[cache[t]]
  <2>1. cache[t] \in Statuses \cup {NotCached}
    BY DEF TypeOK
  <2> QED BY <1>1, <2>1, RankValues
<1>2. ASSUME NEW t \in Txs, cache[t] = NotCached, cache' \in [Txs -> Statuses \cup {NotCached}]
      PROVE  Rank[cache'[t]] >= Rank[cache[t]]
  <2>1. cache'[t] \in Statuses \cup {NotCached}
    BY <1>2
  <2> QED BY <1>2, <2>1, RankValues
<1>3. ASSUME NEW t \in Txs, cache'[t] = "CONFIRMED" PROVE Rank[cache'[t]] >= Rank[cache[t]]
  <2>1. cache[t] \in Statuses \cup {NotCached}
    BY DEF TypeOK
  <2> QED BY <1>3, <2>1, RankValues
<1>4. ASSUME NEW p \in Callers, Collect(p)
      PROVE  \A t \in Txs : cache'[t] = cache[t] \/ cache'[t] = "CONFIRMED"
  <2>1. cache' = cache \/ \E txs : MarkConfirmed(txs)
    BY <1>4, Zenon DEF Collect
  <2>2. ASSUME NEW txs, MarkConfirmed(txs)
        PROVE  \A t \in Txs : cache'[t] = cache[t] \/ cache'[t] = "CONFIRMED"
    <3>1. CASE cache' = cache
      BY <3>1
    <3>2. CASE \E first : cache' = [t \in Txs |-> IF t \in txs \ {first} THEN "CONFIRMED" ELSE cache[t]]
      BY <3>2
    <3> QED BY <2>2, <3>1, <3>2 DEF MarkConfirmed
  <2> QED BY <2>1, <2>2
<1>5. ASSUME NEW p \in Callers \cup {NoCaller}, Answer(p)
      PROVE  /\ \A t \in Txs : cache'[t] = cache[t] \/ cache[t] = NotCached
             /\ cache' \in [Txs -> Statuses \cup {NotCached}]
  <2>1. TypeOK'
    BY <1>5, AnswerTypeOK
  <2>2. \A t \in Txs : cache'[t] = cache[t] \/ cache[t] = NotCached
    BY <1>5 DEF Answer, ParsedAnswer, SignaturesAnswer, NodeError, Deliver, CacheInner, TypeOK
  <2> QED BY <2>1, <2>2 DEF TypeOK
<1>6. \/ cache' = cache
      \/ \E p \in Callers : Collect(p)
      \/ \E p \in Callers \cup {NoCaller} : Answer(p)
  BY DEF Next, vars, Chain, Land, LandFinalize, Finalize, FetchTxs, Return, Task, GetTxs,
         RefreshMore, PrepareTxFetchingParams, FetchTxsIntoCache
<1> QED BY <1>1, <1>2, <1>3, <1>4, <1>5, <1>6

(* Whatever callers fetch at the same time, what was cached stays cached and *)
(* no status goes back from CONFIRMED or PROCESSED.                          *)
THEOREM StatusesOnlyAdvance == Spec => StatusMonotone
<1>1. TypeOK /\ [Next]_vars => [\A t \in Txs : Rank[cache'[t]] >= Rank[cache[t]]]_vars
  BY NextForward
<1> QED BY <1>1, TypeCorrect, PTL DEF Spec, StatusMonotone

-----------------------------------------------------------------------------
(* A call is complete. One caller at a time, and no nonce twice: with two    *)
(* callers, the refresh of one ends at nonces the other has cached meanwhile *)
(* and leaves out what is newer; a nonce with two transactions is not asked  *)
(* for again once one of them is cached.                                     *)
LoneCaller == UniqueNonces /\ \E p \in Callers : Callers = {p}

PartOf(t, part) == [tx |-> t, part |-> part]

(* The nonces a batch asks for, and whether it will bring t, all of which is *)
(* finalized.                                                                *)
NoncesOf(b) == b.pending \cup {s.tx.nonce : s \in b.sigs}
Has(b, t) == t.nonce \in b.pending \/ \A part \in Parts(t) : PartOf(t, part) \in b.sigs
Mine(p) == {b \in inflight : b.owner = p}

(* A nonce is used once, and only when all of the one before has landed.     *)
UniqueOnChain == \A s, r \in Landed : s.tx.nonce = r.tx.nonce => s.tx = r.tx
Before(i, n) ==
    \E u \in Txs : u.nonce = n /\ \A part \in Parts(u) : \E j \in 1..(i - 1) : chain[j] = PartOf(u, part)
OneByOne == \A i \in 1..Len(chain), n \in 0..MaxNonce : n < chain[i].tx.nonce => Before(i, n)

(* A batch other than that of a refresh asks for old nonces only.            *)
OldBatches ==
    \A b \in inflight :
        \/ b.owner # NoCaller /\ pc[b.owner] = "refresh"
        \/ NoncesOf(b) \subseteq 0..LatestCachedNonce

(* The end of the range that prepareTxFetchingParams chooses, and the nonces *)
(* in it.                                                                    *)
Bound(p) == Smaller(before[p], LatestCachedNonce + 1)
Due(p, n) == n \in 0..MaxNonce /\ after[p] < n /\ n < Bound(p)

(* What was settled when the call began has a transaction at each nonce up   *)
(* to the last, and of what the call asked for it has all from before on.    *)
AccInv(p) ==
    /\ call[p].since \subseteq Settled
    /\ \A t \in call[p].since, n \in 0..MaxNonce : n < t.nonce => \E u \in call[p].since : u.nonce = n
    /\ \A u \in acc[p] : u.nonce >= before[p]
    /\ \A t \in OfToken(call[p].since, call[p].request.tokenType) :
          before[p] <= t.nonce /\ t.nonce < call[p].request.before => t \in acc[p]

(* The refresh has come to top: nothing above is cached, and nothing that it *)
(* should find lies between the newest cached nonce and top.                 *)
UpTo(p, top) ==
    /\ LatestCachedNonce <= top
    /\ \A t \in call[p].since : t.nonce <= top => t.nonce <= LatestCachedNonce

(* Its one batch brings what there is among the next nonces.                 *)
Refreshes(p, b) ==
    /\ Mine(p) = {b}
    /\ NoncesOf(b) \subseteq cursor[p] + 1 .. cursor[p] + BatchSize
    /\ \A t \in call[p].since : t.nonce \in cursor[p] + 1 .. cursor[p] + BatchSize => Has(b, t)

(* The refresh, if there was one, has come to its end.                       *)
Refreshed(p) == \A t \in call[p].since : t.nonce < before[p] => t.nonce <= LatestCachedNonce

(* A nonce is cached, or a batch brings what it is used for.                 *)
Ready(p, n) == IsCachedNonce(n) \/ \E t \in Settled, b \in Mine(p) : t.nonce = n /\ Has(b, t)

ScanInv(p) == cursor[p] < Bound(p) /\ \A n \in 0..MaxNonce : Due(p, n) /\ n > cursor[p] => Ready(p, n)

ToldInv(p) ==
    \A t \in OfToken(call[p].since, call[p].request.tokenType) :
        t.nonce < call[p].request.before => ToldOf(p, t)

CallerInv(p) ==
    /\ pc[p] \in {"getTxs", "refresh", "refreshMore", "prepare", "scan", "fetching", "collect"} => AccInv(p)
    /\ pc[p] = "refresh" => UpTo(p, cursor[p]) /\ \E b \in inflight : Refreshes(p, b)
    /\ pc[p] = "refreshMore" => UpTo(p, cursor[p] + BatchSize)
    /\ pc[p] \in {"prepare", "scan", "fetching", "collect"} => Refreshed(p)
    /\ pc[p] \in {"scan", "fetching", "collect"} =>
          after[p] = Larger(Bound(p) - call[p].request.count - 1, -1)
    /\ pc[p] = "scan" => ScanInv(p)
    /\ pc[p] = "fetching" => \A n \in 0..MaxNonce : Due(p, n) => Ready(p, n)
    /\ pc[p] = "collect" => \A n \in 0..MaxNonce : Due(p, n) => IsCachedNonce(n)
    /\ pc[p] = "done" => ToldInv(p)
    /\ pc[p] \notin {"refresh", "scan", "fetching"} => Mine(p) = {}

LoneInv ==
    /\ SoundInv
    /\ UniqueOnChain /\ OneByOne
    /\ OldBatches
    /\ \A p \in Callers : CallerInv(p)

LEMMA InitLone == Init => LoneInv
<1> SUFFICES ASSUME Init PROVE LoneInv
  OBVIOUS
<1>1. SoundInv
  BY InitSound
<1>2. Landed = {}
  BY DEF Init, Landed
<1>3. UniqueOnChain /\ OneByOne
  BY <1>2 DEF Init, UniqueOnChain, OneByOne
<1>4. OldBatches
  BY DEF Init, OldBatches
<1>5. ASSUME NEW p \in Callers PROVE CallerInv(p)
  <2>1. pc[p] = "idle" /\ Mine(p) = {}
    BY DEF Init, Mine
  <2> QED BY <2>1 DEF CallerInv
<1> QED BY <1>1, <1>3, <1>4, <1>5 DEF LoneInv

-----------------------------------------------------------------------------
(* The chain.                                                                *)
LEMMA HighestLanded ==
  ASSUME TypeOK
  PROVE  /\ HighestNonce \in -1..MaxNonce
         /\ \A s \in Landed : s.tx \in Txs /\ s.tx.nonce \in 0..MaxNonce /\ s.tx.nonce <= HighestNonce
         /\ HighestNonce # -1 => \E s \in Landed : s.tx.nonce = HighestNonce
<1> USE TxsAssumption
<1>1. \A s \in Landed : s.tx \in Txs /\ s.tx.nonce \in 0..MaxNonce
  BY FinalizedLanded DEF SolanaTx
<1>2. CASE Landed = {}
  BY <1>2 DEF HighestNonce
<1>3. CASE Landed # {}
  <2> DEFINE S == {s.tx.nonce : s \in Landed}
  <2>1. S \in SUBSET (0..MaxNonce) /\ S # {}
    BY <1>1, <1>3
  <2>2. PICK n \in S : \A y \in S : y <= n
    BY <2>1, Greatest
  <2> DEFINE Top(k) == /\ \E t \in LandedTxs : t.nonce = k
                       /\ \A t \in LandedTxs : t.nonce <= k
  <2>3. n \in 0..MaxNonce /\ Top(n)
    BY <2>1, <2>2 DEF LandedTxs
  <2>4. HighestNonce = CHOOSE k \in 0..MaxNonce : Top(k)
    BY <1>3 DEF HighestNonce
  <2>5. HighestNonce \in 0..MaxNonce /\ Top(HighestNonce)
    <3> HIDE DEF Top
    <3> QED BY <2>3, <2>4
  <2> QED BY <1>1, <2>5 DEF LandedTxs
<1> QED BY <1>2, <1>3

(* Of a transaction that is complete all parts have landed.                  *)
LEMMA CompleteLanded ==
  ASSUME TypeOK, InOrder, NEW t \in Txs, Complete(t)
  PROVE  \A part \in Parts(t) : PartOf(t, part) \in Landed
<1>1. FinalizePart(t) \in Landed => InitPart(t) \in Landed
  BY FirstPart
<1>2. CASE t.txType = "TOPUP"
  BY <1>2 DEF Complete, Parts, PartOf
<1>3. CASE t.txType # "TOPUP"
  BY <1>1, <1>3 DEF Complete, Parts, PartOf, FinalizePart, InitPart
<1> QED BY <1>2, <1>3

(* What is appended keeps the order: all that is used below its nonce has    *)
(* landed.                                                                   *)
LEMMA AppendOneByOne ==
  ASSUME TypeOK, OneByOne, NEW s \in SolanaTx, chain' = Append(chain, s),
         \A n \in 0..MaxNonce : n < s.tx.nonce =>
            \E u \in Txs : u.nonce = n /\ \A part \in Parts(u) : PartOf(u, part) \in Landed
  PROVE  OneByOne'
<1>1. chain \in Seq(SolanaTx) /\ Len(chain) \in Nat
  BY DEF TypeOK
<1>2. /\ Len(chain') = Len(chain) + 1
      /\ chain'[Len(chain) + 1] = s
      /\ \A i \in 1..Len(chain) : chain'[i] = chain[i]
  BY <1>1
<1> SUFFICES ASSUME NEW i \in 1..Len(chain'), NEW n \in 0..MaxNonce, n < chain'[i].tx.nonce
             PROVE  Before(i, n)'
  BY DEF OneByOne
<1>3. CASE i = Len(chain) + 1
  <2>1. PICK u \in Txs : u.nonce = n /\ \A part \in Parts(u) : PartOf(u, part) \in Landed
    BY <1>2, <1>3
  <2>2. ASSUME NEW part \in Parts(u) PROVE \E j \in 1..(i - 1) : chain'[j] = PartOf(u, part)
    <3>1. PICK j \in 1..Len(chain) : chain[j] = PartOf(u, part)
      BY <2>1 DEF Landed
    <3> QED BY <1>1, <1>2, <1>3, <3>1
  <2> QED BY <2>1, <2>2 DEF Before, PartOf
<1>4. CASE i \in 1..Len(chain)
  <2>1. Before(i, n)
    BY <1>2, <1>4 DEF OneByOne
  <2>2. PICK u \in Txs :
         /\ u.nonce = n
         /\ \A part \in Parts(u) : \E j \in 1..(i - 1) : chain[j] = PartOf(u, part)
    BY <2>1 DEF Before
  <2>3. ASSUME NEW part \in Parts(u) PROVE \E j \in 1..(i - 1) : chain'[j] = PartOf(u, part)
    <3>1. PICK j \in 1..(i - 1) : chain[j] = PartOf(u, part)
      BY <2>2
    <3>2. j \in 1..Len(chain)
      BY <1>1, <1>4
    <3> QED BY <1>2, <3>1, <3>2
  <2> QED BY <2>2, <2>3 DEF Before, PartOf
<1> QED BY <1>1, <1>2, <1>3, <1>4

LEMMA ChainUnique ==
  ASSUME TypeOK, InOrder, UniqueNonces, UniqueOnChain, OneByOne, Chain
  PROVE  UniqueOnChain' /\ OneByOne'
<1> USE TxsAssumption
<1>1. ASSUME NEW t \in Txs, Land(t) PROVE UniqueOnChain' /\ OneByOne'
  <2> DEFINE s == PartOf(t, IF t.txType = "TOPUP" THEN "store" ELSE "init")
  <2>1. s \in SolanaTx /\ s.tx = t /\ t.nonce \in 0..MaxNonce
    BY DEF SolanaTx, Parts, PartOf
  <2>2. chain' = Append(chain, s) /\ final' = final
    BY <1>1 DEF Land, PartOf
  <2>3. t.nonce = HighestNonce + 1 /\ \A u \in LandedTxs : Complete(u)
    BY <1>1 DEF Land, FreeNonces, UsedNonces
  <2> HIDE DEF s
  <2>4. Landed' = Landed \cup {s}
    BY <2>1, <2>2, ChainGrows
  <2>5. \A r \in Landed : r.tx.nonce # t.nonce
    BY <2>1, <2>3, HighestLanded
  <2>6. UniqueOnChain'
    BY <2>1, <2>4, <2>5 DEF UniqueOnChain
  <2>7. ASSUME NEW n \in 0..MaxNonce, n < t.nonce
        PROVE  \E u \in Txs : u.nonce = n /\ \A part \in Parts(u) : PartOf(u, part) \in Landed
    <3>1. HighestNonce # -1 /\ n <= HighestNonce /\ HighestNonce \in 0..MaxNonce
      BY <2>1, <2>3, <2>7, HighestLanded
    <3>2. PICK r \in Landed : r.tx.nonce = HighestNonce
      BY <3>1, HighestLanded
    <3>3. CASE n = HighestNonce
      <4>1. r.tx \in Txs /\ Complete(r.tx)
        BY <2>3, HighestLanded DEF LandedTxs
      <4> QED BY <3>2, <3>3, <4>1, CompleteLanded
    <3>4. CASE n < HighestNonce
      <4>1. PICK i \in 1..Len(chain) : chain[i] = r
        BY DEF Landed
      <4>2. Before(i, n)
        BY <3>2, <3>4, <4>1 DEF OneByOne
      <4>3. PICK u \in Txs :
             /\ u.nonce = n
             /\ \A part \in Parts(u) : \E j \in 1..(i - 1) : chain[j] = PartOf(u, part)
        BY <4>2 DEF Before
      <4>4. \A j \in 1..(i - 1) : chain[j] \in Landed
        <5>1. Len(chain) \in Nat
          BY DEF TypeOK
        <5> QED BY <5>1 DEF Landed
      <4>5. \A part \in Parts(u) : PartOf(u, part) \in Landed
        BY <4>3, <4>4
      <4> QED BY <4>3, <4>5
    <3> QED BY <3>1, <3>3, <3>4
  <2> QED BY <2>1, <2>2, <2>6, <2>7, AppendOneByOne
<1>2. ASSUME NEW t \in Txs, LandFinalize(t) PROVE UniqueOnChain' /\ OneByOne'
  <2>1. FinalizePart(t) \in SolanaTx /\ FinalizePart(t).tx = t
    BY <1>2 DEF SolanaTx, Parts, LandFinalize, FinalizePart
  <2>2. chain' = Append(chain, FinalizePart(t)) /\ final' = final
    BY <1>2 DEF LandFinalize, FinalizePart
  <2>3. Landed' = Landed \cup {FinalizePart(t)}
    BY <2>1, <2>2, ChainGrows
  <2>4. PICK r \in Landed : r.tx = t
    BY <1>2 DEF LandFinalize, LandedTxs
  <2>5. UniqueOnChain'
    BY <2>1, <2>3, <2>4 DEF UniqueOnChain
  <2>6. ASSUME NEW n \in 0..MaxNonce, n < t.nonce
        PROVE  \E u \in Txs : u.nonce = n /\ \A part \in Parts(u) : PartOf(u, part) \in Landed
    <3>1. PICK i \in 1..Len(chain) : chain[i] = r
      BY DEF Landed
    <3>2. Before(i, n)
      BY <2>4, <2>6, <3>1 DEF OneByOne
    <3>3. PICK u \in Txs :
           /\ u.nonce = n
           /\ \A part \in Parts(u) : \E j \in 1..(i - 1) : chain[j] = PartOf(u, part)
      BY <3>2 DEF Before
    <3>4. \A j \in 1..(i - 1) : chain[j] \in Landed
      <4>1. Len(chain) \in Nat
        BY DEF TypeOK
      <4> QED BY <4>1 DEF Landed
    <3>5. \A part \in Parts(u) : PartOf(u, part) \in Landed
      BY <3>3, <3>4
    <3> QED BY <3>3, <3>5
  <2> QED BY <2>1, <2>2, <2>5, <2>6, AppendOneByOne
<1>3. ASSUME Finalize PROVE UniqueOnChain' /\ OneByOne'
  <2>1. chain' = chain /\ Landed' = Landed
    BY <1>3, FinalGrows DEF Finalize
  <2> QED BY <2>1 DEF UniqueOnChain, OneByOne, Before, PartOf
<1> QED BY <1>1, <1>2, <1>3 DEF Chain

(* Below a nonce that is finalized in part everything is settled.            *)
LEMMA BelowSettled ==
  ASSUME TypeOK, OneByOne, NEW s \in Finalized, NEW n \in 0..MaxNonce, n < s.tx.nonce
  PROVE  \E u \in Settled : u.nonce = n
<1>1. final \in 0..Len(chain) /\ Len(chain) \in Nat
  BY DEF TypeOK
<1>2. PICK i \in 1..final : chain[i] = s
  BY DEF Finalized
<1>3. i \in 1..Len(chain) /\ \A j \in 1..(i - 1) : chain[j] \in Finalized
  BY <1>1 DEF Finalized
<1>4. Before(i, n)
  BY <1>2, <1>3 DEF OneByOne
<1>5. PICK u \in Txs :
       /\ u.nonce = n
       /\ \A part \in Parts(u) : \E j \in 1..(i - 1) : chain[j] = PartOf(u, part)
  BY <1>4 DEF Before
<1>6. \A part \in Parts(u) : PartOf(u, part) \in Finalized
  BY <1>3, <1>5
<1> QED BY <1>5, <1>6 DEF Settled, PartOf

(* A settled transaction has a part, and what is cached at its nonce is it.  *)
LEMMA SettledLanded ==
  ASSUME TypeOK, NEW t \in Settled
  PROVE  /\ t \in Txs /\ t.nonce \in 0..MaxNonce
         /\ \A part \in Parts(t) : PartOf(t, part) \in Finalized /\ PartOf(t, part) \in Landed
         /\ \E part \in Parts(t) : TRUE
<1>1. Finalized \subseteq Landed
  BY FinalizedLanded
<1> QED BY <1>1, TxsAssumption DEF Settled, PartOf, Parts

LEMMA CachedOfNonce ==
  ASSUME TypeOK, CacheSound, UniqueOnChain, NEW t \in Settled, IsCachedNonce(t.nonce)
  PROVE  t \in Cached
<1>1. PICK u \in Cached : u.nonce = t.nonce
  BY DEF IsCachedNonce
<1>2. PICK part \in Parts(u) : PartOf(u, part) \in Finalized
  BY DEF CacheSound, PartOf
<1>3. PICK other \in Parts(t) : PartOf(t, other) \in Landed
  BY SettledLanded
<1>4. PartOf(u, part) \in Landed /\ PartOf(u, part).tx = u /\ PartOf(t, other).tx = t
  BY <1>2, FinalizedLanded DEF PartOf
<1> QED BY <1>1, <1>3, <1>4 DEF UniqueOnChain

(* Everything up to the newest cached nonce is cached or settled.            *)
LEMMA BelowLatest ==
  ASSUME TypeOK, CacheSound, OneByOne, NEW n \in 0..MaxNonce, n <= LatestCachedNonce
  PROVE  IsCachedNonce(n) \/ \E u \in Settled : u.nonce = n
<1>1. LatestCachedNonce \in 0..MaxNonce /\ IsCachedNonce(LatestCachedNonce)
  BY LatestCached, TxsAssumption
<1>2. CASE n = LatestCachedNonce
  BY <1>1, <1>2
<1>3. CASE n < LatestCachedNonce
  <2>1. PICK t \in Cached : t.nonce = LatestCachedNonce
    BY <1>1 DEF IsCachedNonce
  <2>2. PICK part \in Parts(t) : PartOf(t, part) \in Finalized
    BY DEF CacheSound, PartOf
  <2>3. PartOf(t, part).tx = t
    BY DEF PartOf
  <2> QED BY <1>3, <2>1, <2>2, <2>3, BelowSettled
<1> QED BY <1>1, <1>2, <1>3

LatestIs ==
  /\ LatestCachedNonce \in -1..MaxNonce
  /\ \A t \in Cached : t.nonce <= LatestCachedNonce
  /\ LatestCachedNonce # -1 => IsCachedNonce(LatestCachedNonce)

LEMMA LatestCachedNext ==
  /\ LatestCachedNonce' \in -1..MaxNonce
  /\ \A t \in Cached' : t.nonce <= LatestCachedNonce'
  /\ LatestCachedNonce' # -1 => \E t \in Cached' : t.nonce = LatestCachedNonce'
<1>1. LatestIs
  BY LatestCached DEF LatestIs
<1>2. LatestIs'
  BY <1>1, PTL
<1> QED BY <1>2 DEF LatestIs, IsCachedNonce

(* The newest cached nonce after a step that caches more.                    *)
LEMMA LatestGrows ==
  ASSUME Cached \subseteq Cached'
  PROVE  /\ LatestCachedNonce' >= LatestCachedNonce
         /\ \A top \in Int : LatestCachedNonce <= top /\ (\A t \in Cached' \ Cached : t.nonce <= top) =>
                                LatestCachedNonce' <= top
         /\ \A n : IsCachedNonce(n) => IsCachedNonce(n)'
<1>1. LatestCachedNonce \in -1..MaxNonce /\ LatestCachedNonce' \in -1..MaxNonce
  BY LatestCached, LatestCachedNext
<1>2. LatestCachedNonce' >= LatestCachedNonce
  <2>1. CASE LatestCachedNonce = -1
    BY <1>1, <2>1, TxsAssumption
  <2>2. CASE LatestCachedNonce # -1
    BY <2>2, LatestCached, LatestCachedNext DEF IsCachedNonce
  <2> QED BY <2>1, <2>2
<1>3. ASSUME NEW top \in Int, LatestCachedNonce <= top, \A t \in Cached' \ Cached : t.nonce <= top
      PROVE  LatestCachedNonce' <= top
  <2>1. CASE LatestCachedNonce' = -1
    BY <1>1, <1>3, <2>1, TxsAssumption
  <2>2. CASE LatestCachedNonce' # -1
    <3>1. PICK t \in Cached' : t.nonce = LatestCachedNonce'
      BY <2>2, LatestCachedNext DEF IsCachedNonce
    <3>2. CASE t \in Cached
      <4>1. t.nonce <= LatestCachedNonce
        BY <3>2, LatestCached
      <4> QED BY <1>1, <1>3, <3>1, <4>1, TxsAssumption
    <3> QED BY <1>3, <3>1, <3>2
  <2> QED BY <2>1, <2>2
<1>4. \A n : IsCachedNonce(n) => IsCachedNonce(n)'
  BY DEF IsCachedNonce
<1> QED BY <1>2, <1>3, <1>4

-----------------------------------------------------------------------------
(* A step that leaves the caller where it is, its call as it was and the     *)
(* newest cached nonce what it was, and brings what its batches would bring. *)
LEMMA KeepsCaller ==
  ASSUME NEW p \in Callers, CallerInv(p), pc'[p] = pc[p], UNCHANGED callVars,
         Settled \subseteq Settled', LatestCachedNonce' = LatestCachedNonce,
         \A n : IsCachedNonce(n) => IsCachedNonce(n)',
         \A b \in inflight : Refreshes(p, b) => \E c \in inflight' : Refreshes(p, c)',
         \A n : Ready(p, n) => Ready(p, n)',
         Mine(p) = {} => Mine(p)' = {}
  PROVE  CallerInv(p)'
<1>1. AccInv(p) => AccInv(p)'
  BY DEF AccInv, callVars, OfToken
<1>2. \A top : UpTo(p, top) => UpTo(p, top)'
  BY DEF UpTo, callVars
<1>3. Refreshed(p) => Refreshed(p)'
  BY DEF Refreshed, callVars
<1>4. Bound(p)' = Bound(p) /\ UNCHANGED <<call, before, after, cursor>>
  BY DEF Bound, Smaller, callVars
<1>5. \A n : Due(p, n)' = Due(p, n)
  BY <1>4 DEF Due
<1>6. ScanInv(p) => ScanInv(p)'
  BY <1>4, <1>5 DEF ScanInv
<1>7. ToldInv(p) => ToldInv(p)'
  BY DEF ToldInv, ToldOf, OfToken, callVars
<1>8. Larger(Bound(p) - call[p].request.count - 1, -1)' = Larger(Bound(p) - call[p].request.count - 1, -1)
  BY <1>4 DEF Larger
<1>9. UpTo(p, cursor[p]) => UpTo(p, cursor[p])'
  BY <1>2, <1>4 DEF UpTo
<1>10. UpTo(p, cursor[p] + BatchSize) => UpTo(p, cursor[p] + BatchSize)'
  BY <1>2, <1>4 DEF UpTo
<1> HIDE DEF callVars
<1>11. \A n \in 0..MaxNonce : (Due(p, n) => Ready(p, n)) => (Due(p, n) => Ready(p, n))'
  BY <1>5
<1>12. \A n \in 0..MaxNonce : (Due(p, n) => IsCachedNonce(n)) => (Due(p, n) => IsCachedNonce(n))'
  BY <1>5
<1> QED
  BY <1>1, <1>3, <1>4, <1>6, <1>7, <1>8, <1>9, <1>10, <1>11, <1>12 DEF CallerInv

LEMMA SameLatest ==
  ASSUME UNCHANGED cache
  PROVE  /\ Cached' = Cached /\ LatestCachedNonce' = LatestCachedNonce
         /\ \A n : IsCachedNonce(n)' = IsCachedNonce(n)
<1>1. Cached' = Cached
  BY DEF Cached
<1>2. \A n : IsCachedNonce(n)' = IsCachedNonce(n)
  BY <1>1 DEF IsCachedNonce
<1> QED BY <1>1, <1>2 DEF LatestCachedNonce, IsCachedNonce

(* With the same batches, a caller keeps what it has.                        *)
LEMMA SameBatches ==
  ASSUME NEW p \in Callers, UNCHANGED <<inflight, callVars>>, Settled \subseteq Settled',
         \A n : IsCachedNonce(n) => IsCachedNonce(n)'
  PROVE  /\ Mine(p)' = Mine(p)
         /\ \A b \in inflight : Refreshes(p, b) => \E c \in inflight' : Refreshes(p, c)'
         /\ \A n : Ready(p, n) => Ready(p, n)'
<1>1. Mine(p)' = Mine(p)
  BY DEF Mine
<1>2. \A b : Refreshes(p, b)' = Refreshes(p, b)
  BY <1>1 DEF Refreshes, Has, NoncesOf, PartOf, callVars
<1>3. \A n : Ready(p, n) => Ready(p, n)'
  BY <1>1 DEF Ready, Has, PartOf
<1> QED BY <1>1, <1>2, <1>3

LEMMA ReadyBy ==
  ASSUME NEW p \in Callers, NEW n, NEW t \in Settled', NEW b \in Mine(p)', t.nonce = n, Has(b, t)
  PROVE  Ready(p, n)'
BY DEF Ready, Has, PartOf

LEMMA SameOldBatches ==
  ASSUME LoneInv, NEW p \in Callers, Callers = {p}, pc[p] # "refresh",
         inflight' = inflight, LatestCachedNonce' = LatestCachedNonce
  PROVE  OldBatches'
<1>1. ASSUME NEW b \in inflight PROVE NoncesOf(b) \subseteq 0..LatestCachedNonce
  <2>1. b.owner \in {p, NoCaller}
    BY DEF LoneInv, SoundInv, TypeOK, Batch
  <2> QED BY <2>1 DEF LoneInv, OldBatches
<1> QED BY <1>1 DEF OldBatches, NoncesOf

LEMMA ChainLone ==
  ASSUME LoneInv, UniqueNonces, Chain
  PROVE  LoneInv'
<1>1. TypeOK /\ InOrder
  BY DEF LoneInv, SoundInv
<1>2. SoundInv'
  BY ChainSound DEF LoneInv
<1>3. UniqueOnChain' /\ OneByOne'
  BY <1>1, ChainUnique DEF LoneInv
<1>4. Finalized \subseteq Finalized' /\ UNCHANGED <<cache, running, pc, inflight, callVars>>
  BY <1>1, ChainMonotone
<1>5. Settled \subseteq Settled'
  BY <1>4 DEF Settled
<1>6. OldBatches'
  BY <1>4, SameLatest DEF LoneInv, OldBatches, NoncesOf
<1>7. ASSUME NEW p \in Callers PROVE CallerInv(p)'
  BY <1>4, <1>5, SameLatest, SameBatches, KeepsCaller DEF LoneInv
<1> QED BY <1>2, <1>3, <1>6, <1>7 DEF LoneInv

LEMMA StutterLone ==
  ASSUME LoneInv, UNCHANGED vars
  PROVE  LoneInv'
<1>1. SoundInv'
  BY NextSound DEF LoneInv
<1>2. UNCHANGED <<chain, final, cache, running, pc, inflight, callVars>>
  BY DEF vars, callVars
<1>3. UniqueOnChain' /\ OneByOne' /\ Settled' = Settled
  BY <1>2 DEF LoneInv, UniqueOnChain, OneByOne, Before, PartOf, Settled, Landed, Finalized
<1>4. OldBatches'
  BY <1>2, SameLatest DEF LoneInv, OldBatches, NoncesOf
<1>5. ASSUME NEW p \in Callers PROVE CallerInv(p)'
  BY <1>2, <1>3, SameLatest, SameBatches, KeepsCaller DEF LoneInv
<1> QED BY <1>1, <1>3, <1>4, <1>5 DEF LoneInv

-----------------------------------------------------------------------------
(* The steps of a call.                                                      *)

(* What a step of the one caller has to keep.                                *)
LEMMA LoneStep ==
  ASSUME LoneInv, NEW p \in Callers, Callers = {p}, SoundInv', UNCHANGED chainVars,
         OldBatches', CallerInv(p)'
  PROVE  LoneInv'
<1>1. UniqueOnChain' /\ OneByOne'
  BY DEF LoneInv, UniqueOnChain, OneByOne, Before, PartOf, Landed, chainVars
<1> QED BY <1>1 DEF LoneInv

LEMMA FetchTxsLone ==
  ASSUME LoneInv, NEW p \in Callers, Callers = {p}, NEW r \in Requests, FetchTxs(p, r)
  PROVE  LoneInv'
<1> USE TxsAssumption, ClientAssumption
<1>1. TypeOK
  BY DEF LoneInv, SoundInv
<1>2. SoundInv'
  BY CallSound DEF LoneInv
<1>3. UNCHANGED <<chainVars, chain, final, cache, inflight>>
  BY DEF FetchTxs, chainVars
<1>4. /\ pc'[p] = "getTxs" /\ call'[p] = [request |-> r, since |-> Settled]
      /\ before'[p] = r.before /\ acc'[p] = {} /\ pc[p] = "idle"
  BY <1>1 DEF FetchTxs, TypeOK
<1>5. Settled' = Settled /\ Settled \subseteq Txs
  BY <1>3 DEF Settled, Finalized
<1>6. ASSUME NEW t \in Settled, NEW n \in 0..MaxNonce, n < t.nonce PROVE \E u \in Settled : u.nonce = n
  <2>1. PICK part \in Parts(t) : PartOf(t, part) \in Finalized
    BY <1>1, SettledLanded
  <2>2. PartOf(t, part).tx = t
    BY DEF PartOf
  <2> QED BY <1>1, <1>6, <2>1, <2>2, BelowSettled DEF LoneInv
<1>7. AccInv(p)'
  <2>1. \A t \in Settled : ~(r.before <= t.nonce /\ t.nonce < r.before)
    BY <1>5
  <2> QED BY <1>4, <1>5, <1>6, <2>1 DEF AccInv, OfToken
<1>8. Mine(p)' = {}
  BY <1>3, <1>4 DEF LoneInv, CallerInv, Mine
<1>9. CallerInv(p)'
  BY <1>4, <1>7, <1>8 DEF CallerInv
<1>10. OldBatches'
  BY <1>3, <1>4, SameLatest, SameOldBatches
<1> QED BY <1>2, <1>3, <1>9, <1>10, LoneStep

LEMMA ReturnLone ==
  ASSUME LoneInv, NEW p \in Callers, Callers = {p}, Return(p)
  PROVE  LoneInv'
<1>1. TypeOK
  BY DEF LoneInv, SoundInv
<1>2. SoundInv'
  BY CallSound DEF LoneInv
<1>3. UNCHANGED <<chainVars, chain, final, cache, inflight>>
  BY DEF Return, chainVars
<1>4. pc'[p] = "idle" /\ pc[p] \in {"done", "failed"}
  BY <1>1 DEF Return, TypeOK
<1>5. Mine(p)' = {}
  BY <1>3, <1>4 DEF LoneInv, CallerInv, Mine
<1>6. CallerInv(p)'
  BY <1>4, <1>5 DEF CallerInv
<1>7. OldBatches'
  BY <1>3, <1>4, SameLatest, SameOldBatches
<1> QED BY <1>2, <1>3, <1>6, <1>7, LoneStep

(* A call that goes on keeps what it has accumulated.                        *)
LEMMA SameAcc ==
  ASSUME NEW p \in Callers, AccInv(p), UNCHANGED <<chain, final, call, before, acc>>
  PROVE  AccInv(p)'
<1>1. Settled' = Settled
  BY DEF Settled, Finalized
<1> QED BY <1>1 DEF AccInv, OfToken

LEMMA RefreshBatchLone ==
  ASSUME LoneInv, NEW p \in Callers, Callers = {p}, pc[p] \in {"getTxs", "refreshMore"},
         NEW i \in Int, UpTo(p, i), RefreshBatch(p, i),
         UNCHANGED <<chainVars, cache, call, before, after, acc, result>>
  PROVE  CallerInv(p)' /\ OldBatches'
<1> USE TxsAssumption, ClientAssumption
<1> DEFINE nonces == NoncesToFetch(i + 1, i + BatchSize)
<1>1. TypeOK /\ AccInv(p) /\ Mine(p) = {}
  BY DEF LoneInv, SoundInv, CallerInv
<1>2. UNCHANGED <<chain, final, cache, call, before, after, acc>> /\ cursor'[p] = i
  BY <1>1 DEF chainVars, RefreshBatch, TypeOK
<1>3. AccInv(p)'
  BY <1>1, <1>2, SameAcc
<1>4. Cached' = Cached /\ LatestCachedNonce' = LatestCachedNonce
  BY <1>2, SameLatest
<1>5. LatestCachedNonce \in -1..MaxNonce /\ LatestCachedNonce <= i
  BY LatestCached DEF UpTo
<1>6. \A n \in AskNonces : i < n => ~IsCachedNonce(n)
  <2> SUFFICES ASSUME NEW n \in AskNonces, i < n, NEW t \in Cached, t.nonce = n PROVE FALSE
    BY DEF IsCachedNonce
  <2> QED BY <1>5, LatestCached DEF AskNonces
<1>7. \A t \in call[p].since : t \in Txs /\ t.nonce \in 0..MaxNonce
  BY <1>1 DEF TypeOK
<1>8. UpTo(p, i)'
  BY <1>2, <1>4 DEF UpTo
<1>9. CASE nonces = {}
  <2>1. pc'[p] = "prepare" /\ inflight' = inflight
    BY <1>1, <1>9 DEF RefreshBatch, TypeOK
  <2>2. i + 1 \notin AskNonces
    <3>1. CASE i + 1 \in AskNonces
      <4>1. i + 1 \in nonces
        BY <1>6, <3>1 DEF NoncesToFetch
      <4> QED BY <1>9, <4>1
    <3> QED BY <3>1
  <2>3. i > MaxNonce
    BY <1>5, <2>2 DEF AskNonces
  <2>4. Refreshed(p)'
    BY <1>2, <1>4, <1>7, <2>3 DEF UpTo, Refreshed
  <2>5. Mine(p)' = {}
    BY <1>1, <2>1 DEF Mine
  <2>6. OldBatches'
    BY <1>4, <2>1, SameOldBatches
  <2> QED BY <1>3, <2>1, <2>4, <2>5, <2>6 DEF CallerInv
<1>10. CASE nonces # {}
  <2>0. PICK b : b = [owner |-> p, pending |-> nonces, sigs |-> {}]
    OBVIOUS
  <2>1. pc'[p] = "refresh" /\ inflight' = inflight \cup {b} /\ b.owner = p /\ b.pending = nonces
    BY <1>1, <1>10, <2>0 DEF RefreshBatch, TypeOK, Issue
  <2>2. Mine(p)' = {b}
    BY <1>1, <2>1 DEF Mine
  <2>3. NoncesOf(b) = nonces
    BY <2>0 DEF NoncesOf
  <2>4. nonces \subseteq i + 1 .. i + BatchSize
    BY DEF NoncesToFetch, AskNonces
  <2>5. ASSUME NEW t \in call[p].since, t.nonce \in i + 1 .. i + BatchSize PROVE t.nonce \in nonces
    <3>1. t.nonce \in AskNonces /\ i < t.nonce
      BY <1>7, <2>5 DEF AskNonces
    <3> QED BY <1>6, <2>5, <3>1 DEF NoncesToFetch
  <2> HIDE DEF nonces
  <2>6. Refreshes(p, b)'
    <3>1. NoncesOf(b) \subseteq i + 1 .. i + BatchSize
      BY <2>3, <2>4
    <3>2. \A t \in call[p].since : t.nonce \in i + 1 .. i + BatchSize => Has(b, t)
      BY <2>1, <2>5 DEF Has
    <3> QED BY <1>2, <2>2, <3>1, <3>2 DEF Refreshes, Has, NoncesOf, PartOf
  <2>7. b \in inflight'
    BY <2>1
  <2>8. OldBatches'
    <3> SUFFICES ASSUME NEW c \in inflight', c # b PROVE NoncesOf(c) \subseteq 0..LatestCachedNonce
      BY <1>1, <1>4, <2>1 DEF OldBatches, NoncesOf
    <3>1. c \in inflight /\ c.owner # p
      BY <1>1, <2>1 DEF Mine
    <3>2. c.owner = NoCaller
      BY <1>1, <3>1 DEF TypeOK, Batch
    <3> QED BY <3>1, <3>2 DEF LoneInv, OldBatches
  <2>9. UpTo(p, cursor[p])'
    BY <1>2, <1>8 DEF UpTo
  <2>10. \E c \in inflight' : Refreshes(p, c)'
    BY <2>6, <2>7
  <2> HIDE TxsAssumption, ClientAssumption
  <2> QED BY <1>3, <2>1, <2>8, <2>9, <2>10 DEF CallerInv
<1> QED BY <1>9, <1>10

LEMMA GetTxsLone ==
  ASSUME LoneInv, NEW p \in Callers, Callers = {p}, GetTxs(p)
  PROVE  CallerInv(p)' /\ OldBatches'
<1>1. TypeOK /\ AccInv(p) /\ Mine(p) = {}
  BY DEF LoneInv, SoundInv, CallerInv, GetTxs
<1>2. LatestCachedNonce \in Int /\ before[p] \in Nat
  BY <1>1, LatestCached, TxsAssumption DEF TypeOK
<1>3. CASE before[p] > LatestCachedNonce
  <2>1. UpTo(p, LatestCachedNonce)
    BY <1>2 DEF UpTo
  <2> QED BY <1>2, <1>3, <2>1, RefreshBatchLone DEF GetTxs
<1>4. CASE ~(before[p] > LatestCachedNonce)
  <2>1. /\ pc'[p] = "prepare"
        /\ UNCHANGED <<chain, final, cache, call, before, after, acc, inflight>>
    BY <1>1, <1>4 DEF GetTxs, TypeOK, chainVars
  <2>2. AccInv(p)' /\ LatestCachedNonce' = LatestCachedNonce
    BY <1>1, <2>1, SameAcc, SameLatest
  <2>3. \A t \in call[p].since : t.nonce \in Int
    BY <1>1, TxsAssumption DEF TypeOK
  <2>4. Refreshed(p)'
    BY <1>2, <1>4, <2>1, <2>2, <2>3 DEF Refreshed
  <2>5. Mine(p)' = {}
    BY <1>1, <2>1 DEF Mine
  <2>6. OldBatches'
    BY <2>1, <2>2, SameOldBatches DEF GetTxs
  <2> QED BY <2>1, <2>2, <2>4, <2>5, <2>6 DEF CallerInv
<1> QED BY <1>3, <1>4

LEMMA RefreshMoreLone ==
  ASSUME LoneInv, NEW p \in Callers, Callers = {p}, RefreshMore(p)
  PROVE  CallerInv(p)' /\ OldBatches'
<1>1. UpTo(p, cursor[p] + BatchSize) /\ pc[p] = "refreshMore"
  BY DEF LoneInv, CallerInv, RefreshMore
<1>2. cursor[p] + BatchSize \in Int
  BY ClientAssumption DEF LoneInv, SoundInv, TypeOK
<1> QED BY <1>1, <1>2, RefreshBatchLone DEF RefreshMore

LEMMA PrepareLone ==
  ASSUME LoneInv, NEW p \in Callers, Callers = {p}, PrepareTxFetchingParams(p)
  PROVE  CallerInv(p)' /\ OldBatches'
<1>1. TypeOK /\ AccInv(p) /\ Refreshed(p) /\ Mine(p) = {}
  BY DEF LoneInv, SoundInv, CallerInv, PrepareTxFetchingParams
<1>2. /\ pc'[p] = "scan" /\ cursor'[p] = Bound(p) - 1
      /\ after'[p] = Larger(Bound(p) - call[p].request.count - 1, -1)
      /\ UNCHANGED <<chain, final, cache, call, before, acc, inflight>>
  BY <1>1 DEF PrepareTxFetchingParams, TypeOK, chainVars, Bound
<1>3. LatestCachedNonce' = LatestCachedNonce /\ AccInv(p)'
  BY <1>1, <1>2, SameAcc, SameLatest
<1>4. Bound(p) \in Int /\ Bound(p)' = Bound(p)
  BY <1>1, <1>2, <1>3, LatestCached, TxsAssumption DEF Bound, Smaller, TypeOK
<1>5. Refreshed(p)'
  BY <1>1, <1>2, <1>3 DEF Refreshed
<1>6. ScanInv(p)'
  BY <1>2, <1>4 DEF ScanInv, Due
<1>7. OldBatches'
  BY <1>2, <1>3, SameOldBatches DEF PrepareTxFetchingParams
<1> QED BY <1>2, <1>3, <1>4, <1>5, <1>6, <1>7 DEF CallerInv

LEMMA ScanLone ==
  ASSUME LoneInv, NEW p \in Callers, Callers = {p}, FetchTxsIntoCache(p)
  PROVE  CallerInv(p)' /\ OldBatches'
<1> USE TxsAssumption, ClientAssumption
<1>1. /\ TypeOK /\ AccInv(p) /\ Refreshed(p) /\ ScanInv(p) /\ pc[p] = "scan"
      /\ after[p] = Larger(Bound(p) - call[p].request.count - 1, -1)
  BY DEF LoneInv, SoundInv, CallerInv, FetchTxsIntoCache
<1>2. UNCHANGED <<chain, final, cache, call, before, after, acc, result>>
  BY DEF FetchTxsIntoCache, chainVars
<1>3. /\ LatestCachedNonce' = LatestCachedNonce /\ AccInv(p)' /\ Settled' = Settled
      /\ \A n : IsCachedNonce(n)' = IsCachedNonce(n)
  BY <1>1, <1>2, SameAcc, SameLatest DEF Settled, Finalized
<1>4. Bound(p) \in Int /\ Bound(p)' = Bound(p) /\ Bound(p) <= LatestCachedNonce + 1
  BY <1>1, <1>2, <1>3, LatestCached DEF Bound, Smaller, TypeOK
<1>5. Refreshed(p)' /\ after'[p] = Larger(Bound(p)' - call'[p].request.count - 1, -1)
  BY <1>1, <1>2, <1>3, <1>4 DEF Refreshed
<1>6. cursor[p] \in Int /\ after[p] \in Int /\ after[p] >= -1 /\ LatestCachedNonce \in -1..MaxNonce
  <2>1. call[p].request.count \in Nat
    BY <1>1 DEF TypeOK
  <2> QED BY <1>1, <1>4, <2>1, LatestCached DEF TypeOK, Larger
<1>7. \A n : Due(p, n)' = Due(p, n)
  BY <1>2, <1>4 DEF Due
<1>8. CASE /\ cursor[p] > after[p] /\ IsCachedNonce(cursor[p])
           /\ cursor' = [cursor EXCEPT ![p] = @ - 1]
           /\ UNCHANGED <<running, pc, inflight>>
  <2>1. Mine(p)' = Mine(p) /\ cursor'[p] = cursor[p] - 1
    BY <1>1, <1>8 DEF Mine, TypeOK
  <2>2. \A n : Ready(p, n)' = Ready(p, n)
    BY <1>3, <2>1 DEF Ready, Has, PartOf
  <2>3. \A n \in 0..MaxNonce : Due(p, n) /\ n > cursor[p] - 1 => Ready(p, n)
    <3> SUFFICES ASSUME NEW n \in 0..MaxNonce, Due(p, n), n > cursor[p] - 1 PROVE Ready(p, n)
      OBVIOUS
    <3>1. n = cursor[p] \/ n > cursor[p]
      BY <1>6
    <3> QED BY <1>1, <1>8, <3>1 DEF ScanInv, Ready
  <2>4. ScanInv(p)'
    BY <1>1, <1>4, <1>6, <1>7, <2>1, <2>2, <2>3 DEF ScanInv
  <2>5. OldBatches'
    BY <1>3, <1>8 DEF LoneInv, OldBatches, NoncesOf
  <2> QED BY <1>1, <1>3, <1>5, <1>8, <2>4, <2>5 DEF CallerInv
<1>9. CASE /\ cursor[p] > after[p] /\ ~IsCachedNonce(cursor[p])
           /\ Issue(p, NoncesToFetch(Larger(after[p] + 1, cursor[p] - BatchSize + 1), cursor[p]))
           /\ cursor' = [cursor EXCEPT ![p] = @ - BatchSize]
           /\ UNCHANGED <<running, pc>>
  <2> DEFINE nonces == NoncesToFetch(Larger(after[p] + 1, cursor[p] - BatchSize + 1), cursor[p])
             b == [owner |-> p, pending |-> nonces, sigs |-> {}]
  <2>1. inflight' = inflight \cup {b} /\ cursor'[p] = cursor[p] - BatchSize
    BY <1>1, <1>9 DEF Issue, TypeOK
  <2>2. b \in Mine(p)' /\ Mine(p) \subseteq Mine(p)'
    BY <2>1 DEF Mine
  <2>3. \A n : Ready(p, n) => Ready(p, n)'
    BY <1>3, <2>2 DEF Ready, Has, PartOf
  <2>4. ASSUME NEW n \in 0..MaxNonce, Due(p, n), n > cursor[p] - BatchSize PROVE Ready(p, n)'
    <3>1. CASE n > cursor[p]
      BY <1>1, <2>3, <2>4, <3>1 DEF ScanInv
    <3>2. CASE n <= cursor[p] /\ ~IsCachedNonce(n)
      <4>1. n <= LatestCachedNonce /\ after[p] < n
        BY <1>4, <1>6, <2>4 DEF Due
      <4>2. PICK u \in Settled : u.nonce = n
        BY <1>1, <3>2, <4>1, BelowLatest DEF LoneInv, SoundInv
      <4>3. n \in nonces
        BY <1>6, <2>4, <3>2, <4>1 DEF NoncesToFetch, AskNonces, Larger
      <4>4. Has(b, u)
        BY <4>2, <4>3 DEF Has
      <4>5. u \in Settled' /\ b \in Mine(p)'
        BY <1>3, <2>2, <4>2
      <4> QED BY <4>2, <4>4, <4>5, ReadyBy
    <3>3. CASE IsCachedNonce(n)
      BY <1>3, <3>3 DEF Ready
    <3> QED BY <1>6, <3>1, <3>2, <3>3
  <2>5. cursor[p] <= LatestCachedNonce
    BY <1>1, <1>4, <1>6 DEF ScanInv
  <2>6. NoncesOf(b) \subseteq 0..LatestCachedNonce
    <3>1. NoncesOf(b) = nonces
      BY DEF NoncesOf
    <3> QED BY <1>6, <2>5, <3>1 DEF NoncesToFetch, AskNonces
  <2> HIDE DEF b, nonces
  <2>7. ScanInv(p)'
    BY <1>1, <1>4, <1>6, <1>7, <2>1, <2>4 DEF ScanInv
  <2>8. OldBatches'
    BY <1>1, <1>3, <1>9, <2>1, <2>6 DEF LoneInv, OldBatches, NoncesOf
  <2> QED BY <1>1, <1>3, <1>5, <1>9, <2>7, <2>8 DEF CallerInv
<1>10. CASE /\ cursor[p] <= after[p]
            /\ IF \E b \in inflight : b.owner = p
               THEN pc' = [pc EXCEPT ![p] = "fetching"] /\ running' = NoCaller
               ELSE pc' = [pc EXCEPT ![p] = "collect"] /\ running' = running
            /\ UNCHANGED <<cursor, inflight>>
  <2>1. \A n \in 0..MaxNonce : Due(p, n) => Ready(p, n)
    BY <1>1, <1>6, <1>10 DEF ScanInv, Due
  <2>2. Mine(p)' = Mine(p)
    BY <1>10 DEF Mine
  <2>3. \A n : Ready(p, n)' = Ready(p, n)
    BY <1>3, <2>2 DEF Ready, Has, PartOf
  <2>4. pc'[p] = "fetching" \/ (pc'[p] = "collect" /\ Mine(p) = {})
    BY <1>1, <1>10 DEF TypeOK, Mine
  <2>5. Mine(p) = {} => \A n \in 0..MaxNonce : Due(p, n) => IsCachedNonce(n)
    BY <2>1 DEF Ready
  <2>6. OldBatches'
    <3> SUFFICES ASSUME NEW c \in inflight PROVE NoncesOf(c) \subseteq 0..LatestCachedNonce
      BY <1>3, <1>10 DEF OldBatches, NoncesOf
    <3>1. c.owner \in {p, NoCaller}
      BY <1>1 DEF TypeOK, Batch
    <3> QED BY <1>1, <3>1 DEF LoneInv, OldBatches
  <2>7. (\A n \in 0..MaxNonce : Due(p, n) => Ready(p, n))'
    BY <1>7, <2>1, <2>3
  <2>8. Mine(p) = {} => (\A n \in 0..MaxNonce : Due(p, n) => IsCachedNonce(n))'
    BY <1>3, <1>7, <2>5
  <2>9. CASE pc'[p] = "fetching"
    <3> HIDE TxsAssumption, ClientAssumption
    <3>1. AccInv(p)' /\ Refreshed(p)'
      BY <1>3, <1>5
    <3>2. (after[p] = Larger(Bound(p) - call[p].request.count - 1, -1))'
      BY <1>5
    <3> QED BY <2>6, <2>7, <2>9, <3>1, <3>2 DEF CallerInv
  <2>10. CASE pc'[p] = "collect" /\ Mine(p) = {}
    <3> HIDE TxsAssumption, ClientAssumption
    <3>1. AccInv(p)' /\ Refreshed(p)' /\ Mine(p)' = {}
      BY <1>3, <1>5, <2>2, <2>10
    <3>2. (after[p] = Larger(Bound(p) - call[p].request.count - 1, -1))'
      BY <1>5
    <3> QED BY <2>6, <2>8, <2>10, <3>1, <3>2 DEF CallerInv
  <2> QED BY <2>4, <2>6, <2>9, <2>10
<1> QED BY <1>8, <1>9, <1>10 DEF FetchTxsIntoCache

-----------------------------------------------------------------------------
(* The cut after count transactions.                                         *)
LEMMA CachedFinite ==
  ASSUME TypeOK, CacheSound
  PROVE  IsFiniteSet(Cached)
<1> DEFINE f == [i \in 1..Len(chain) |-> chain[i].tx]
<1>1. chain \in Seq(SolanaTx) /\ Len(chain) \in Nat
  BY DEF TypeOK
<1>2. LandedTxs \subseteq {f[i] : i \in 1..Len(chain)}
  BY DEF LandedTxs, Landed
<1>3. f \in Surjection(1..Len(chain), {f[i] : i \in 1..Len(chain)})
  BY DEF Surjection
<1> HIDE DEF f
<1>4. IsFiniteSet({f[i] : i \in 1..Len(chain)})
  <2>1. IsFiniteSet(1..Len(chain))
    BY <1>1, FS_Interval
  <2> QED BY <1>3, <2>1, FS_Surjection
<1>5. Cached \subseteq LandedTxs
  <2> SUFFICES ASSUME NEW t \in Cached PROVE t \in LandedTxs
    OBVIOUS
  <2>1. PICK part \in Parts(t) : PartOf(t, part) \in Finalized
    BY DEF CacheSound, PartOf
  <2>2. PartOf(t, part) \in Landed /\ PartOf(t, part).tx = t
    BY <2>1, FinalizedLanded DEF PartOf
  <2> QED BY <2>2 DEF LandedTxs
<1> QED BY <1>2, <1>4, <1>5, FS_Subset

(* Those of txs that are newer than nonce n.                                 *)
Above(txs, n) == {u \in txs : u.nonce > n}

(* The cut takes in each transaction or count newer ones.                    *)
LEMMA CutTells ==
  ASSUME NEW txs \in SUBSET Txs, IsFiniteSet(txs), NEW count \in Nat, NEW n \in Int,
         Cardinality(Above(txs, n)) >= count
  PROVE  Cardinality(Above(GetTxsInNonceRange(txs, count), n)) >= count
<1> USE TxsAssumption
<1> DEFINE cut == GetTxsInNonceRange(txs, count)
<1>1. cut = {t \in txs : Cardinality(Above(txs, t.nonce)) < count}
  BY DEF GetTxsInNonceRange, Above
<1>2. \A t \in txs : t.nonce \in 0..MaxNonce
  OBVIOUS
<1>3. \A U \in SUBSET txs : IsFiniteSet(U) /\ Cardinality(U) \in Nat
  BY FS_Subset, FS_CardinalityType
<1> HIDE DEF cut
<1> DEFINE Full == {t \in Above(txs, n) : Cardinality(Above(txs, t.nonce)) >= count}
<1>4. CASE Full = {}
  <2>1. Above(txs, n) \subseteq Above(cut, n)
    <3> SUFFICES ASSUME NEW t \in Above(txs, n) PROVE t \in cut
      BY DEF Above
    <3>1. t \in txs /\ Cardinality(Above(txs, t.nonce)) \in Nat
      BY <1>3 DEF Above
    <3>2. ~(Cardinality(Above(txs, t.nonce)) >= count)
      BY <1>4
    <3> QED BY <1>1, <3>1, <3>2
  <2>2. Above(cut, n) \subseteq Above(txs, n)
    BY <1>1 DEF Above
  <2>3. Above(cut, n) = Above(txs, n)
    BY <2>1, <2>2
  <2> QED BY <2>3 DEF cut
<1>5. CASE Full # {}
  <2> DEFINE S == {t.nonce : t \in Full}
  <2>1. S \in SUBSET (0..MaxNonce) /\ S # {}
    BY <1>2, <1>5 DEF Above
  <2>2. PICK m \in S : \A y \in S : y <= m
    BY <2>1, Greatest
  <2>3. PICK t \in Full : t.nonce = m
    OBVIOUS
  <2>4. /\ t \in txs /\ t.nonce > n /\ t.nonce \in 0..MaxNonce
        /\ Cardinality(Above(txs, t.nonce)) >= count
    BY <1>2 DEF Above
  <2>5. Above(txs, t.nonce) \subseteq Above(cut, n)
    <3> SUFFICES ASSUME NEW u \in Above(txs, t.nonce) PROVE u \in Above(cut, n)
      OBVIOUS
    <3>1. u \in txs /\ u.nonce > t.nonce /\ u.nonce \in 0..MaxNonce
      BY <1>2 DEF Above
    <3>2. u \in Above(txs, n)
      BY <2>4, <3>1 DEF Above
    <3>3. u \notin Full
      BY <2>2, <2>3, <2>4, <3>1
    <3>4. Cardinality(Above(txs, u.nonce)) < count
      <4>1. Cardinality(Above(txs, u.nonce)) \in Nat
        BY <1>3 DEF Above
      <4>2. ~(Cardinality(Above(txs, u.nonce)) >= count)
        BY <3>2, <3>3
      <4> QED BY <4>1, <4>2
    <3> QED BY <1>1, <3>1, <3>2, <3>4 DEF Above
  <2>6. IsFiniteSet(Above(cut, n)) /\ Cardinality(Above(cut, n)) \in Nat
    <3>1. Above(cut, n) \in SUBSET txs
      BY <1>1 DEF Above
    <3> QED BY <1>3, <3>1
  <2>7. Cardinality(Above(txs, t.nonce)) <= Cardinality(Above(cut, n))
    BY <2>5, <2>6, FS_Subset
  <2>8. Cardinality(Above(txs, t.nonce)) \in Nat
    BY <1>3 DEF Above
  <2> QED BY <2>4, <2>6, <2>7, <2>8 DEF cut
<1> QED BY <1>4, <1>5

(* The newest of what is there is not cut off.                               *)
LEMMA CutLeavesOne ==
  ASSUME NEW txs \in SUBSET Txs, txs # {}, NEW count \in Nat \ {0}
  PROVE  GetTxsInNonceRange(txs, count) # {}
<1> USE TxsAssumption
<1> DEFINE S == {t.nonce : t \in txs}
<1>1. S \in SUBSET (0..MaxNonce) /\ S # {}
  OBVIOUS
<1>2. PICK m \in S : \A y \in S : y <= m
  BY <1>1, Greatest
<1>3. PICK t \in txs : t.nonce = m
  OBVIOUS
<1> HIDE DEF S
<1>4. {u \in txs : u.nonce > t.nonce} = {}
  <2>1. \A u \in txs : u.nonce \in S
    BY DEF S
  <2>2. \A y \in S : ~(y > m)
    BY <1>1, <1>2
  <2> QED BY <1>3, <2>1, <2>2
<1>5. Cardinality({u \in txs : u.nonce > t.nonce}) = 0
  BY <1>4, FS_EmptySet
<1> QED BY <1>3, <1>5 DEF GetTxsInNonceRange

LEMMA CollectLone ==
  ASSUME LoneInv, NEW p \in Callers, Callers = {p}, Collect(p)
  PROVE  CallerInv(p)' /\ OldBatches'
<1> USE TxsAssumption, ClientAssumption
<1> DEFINE request == call[p].request
           inRange == {t \in Cached : after[p] < t.nonce /\ t.nonce < before[p]}
           batch == GetTxsInNonceRange(inRange, request.count)
           found == acc[p] \cup OfToken(batch, request.tokenType)
           txs == GetTxsInNonceRange(found, request.count)
           since == OfToken(call[p].since, request.tokenType)
<1>1. /\ TypeOK /\ CacheSound /\ AccInv(p) /\ Refreshed(p) /\ pc[p] = "collect" /\ Mine(p) = {}
      /\ after[p] = Larger(Bound(p) - request.count - 1, -1)
      /\ \A n \in 0..MaxNonce : Due(p, n) => IsCachedNonce(n)
      /\ UniqueOnChain /\ AccCached
  BY DEF LoneInv, SoundInv, CallerInv, Collect
<1>2. UNCHANGED <<chain, final, call, after, cursor, inflight>>
  BY DEF Collect, chainVars
<1>3. /\ request.count \in Nat /\ after[p] \in Int /\ before[p] \in Nat
      /\ LatestCachedNonce \in -1..MaxNonce
      /\ Bound(p) \in Int /\ Bound(p) <= LatestCachedNonce + 1 /\ Bound(p) <= before[p]
      /\ after[p] >= -1
  <2>1. request.count \in Nat /\ before[p] \in Nat /\ LatestCachedNonce \in -1..MaxNonce
    BY <1>1, LatestCached DEF TypeOK
  <2>2. Bound(p) \in Int /\ Bound(p) <= LatestCachedNonce + 1 /\ Bound(p) <= before[p]
    BY <2>1 DEF Bound, Smaller
  <2> HIDE DEF request
  <2> QED BY <1>1, <2>1, <2>2 DEF Larger
<1>4. \A t \in call[p].since : t \in Txs /\ t \in Settled /\ t.nonce \in 0..MaxNonce
  BY <1>1 DEF TypeOK, AccInv
<1>5. inRange \subseteq Cached /\ batch \subseteq inRange /\ Cached \subseteq Txs
  BY DEF GetTxsInNonceRange, Cached
<1>6. IsFiniteSet(Cached)
  BY <1>1, CachedFinite
<1>7. /\ found \in SUBSET Txs /\ IsFiniteSet(found)
      /\ \A t \in found : t \in acc[p] \/ t \in batch
  <2>1. found \subseteq Cached
    BY <1>1, <1>5 DEF AccCached, OfToken
  <2> QED BY <1>5, <1>6, <2>1, FS_Subset DEF OfToken
<1>8. ASSUME NEW t \in since, after[p] < t.nonce, t.nonce < before[p] PROVE t \in inRange
  <2>1. t \in call[p].since
    BY DEF OfToken
  <2>2. t.nonce <= LatestCachedNonce
    BY <1>1, <1>8, <2>1 DEF Refreshed
  <2>3. Due(p, t.nonce)
    BY <1>3, <1>4, <1>8, <2>1, <2>2 DEF Due, Bound, Smaller
  <2>4. t \in Cached
    BY <1>1, <1>4, <2>1, <2>3, CachedOfNonce
  <2> QED BY <1>8, <2>4
<1>9. ASSUME NEW t \in since, NEW lowest \in LowestFetchedNonce(batch), lowest >= 0,
             lowest <= t.nonce, t.nonce < request.before
      PROVE  t \in found
  <2>1. t \in call[p].since /\ t.nonce \in 0..MaxNonce
    BY <1>4 DEF OfToken
  <2>2. CASE before[p] <= t.nonce
    BY <1>1, <1>9, <2>2 DEF AccInv
  <2>3. CASE t.nonce < before[p]
    <3>1. PICK u \in batch : u.nonce = lowest
      BY <1>9 DEF LowestFetchedNonce
    <3>2. /\ u \in inRange /\ u.nonce \in 0..MaxNonce
          /\ Cardinality({v \in inRange : v.nonce > u.nonce}) < request.count
      BY <1>5, <3>1 DEF GetTxsInNonceRange
    <3>3. t \in inRange
      <4>1. after[p] < t.nonce
        BY <1>3, <1>9, <2>1, <3>1, <3>2
      <4> QED BY <1>8, <2>3, <4>1
    <3>4. {v \in inRange : v.nonce > t.nonce} \subseteq {v \in inRange : v.nonce > u.nonce}
      <4>1. \A v \in inRange : v.nonce \in 0..MaxNonce
        BY <1>5
      <4> QED BY <1>9, <2>1, <3>1, <3>2, <4>1
    <3>5. IsFiniteSet({v \in inRange : v.nonce > u.nonce})
      BY <1>5, <1>6, FS_Subset
    <3> HIDE DEF inRange, request
    <3>6. /\ Cardinality({v \in inRange : v.nonce > t.nonce})
               <= Cardinality({v \in inRange : v.nonce > u.nonce})
          /\ Cardinality({v \in inRange : v.nonce > t.nonce}) \in Nat
          /\ Cardinality({v \in inRange : v.nonce > u.nonce}) \in Nat
      BY <3>4, <3>5, FS_Subset, FS_CardinalityType
    <3>7. Cardinality({v \in inRange : v.nonce > t.nonce}) < request.count
      BY <1>3, <3>2, <3>6
    <3>8. t \in batch
      BY <3>3, <3>7 DEF GetTxsInNonceRange
    <3> QED BY <3>8 DEF OfToken
  <2> QED BY <1>3, <2>1, <2>2, <2>3
<1>10. \A lowest \in LowestFetchedNonce(batch) :
          /\ lowest \in -1..MaxNonce
          /\ lowest >= 0 => \A u \in batch : u.nonce >= lowest
          /\ lowest < 0 => batch = {}
  BY <1>5 DEF LowestFetchedNonce
<1>11. OldBatches' /\ Mine(p)' = {} /\ Settled' = Settled
  <2>1. Cached' = Cached /\ LatestCachedNonce' = LatestCachedNonce
    <3>1. Cached' = Cached
      <4>1. \/ cache' = cache
            \/ \E first : cache' = [t \in Txs |-> IF t \in txs \ {first} THEN "CONFIRMED" ELSE cache[t]]
        BY DEF Collect, MarkConfirmed
      <4>2. txs \subseteq Cached
        BY <1>1, <1>5 DEF AccCached, OfToken, GetTxsInNonceRange
      <4> QED BY <4>1, <4>2 DEF Cached, NotCached
    <3> QED BY <3>1 DEF LatestCachedNonce, IsCachedNonce
  <2>2. OldBatches'
    BY <1>1, <1>2, <2>1, SameOldBatches
  <2> QED BY <1>1, <1>2, <2>2 DEF Mine, Settled, Finalized
<1>12. PICK lowest \in LowestFetchedNonce(batch) :
         IF lowest >= 0 /\ Cardinality(found) < request.count
         THEN /\ acc' = [acc EXCEPT ![p] = found]
              /\ before' = [before EXCEPT ![p] = lowest]
              /\ pc' = [pc EXCEPT ![p] = "getTxs"]
              /\ UNCHANGED <<running, cache, result>>
         ELSE /\ result' = [result EXCEPT ![p] = txs]
              /\ MarkConfirmed(txs)
              /\ pc' = [pc EXCEPT ![p] = "done"]
              /\ running' = NoCaller
              /\ UNCHANGED <<acc, before>>
  BY DEF Collect
<1> HIDE DEF inRange, batch, found, txs
<1>13. CASE lowest >= 0 /\ Cardinality(found) < request.count
  <2>1. acc'[p] = found /\ before'[p] = lowest /\ pc'[p] = "getTxs"
    BY <1>1, <1>12, <1>13 DEF TypeOK
  <2>2. \A u \in found : u.nonce >= lowest
    <3> SUFFICES ASSUME NEW u \in found PROVE u.nonce >= lowest
      OBVIOUS
    <3>1. u \in Txs /\ u.nonce \in 0..MaxNonce
      BY <1>7
    <3>2. CASE u \in batch
      BY <1>10, <1>13, <3>2
    <3>3. CASE u \in acc[p]
      <4>1. u.nonce >= before[p]
        BY <1>1, <3>3 DEF AccInv
      <4>2. PICK v \in batch : v.nonce = lowest
        BY <1>13 DEF LowestFetchedNonce
      <4>3. v.nonce < before[p] /\ v.nonce \in 0..MaxNonce
        BY <1>5, <4>2 DEF inRange
      <4> QED BY <1>3, <3>1, <4>1, <4>2, <4>3
    <3> QED BY <1>7, <3>2, <3>3
  <2>3. \A t \in since : lowest <= t.nonce /\ t.nonce < request.before => t \in found
    BY <1>9, <1>13
  <2>4. AccInv(p)'
    BY <1>1, <1>2, <1>11, <2>1, <2>2, <2>3 DEF AccInv
  <2> QED BY <1>11, <2>1, <2>4 DEF CallerInv
<1>14. CASE ~(lowest >= 0 /\ Cardinality(found) < request.count)
  <2>1. result'[p] = txs /\ pc'[p] = "done"
    BY <1>1, <1>12, <1>14 DEF TypeOK
  <2>2. ASSUME NEW t \in since, t.nonce < request.before
        PROVE  t \in txs \/ Cardinality(Above(txs, t.nonce)) >= request.count
    <3>1. t \in call[p].since /\ t \in Txs /\ t.nonce \in 0..MaxNonce
      BY <1>4 DEF OfToken
    <3>2. \A n \in Int : Cardinality(Above(found, n)) \in Nat
      BY <1>7, FS_Subset, FS_CardinalityType DEF Above
    <3>3. CASE Cardinality(Above(found, t.nonce)) >= request.count
      BY <1>3, <1>7, <3>1, <3>3, CutTells DEF txs
    <3>4. CASE t \in found /\ ~(Cardinality(Above(found, t.nonce)) >= request.count)
      BY <1>3, <3>1, <3>2, <3>4 DEF txs, GetTxsInNonceRange, Above
    <3>5. CASE t \notin found
      <4>1. t.nonce < before[p]
        <5>1. t \notin acc[p]
          BY <3>5 DEF found
        <5> QED BY <1>1, <1>3, <2>2, <3>1, <5>1 DEF AccInv
      <4>2. CASE lowest >= 0
        <5>1. Cardinality(found) >= request.count
          <6>1. Cardinality(found) \in Nat
            BY <1>7, FS_CardinalityType
          <6> QED BY <1>3, <1>14, <4>2, <6>1
        <5>2. t.nonce < lowest
          BY <1>9, <1>10, <2>2, <3>1, <3>5, <4>2
        <5>3. Above(found, t.nonce) = found
          <6> SUFFICES ASSUME NEW u \in found PROVE u.nonce > t.nonce
            BY DEF Above
          <6>1. u.nonce \in 0..MaxNonce
            BY <1>7
          <6>2. CASE u \in batch
            BY <1>10, <3>1, <4>2, <5>2, <6>1, <6>2
          <6>3. CASE u \in acc[p]
            BY <1>1, <1>3, <3>1, <4>1, <6>1, <6>3 DEF AccInv
          <6> QED BY <1>7, <6>2, <6>3
        <5> QED BY <3>3, <5>1, <5>3
      <4>3. CASE lowest < 0 /\ request.count = 0
        BY <3>1, <3>2, <3>3, <4>3
      <4>4. CASE lowest < 0 /\ request.count # 0
        <5>1. batch = {}
          BY <1>10, <4>4
        <5>2. inRange = {}
          BY <1>3, <1>5, <4>4, <5>1, CutLeavesOne DEF batch
        <5>3. t.nonce <= LatestCachedNonce
          BY <1>1, <3>1, <4>1 DEF Refreshed
        <5> DEFINE n == Bound(p) - 1
        <5>4. n \in 0..MaxNonce /\ t.nonce <= n
          BY <1>3, <3>1, <4>1, <5>3 DEF Bound, Smaller
        <5>5. after[p] < n
          BY <1>1, <1>3, <4>4, <5>4 DEF Larger
        <5>6. IsCachedNonce(n)
          BY <1>1, <1>3, <5>4, <5>5 DEF Due
        <5>7. PICK u \in Cached : u.nonce = n
          BY <5>6 DEF IsCachedNonce
        <5>8. u \in inRange
          BY <1>3, <5>5, <5>7 DEF inRange
        <5> QED BY <5>2, <5>8
      <4> QED BY <1>10, <4>2, <4>3, <4>4
    <3> QED BY <3>3, <3>4, <3>5
  <2>3. ToldInv(p)'
    BY <1>2, <2>1, <2>2 DEF ToldInv, ToldOf, OfToken, Above
  <2> QED BY <1>11, <2>1, <2>3 DEF CallerInv
<1> QED BY <1>13, <1>14

-----------------------------------------------------------------------------
(* The answers of the node.                                                  *)

(* Who may own a batch when there is one caller.                             *)
LEMMA Owners ==
  ASSUME LoneInv, NEW p \in Callers, Callers = {p}, NEW b \in inflight
  PROVE  /\ b.owner \in {p, NoCaller} /\ p # NoCaller
         /\ b.owner = p => pc[p] \in {"refresh", "scan", "fetching"}
         /\ pc[p] = "refresh" /\ b.owner = p => Mine(p) = {b} /\ Refreshes(p, b)
         /\ ~(b.owner = p /\ pc[p] = "refresh") => NoncesOf(b) \subseteq 0..LatestCachedNonce
<1>1. b.owner \in {p, NoCaller} /\ p # NoCaller
  BY ClientAssumption DEF LoneInv, SoundInv, TypeOK, Batch
<1>2. b.owner = p => pc[p] \in {"refresh", "scan", "fetching"} /\ b \in Mine(p)
  BY DEF LoneInv, CallerInv, Mine
<1>3. pc[p] = "refresh" /\ b.owner = p => Mine(p) = {b} /\ Refreshes(p, b)
  <2> SUFFICES ASSUME pc[p] = "refresh", b.owner = p PROVE Mine(p) = {b} /\ Refreshes(p, b)
    OBVIOUS
  <2>1. PICK c \in inflight : Refreshes(p, c)
    BY DEF LoneInv, CallerInv
  <2>2. Mine(p) = {c}
    BY <2>1 DEF Refreshes
  <2>3. c = b
    BY <1>2, <2>2
  <2> QED BY <2>1, <2>2, <2>3
<1>4. ~(b.owner = p /\ pc[p] = "refresh") => NoncesOf(b) \subseteq 0..LatestCachedNonce
  BY <1>1 DEF LoneInv, OldBatches
<1> QED BY <1>1, <1>2, <1>3, <1>4

(* A batch comes back with whatever is settled of what it should bring.      *)
LEMMA DeliverLone ==
  ASSUME LoneInv, NEW p \in Callers, Callers = {p}, NEW b \in inflight,
         NEW txs \in SUBSET Txs, NEW status, Deliver(b, txs, status),
         UNCHANGED <<chainVars, callVars>>,
         \A t \in txs : t.nonce \in NoncesOf(b) /\ status[t] # NotCached,
         \A t \in Settled : Has(b, t) => t \in txs
  PROVE  CallerInv(p)' /\ OldBatches'
<1> USE TxsAssumption, ClientAssumption
<1>1. TypeOK /\ CallerInv(p)
  BY DEF LoneInv, SoundInv
<1>2. UNCHANGED <<chain, final, call, before, after, cursor, acc, result>>
  BY DEF chainVars, callVars
<1>3. cache' = CacheInner(txs, status) /\ inflight' = inflight \ {b}
  BY DEF Deliver
<1>4. Cached' = Cached \cup txs
  BY <1>1, <1>3 DEF CacheInner, Cached, TypeOK
<1>5. Settled' = Settled
  BY <1>2 DEF Settled, Finalized
<1>6. /\ LatestCachedNonce \in -1..MaxNonce /\ LatestCachedNonce' \in -1..MaxNonce
      /\ LatestCachedNonce' >= LatestCachedNonce
      /\ \A n : IsCachedNonce(n) => IsCachedNonce(n)'
      /\ \A t \in txs : IsCachedNonce(t.nonce)' /\ t.nonce <= LatestCachedNonce'
      /\ \A top \in Int : LatestCachedNonce <= top /\ (\A t \in txs : t.nonce <= top) =>
                            LatestCachedNonce' <= top
  <2>1. \A t \in txs : IsCachedNonce(t.nonce)' /\ t.nonce <= LatestCachedNonce'
    BY <1>4, LatestCachedNext DEF IsCachedNonce
  <2>2. Cached \subseteq Cached' /\ Cached' \ Cached \subseteq txs
    BY <1>4
  <2> QED BY <2>1, <2>2, LatestCached, LatestCachedNext, LatestGrows
<1>7. /\ b.owner \in {p, NoCaller} /\ p # NoCaller
      /\ b.owner = p => pc[p] \in {"refresh", "scan", "fetching"}
      /\ pc[p] = "refresh" /\ b.owner = p => Mine(p) = {b} /\ Refreshes(p, b)
      /\ ~(b.owner = p /\ pc[p] = "refresh") => NoncesOf(b) \subseteq 0..LatestCachedNonce
  BY Owners
<1>8. ~(b.owner = p /\ pc[p] = "refresh") => LatestCachedNonce' = LatestCachedNonce
  <2> SUFFICES ASSUME NoncesOf(b) \subseteq 0..LatestCachedNonce PROVE LatestCachedNonce' <= LatestCachedNonce
    BY <1>6, <1>7
  <2> QED BY <1>6
<1>9. Mine(p)' = Mine(p) \ {b}
  BY <1>3 DEF Mine
<1>10. \A c, n : Has(c, n)' = Has(c, n)
  BY DEF Has, PartOf
<1>11. CASE b.owner = p /\ pc[p] = "refresh"
  <2>1. AccInv(p) /\ UpTo(p, cursor[p]) /\ Refreshes(p, b) /\ Mine(p)' = {}
    BY <1>1, <1>7, <1>9, <1>11 DEF CallerInv
  <2>2. AccInv(p)'
    BY <1>2, <2>1, SameAcc
  <2>3. \A t \in call[p].since : t \in Settled /\ t.nonce \in 0..MaxNonce
    BY <1>1, <2>1 DEF AccInv, TypeOK
  <2>4. \A t \in call[p].since : t.nonce \in cursor[p] + 1 .. cursor[p] + BatchSize => t \in txs
    BY <2>1, <2>3 DEF Refreshes
  <2>5. \A t \in txs : t.nonce \in cursor[p] + 1 .. cursor[p] + BatchSize
    BY <2>1 DEF Refreshes
  <2>6. cursor[p] \in Int /\ cursor[p] >= -1
    BY <1>1, <1>6, <2>1 DEF UpTo, TypeOK
  <2>7. OldBatches'
    <3> SUFFICES ASSUME NEW c \in inflight, c # b PROVE NoncesOf(c) \subseteq 0..LatestCachedNonce'
      BY <1>3 DEF OldBatches, NoncesOf
    <3>1. c.owner # p
      BY <1>7, <1>11 DEF Mine
    <3>2. NoncesOf(c) \subseteq 0..LatestCachedNonce
      BY <3>1, Owners
    <3> QED BY <1>6, <3>2
  <2>8. CASE txs # {}
    <3>1. pc'[p] = "refreshMore"
      BY <1>1, <1>7, <1>11, <2>8 DEF Deliver, TypeOK
    <3>2. LatestCachedNonce' <= cursor[p] + BatchSize
      <4>1. LatestCachedNonce <= cursor[p] + BatchSize /\ cursor[p] + BatchSize \in Int
        BY <1>6, <2>1, <2>6 DEF UpTo
      <4>2. \A t \in txs : t.nonce <= cursor[p] + BatchSize
        BY <2>5
      <4> QED BY <1>6, <4>1, <4>2
    <3>3. ASSUME NEW t \in call[p].since, t.nonce <= cursor[p] + BatchSize PROVE t.nonce <= LatestCachedNonce'
      <4>1. CASE t.nonce <= cursor[p]
        BY <1>6, <2>1, <2>3, <4>1 DEF UpTo
      <4>2. CASE t.nonce \in cursor[p] + 1 .. cursor[p] + BatchSize
        BY <1>6, <2>4, <4>2
      <4> QED BY <2>3, <2>6, <3>3, <4>1, <4>2
    <3>4. UpTo(p, cursor[p] + BatchSize)'
      BY <1>2, <3>2, <3>3 DEF UpTo
    <3> QED BY <2>1, <2>2, <2>7, <3>1, <3>4 DEF CallerInv
  <2>9. CASE txs = {}
    <3>1. pc'[p] = "prepare"
      BY <1>1, <1>7, <1>11, <2>9 DEF Deliver, TypeOK
    <3>2. ASSUME NEW t \in call[p].since PROVE t.nonce <= LatestCachedNonce'
      <4>1. CASE t.nonce <= cursor[p]
        BY <1>6, <2>1, <2>3, <4>1 DEF UpTo
      <4>2. CASE t.nonce = cursor[p] + 1
        <5>1. t.nonce \in cursor[p] + 1 .. cursor[p] + BatchSize
          BY <2>6, <4>2
        <5> QED BY <2>4, <2>9, <5>1
      <4>3. CASE t.nonce > cursor[p] + 1
        <5>1. cursor[p] + 1 \in 0..MaxNonce
          BY <2>3, <2>6, <4>3
        <5>2. PICK u \in call[p].since : u.nonce = cursor[p] + 1
          BY <2>1, <4>3, <5>1 DEF AccInv
        <5>3. u.nonce \in cursor[p] + 1 .. cursor[p] + BatchSize
          BY <2>6, <5>2
        <5> QED BY <2>4, <2>9, <5>3
      <4> QED BY <2>3, <2>6, <4>1, <4>2, <4>3
    <3>3. Refreshed(p)'
      BY <1>2, <3>2 DEF Refreshed
    <3> QED BY <2>1, <2>2, <2>7, <3>1, <3>3 DEF CallerInv
  <2> QED BY <2>8, <2>9
<1>12. CASE ~(b.owner = p /\ pc[p] = "refresh")
  <2>1. LatestCachedNonce' = LatestCachedNonce
    BY <1>8, <1>12
  <2>2. ASSUME NEW n, Ready(p, n)
        PROVE  IsCachedNonce(n)' \/ \E t \in Settled, c \in Mine(p)' : t.nonce = n /\ Has(c, t)
    <3>1. CASE IsCachedNonce(n)
      BY <1>6, <3>1
    <3>2. ASSUME NEW t \in Settled, NEW c \in Mine(p), t.nonce = n, Has(c, t)
          PROVE  IsCachedNonce(n)' \/ c \in Mine(p)'
      BY <1>6, <1>9, <3>2
    <3> QED BY <2>2, <3>1, <3>2 DEF Ready
  <2>3. \A n : Ready(p, n) => Ready(p, n)'
    BY <1>5, <1>10, <2>2 DEF Ready
  <2>4. \A n \in 0..MaxNonce : Due(p, n)' = Due(p, n)
    BY <1>2, <2>1 DEF Due, Bound, Smaller
  <2>5. CASE pc'[p] = pc[p]
    <3>1. \A c \in inflight : Refreshes(p, c) => \E d \in inflight' : Refreshes(p, d)'
      <4> SUFFICES ASSUME NEW c \in inflight, Refreshes(p, c), c.owner = p
                   PROVE  c \in inflight' /\ Refreshes(p, c)'
        BY DEF Refreshes, Mine
      <4>1. CASE b = c
        <5>1. pc[p] # "refresh" /\ b.owner = p /\ Mine(p) = {b}
          BY <1>12, <4>1 DEF Refreshes
        <5>2. {d \in inflight : d.owner = b.owner} \ {b} = {}
          BY <5>1 DEF Mine
        <5>3. pc[p] = "fetching" => pc'[p] = "collect"
          BY <1>1, <1>7, <5>1, <5>2 DEF Deliver, TypeOK
        <5>4. pc[p] = "fetching"
          BY <1>7, <5>1 DEF Deliver
        <5> QED BY <2>5, <5>3, <5>4
      <4>2. CASE b # c
        <5>1. c \in inflight' /\ b.owner # p
          BY <1>3, <4>2 DEF Refreshes, Mine
        <5>2. Mine(p)' = Mine(p)
          BY <1>9, <5>1 DEF Mine
        <5> QED BY <1>2, <1>10, <5>1, <5>2 DEF Refreshes, NoncesOf
      <4> QED BY <4>1, <4>2
    <3>2. Mine(p) = {} => Mine(p)' = {}
      BY <1>9
    <3>3. CallerInv(p)'
      BY <1>1, <1>5, <1>6, <2>1, <2>3, <2>5, <3>1, <3>2, KeepsCaller
    <3>4. OldBatches'
      <4> SUFFICES ASSUME NEW c \in inflight
                   PROVE  \/ c.owner # NoCaller /\ pc'[c.owner] = "refresh"
                          \/ NoncesOf(c) \subseteq 0..LatestCachedNonce
        BY <1>3, <2>1 DEF OldBatches, NoncesOf
      <4> QED BY <2>5, Owners
    <3> QED BY <3>3, <3>4
  <2>6. CASE pc'[p] # pc[p]
    <3>1. /\ b.owner = p /\ pc[p] = "fetching" /\ pc'[p] = "collect"
          /\ {c \in inflight : c.owner = p} \ {b} = {}
      BY <1>1, <1>7, <1>12, <2>6 DEF Deliver, TypeOK
    <3>2. Mine(p)' = {}
      BY <1>9, <3>1 DEF Mine
    <3>3. \A n \in 0..MaxNonce : Due(p, n)' => IsCachedNonce(n)'
      BY <1>1, <2>2, <2>4, <3>1, <3>2 DEF CallerInv
    <3>4. AccInv(p)'
      BY <1>1, <1>2, <3>1, SameAcc DEF CallerInv
    <3>5. Refreshed(p)' /\ Bound(p)' = Bound(p)
      BY <1>1, <1>2, <2>1, <3>1 DEF CallerInv, Refreshed, Bound, Smaller
    <3>6. (after[p] = Larger(Bound(p) - call[p].request.count - 1, -1))'
      BY <1>1, <1>2, <3>1, <3>5 DEF CallerInv, Larger
    <3>7. OldBatches'
      BY <1>3, <1>7, <2>1, <3>1, Owners DEF OldBatches, NoncesOf
    <3> QED BY <3>1, <3>2, <3>3, <3>4, <3>5, <3>6, <3>7 DEF CallerInv
  <2> QED BY <2>5, <2>6
<1> QED BY <1>11, <1>12

LEMMA ParsedLone ==
  ASSUME LoneInv, NEW p \in Callers, Callers = {p}, NEW b \in inflight, ParsedAnswer(b)
  PROVE  CallerInv(p)' /\ OldBatches'
<1> DEFINE usable == {s \in b.sigs : \A r \in b.sigs : r.tx.nonce = s.tx.nonce => r \in Finalized}
           status == [t \in Txs |-> IF [tx |-> t, part |-> "finalize"] \in usable
                                    THEN "PROCESSED" ELSE "PENDING"]
           txs == {s.tx : s \in usable}
<1>1. /\ TypeOK /\ b.sigs \subseteq SolanaTx /\ b.sigs \subseteq Landed /\ b.pending = {}
      /\ UniqueOnChain
  BY DEF LoneInv, SoundInv, TypeOK, Batch, BatchSound, ParsedAnswer
<1>2. Deliver(b, txs, status) /\ UNCHANGED <<chainVars, callVars>>
  BY DEF ParsedAnswer
<1>3. txs \in SUBSET Txs /\ \A t \in txs : t.nonce \in NoncesOf(b)
  BY <1>1 DEF SolanaTx, NoncesOf
<1>4. \A t \in txs : status[t] # NotCached
  BY <1>3 DEF NotCached
<1>5. ASSUME NEW t \in Settled, Has(b, t) PROVE t \in txs
  <2>1. /\ t \in Txs /\ \A part \in Parts(t) : PartOf(t, part) \in Finalized /\ PartOf(t, part) \in b.sigs
    BY <1>1, <1>5, SettledLanded DEF Has
  <2>2. PICK part \in Parts(t) : TRUE
    BY <1>1, SettledLanded
  <2>3. PartOf(t, part) \in b.sigs /\ PartOf(t, part) \in Landed /\ PartOf(t, part).tx = t
    BY <1>1, <2>1 DEF PartOf
  <2>4. ASSUME NEW r \in b.sigs, r.tx.nonce = t.nonce PROVE r \in Finalized
    <3>1. r.tx = t
      BY <1>1, <2>3, <2>4 DEF UniqueOnChain
    <3>2. r = PartOf(t, r.part) /\ r.part \in Parts(t)
      BY <1>1, <3>1 DEF SolanaTx, PartOf
    <3> QED BY <2>1, <3>2
  <2>5. PartOf(t, part) \in usable
    BY <2>3, <2>4
  <2> QED BY <2>3, <2>5
<1> HIDE DEF txs, status
<1> QED BY <1>2, <1>3, <1>4, <1>5, DeliverLone

(* A batch with one more answer brings what it would have brought.           *)
LEMMA SignaturesLone ==
  ASSUME LoneInv, NEW p \in Callers, Callers = {p}, NEW b \in inflight, NEW n \in b.pending,
         SignaturesAnswer(b, n)
  PROVE  CallerInv(p)' /\ OldBatches'
<1> DEFINE sigs == b.sigs \cup {s \in Landed : s.tx.nonce = n}
           answered == [b EXCEPT !.pending = @ \ {n}, !.sigs = sigs]
<1>1. TypeOK /\ b \in Batch /\ CallerInv(p)
  BY DEF LoneInv, SoundInv, TypeOK
<1>2. /\ answered.pending = b.pending \ {n} /\ answered.sigs = sigs /\ answered.owner = b.owner
  BY <1>1 DEF Batch
<1>3. ASSUME NEW t \in Settled, Has(b, t) PROVE Has(answered, t)
  <2>1. CASE t.nonce = n
    <3>1. \A part \in Parts(t) : PartOf(t, part) \in Landed /\ PartOf(t, part).tx = t
      BY <1>1, SettledLanded DEF PartOf
    <3> QED BY <1>2, <2>1, <3>1 DEF Has
  <2>2. CASE t.nonce # n
    BY <1>2, <1>3, <2>2 DEF Has
  <2> QED BY <2>1, <2>2
<1>4. CASE answered.pending = {} /\ sigs = {}
  <2>1. Deliver(b, {}, cache) /\ UNCHANGED <<chainVars, callVars>>
    BY <1>4 DEF SignaturesAnswer
  <2>2. ASSUME NEW t \in Settled, Has(b, t) PROVE FALSE
    <3>1. \A part \in Parts(t) : PartOf(t, part) \in sigs
      BY <1>2, <1>3, <1>4, <2>2 DEF Has
    <3> QED BY <1>1, <1>4, <3>1, SettledLanded
  <2> QED BY <2>1, <2>2, DeliverLone
<1>5. CASE ~(answered.pending = {} /\ sigs = {})
  <2>1. /\ inflight' = (inflight \ {b}) \cup {answered}
        /\ UNCHANGED <<chain, final, cache, pc, callVars, call, cursor>>
    BY <1>5 DEF SignaturesAnswer, chainVars, callVars
  <2>2. Settled' = Settled /\ LatestCachedNonce' = LatestCachedNonce
        /\ \A m : IsCachedNonce(m)' = IsCachedNonce(m)
    BY <2>1, SameLatest DEF Settled, Finalized
  <2>3. NoncesOf(answered) \subseteq NoncesOf(b)
    BY <1>2 DEF NoncesOf
  <2>4. /\ b.owner = p => Mine(p)' = (Mine(p) \ {b}) \cup {answered}
        /\ b.owner # p => Mine(p)' = Mine(p)
    BY <1>2, <2>1 DEF Mine
  <2> HIDE DEF answered
  <2>5. OldBatches'
    <3>1. ASSUME NEW c \in inflight, NEW d \in inflight', NoncesOf(d) \subseteq NoncesOf(c), d.owner = c.owner
          PROVE  (d.owner # NoCaller /\ pc[d.owner] = "refresh") \/ NoncesOf(d) \subseteq 0..LatestCachedNonce
      BY <3>1 DEF LoneInv, OldBatches
    <3>2. \A d \in inflight' :
             (d.owner # NoCaller /\ pc[d.owner] = "refresh") \/ NoncesOf(d) \subseteq 0..LatestCachedNonce
      BY <1>2, <2>1, <2>3, <3>1
    <3> QED BY <2>1, <2>2, <3>2 DEF OldBatches, NoncesOf
  <2>6. ASSUME NEW m, Ready(p, m) PROVE Ready(p, m)'
    <3>1. CASE IsCachedNonce(m)
      BY <2>2, <3>1 DEF Ready
    <3>2. ASSUME NEW t \in Settled, NEW c \in Mine(p), t.nonce = m, Has(c, t) PROVE Ready(p, m)'
      <4>1. CASE c = b
        <5>1. answered \in Mine(p)' /\ Has(answered, t) /\ t \in Settled'
          BY <1>3, <2>2, <2>4, <3>2, <4>1 DEF Mine
        <5> QED BY <3>2, <5>1, ReadyBy
      <4>2. CASE c # b
        <5>1. c \in Mine(p)' /\ t \in Settled'
          BY <2>2, <2>4, <3>2, <4>2
        <5> QED BY <3>2, <5>1, ReadyBy
      <4> QED BY <4>1, <4>2
    <3> QED BY <2>6, <3>1, <3>2 DEF Ready
  <2>7. ASSUME NEW c \in inflight, Refreshes(p, c), AccInv(p) PROVE \E d \in inflight' : Refreshes(p, d)'
    <3>1. CASE b = c
      <4> PICK d : d = answered
        OBVIOUS
      <4>1. Mine(p)' = {d} /\ d \in inflight'
        BY <2>1, <2>4, <2>7, <3>1 DEF Refreshes, Mine
      <4>2. \A t \in call[p].since : t.nonce \in cursor[p] + 1 .. cursor[p] + BatchSize => Has(d, t)
        BY <1>3, <2>7, <3>1 DEF AccInv, Refreshes
      <4>3. NoncesOf(d) \subseteq cursor[p] + 1 .. cursor[p] + BatchSize
        BY <2>3, <2>7, <3>1 DEF Refreshes
      <4>4. Refreshes(p, d)'
        BY <2>1, <4>1, <4>2, <4>3 DEF Refreshes, Has, NoncesOf, PartOf
      <4> QED BY <4>1, <4>4
    <3>2. CASE b # c
      <4>1. Mine(p)' = Mine(p) /\ c \in inflight'
        BY <2>1, <2>4, <2>7, <3>2 DEF Refreshes, Mine
      <4>2. Refreshes(p, c)'
        BY <2>1, <2>7, <4>1 DEF Refreshes, Has, NoncesOf, PartOf
      <4> QED BY <4>1, <4>2
    <3> QED BY <3>1, <3>2
  <2>8. CASE pc[p] = "refresh"
    <3>1. AccInv(p)
      BY <1>1, <2>8 DEF CallerInv
    <3>2. Mine(p) = {} => Mine(p)' = {}
      BY <2>4 DEF Mine
    <3> QED BY <1>1, <2>1, <2>2, <2>5, <2>6, <2>7, <3>1, <3>2, KeepsCaller
  <2>9. CASE pc[p] # "refresh"
    <3>1. pc[p] \in {"idle", "getTxs", "refreshMore", "prepare", "scan", "fetching", "collect",
                      "done", "failed"}
      BY <1>1, <2>9 DEF TypeOK, PCs
    <3>2. Mine(p) = {} => Mine(p)' = {}
      BY <2>4 DEF Mine
    <3>3. CASE AccInv(p)
      BY <1>1, <2>1, <2>2, <2>5, <2>6, <2>7, <3>2, <3>3, KeepsCaller
    <3>4. CASE pc[p] \in {"idle", "failed"}
      BY <1>1, <2>1, <2>5, <3>2, <3>4 DEF CallerInv
    <3>5. CASE pc[p] = "done"
      <4>1. ToldInv(p)'
        BY <1>1, <2>1, <3>5 DEF CallerInv, ToldInv, ToldOf, OfToken, callVars
      <4> QED BY <1>1, <2>1, <2>5, <3>2, <3>5, <4>1 DEF CallerInv
    <3> QED BY <1>1, <3>1, <3>3, <3>4, <3>5 DEF CallerInv
  <2> QED BY <2>8, <2>9
<1> QED BY <1>4, <1>5

(* A batch whose caller has failed still only asks for old nonces.           *)
LEMMA NodeErrorLone ==
  ASSUME LoneInv, NEW p \in Callers, Callers = {p}, NEW b \in inflight, NodeError(b)
  PROVE  CallerInv(p)' /\ OldBatches'
<1> DEFINE others == {c \in inflight : c.owner = b.owner} \ {b}
           Orphan(c) == [c EXCEPT !.owner = NoCaller]
<1>1. TypeOK /\ CallerInv(p)
  BY DEF LoneInv, SoundInv
<1>2. /\ UNCHANGED <<chain, final, cache, callVars, call>>
      /\ inflight' = {c \in inflight : c.owner # b.owner} \cup {Orphan(c) : c \in others}
      /\ pc' = [q \in Callers |-> IF q = b.owner THEN "failed" ELSE pc[q]]
  BY DEF NodeError, chainVars, callVars
<1>3. b.owner \in {p, NoCaller} /\ p # NoCaller
  BY Owners
<1>4. \A c \in inflight : Orphan(c).owner = NoCaller /\ NoncesOf(Orphan(c)) = NoncesOf(c)
  BY <1>1 DEF TypeOK, Batch, NoncesOf
<1>5. LatestCachedNonce' = LatestCachedNonce /\ \A n : IsCachedNonce(n)' = IsCachedNonce(n)
  BY <1>2, SameLatest
<1>6. \A c \in others : NoncesOf(c) \subseteq 0..LatestCachedNonce
  <2> SUFFICES ASSUME NEW c \in others PROVE NoncesOf(c) \subseteq 0..LatestCachedNonce
    OBVIOUS
  <2>1. c \in inflight /\ c.owner = b.owner /\ c # b
    OBVIOUS
  <2>2. ~(c.owner = p /\ pc[p] = "refresh")
    <3>1. ASSUME c.owner = p, pc[p] = "refresh" PROVE FALSE
      <4>1. Mine(p) = {b} /\ Mine(p) = {c}
        BY <2>1, <3>1, Owners
      <4> QED BY <2>1, <4>1
    <3> QED BY <3>1
  <2> QED BY <2>1, <2>2, Owners
<1> HIDE DEF Orphan
<1>7. CASE b.owner = p
  <2>1. pc'[p] = "failed"
    BY <1>2, <1>7
  <2>2. Mine(p)' = {}
    BY <1>2, <1>3, <1>4, <1>7 DEF Mine
  <2>3. ASSUME NEW d \in inflight' PROVE NoncesOf(d) \subseteq 0..LatestCachedNonce
    <3>1. CASE d \in inflight /\ d.owner # b.owner
      BY <1>7, <3>1, Owners
    <3>2. CASE \E c \in others : d = Orphan(c)
      BY <1>4, <1>6, <3>2
    <3> QED BY <1>2, <3>1, <3>2
  <2>4. OldBatches'
    BY <1>5, <2>3 DEF OldBatches, NoncesOf
  <2> QED BY <2>1, <2>2, <2>4 DEF CallerInv
<1>8. CASE b.owner = NoCaller
  <2>1. pc'[p] = pc[p]
    BY <1>2, <1>3, <1>8
  <2>2. Mine(p)' = Mine(p)
    BY <1>2, <1>3, <1>4, <1>8 DEF Mine
  <2>3. Settled' = Settled
    BY <1>2 DEF Settled, Finalized
  <2>4. \A n : Ready(p, n) => Ready(p, n)'
    BY <1>5, <2>2, <2>3 DEF Ready, Has, PartOf
  <2>5. \A c \in inflight : Refreshes(p, c) => \E d \in inflight' : Refreshes(p, d)'
    <3> SUFFICES ASSUME NEW c \in inflight, Refreshes(p, c) PROVE c \in inflight' /\ Refreshes(p, c)'
      OBVIOUS
    <3>1. c.owner = p
      BY DEF Refreshes, Mine
    <3>2. c \in inflight'
      BY <1>2, <1>3, <1>8, <3>1
    <3> QED BY <1>2, <2>2, <3>2 DEF Refreshes, Has, NoncesOf, PartOf, callVars
  <2>6. CallerInv(p)'
    BY <1>1, <1>2, <1>5, <2>1, <2>2, <2>3, <2>4, <2>5, KeepsCaller
  <2>7. OldBatches'
    <3> SUFFICES ASSUME NEW d \in inflight'
                 PROVE  \/ d.owner # NoCaller /\ pc'[d.owner] = "refresh"
                        \/ NoncesOf(d) \subseteq 0..LatestCachedNonce
      BY <1>5 DEF OldBatches, NoncesOf
    <3>1. CASE d \in inflight /\ d.owner # b.owner
      <4>1. d.owner = p
        BY <1>8, <3>1, Owners
      <4> QED BY <2>1, <3>1, <4>1 DEF LoneInv, OldBatches
    <3>2. CASE \E c \in others : d = Orphan(c)
      BY <1>4, <1>6, <3>2
    <3> QED BY <1>2, <3>1, <3>2
  <2> QED BY <2>6, <2>7
<1> QED BY <1>3, <1>7, <1>8

LEMMA NextLone ==
  ASSUME LoneCaller, LoneInv, [Next]_vars
  PROVE  LoneInv'
<1>1. PICK p \in Callers : Callers = {p}
  BY DEF LoneCaller
<1>2. UniqueNonces
  BY DEF LoneCaller
<1>3. ASSUME Task(p) PROVE LoneInv'
  <2>1. SoundInv'
    BY <1>3, TaskSound DEF LoneInv
  <2>2. UNCHANGED chainVars
    BY <1>3 DEF Task, GetTxs, RefreshMore, PrepareTxFetchingParams, FetchTxsIntoCache, Collect, chainVars
  <2>3. CallerInv(p)' /\ OldBatches'
    BY <1>1, <1>3, GetTxsLone, RefreshMoreLone, PrepareLone, ScanLone, CollectLone DEF Task
  <2> QED BY <1>1, <2>1, <2>2, <2>3, LoneStep
<1>4. ASSUME NEW q \in Callers \cup {NoCaller}, Answer(q) PROVE LoneInv'
  <2>1. SoundInv'
    <3>1. \E c \in Callers \cup {NoCaller} : Answer(c)
      BY <1>4
    <3> QED BY <3>1, NextSound DEF LoneInv, Next
  <2>2. PICK b \in inflight : \/ ParsedAnswer(b) \/ NodeError(b)
                              \/ \E n \in b.pending : SignaturesAnswer(b, n)
    BY <1>4 DEF Answer
  <2>3. UNCHANGED chainVars
    BY <2>2 DEF ParsedAnswer, NodeError, SignaturesAnswer
  <2>4. CallerInv(p)' /\ OldBatches'
    BY <1>1, <2>2, ParsedLone, NodeErrorLone, SignaturesLone
  <2> QED BY <1>1, <2>1, <2>3, <2>4, LoneStep
<1>5. ASSUME NEW q \in Callers, \/ \E r \in Requests : FetchTxs(q, r)
                               \/ Task(q) \/ Return(q)
      PROVE  LoneInv'
  <2>1. q = p
    BY <1>1
  <2> QED BY <1>1, <1>3, <1>5, <2>1, FetchTxsLone, ReturnLone
<1> QED BY <1>2, <1>4, <1>5, ChainLone, StutterLone DEF Next

(* Whatever lands while it runs and whatever the node fails to answer, a     *)
(* lone call of fetchTxs that returns leaves out no transaction that was     *)
(* settled when it began and that it asked for, unless it returned as many   *)
(* newer ones as it should.                                                  *)
THEOREM LoneFetchesAll == ASSUME LoneCaller PROVE Spec => []FetchComplete
<1>1. LoneInv /\ [Next]_vars => LoneInv'
  BY NextLone
<1>2. LoneInv => FetchComplete
  BY DEF LoneInv, CallerInv, ToldInv, FetchComplete
<1> QED BY <1>1, <1>2, InitLone, PTL DEF Spec
=============================================================================
