------------------------- MODULE ElusivViewerProofs -------------------------
(* Proofs about ElusivViewer, for any size of the pages and the batches, any *)
(* window and any tokens.                                                    *)
EXTENDS ElusivViewer, FiniteSetTheorems, WellFoundedInduction, TLAPS

-----------------------------------------------------------------------------
(* Sets of places on chain.                                                  *)
LEMMA Least ==
    ASSUME NEW S, S \subseteq Nat, S # {}
    PROVE  \E k \in S : \A l \in S : k <= l
<1>1. PICK k \in S : \A l \in S : ~(<<l, k>> \in OpToRel(<, Nat))
  BY NatLessThanWellFounded, WFMin
<1>2. \A l \in S : <<l, k>> \in OpToRel(<, Nat) <=> l < k
  BY DEF OpToRel
<1>3. \A l \in S : ~(l < k)
  BY <1>1, <1>2, Zenon
<1> QED BY <1>3

LEMMA Greatest ==
    ASSUME NEW n \in Nat, NEW S, S \subseteq 1..n, S # {}
    PROVE  \E k \in S : \A l \in S : l <= k
<1> DEFINE T == {n - k : k \in S}
<1>1. T \subseteq Nat /\ T # {}
  <2>1. \A k \in S : n - k \in Nat
    OBVIOUS
  <2> QED BY <2>1
<1>2. PICK t \in T : \A u \in T : t <= u
  <2> HIDE DEF T
  <2> QED BY <1>1, Least
<1>3. PICK k \in S : t = n - k
  BY <1>2
<1>4. ASSUME NEW l \in S PROVE l <= k
  <2>1. n - k <= n - l
    BY <1>2, <1>3
  <2> QED BY <2>1
<1> QED BY <1>4

LEMMA OldestIs ==
    ASSUME NEW S, S \subseteq Nat, S # {}
    PROVE  Oldest(S) \in S /\ \A l \in S : Oldest(S) <= l
<1>1. \E k \in S : \A l \in S : k <= l
  BY Least
<1> QED BY <1>1 DEF Oldest

(* The newest of some are some of them, without a gap above.                 *)
LEMMA NewestIs ==
    ASSUME NEW n \in Nat \ {0}, NEW m \in Nat, NEW S, S \subseteq 1..m
    PROVE  /\ Newest(n, S) \subseteq S
           /\ \A k \in Newest(n, S), l \in S : l > k => l \in Newest(n, S)
           /\ S # {} => Newest(n, S) # {}
<1>1. \A T \in SUBSET (1..m) : IsFiniteSet(T) /\ Cardinality(T) \in Nat
  <2>1. IsFiniteSet(1..m)
    BY FS_Interval
  <2> QED BY <2>1, FS_Subset, FS_CardinalityType
<1>2. ASSUME NEW k \in Newest(n, S), NEW l \in S, l > k
      PROVE  l \in Newest(n, S)
  <2> DEFINE above(j) == {l2 \in S : l2 > j}
  <2>1. above(l) \in SUBSET above(k) /\ IsFiniteSet(above(k)) /\ IsFiniteSet(above(l))
    <3>1. k \in S /\ k \in Nat /\ l \in Nat
      BY DEF Newest
    <3>2. above(l) \subseteq above(k)
      <4>1. \A j \in S : j > l => j > k
        BY <1>2, <3>1
      <4> QED BY <4>1, Zenon
    <3> QED BY <1>1, <3>2
  <2>2. Cardinality(above(l)) <= Cardinality(above(k))
    <3> HIDE DEF above
    <3> QED BY <2>1, FS_Subset
  <2>3. Cardinality(above(k)) < n /\ Cardinality(above(k)) \in Nat /\ Cardinality(above(l)) \in Nat
    <3>1. Cardinality(above(k)) < n
      BY DEF Newest
    <3> QED BY <1>1, <3>1
  <2>4. Cardinality(above(l)) < n
    BY <2>2, <2>3
  <2> QED BY <2>4 DEF Newest
<1>3. ASSUME S # {}
      PROVE  Newest(n, S) # {}
  <2>1. PICK k \in S : \A l \in S : l <= k
    BY <1>3, Greatest
  <2>2. \A l \in S : ~(l > k)
    BY <2>1
  <2>3. Cardinality({l \in S : l > k}) = 0
    <3>1. {l \in S : l > k} = {}
      BY <2>2, Zenon
    <3> QED BY <3>1, FS_EmptySet
  <2> QED BY <2>3 DEF Newest
<1> QED BY <1>2, <1>3 DEF Newest

-----------------------------------------------------------------------------
(* The inductive invariant. A fetch has all of the window down to the oldest *)
(* signature it has seen; when it stops, nothing older is recent, because    *)
(* the times of blocks do not go back. The operators take the transactions   *)
(* as a parameter, for a step that lands another.                            *)
At(s, q) == {k \in 1..Len(s) : q \in {All, LAMPORTS} \/ s[k].tokenType = q}
After(s, k, until) == s[k].blockTime > until

Sigs == [tokenType : Tokens, kind : Kinds, err : BOOLEAN, blockTime : Int]

Chain(s, now) ==
    /\ s \in Seq(Sigs) /\ Len(s) <= MaxSigs
    /\ \A k \in 1..Len(s) : s[k].blockTime <= now
    /\ \A k, l \in 1..Len(s) : k <= l => s[k].blockTime <= s[l].blockTime

FetchOK(f, s, q) ==
    /\ f.pc \in {"paging", "done"} /\ f.until \in Int
    /\ f.before \in 1..Undefined /\ f.first \in 0..Len(s)
    /\ f.before # Undefined => f.before <= f.first
    /\ f.total = {k \in At(s, q) : f.before <= k /\ k <= f.first /\ After(s, k, f.until)}
    /\ f.length = Cardinality(f.total)
    /\ f.pc = "done" => \A k \in At(s, q) : k < f.before /\ k <= f.first => ~After(s, k, f.until)

LEMMA StartedOK ==
    ASSUME ViewerAssumption, NEW s, Len(s) \in 0..MaxSigs, NEW q, NEW f, NEW until \in Int,
           f = [pc |-> "paging", until |-> until, before |-> Undefined, first |-> 0, total |-> {}, length |-> 0]
    PROVE  FetchOK(f, s, q)
<1>1. /\ f.pc = "paging" /\ f.until = until /\ f.before = Undefined /\ f.first = 0
      /\ f.total = {} /\ f.length = 0
  OBVIOUS
<1>2. MaxSigs \in Nat /\ Undefined = MaxSigs + 1
  BY DEF ViewerAssumption, Undefined
<1>3. {k \in At(s, q) : f.before <= k /\ k <= f.first /\ After(s, k, f.until)} = {}
  BY <1>1, <1>2 DEF At
<1>4. f.length = Cardinality(f.total)
  BY <1>1, FS_EmptySet
<1> QED BY <1>1, <1>2, <1>3, <1>4 DEF FetchOK

LEMMA SeqAt ==
    ASSUME NEW S, NEW s \in Seq(S), NEW k \in 1..Len(s)
    PROVE  s[k] \in S
OBVIOUS

LEMMA LandChain ==
    ASSUME NEW s, NEW now \in Int, Chain(s, now), Len(s) < MaxSigs, MaxSigs \in Nat,
           NEW t \in Tokens, NEW kind \in Kinds, NEW err \in BOOLEAN
    PROVE  Chain(Append(s, [tokenType |-> t, kind |-> kind, err |-> err, blockTime |-> now]), now)
<1> DEFINE x == [tokenType |-> t, kind |-> kind, err |-> err, blockTime |-> now]
           s2 == Append(s, x)
<1>1. s \in Seq(Sigs) /\ x.blockTime = now
  BY DEF Chain
<1>2. /\ s2 \in Seq(Sigs) /\ Len(s2) = Len(s) + 1
      /\ s2[Len(s) + 1] = x /\ \A k \in 1..Len(s) : s2[k] = s[k]
  BY <1>1 DEF Sigs
<1> HIDE DEF s2, x
<1>3. \A k \in 1..Len(s2) : k \in 1..Len(s) \/ k = Len(s) + 1
  BY <1>1, <1>2
<1>4. \A k \in 1..Len(s) : s2[k].blockTime = s[k].blockTime /\ s[k].blockTime <= now /\ s[k].blockTime \in Int
  <2> TAKE k \in 1..Len(s)
  <2>1. s[k] \in Sigs
    BY <1>1, SeqAt
  <2>2. s2[k] = s[k] /\ s[k].blockTime <= now
    BY <1>2 DEF Chain
  <2> QED BY <2>1, <2>2 DEF Sigs
<1>5. \A k \in 1..Len(s2) : s2[k].blockTime <= now
  <2> TAKE k \in 1..Len(s2)
  <2>1. CASE k \in 1..Len(s)
    <3>1. s2[k].blockTime = s[k].blockTime /\ s[k].blockTime <= now
      BY <1>4, <2>1, Zenon
    <3> QED BY <3>1
  <2>2. CASE k = Len(s) + 1
    <3>1. s2[k].blockTime = now
      BY <1>1, <1>2, <2>2
    <3> QED BY <3>1
  <2> QED BY <1>3, <2>1, <2>2
<1>6. \A k, l \in 1..Len(s2) : k <= l => s2[k].blockTime <= s2[l].blockTime
  <2> TAKE k, l \in 1..Len(s2)
  <2> HAVE k <= l
  <2>1. CASE l = Len(s) + 1
    <3>1. s2[l].blockTime = now
      BY <1>1, <1>2, <2>1
    <3>2. s2[k].blockTime <= now
      BY <1>5, Zenon
    <3> QED BY <3>1, <3>2, Zenon
  <2>2. CASE l \in 1..Len(s)
    <3>1. k \in 1..Len(s)
      BY <2>2
    <3>2. s[k].blockTime <= s[l].blockTime
      BY <2>2, <3>1 DEF Chain
    <3> QED BY <1>4, <2>2, <3>1, <3>2
  <2> QED BY <1>3, <2>1, <2>2
<1>7. Len(s2) <= MaxSigs
  BY <1>1, <1>2
<1>8. Chain(s2, now)
  BY <1>2, <1>5, <1>6, <1>7 DEF Chain
<1> QED BY <1>8 DEF s2, x

(* What lands is newer than what any fetch asks for.                         *)
LEMMA LandKeepsFetch ==
    ASSUME NEW s, NEW S, s \in Seq(S), NEW x, NEW f, NEW q, x \in S, FetchOK(f, s, q)
    PROVE  FetchOK(f, Append(s, x), q)
<1> DEFINE s2 == Append(s, x)
<1>1. Len(s2) = Len(s) + 1 /\ Len(s) \in Nat /\ \A k \in 1..Len(s) : s2[k] = s[k]
  OBVIOUS
<1> HIDE DEF s2
<1>2. f.first \in 0..Len(s)
  BY DEF FetchOK
<1>3. \A k \in 1..Len(s2) : k <= f.first => k \in 1..Len(s)
  BY <1>1, <1>2
<1>4. \A k : /\ k \in At(s2, q) /\ k <= f.first <=> k \in At(s, q) /\ k <= f.first
             /\ k \in At(s, q) => (After(s2, k, f.until) <=> After(s, k, f.until))
  BY <1>1, <1>2, <1>3 DEF At, After
<1>5. {k \in At(s2, q) : f.before <= k /\ k <= f.first /\ After(s2, k, f.until)}
      = {k \in At(s, q) : f.before <= k /\ k <= f.first /\ After(s, k, f.until)}
  BY <1>4
<1>6. f.first \in 0..Len(s2)
  BY <1>1, <1>2
<1>7. FetchOK(f, s2, q)
  BY <1>4, <1>5, <1>6 DEF FetchOK
<1> QED BY <1>7 DEF s2

(* A page takes the fetch down to its oldest signature, or to its end.       *)
LEMMA PageKeepsFetch ==
    ASSUME NEW s, NEW now \in Int, Chain(s, now), MaxSigs \in Nat, NEW f, NEW g, NEW q, FetchOK(f, s, q),
           NEW page, page = Newest(PageSize, {k \in At(s, q) : k < f.before}), PageSize \in Nat \ {0},
           NEW filtered, filtered = {k \in page : After(s, k, f.until)},
           g.until = f.until,
           g.before = NextBefore(f.before, page),
           g.first = IF f.before = Undefined THEN Len(s) ELSE f.first,
           g.total = f.total \cup filtered,
           g.length = f.length + Cardinality(filtered),
           g.pc = IF Further(page, filtered) THEN "paging" ELSE "done"
    PROVE  FetchOK(g, s, q)
<1> DEFINE older == {k \in At(s, q) : k < f.before}
<1>1. /\ Len(s) \in 0..MaxSigs /\ f.before \in 1..Undefined /\ Undefined = MaxSigs + 1
      /\ f.first \in 0..Len(s) /\ f.until \in Int
      /\ f.before # Undefined => f.before <= f.first
  BY DEF Chain, FetchOK, Undefined
<1>2. older \subseteq 1..Len(s) /\ older \subseteq Nat
  BY DEF At
<1>3. /\ page \subseteq older
      /\ \A k \in page, l \in older : l > k => l \in page
      /\ older # {} => page # {}
  <2>1. page = Newest(PageSize, older)
    OBVIOUS
  <2> HIDE DEF older
  <2>2. Len(s) \in Nat
    BY <1>1
  <2> QED BY <1>2, <2>1, <2>2, NewestIs
<1>4. \A k \in 1..Len(s) : s[k].blockTime \in Int
  <2> TAKE k \in 1..Len(s)
  <2>1. s[k] \in Sigs
    BY SeqAt DEF Chain
  <2> QED BY <2>1 DEF Sigs
<1>5. g.first \in 0..Len(s) /\ f.first <= g.first /\ \A k \in older : k <= g.first
  BY <1>1 DEF At
<1>6. \A k \in At(s, q) : f.before <= k /\ k <= g.first <=> f.before <= k /\ k <= f.first
  BY <1>1 DEF At
<1>7. f.total = {k \in At(s, q) : f.before <= k /\ k <= g.first /\ After(s, k, f.until)}
  BY <1>6 DEF FetchOK
<1>8. CASE page = {}
  <2>1. g.before = f.before /\ filtered = {} /\ g.total = f.total /\ older = {}
    BY <1>3, <1>8 DEF NextBefore
  <2>2. g.pc = "done"
    BY <2>1 DEF Further
  <2>3. g.length = Cardinality(g.total)
    <3>1. Cardinality(filtered) = 0 /\ f.length = Cardinality(f.total)
      BY <2>1, FS_EmptySet DEF FetchOK
    <3>2. Cardinality(f.total) \in Nat
      <4>1. IsFiniteSet(1..Len(s)) /\ f.total \in SUBSET (1..Len(s))
        BY <1>1, <1>7, FS_Interval DEF At
      <4> QED BY <4>1, FS_Subset, FS_CardinalityType
    <3>3. g.length = Cardinality(f.total) + 0
      BY <3>1
    <3>4. g.length = Cardinality(f.total)
      BY <3>2, <3>3
    <3> QED BY <2>1, <3>4, Zenon
  <2>4. g.before # Undefined => g.before <= g.first
    BY <1>1, <1>5, <2>1
  <2>5. \A k \in At(s, q) : ~(k < g.before)
    BY <2>1
  <2>6. g.total = {k \in At(s, q) : g.before <= k /\ k <= g.first /\ After(s, k, g.until)}
    BY <1>7, <2>1
  <2> QED BY <1>1, <1>5, <2>1, <2>2, <2>3, <2>4, <2>5, <2>6 DEF FetchOK
<1>9. CASE page # {}
  <2> DEFINE b == Oldest(page)
  <2>1. b \in page /\ \A k \in page : b <= k
    BY <1>2, <1>3, <1>9, OldestIs
  <2> HIDE DEF b
  <2>2. g.before = b /\ b \in older /\ b \in Nat /\ b < f.before /\ b \in 1..Len(s)
    BY <1>2, <1>3, <1>9, <2>1 DEF NextBefore, b
  <2>3. \A k \in At(s, q) : k \in page <=> b <= k /\ k < f.before
    <3> TAKE k \in At(s, q)
    <3>1. k \in Nat
      BY DEF At
    <3>2. k \in page => b <= k /\ k < f.before
      BY <1>3, <2>1
    <3>3. b <= k /\ k < f.before => k = b \/ (k \in older /\ k > b)
      BY <2>2, <3>1
    <3> QED BY <1>3, <2>1, <3>2, <3>3
  <2>4. g.total = {k \in At(s, q) : g.before <= k /\ k <= g.first /\ After(s, k, g.until)}
    <3>1. \A k : k \in filtered <=> k \in At(s, q) /\ b <= k /\ k < f.before /\ After(s, k, f.until)
      BY <1>3, <2>3
    <3>2. \A k \in At(s, q) :
              b <= k /\ k <= g.first <=> (f.before <= k /\ k <= g.first) \/ (b <= k /\ k < f.before)
      <4> TAKE k \in At(s, q)
      <4>1. k \in Nat /\ f.before \in Nat /\ g.first \in Nat
        BY <1>1, <1>5 DEF At
      <4>2. k < f.before => k <= g.first
        BY <1>5
      <4> QED BY <2>2, <4>1, <4>2
    <3>3. \A k : k \in f.total <=> k \in At(s, q) /\ f.before <= k /\ k <= g.first /\ After(s, k, f.until)
      BY <1>7
    <3>4. \A k : k \in g.total <=> k \in At(s, q) /\ b <= k /\ k <= g.first /\ After(s, k, f.until)
      <4>1. \A k : k \in g.total <=> k \in f.total \/ k \in filtered
        OBVIOUS
      <4> QED BY <3>1, <3>2, <3>3, <4>1
    <3> QED BY <2>2, <3>4
  <2>5. g.length = Cardinality(g.total)
    <3>1. IsFiniteSet(1..Len(s)) /\ f.total \in SUBSET (1..Len(s)) /\ filtered \in SUBSET (1..Len(s))
      <4>1. IsFiniteSet(1..Len(s))
        BY <1>1, FS_Interval
      <4>2. f.total \subseteq 1..Len(s)
        BY <1>7 DEF At
      <4>3. filtered \subseteq 1..Len(s)
        BY <1>2, <1>3
      <4> QED BY <4>1, <4>2, <4>3
    <3>2. IsFiniteSet(f.total) /\ IsFiniteSet(filtered)
          /\ Cardinality(f.total) \in Nat /\ Cardinality(filtered) \in Nat
      BY <3>1, FS_Subset, FS_CardinalityType
    <3>3. f.total \cap filtered = {}
      <4>1. \A k \in filtered : k < f.before /\ k \in Nat
        BY <1>2, <1>3
      <4>2. \A k \in f.total : f.before <= k /\ k \in Nat
        BY <1>7 DEF At
      <4> QED BY <1>1, <4>1, <4>2
    <3>4. Cardinality(f.total \cup filtered) = Cardinality(f.total) + Cardinality(filtered) - 0
      <4>1. Cardinality(f.total \cup filtered)
            = Cardinality(f.total) + Cardinality(filtered) - Cardinality(f.total \cap filtered)
        BY <3>2, FS_Union
      <4>2. Cardinality(f.total \cap filtered) = 0
        BY <3>3, FS_EmptySet
      <4> QED BY <4>1, <4>2
    <3>5. f.length = Cardinality(f.total)
      BY DEF FetchOK
    <3> QED BY <3>2, <3>4, <3>5
  <2>6. g.pc = "done" => \A k \in At(s, q) : k < g.before /\ k <= g.first => ~After(s, k, g.until)
    <3> SUFFICES ASSUME g.pc = "done", NEW k \in At(s, q), k < b PROVE ~After(s, k, f.until)
      BY <2>2
    <3>1. ~After(s, b, f.until)
      <4> SUFFICES ASSUME After(s, b, f.until) PROVE FALSE
        OBVIOUS
      <4>1. b \in filtered /\ \A l \in filtered : b <= l
        BY <2>1
      <4>2. filtered \subseteq Nat /\ filtered # {}
        BY <1>2, <1>3, <4>1
      <4>3. Oldest(filtered) \in filtered /\ Oldest(filtered) <= b
        BY <4>1, <4>2, OldestIs
      <4>4. Oldest(filtered) = b
        BY <2>2, <4>1, <4>2, <4>3
      <4> QED BY <4>2, <4>4 DEF Further, b
    <3>2. k \in 1..Len(s) /\ s[k].blockTime <= s[b].blockTime
      BY <2>2 DEF At, Chain
    <3> QED BY <1>1, <1>4, <2>2, <3>1, <3>2 DEF After
  <2>7. g.before \in 1..Undefined /\ g.before <= g.first
    BY <1>1, <1>5, <2>2
  <2>8. g.pc \in {"paging", "done"}
    OBVIOUS
  <2> QED BY <1>1, <1>5, <2>4, <2>5, <2>6, <2>7, <2>8 DEF FetchOK
<1> QED BY <1>8, <1>9

-----------------------------------------------------------------------------
(* The fetches of the other tokens come after that of LAMPORTS.              *)
Fetching(q) == q = query \/ (query = LAMPORTS /\ q \in OtherTokens /\ fetches[LAMPORTS].pc = "done")

CallInv ==
    /\ query \in Queries \cup {Nobody}
    /\ \A q \in Queries : fetches[q].pc # "idle" => Fetching(q) /\ FetchOK(fetches[q], sigs, q)
    /\ phase \in {"transactions", "done"} /\ query = LAMPORTS =>
           /\ fetches[LAMPORTS].pc = "done" /\ \A t \in OtherTokens : fetches[t].pc = "done"
           /\ result = WithoutOtherTokens(fetches[LAMPORTS].total)

Fetches ==
    [pc : {"idle", "paging", "done"}, until : Int, before : Int, first : Int, total : SUBSET Int, length : Int]

ViewerInv ==
    /\ time \in Nat /\ Chain(sigs, time)
    /\ fetches \in [Queries -> Fetches]
    /\ CallInv

LEMMA AtIs ==
    ASSUME ViewerInv
    PROVE  /\ \A q : AtAddress(q) = At(sigs, q)
           /\ \A k, until : Recent(k, until) = After(sigs, k, until)
<1>1. DOMAIN sigs = 1..Len(sigs)
  BY DEF ViewerInv, Chain
<1> QED BY <1>1 DEF AtAddress, At, Recent, After

LEMMA ExactHolds == ViewerInv => FetchExact
<1> SUFFICES ASSUME ViewerInv, NEW q \in Queries, fetches[q].pc = "done"
             PROVE  fetches[q].total = Window(q) /\ fetches[q].length = Cardinality(fetches[q].total)
  BY DEF FetchExact
<1> DEFINE f == fetches[q]
<1>1. FetchOK(f, sigs, q)
  BY DEF ViewerInv, CallInv
<1>2. \A k : k \in Window(q) <=> k \in At(sigs, q) /\ k <= f.first /\ After(sigs, k, f.until)
  BY AtIs DEF Window
<1> HIDE DEF f
<1>3. \A k \in At(sigs, q) : k \in Nat
  BY DEF At
<1>4. f.before \in 1..Undefined /\ Undefined \in Nat
  BY <1>1, ViewerAssumption DEF FetchOK, Undefined, ViewerAssumption
<1>5. \A k : k \in f.total <=> k \in At(sigs, q) /\ f.before <= k /\ k <= f.first /\ After(sigs, k, f.until)
  BY <1>1 DEF FetchOK
<1>6. \A k \in At(sigs, q) : k < f.before /\ k <= f.first => ~After(sigs, k, f.until)
  <2>1. f.pc = "done"
    BY DEF f
  <2> QED BY <1>1, <2>1 DEF FetchOK
<1>7. \A k \in At(sigs, q) : k < f.before \/ f.before <= k
  BY <1>3, <1>4
<1>8. f.total = Window(q)
  BY <1>2, <1>5, <1>6, <1>7
<1>9. f.length = Cardinality(f.total)
  BY <1>1 DEF FetchOK
<1> QED BY <1>8, <1>9 DEF f

-----------------------------------------------------------------------------
LEMMA ViewerConstants ==
    /\ MaxSigs \in Nat /\ Undefined = MaxSigs + 1 /\ Undefined \in Nat /\ Span \in Nat /\ PageSize \in Nat \ {0}
    /\ LAMPORTS \in Queries /\ OtherTokens \subseteq Queries /\ LAMPORTS \notin OtherTokens
    /\ Nobody \notin Queries
BY ViewerAssumption DEF ViewerAssumption, Undefined, Queries, OtherTokens

LEMMA InitHolds == Init => ViewerInv
<1> SUFFICES ASSUME Init PROVE ViewerInv
  OBVIOUS
<1>1. time = 1 /\ sigs = <<>> /\ query = Nobody /\ phase = "idle" /\ fetches = [q \in Queries |-> Idle]
  BY DEF Init
<1>2. Chain(sigs, time)
  BY <1>1, ViewerConstants DEF Chain
<1>3. Idle \in Fetches /\ Idle.pc = "idle"
  BY DEF Idle, Fetches
<1>4. \A q \in Queries : fetches[q].pc = "idle"
  BY <1>1, <1>3
<1>5. CallInv
  BY <1>1, <1>4, ViewerConstants DEF CallInv
<1>6. fetches \in [Queries -> Fetches]
  BY <1>1, <1>3
<1> QED BY <1>1, <1>2, <1>5, <1>6 DEF ViewerInv

(* The variables the invariant is about, where a step leaves them alone.     *)
LEMMA LandStep ==
    ASSUME ViewerInv, NEW t \in Tokens, NEW kind \in Kinds, NEW err \in BOOLEAN, Land(t, kind, err)
    PROVE  ViewerInv'
<1> DEFINE x == [tokenType |-> t, kind |-> kind, err |-> err, blockTime |-> time]
<1>1. /\ sigs' = Append(sigs, x) /\ Len(sigs) < MaxSigs /\ time' = time /\ query' = query
      /\ fetches' = fetches /\ phase' = phase /\ result' = result
  BY DEF Land, asked
<1>2. Chain(sigs, time) /\ time \in Int
  BY DEF ViewerInv
<1>3. Chain(sigs', time)
  BY <1>1, <1>2, LandChain, ViewerConstants
<1>4. x \in Sigs
  BY <1>2 DEF Sigs
<1> HIDE DEF x
<1>5. \A q \in Queries : FetchOK(fetches[q], sigs, q) => FetchOK(fetches[q], sigs', q)
  BY <1>1, <1>2, <1>4, LandKeepsFetch DEF Chain
<1>6. CallInv'
  BY <1>1, <1>5 DEF ViewerInv, CallInv, Fetching, WithoutOtherTokens
<1> QED BY <1>1, <1>3, <1>6 DEF ViewerInv

LEMMA TickStep ==
    ASSUME ViewerInv, Tick
    PROVE  ViewerInv'
<1>1. /\ time' = time + 1 /\ UNCHANGED <<sigs, query, fetches, phase, result>> /\ time \in Nat
  BY DEF Tick, ViewerInv, asked
<1>2. Chain(sigs, time + 1)
  <2>1. \A k \in 1..Len(sigs) : sigs[k].blockTime \in Int /\ sigs[k].blockTime <= time
    <3> TAKE k \in 1..Len(sigs)
    <3>1. sigs[k] \in Sigs
      BY SeqAt DEF ViewerInv, Chain
    <3> QED BY <3>1 DEF ViewerInv, Chain, Sigs
  <2>2. \A k \in 1..Len(sigs) : sigs[k].blockTime <= time + 1
    BY <1>1, <2>1
  <2> QED BY <2>2 DEF ViewerInv, Chain
<1>3. Chain(sigs, time)'
  BY <1>1, <1>2
<1>4. CallInv'
  BY <1>1 DEF ViewerInv, CallInv, Fetching, WithoutOtherTokens
<1> QED BY <1>1, <1>3, <1>4 DEF ViewerInv

LEMMA ReturnStep ==
    ASSUME ViewerInv, Return
    PROVE  ViewerInv'
<1>1. /\ query' = Nobody /\ phase' = "idle" /\ fetches' = [q \in Queries |-> Idle]
      /\ time' = time /\ sigs' = sigs
  BY DEF Return, chain
<1>2. Idle \in Fetches /\ Idle.pc = "idle"
  BY DEF Idle, Fetches
<1>3. \A q \in Queries : fetches'[q].pc = "idle"
  BY <1>1, <1>2
<1>4. CallInv'
  BY <1>1, <1>3, ViewerConstants DEF CallInv
<1>5. fetches' \in [Queries -> Fetches]
  BY <1>1, <1>2
<1> QED BY <1>1, <1>4, <1>5 DEF ViewerInv

LEMMA AskStep ==
    ASSUME ViewerInv, NEW q \in Queries, Ask(q)
    PROVE  ViewerInv'
<1> DEFINE f == Started
<1>1. /\ query = Nobody /\ query' = q /\ phase' = "signatures" /\ fetches' = [fetches EXCEPT ![q] = f]
      /\ time' = time /\ sigs' = sigs
  BY DEF Ask, chain
<1>2. \A r \in Queries : fetches[r].pc = "idle"
  BY <1>1, ViewerConstants DEF ViewerInv, CallInv, Fetching
<1>3. f \in Fetches /\ FetchOK(f, sigs, q) /\ f.pc = "paging" /\ f.before = Undefined
  <2>1. time - Span \in Int /\ Len(sigs) \in 0..MaxSigs
    BY ViewerConstants DEF ViewerInv, Chain
  <2>2. f \in Fetches /\ f.pc = "paging" /\ f.before = Undefined
    BY <2>1, ViewerConstants DEF Fetches, Started
  <2>3. FetchOK(f, sigs, q)
    BY <2>1, ViewerAssumption, StartedOK DEF Started
  <2> QED BY <2>2, <2>3
<1> HIDE DEF f
<1>4. fetches' \in [Queries -> Fetches] /\ fetches'[q] = f /\ \A r \in Queries : r # q => fetches'[r] = fetches[r]
  BY <1>1, <1>3 DEF ViewerInv
<1>5. CallInv'
  <2>1. query' \in Queries \cup {Nobody}
    BY <1>1
  <2>2. \A r \in Queries : fetches'[r].pc # "idle" => r = q
    BY <1>2, <1>4
  <2>3. FetchOK(fetches[q], sigs, q)'
    BY <1>1, <1>3, <1>4
  <2>4. \A r \in Queries : (fetches[r].pc # "idle" => Fetching(r) /\ FetchOK(fetches[r], sigs, r))'
    BY <1>1, <2>2, <2>3 DEF Fetching
  <2>6. phase' \notin {"transactions", "done"}
    BY <1>1
  <2> QED BY <1>1, <2>1, <2>4, <2>6 DEF CallInv
<1> QED BY <1>1, <1>4, <1>5 DEF ViewerInv

(* A page changes one fetch, by the step of PageKeepsFetch.                  *)
LEMMA PageStep ==
    ASSUME ViewerInv, NEW q \in Queries, Page(q)
    PROVE  ViewerInv'
<1> DEFINE f == fetches[q]
           page == PageBefore(q, f.before)
           filtered == {k \in page : Recent(k, f.until)}
           g == fetches'[q]
<1>1. /\ f.pc = "paging" /\ time' = time /\ sigs' = sigs /\ query' = query /\ phase' = phase /\ result' = result
      /\ fetches' = [fetches EXCEPT
              ![q].before = NextBefore(@, page),
              ![q].first = IF f.before = Undefined THEN Len(sigs) ELSE @,
              ![q].total = @ \cup filtered,
              ![q].length = @ + Cardinality(filtered),
              ![q].pc = IF Further(page, filtered) THEN "paging" ELSE "done"]
  BY DEF Page, chain, asked
<1>2. f \in Fetches /\ fetches \in [Queries -> Fetches] /\ FetchOK(f, sigs, q) /\ Fetching(q)
  BY <1>1 DEF ViewerInv, CallInv
<1> HIDE DEF page, filtered
<1>3. /\ g.until = f.until
      /\ g.before = NextBefore(f.before, page)
      /\ g.first = IF f.before = Undefined THEN Len(sigs) ELSE f.first
      /\ g.total = f.total \cup filtered
      /\ g.length = f.length + Cardinality(filtered)
      /\ g.pc = IF Further(page, filtered) THEN "paging" ELSE "done"
      /\ \A r \in Queries : r # q => fetches'[r] = fetches[r]
  BY <1>1, <1>2 DEF Fetches
<1>4. page = Newest(PageSize, {k \in At(sigs, q) : k < f.before}) /\ filtered = {k \in page : After(sigs, k, f.until)}
  BY AtIs DEF page, filtered, PageBefore
<1>5. FetchOK(g, sigs, q)
  <2>1. Chain(sigs, time) /\ time \in Int
    BY DEF ViewerInv
  <2> HIDE DEF g, f
  <2> QED BY <1>2, <1>3, <1>4, <2>1, ViewerConstants, PageKeepsFetch
<1>6. page \subseteq 1..Len(sigs) /\ filtered \subseteq 1..Len(sigs) /\ Len(sigs) \in Nat
  <2>1. {k \in At(sigs, q) : k < f.before} \subseteq 1..Len(sigs) /\ Len(sigs) \in Nat
    BY DEF At, ViewerInv, Chain
  <2>2. page \subseteq {k \in At(sigs, q) : k < f.before}
    BY <1>4 DEF Newest
  <2> QED BY <1>4, <2>1, <2>2
<1>7. fetches' \in [Queries -> Fetches]
  <2>1. NextBefore(f.before, page) \in Int
    <3>1. CASE page = {}
      BY <1>2, <3>1 DEF NextBefore, Fetches
    <3>2. CASE page # {}
      <4>1. page \subseteq Nat
        BY <1>6
      <4>2. Oldest(page) \in page
        <5> HIDE DEF page
        <5> QED BY <3>2, <4>1, OldestIs
      <4>3. \A k \in page : k \in Int
        BY <4>1
      <4>4. Oldest(page) \in Int
        BY <4>2, <4>3, Zenon
      <4> QED BY <3>2, <4>4 DEF NextBefore
    <3> QED BY <3>1, <3>2
  <2>2. Cardinality(filtered) \in Nat
    <3>1. IsFiniteSet(1..Len(sigs))
      BY <1>6, FS_Interval
    <3>2. filtered \in SUBSET (1..Len(sigs))
      BY <1>6
    <3>3. IsFiniteSet(filtered)
      BY <3>1, <3>2, FS_Subset
    <3> QED BY <3>3, FS_CardinalityType
  <2>3. g \in Fetches
    <3> DEFINE cut == IF f.before = Undefined THEN Len(sigs) ELSE f.first
               more == IF Further(page, filtered) THEN "paging" ELSE "done"
    <3>1. g = [f EXCEPT !.before = NextBefore(f.before, page), !.first = cut, !.total = f.total \cup filtered,
                        !.length = f.length + Cardinality(filtered), !.pc = more]
      BY <1>1, <1>2 DEF Fetches
    <3>2. cut \in Int /\ more \in {"idle", "paging", "done"}
      BY <1>2, <1>6 DEF Fetches
    <3>3. \A k \in filtered : k \in Int
      BY <1>6
    <3>4. f.total \in SUBSET Int
      BY <1>2 DEF Fetches
    <3>5. f.total \cup filtered \in SUBSET Int
      BY <3>3, <3>4
    <3>6. g = [pc |-> more, until |-> f.until, before |-> NextBefore(f.before, page), first |-> cut,
               total |-> f.total \cup filtered, length |-> f.length + Cardinality(filtered)]
      BY <3>1, <1>2 DEF Fetches
    <3>7. f.until \in Int /\ f.length + Cardinality(filtered) \in Int
      BY <1>2, <2>2 DEF Fetches
    <3> DEFINE union == f.total \cup filtered
               sum == f.length + Cardinality(filtered)
               oldest == NextBefore(f.before, page)
               until == f.until
    <3>8. /\ g = [pc |-> more, until |-> until, before |-> oldest, first |-> cut, total |-> union, length |-> sum]
          /\ union \in SUBSET Int /\ sum \in Int /\ oldest \in Int /\ until \in Int
      BY <2>1, <3>5, <3>6, <3>7
    <3> HIDE DEF cut, more, f, g, union, sum, oldest, until
    <3> QED BY <3>2, <3>8 DEF Fetches
  <2>4. fetches' = [fetches EXCEPT ![q] = g]
    BY <1>1, <1>2
  <2> HIDE DEF g
  <2> QED BY <1>2, <2>3, <2>4
<1>8. \A r \in Queries : (fetches[r].pc # "idle" => Fetching(r) /\ FetchOK(fetches[r], sigs, r))'
  <2> SUFFICES ASSUME NEW r \in Queries, fetches'[r].pc # "idle"
               PROVE  Fetching(r)' /\ FetchOK(fetches'[r], sigs, r)
    BY <1>1
  <2>1. fetches[r].pc # "idle"
    BY <1>1, <1>3
  <2>2. Fetching(r) /\ FetchOK(fetches[r], sigs, r)
    BY <2>1 DEF ViewerInv, CallInv
  <2>4. query' = query
    BY <1>1
  <2>5. Fetching(r)'
    <3>1. CASE r = query
      BY <2>4, <3>1 DEF Fetching
    <3>2. CASE r # query
      <4>1. query = LAMPORTS /\ r \in OtherTokens /\ fetches[LAMPORTS].pc = "done"
        BY <2>2, <3>2 DEF Fetching
      <4>2. LAMPORTS # q /\ LAMPORTS \in Queries
        BY <1>1, <4>1, ViewerConstants
      <4>3. fetches'[LAMPORTS] = fetches[LAMPORTS]
        BY <1>3, <4>2
      <4> QED BY <2>4, <4>1, <4>3 DEF Fetching
    <3> QED BY <3>1, <3>2
  <2> QED BY <1>3, <1>5, <2>2, <2>5
<1>10. (phase \in {"transactions", "done"} /\ query = LAMPORTS =>
           /\ fetches[LAMPORTS].pc = "done" /\ \A t \in OtherTokens : fetches[t].pc = "done"
           /\ result = WithoutOtherTokens(fetches[LAMPORTS].total))'
  <2> SUFFICES ASSUME phase \in {"transactions", "done"}, query = LAMPORTS PROVE FALSE
    BY <1>1
  <2>1. fetches[LAMPORTS].pc = "done" /\ \A t \in OtherTokens : fetches[t].pc = "done"
    BY DEF ViewerInv, CallInv
  <2> QED BY <1>1, <1>2, <2>1 DEF Fetching
<1>11. CallInv'
  BY <1>1, <1>8, <1>10 DEF CallInv, ViewerInv
<1> QED BY <1>1, <1>7, <1>11 DEF ViewerInv

LEMMA OtherTokensStep ==
    ASSUME ViewerInv, FetchOtherTokens
    PROVE  ViewerInv'
<1> DEFINE f == Started
<1>1. /\ query = LAMPORTS /\ fetches[LAMPORTS].pc = "done"
      /\ OtherTokens # {} /\ \A t \in OtherTokens : fetches[t].pc = "idle"
      /\ fetches' = [q \in Queries |-> IF q \in OtherTokens THEN f ELSE fetches[q]]
      /\ UNCHANGED <<time, sigs, query, phase, result>>
  BY DEF FetchOtherTokens, chain, asked
<1>2. f \in Fetches /\ \A q \in OtherTokens : FetchOK(f, sigs, q) /\ f.pc = "paging" /\ f.before = Undefined
  <2>1. time - Span \in Int /\ Len(sigs) \in 0..MaxSigs
    BY ViewerConstants DEF ViewerInv, Chain
  <2>2. f \in Fetches /\ f.pc = "paging" /\ f.before = Undefined
    BY <2>1, ViewerConstants DEF Fetches, Started
  <2>3. \A q \in OtherTokens : FetchOK(f, sigs, q)
    BY <2>1, ViewerAssumption, StartedOK DEF Started
  <2> QED BY <2>2, <2>3
<1> HIDE DEF f
<1>3. /\ \A t \in OtherTokens : fetches'[t] = f
      /\ \A q \in Queries : q \notin OtherTokens => fetches'[q] = fetches[q]
  BY <1>1, ViewerConstants
<1>4. fetches' \in [Queries -> Fetches]
  BY <1>1, <1>2 DEF ViewerInv
<1>5. phase \notin {"transactions", "done"}
  BY <1>1 DEF ViewerInv, CallInv
<1>6. \A q \in Queries : (fetches[q].pc # "idle" => Fetching(q) /\ FetchOK(fetches[q], sigs, q))'
  <2> SUFFICES ASSUME NEW q \in Queries, fetches'[q].pc # "idle"
               PROVE  Fetching(q)' /\ FetchOK(fetches'[q], sigs, q)
    BY <1>1
  <2>1. CASE q \in OtherTokens
    BY <1>1, <1>2, <1>3, <2>1, ViewerConstants DEF Fetching
  <2>2. CASE q \notin OtherTokens
    BY <1>1, <1>3, <2>2 DEF ViewerInv, CallInv, Fetching
  <2> QED BY <2>1, <2>2
<1>8. CallInv'
  BY <1>1, <1>5, <1>6 DEF ViewerInv, CallInv
<1> QED BY <1>1, <1>4, <1>8 DEF ViewerInv

LEMMA FetchedStep ==
    ASSUME ViewerInv, Fetched
    PROVE  ViewerInv'
<1>1. /\ fetches[query].pc = "done" /\ (query = LAMPORTS => \A t \in OtherTokens : fetches[t].pc = "done")
      /\ result' = IF query = LAMPORTS THEN WithoutOtherTokens(fetches[query].total)
                   ELSE fetches[query].total
      /\ UNCHANGED <<time, sigs, query, fetches>>
  BY DEF Fetched, chain, asked
<1>2. CallInv'
  BY <1>1 DEF ViewerInv, CallInv, Fetching, WithoutOtherTokens
<1> QED BY <1>1, <1>2 DEF ViewerInv

LEMMA TransactionsStep ==
    ASSUME ViewerInv, GetTransactions
    PROVE  ViewerInv'
<1>1. phase \in {"transactions", "done"} /\ phase' \in {"transactions", "done"}
      /\ UNCHANGED <<time, sigs, query, fetches, result>>
  BY DEF GetTransactions, chain, asked
<1>2. CallInv'
  BY <1>1 DEF ViewerInv, CallInv, Fetching, WithoutOtherTokens
<1> QED BY <1>1, <1>2 DEF ViewerInv

LEMMA StepHolds == ViewerInv /\ [Next]_vars => ViewerInv'
<1> SUFFICES ASSUME ViewerInv, [Next]_vars PROVE ViewerInv'
  OBVIOUS
<1>1. ASSUME NEW t \in Tokens, NEW kind \in Kinds, NEW err \in BOOLEAN, Land(t, kind, err) PROVE ViewerInv'
  BY <1>1, LandStep
<1>2. ASSUME NEW q \in Queries, Ask(q) \/ Page(q) PROVE ViewerInv'
  BY <1>2, AskStep, PageStep
<1>3. CASE Tick \/ Return \/ FetchOtherTokens \/ Fetched \/ GetTransactions
  BY <1>3, TickStep, ReturnStep, OtherTokensStep, FetchedStep, TransactionsStep
<1>4. CASE Finalize \/ UNCHANGED vars
  BY <1>4 DEF Finalize, vars, chain, asked, ViewerInv, CallInv, Fetching, WithoutOtherTokens
<1> QED BY <1>1, <1>2, <1>3, <1>4 DEF Next, View

LEMMA Inductive == Spec => []ViewerInv
BY InitHolds, StepHolds, PTL DEF Spec

-----------------------------------------------------------------------------
(* A fetch (getElusivSigsLastTime) has exactly what was in its window, each  *)
(* once, whatever lands between its pages.                                   *)
THEOREM WindowExact == Spec => []FetchExact
BY Inductive, ExactHolds, PTL

-----------------------------------------------------------------------------
(* A set with 0 that has n + 1 whenever it has n has every number.           *)
LEMMA AllNumbers ==
    ASSUME NEW S, S \subseteq Nat, 0 \in S, \A n \in S : n + 1 \in S
    PROVE  \A n \in Nat : n \in S
<1> SUFFICES ASSUME Nat \ S # {} PROVE FALSE
  BY Zenon
<1>1. PICK k \in Nat \ S : \A l \in Nat \ S : k <= l
  <2> DEFINE T == Nat \ S
  <2>1. T \subseteq Nat /\ T # {}
    OBVIOUS
  <2> HIDE DEF T
  <2>2. PICK k \in T : \A l \in T : k <= l
    BY <2>1, Least
  <2> QED BY <2>2 DEF T
<1>2. k \in Nat /\ k # 0
  BY <1>1
<1>3. k - 1 \in Nat /\ ~(k <= k - 1) /\ (k - 1) + 1 = k
  BY <1>2
<1>4. k - 1 \in S
  BY <1>1, <1>3
<1> QED BY <1>1, <1>3, <1>4

(* A set of subsets of a finite set that has the empty one, and a set with   *)
(* an element more whenever it has all sets with that one less, has them all.*)
LEMMA AllSubsets ==
    ASSUME NEW T, IsFiniteSet(T), NEW Q, {} \in Q,
           \A s \in SUBSET T : s # {} => \E x \in s : s \ {x} \in Q => s \in Q
    PROVE  \A s \in SUBSET T : s \in Q
<1> DEFINE S == {n \in Nat : \A s \in SUBSET T : Cardinality(s) = n => s \in Q}
<1>1. \A s \in SUBSET T : IsFiniteSet(s) /\ Cardinality(s) \in Nat
  BY FS_Subset, FS_CardinalityType
<1>2. 0 \in S
  <2>1. \A s \in SUBSET T : Cardinality(s) = 0 => s = {}
    BY <1>1, FS_EmptySet
  <2> QED BY <2>1
<1>3. ASSUME NEW n \in S PROVE n + 1 \in S
  <2>1. n \in Nat /\ n + 1 \in Nat /\ n + 1 # 0
    OBVIOUS
  <2> SUFFICES ASSUME NEW s \in SUBSET T, Cardinality(s) = n + 1 PROVE s \in Q
    BY <2>1
  <2>2. s # {}
    BY <2>1, FS_EmptySet
  <2>3. PICK x \in s : s \ {x} \in Q => s \in Q
    BY <2>2
  <2>4. Cardinality(s \ {x}) = Cardinality(s) - 1
    BY <1>1, <2>3, FS_RemoveElement
  <2>5. Cardinality(s \ {x}) = n /\ s \ {x} \in SUBSET T
    BY <2>1, <2>4
  <2> QED BY <2>3, <2>5
<1>4. \A n \in Nat : n \in S
  <2> HIDE DEF S
  <2>1. S \subseteq Nat
    BY DEF S
  <2> QED BY <1>2, <1>3, <2>1, AllNumbers
<1> QED BY <1>1, <1>4

(* Two functions that compute a set from one with an element less in the     *)
(* same way are equal on it.                                                 *)
LEMMA SameFold ==
    ASSUME NEW T, IsFiniteSet(T), NEW f, NEW g, f[{}] = g[{}],
           \A s \in SUBSET T : s # {} => \E x \in s : f[s \ {x}] = g[s \ {x}] => f[s] = g[s]
    PROVE  f[T] = g[T]
<1> DEFINE Q == {s \in SUBSET T : f[s] = g[s]}
<1>1. {} \in Q
  OBVIOUS
<1>2. \A s \in SUBSET T : s # {} => \E x \in s : s \ {x} \in Q => s \in Q
  OBVIOUS
<1>3. \A s \in SUBSET T : s \in Q
  <2> HIDE DEF Q
  <2> QED BY <1>1, <1>2, AllSubsets
<1> QED BY <1>3

-----------------------------------------------------------------------------
(* A sum of natural numbers counts units.                                    *)
Units(w, S) == {p \in S \X Nat : 1 <= p[2] /\ p[2] <= w[p[1]]}
SumOf(w, S) == Cardinality(Units(w, S))

(* One element more adds as many units as it weighs.                         *)
LEMMA UnitsMore ==
    ASSUME NEW w, NEW S, IsFiniteSet(Units(w, S)), NEW x, x \notin S, w[x] \in Nat
    PROVE  /\ IsFiniteSet(Units(w, S \cup {x}))
           /\ SumOf(w, S \cup {x}) = SumOf(w, S) + w[x]
<1> DEFINE A == Units(w, S)
           B == {x} \X (1..w[x])
<1>1. Units(w, S \cup {x}) = A \cup B
  <2>1. Units(w, S \cup {x}) = Units(w, S) \cup Units(w, {x})
    BY DEF Units
  <2>2. Units(w, {x}) = B
    BY DEF Units
  <2> QED BY <2>1, <2>2
<1>2. A \cap B = {}
  BY DEF Units
<1>3. IsFiniteSet(B) /\ Cardinality(B) = w[x]
  <2>1. IsFiniteSet(1..w[x]) /\ Cardinality(1..w[x]) = w[x]
    <3>1. 1 \in Int /\ w[x] \in Int /\ (IF 1 > w[x] THEN 0 ELSE w[x] - 1 + 1) = w[x]
      OBVIOUS
    <3> QED BY <3>1, FS_Interval
  <2>2. IsFiniteSet({x}) /\ Cardinality({x}) = 1
    BY FS_Singleton
  <2>3. IsFiniteSet(B) /\ Cardinality(B) = Cardinality({x}) * Cardinality(1..w[x])
    BY <2>1, <2>2, FS_Product
  <2> QED BY <2>1, <2>2, <2>3
<1> HIDE DEF A, B
<1>4. /\ IsFiniteSet(A \cup B)
      /\ Cardinality(A \cup B) = Cardinality(A) + Cardinality(B) - Cardinality(A \cap B)
  BY <1>3, FS_Union DEF A
<1>5. Cardinality(A \cap B) = 0
  BY <1>2, FS_EmptySet
<1>6. Cardinality(A) \in Nat
  BY FS_CardinalityType DEF A
<1>7. Cardinality(A \cup B) = Cardinality(A) + w[x]
  BY <1>3, <1>4, <1>5, <1>6
<1> QED BY <1>1, <1>4, <1>7 DEF SumOf, A

(* A sum of numbers over a finite set is a number.                           *)
LEMMA SumType ==
    ASSUME NEW w, NEW S, IsFiniteSet(S), \A x \in S : w[x] \in Nat
    PROVE  IsFiniteSet(Units(w, S)) /\ SumOf(w, S) \in Nat
<1> DEFINE Q == {s \in SUBSET S : IsFiniteSet(Units(w, s))}
<1>1. {} \in Q
  <2>1. Units(w, {}) = {}
    BY DEF Units
  <2> QED BY <2>1, FS_EmptySet
<1>2. ASSUME NEW s \in SUBSET S, s # {} PROVE \E x \in s : s \ {x} \in Q => s \in Q
  <2>1. PICK x \in s : TRUE
    BY <1>2
  <2> SUFFICES ASSUME IsFiniteSet(Units(w, s \ {x})) PROVE IsFiniteSet(Units(w, s))
    BY <2>1
  <2> DEFINE t == s \ {x}
  <2>2. x \notin t /\ t \cup {x} = s /\ w[x] \in Nat
    BY <2>1
  <2>3. IsFiniteSet(Units(w, t \cup {x}))
    <3> HIDE DEF t
    <3>1. IsFiniteSet(Units(w, t))
      BY DEF t
    <3> QED BY <2>2, <3>1, UnitsMore
  <2> QED BY <2>2, <2>3
<1>3. \A s \in SUBSET S : s \in Q
  <2> HIDE DEF Q
  <2> QED BY <1>1, <1>2, AllSubsets
<1>4. S \in Q
  <2> HIDE DEF Q
  <2> QED BY <1>3
<1> QED BY <1>4, FS_CardinalityType DEF SumOf

(* Nothing sums up to 0.                                                     *)
LEMMA SumNone == \A w : SumOf(w, {}) = 0
<1> TAKE w
<1>1. Units(w, {}) = {}
  BY DEF Units
<1> QED BY <1>1, FS_EmptySet DEF SumOf

(* An element more adds its number to the sum.                               *)
LEMMA SumMore ==
    ASSUME NEW w, NEW S, IsFiniteSet(S), \A y \in S : w[y] \in Nat, NEW x, x \notin S, w[x] \in Nat
    PROVE  SumOf(w, S \cup {x}) = SumOf(w, S) + w[x]
BY SumType, UnitsMore

(* More elements, more of the sum.                                           *)
LEMMA SumGrows ==
    ASSUME NEW w, NEW S, NEW T, T \subseteq S, IsFiniteSet(S), \A x \in S : w[x] \in Nat
    PROVE  SumOf(w, T) <= SumOf(w, S)
<1>1. IsFiniteSet(Units(w, S))
  BY SumType
<1>2. Units(w, T) \in SUBSET Units(w, S)
  BY DEF Units
<1>3. Cardinality(Units(w, T)) <= Cardinality(Units(w, S))
  <2> PICK A, B : A = Units(w, T) /\ B = Units(w, S)
    OBVIOUS
  <2> QED BY <1>1, <1>2, FS_Subset
<1> QED BY <1>3 DEF SumOf

-----------------------------------------------------------------------------
(* What the transactions move, by place.                                     *)
Moves == [k \in DOMAIN sigs |-> Abs(Change(k))]

(* The fold of the volume is that sum, in whatever order the elements are    *)
(* chosen.                                                                   *)
LEMMA VolumeIsSum ==
    ASSUME NEW S, IsFiniteSet(S), S \subseteq DOMAIN sigs, \A k \in S : Abs(Change(k)) \in Nat
    PROVE  Volume(S) = SumOf(Moves, S)
<1> DEFINE eq(f) == f = [s \in SUBSET S |->
                IF s = {} THEN 0
                ELSE Abs(Change(CHOOSE x \in s : TRUE)) + f[s \ {CHOOSE x \in s : TRUE}]]
           iter == CHOOSE f : eq(f)
           sums == [s \in SUBSET S |-> SumOf(Moves, s)]
<1>1. Volume(S) = iter[S]
  BY DEF Volume, MapThenSumSet, MapThenFoldSet
<1>2. eq(sums)
  <2> SUFFICES ASSUME NEW s \in SUBSET S
               PROVE  SumOf(Moves, s) = IF s = {} THEN 0
                         ELSE Abs(Change(CHOOSE x \in s : TRUE))
                              + SumOf(Moves, s \ {CHOOSE x \in s : TRUE})
    OBVIOUS
  <2>1. CASE s = {}
    BY <2>1, SumNone
  <2>2. CASE s # {}
    <3> DEFINE x == CHOOSE y \in s : TRUE
    <3>1. x \in s
      BY <2>2
    <3> HIDE DEF x
    <3> DEFINE t == s \ {x}
    <3>2. t \cup {x} = s /\ x \notin t /\ IsFiniteSet(t)
      BY <3>1, FS_Subset
    <3>3. \A y \in S : Moves[y] = Abs(Change(y)) /\ Moves[y] \in Nat
      BY DEF Moves
    <3>4. t \subseteq S /\ x \in S
      BY <3>1
    <3>5. SumOf(Moves, t \cup {x}) = SumOf(Moves, t) + Moves[x]
      <4> HIDE DEF t
      <4> QED BY <3>2, <3>3, <3>4, SumMore
    <3>6. SumOf(Moves, t) \in Nat
      <4> HIDE DEF t
      <4> QED BY <3>2, <3>3, <3>4, SumType
    <3>7. SumOf(Moves, s) = SumOf(Moves, t) + Moves[x]
      <4> HIDE DEF t
      <4> QED BY <3>2, <3>5
    <3>8. Moves[x] = Abs(Change(x)) /\ Moves[x] \in Nat
      BY <3>3, <3>4
    <3>9. SumOf(Moves, s) = Abs(Change(x)) + SumOf(Moves, t)
      <4> HIDE DEF t
      <4> QED BY <3>6, <3>7, <3>8
    <3> QED BY <2>2, <3>9 DEF x
  <2> QED BY <2>1, <2>2
<1>3. eq(iter)
  <2> HIDE DEF eq, sums
  <2> QED BY <1>2
<1>4. \A s \in SUBSET S : s # {} => \E x \in s :
          iter[s \ {x}] = sums[s \ {x}] => iter[s] = sums[s]
  <2> HIDE DEF iter, sums
  <2> SUFFICES ASSUME NEW s \in SUBSET S, s # {}
               PROVE  \E x \in s : iter[s \ {x}] = sums[s \ {x}] => iter[s] = sums[s]
    OBVIOUS
  <2> DEFINE x == CHOOSE y \in s : TRUE
  <2>1. x \in s
    OBVIOUS
  <2>2. iter[s] = Abs(Change(x)) + iter[s \ {x}]
    BY <1>3
  <2>3. sums[s] = Abs(Change(x)) + sums[s \ {x}]
    BY <1>2
  <2> HIDE DEF x
  <2> QED BY <2>1, <2>2, <2>3
<1>5. iter[{}] = sums[{}]
  <2> HIDE DEF iter, sums
  <2>1. {} \in SUBSET S
    OBVIOUS
  <2>2. iter[{}] = 0 /\ sums[{}] = 0
    BY <1>2, <1>3, <2>1
  <2> QED BY <2>2
<1>6. iter[S] = sums[S]
  <2> HIDE DEF iter, sums
  <2> QED BY <1>4, <1>5, SameFold
<1>7. sums[S] = SumOf(Moves, S)
  OBVIOUS
<1> QED BY <1>1, <1>6, <1>7

LEMMA Batches ==
    ASSUME NEW m \in Nat, NEW S, S \subseteq 1..m
    PROVE  /\ IsFiniteSet(S) /\ Newest(0, S) = {}
           /\ \A n, p \in Nat : n <= p => Newest(n, S) \subseteq Newest(p, S)
           /\ \A n \in Nat : Cardinality(S) <= n => Newest(n, S) = S
<1> DEFINE above(k) == {l \in S : l > k}
<1>1. \A T \in SUBSET S : IsFiniteSet(T) /\ Cardinality(T) \in Nat
  <2>1. IsFiniteSet(1..m)
    BY FS_Interval
  <2>2. IsFiniteSet(S)
    BY <2>1, FS_Subset
  <2> QED BY <2>2, FS_Subset, FS_CardinalityType
<1>2. \A k \in S : above(k) \in SUBSET S /\ Cardinality(above(k)) \in Nat
  <2> TAKE k \in S
  <2>1. above(k) \in SUBSET S
    OBVIOUS
  <2> HIDE DEF above
  <2> QED BY <1>1, <2>1
<1>3. \A n, k : k \in Newest(n, S) <=> k \in S /\ Cardinality(above(k)) < n
  BY DEF Newest
<1>4. \A k \in S : Cardinality(above(k)) < Cardinality(S)
  <2> TAKE k \in S
  <2> DEFINE T == above(k)
  <2>1. T \subseteq S \ {k}
    OBVIOUS
  <2> HIDE DEF T
  <2>2. IsFiniteSet(S \ {k}) /\ Cardinality(S \ {k}) = Cardinality(S) - 1
    BY <1>1, FS_RemoveElement
  <2>3. Cardinality(T) <= Cardinality(S \ {k})
    BY <2>1, <2>2, FS_Subset
  <2>4. Cardinality(S) \in Nat /\ Cardinality(T) \in Nat
    BY <1>1, <1>2 DEF T
  <2>5. Cardinality(T) < Cardinality(S)
    BY <2>2, <2>3, <2>4
  <2> QED BY <2>5 DEF T
<1> HIDE DEF above
<1>5. Newest(0, S) = {}
  <2>1. \A k \in S : ~(Cardinality(above(k)) < 0)
    BY <1>2
  <2>2. \A k : k \notin Newest(0, S)
    BY <1>3, <2>1, Zenon
  <2> QED BY <2>2
<1>6. \A n, p \in Nat : n <= p => Newest(n, S) \subseteq Newest(p, S)
  <2> TAKE n, p \in Nat
  <2> HAVE n <= p
  <2>1. \A k \in S : Cardinality(above(k)) < n => Cardinality(above(k)) < p
    BY <1>2
  <2>2. \A k : k \in Newest(n, S) => k \in Newest(p, S)
    BY <1>3, <2>1, Zenon
  <2> QED BY <2>2
<1>7. \A n \in Nat : Cardinality(S) <= n => Newest(n, S) = S
  <2> SUFFICES ASSUME NEW n \in Nat, Cardinality(S) <= n PROVE \A k : k \in Newest(n, S) <=> k \in S
    BY Zenon
  <2>1. Cardinality(S) \in Nat
    BY <1>1
  <2>2. \A k \in S : Cardinality(above(k)) < n
    BY <1>2, <1>4, <2>1
  <2> QED BY <1>3, <2>2
<1> QED BY <1>1, <1>5, <1>6, <1>7

-----------------------------------------------------------------------------
(* A call has asked for the first i of what it found, and was told of those  *)
(* at least what was final when it was made.                                 *)
TellInv ==
    /\ phase \in {"idle", "signatures", "transactions", "done"} /\ (phase = "idle" <=> query = Nobody)
    /\ final \in 0..Len(sigs) /\ since \in 0..final
    /\ i \in Nat /\ (phase \in {"idle", "signatures"} => i = 0 /\ told = {})
    /\ phase \in {"transactions", "done"} =>
           /\ result \subseteq 1..Len(sigs) /\ told \subseteq Newest(i, result)
           /\ \A k \in Newest(i, result) : k <= since => k \in told
           /\ fetches[query].pc = "done" /\ (query # LAMPORTS => result = fetches[query].total)
    /\ phase = "done" => Cardinality(result) <= i

LEMMA KindOf ==
    ASSUME ViewerInv, NEW k \in 1..Len(sigs)
    PROVE  sigs[k].kind \in {"topup", "init", "finalize"} /\ sigs[k] \in Sigs
<1>1. sigs[k] \in Sigs
  BY SeqAt DEF ViewerInv, Chain
<1> QED BY <1>1, ViewerAssumption DEF ViewerAssumption, Sigs

LEMMA LandTells ==
    ASSUME ViewerInv, TellInv, NEW t \in Tokens, NEW kind \in Kinds, NEW err \in BOOLEAN, Land(t, kind, err)
    PROVE  TellInv'
<1> DEFINE x == [tokenType |-> t, kind |-> kind, err |-> err, blockTime |-> time]
<1>1. sigs' = Append(sigs, x) /\ UNCHANGED <<final, query, since, fetches, phase, result, i, told>>
  BY DEF Land, asked
<1> HIDE DEF x
<1>2. Len(sigs) \in Nat /\ Len(sigs') = Len(sigs) + 1
  BY <1>1 DEF ViewerInv, Chain
<1>3. 1..Len(sigs) \subseteq 1..Len(sigs') /\ 0..Len(sigs) \subseteq 0..Len(sigs')
  BY <1>2
<1>4. Newest(i, result)' = Newest(i, result)
  BY <1>1 DEF Newest
<1> QED BY <1>1, <1>3, <1>4 DEF TellInv

LEMMA FinalizeTells ==
    ASSUME ViewerInv, TellInv, Finalize
    PROVE  TellInv'
<1>1. final' = final + 1 /\ final < Len(sigs)
      /\ UNCHANGED <<sigs, query, since, fetches, phase, result, i, told>>
  BY DEF Finalize, asked
<1>2. Len(sigs) \in Nat /\ final \in 0..Len(sigs) /\ since \in 0..final
  BY DEF ViewerInv, Chain, TellInv
<1>3. final' \in 0..Len(sigs') /\ since' \in 0..final'
  BY <1>1, <1>2
<1>4. Newest(i, result)' = Newest(i, result)
  BY <1>1 DEF Newest
<1> QED BY <1>1, <1>3, <1>4 DEF TellInv

LEMMA PageTells ==
    ASSUME ViewerInv, TellInv, NEW q \in Queries, Page(q)
    PROVE  TellInv'
<1>1. /\ fetches[q].pc = "paging" /\ UNCHANGED <<sigs, final, query, since, phase, result, i, told>>
      /\ \A r \in Queries : r # q => fetches'[r] = fetches[r]
  BY DEF Page, ViewerInv, chain, asked
<1>2. query \in Queries \cup {Nobody}
  BY DEF ViewerInv, CallInv
<1>3. phase \in {"transactions", "done"} => fetches'[query] = fetches[query]
  <2> HAVE phase \in {"transactions", "done"}
  <2>1. query # q /\ query \in Queries
    BY <1>1, <1>2 DEF TellInv
  <2> QED BY <1>1, <2>1
<1> QED BY <1>1, <1>3 DEF TellInv, Newest

LEMMA OtherTokensTells ==
    ASSUME ViewerInv, TellInv, FetchOtherTokens
    PROVE  TellInv'
<1>1. /\ query = LAMPORTS /\ UNCHANGED <<sigs, final, query, since, phase, result, i, told>>
      /\ fetches'[LAMPORTS] = fetches[LAMPORTS]
  BY ViewerConstants DEF FetchOtherTokens, chain, asked
<1> QED BY <1>1 DEF TellInv, Newest

LEMMA FetchedTells ==
    ASSUME ViewerInv, TellInv, Fetched
    PROVE  TellInv'
<1>1. /\ phase = "signatures" /\ fetches[query].pc = "done" /\ phase' = "transactions"
      /\ result' = IF query = LAMPORTS THEN WithoutOtherTokens(fetches[query].total) ELSE fetches[query].total
      /\ UNCHANGED <<sigs, final, query, since, fetches, i, told>>
  BY DEF Fetched, chain, asked
<1>2. i = 0 /\ told = {} /\ query # Nobody /\ query \in Queries
  BY <1>1 DEF TellInv, ViewerInv, CallInv
<1>3. fetches[query].total \subseteq 1..Len(sigs)
  BY <1>1, <1>2 DEF ViewerInv, CallInv, FetchOK, At
<1>4. result' \subseteq 1..Len(sigs)
  BY <1>1, <1>3 DEF WithoutOtherTokens
<1>5. Len(sigs) \in Nat
  BY DEF ViewerInv, Chain
<1>6. Newest(0, result') = {}
  BY <1>4, <1>5, Batches
<1>7. Newest(i, result)' = {}
  BY <1>1, <1>2, <1>6 DEF Newest
<1> QED BY <1>1, <1>2, <1>4, <1>7 DEF TellInv

(* Of another batch it is told what is final by now, and that is more than   *)
(* was when the call was made.                                               *)
LEMMA TransactionsTells ==
    ASSUME ViewerInv, TellInv, GetTransactions
    PROVE  TellInv'
<1>1. /\ phase = "transactions" /\ UNCHANGED <<sigs, final, query, since, fetches, result>>
      /\ IF i < Cardinality(result)
         THEN /\ i' = i + BatchSize /\ told' = told \cup {k \in Slice(i, i + BatchSize) : k <= final}
              /\ phase' = phase
         ELSE phase' = "done" /\ UNCHANGED <<i, told>>
  BY DEF GetTransactions, chain, asked
<1>2. /\ Len(sigs) \in Nat /\ i \in Nat /\ result \subseteq 1..Len(sigs) /\ BatchSize \in Nat
      /\ told \subseteq Newest(i, result) /\ \A k \in Newest(i, result) : k <= since => k \in told
      /\ final \in Nat /\ since \in Nat /\ since <= final
      /\ IsFiniteSet(result) /\ Cardinality(result) \in Nat
  <2>1. /\ Len(sigs) \in Nat /\ i \in Nat /\ result \subseteq 1..Len(sigs)
        /\ told \subseteq Newest(i, result) /\ \A k \in Newest(i, result) : k <= since => k \in told
        /\ final \in Nat /\ since \in Nat /\ since <= final
    BY <1>1 DEF TellInv, ViewerInv, Chain
  <2>2. IsFiniteSet(result)
    BY <2>1, Batches
  <2> QED BY <2>1, <2>2, FS_CardinalityType, ViewerAssumption DEF ViewerAssumption
<1>3. CASE i < Cardinality(result)
  <2> PICK some, all, n : some = Newest(i, result) /\ all = Newest(i + BatchSize, result) /\ n = i + BatchSize
    OBVIOUS
  <2>1. n \in Nat /\ i <= n /\ n = i'
    BY <1>1, <1>2, <1>3
  <2>2. some \subseteq all /\ all \subseteq result
    <3>1. Newest(i, result) \subseteq Newest(n, result)
      BY <1>2, <2>1, Batches
    <3> QED BY <3>1 DEF Newest
  <2>3. told' = told \cup {k \in all \ some : k <= final}
    BY <1>1, <1>3 DEF Slice
  <2>4. Newest(i, result)' = all
    BY <1>1, <1>3 DEF Newest
  <2>5. told' \subseteq all
    BY <1>2, <2>2, <2>3
  <2>6. \A k \in all : k <= since => k \in told'
    <3> SUFFICES ASSUME NEW k \in all, k <= since PROVE k \in told'
      OBVIOUS
    <3>1. CASE k \in some
      BY <1>2, <2>3, <3>1
    <3>2. CASE k \notin some
      <4>1. k \in Nat
        BY <1>2, <2>2
      <4>2. k <= final
        BY <1>2, <4>1
      <4> QED BY <2>3, <3>2, <4>2
    <3> QED BY <3>1, <3>2
  <2>7. phase' = "transactions" /\ i' \in Nat
    BY <1>1, <1>3, <2>1
  <2> QED BY <1>1, <2>4, <2>5, <2>6, <2>7 DEF TellInv
<1>4. CASE ~(i < Cardinality(result))
  <2>1. phase' = "done" /\ UNCHANGED <<i, told>> /\ Cardinality(result) <= i
    BY <1>1, <1>2, <1>4
  <2> QED BY <1>1, <2>1 DEF TellInv, Newest
<1> QED BY <1>3, <1>4

LEMMA TellNext == ViewerInv /\ TellInv /\ [Next]_vars => TellInv'
<1> SUFFICES ASSUME ViewerInv, TellInv, [Next]_vars PROVE TellInv'
  OBVIOUS
<1>1. ASSUME NEW t \in Tokens, NEW kind \in Kinds, NEW err \in BOOLEAN, Land(t, kind, err) PROVE TellInv'
  BY <1>1, LandTells
<1>2. ASSUME NEW q \in Queries, Ask(q) PROVE TellInv'
  <2>1. /\ query = Nobody /\ query' = q /\ phase' = "signatures" /\ UNCHANGED <<sigs, final, i, told>>
        /\ q # Nobody /\ since' = final
    BY <1>2, ViewerConstants DEF Ask, chain
  <2>2. i = 0 /\ told = {} /\ since' \in 0..final' /\ final' \in 0..Len(sigs')
    BY <2>1 DEF TellInv
  <2> QED BY <2>1, <2>2 DEF TellInv
<1>3. ASSUME NEW q \in Queries, Page(q) PROVE TellInv'
  BY <1>3, PageTells
<1>4. CASE Return
  <2>1. query' = Nobody /\ phase' = "idle" /\ i' = 0 /\ told' = {} /\ since' = 0 /\ UNCHANGED <<sigs, final>>
    BY <1>4 DEF Return, chain
  <2>2. since' \in 0..final' /\ final' \in 0..Len(sigs')
    BY <2>1 DEF TellInv
  <2> QED BY <2>1, <2>2 DEF TellInv
<1>5. CASE Tick \/ UNCHANGED vars
  <2>1. UNCHANGED <<sigs, final, query, since, fetches, phase, result, i, told>>
    BY <1>5 DEF Tick, vars, chain, asked
  <2> QED BY <2>1 DEF TellInv, Newest
<1>6. CASE FetchOtherTokens \/ Fetched \/ GetTransactions \/ Finalize
  BY <1>6, OtherTokensTells, FetchedTells, TransactionsTells, FinalizeTells
<1> QED BY <1>1, <1>2, <1>3, <1>4, <1>5, <1>6 DEF Next, View

LEMMA TellInvariant == Spec => [](ViewerInv /\ TellInv)
<1>1. Init => TellInv
  BY DEF Init, TellInv
<1> QED BY <1>1, InitHolds, StepHolds, TellNext, PTL DEF Spec

-----------------------------------------------------------------------------
(* A call that is done was told part of what it is about, and of it all that *)
(* was final when it was made.                                               *)
LEMMA ToldOfWanted ==
    ASSUME ViewerInv, TellInv, phase = "done"
    PROVE  /\ query \in Queries /\ fetches[query].pc = "done" /\ Wanted \subseteq 1..Len(sigs)
           /\ IsFiniteSet(Wanted) /\ told \subseteq Wanted
           /\ {k \in Wanted : k <= since} \subseteq told
<1>1. /\ query \in Queries /\ fetches[query].pc = "done" /\ result \subseteq 1..Len(sigs) /\ Len(sigs) \in Nat
      /\ i \in Nat /\ Cardinality(result) <= i /\ (query # LAMPORTS => result = fetches[query].total)
  BY DEF TellInv, ViewerInv, CallInv, Chain
<1>2. Newest(i, result) = result /\ IsFiniteSet(result)
  <2>1. IsFiniteSet(result) /\ \A n \in Nat : Cardinality(result) <= n => Newest(n, result) = result
    BY <1>1, Batches
  <2> QED BY <1>1, <2>1, Zenon
<1>3. told \subseteq result /\ \A k \in result : k <= since => k \in told
  BY <1>2 DEF TellInv
<1>4. result = Wanted
  <2>1. CASE query # LAMPORTS
    <3>1. fetches[query].total = Window(query)
      BY <1>1, ExactHolds DEF FetchExact
    <3>2. Wanted = Window(query)
      BY <2>1 DEF Wanted
    <3> QED BY <1>1, <2>1, <3>1, <3>2
  <2>2. CASE query = LAMPORTS
    <3>1. /\ \A t \in OtherTokens : fetches[t].pc = "done"
          /\ result = fetches[LAMPORTS].total \ UNION {fetches[t].total : t \in OtherTokens}
      BY <2>2 DEF ViewerInv, CallInv, WithoutOtherTokens
    <3>2. fetches[LAMPORTS].total = Window(LAMPORTS) /\ \A t \in OtherTokens : fetches[t].total = Window(t)
      BY <1>1, <2>2, <3>1, ExactHolds, ViewerConstants DEF FetchExact
    <3> QED BY <2>2, <3>1, <3>2 DEF Wanted
  <2> QED BY <2>1, <2>2
<1> QED BY <1>1, <1>2, <1>3, <1>4

(* Starts are counted and movements summed over more or fewer transactions.  *)
LEMMA FewerStarts ==
    ASSUME NEW S, NEW T, IsFiniteSet(S), T \subseteq S
    PROVE  StartsOf(T) <= StartsOf(S) /\ StartsOf(S) \in Nat
<1> DEFINE starts(txs) == {k \in txs : sigs[k].kind \in {"topup", "init"}}
<1>1. starts(T) \subseteq starts(S) /\ starts(S) \subseteq S
  OBVIOUS
<1> HIDE DEF starts
<1>2. IsFiniteSet(starts(S))
  BY <1>1, FS_Subset
<1>3. Cardinality(starts(T)) <= Cardinality(starts(S)) /\ Cardinality(starts(S)) \in Nat
  BY <1>1, <1>2, FS_Subset, FS_CardinalityType
<1> QED BY <1>3 DEF StartsOf, starts

LEMMA MovesAre ==
    ASSUME ViewerInv, query \in Tokens, NEW k \in 1..Len(sigs)
    PROVE  Abs(Change(k)) \in Nat
<1>1. sigs[k].tokenType \in Tokens /\ sigs[k].kind \in Kinds
  <2>1. sigs[k] \in Sigs
    BY SeqAt DEF ViewerInv, Chain
  <2> QED BY <2>1 DEF Sigs
<1>2. PoolChange(query, sigs[k].tokenType, sigs[k].kind) \in Int
  BY <1>1, ViewerAssumption DEF ViewerAssumption
<1>3. Change(k) \in Int
  BY <1>2 DEF Change
<1> QED BY <1>3 DEF Abs

LEMMA SmallerVolume ==
    ASSUME ViewerInv, query \in Tokens, NEW S, NEW T, IsFiniteSet(S), T \subseteq S, S \subseteq 1..Len(sigs)
    PROVE  Volume(T) <= Volume(S)
<1>1. DOMAIN sigs = 1..Len(sigs)
  BY DEF ViewerInv, Chain
<1>2. \A k \in S : Abs(Change(k)) \in Nat /\ Moves[k] = Abs(Change(k))
  BY <1>1, MovesAre DEF Moves
<1>3. IsFiniteSet(T)
  BY FS_Subset
<1>4. Volume(S) = SumOf(Moves, S) /\ Volume(T) = SumOf(Moves, T)
  BY <1>1, <1>2, <1>3, VolumeIsSum
<1>5. SumOf(Moves, T) <= SumOf(Moves, S)
  <2>1. \A k \in S : Moves[k] \in Nat
    BY <1>2
  <2> QED BY <2>1, SumGrows
<1> QED BY <1>4, <1>5

(* The estimate takes three signatures for two starts; a top-up has one.     *)
LEMMA EstimateNear ==
    ASSUME NEW W, IsFiniteSet(W), \A k \in W : sigs[k].kind \in {"topup", "init", "finalize"},
           2 * Cardinality({k \in W : sigs[k].kind = "finalize"}) = Cardinality({k \in W : sigs[k].kind # "topup"})
    PROVE  LET estimate == EstimateOf(Cardinality(W))
           IN  2 * StartsOf(W) <= 3 * estimate /\ 3 * estimate <= 4 * StartsOf(W) + 2
<1> PICK F, S, I, U : /\ F = {k \in W : sigs[k].kind = "finalize"}
                      /\ S = {k \in W : sigs[k].kind \in {"topup", "init"}}
                      /\ I = {k \in W : sigs[k].kind = "init"}
                      /\ U = {k \in W : sigs[k].kind # "topup"}
  OBVIOUS
<1>1. /\ F \cup S = W /\ F \cap S = {} /\ F \cup I = U /\ F \cap I = {} /\ I \subseteq S
      /\ F \subseteq W /\ S \subseteq W /\ I \subseteq W
  OBVIOUS
<1>2. IsFiniteSet(F) /\ IsFiniteSet(S) /\ IsFiniteSet(I)
  BY <1>1, FS_Subset
<1>3. /\ Cardinality(F) \in Nat /\ Cardinality(S) \in Nat /\ Cardinality(I) \in Nat
      /\ Cardinality(I) <= Cardinality(S) /\ Cardinality({}) = 0
  BY <1>1, <1>2, FS_Subset, FS_CardinalityType, FS_EmptySet
<1>4. Cardinality(W) = Cardinality(F) + Cardinality(S) - Cardinality(F \cap S)
  BY <1>1, <1>2, FS_Union
<1>5. Cardinality(U) = Cardinality(F) + Cardinality(I) - Cardinality(F \cap I)
  BY <1>1, <1>2, FS_Union
<1>6. 2 * Cardinality(F) = Cardinality(U) /\ StartsOf(W) = Cardinality(S)
  BY DEF StartsOf
<1> PICK w, f, s, n : w = Cardinality(W) /\ f = Cardinality(F) /\ s = Cardinality(S) /\ n = Cardinality(I)
  OBVIOUS
<1>7. f \in Nat /\ s \in Nat /\ n \in Nat /\ n <= s /\ w = f + s /\ 2 * f = f + n /\ StartsOf(W) = s
  <2>1. Cardinality(F \cap S) = 0 /\ Cardinality(F \cap I) = 0
    BY <1>1, <1>3, Zenon
  <2>2. w = f + s - 0 /\ 2 * f = f + n - 0
    BY <1>4, <1>5, <1>6, <2>1
  <2> QED BY <1>3, <1>6, <2>2
<1>8. w \in Nat /\ s <= w /\ w <= 2 * s
  BY <1>7
<1>9. 2 * w <= 3 * EstimateOf(w) /\ 3 * EstimateOf(w) <= 2 * w + 2 /\ EstimateOf(w) \in Int
  BY <1>8 DEF EstimateOf
<1>10. 2 * s <= 3 * EstimateOf(w) /\ 3 * EstimateOf(w) <= 4 * s + 2
  BY <1>7, <1>8, <1>9
<1> QED BY <1>7, <1>10

LEMMA ReportsHold == ViewerInv /\ TellInv => ReportsWithin
<1> SUFFICES ASSUME ViewerInv, TellInv, phase = "done"
    PROVE  LET settled == {k \in Wanted : k <= since}
               estimate == EstimateOf(fetches[query].length)
               finals == Cardinality({k \in Window(query) : sigs[k].kind = "finalize"})
           IN /\ StartsOf(settled) <= TxsCount /\ TxsCount <= StartsOf(Wanted)
              /\ query \in Tokens => Volume(settled) <= Volume(told) /\ Volume(told) <= Volume(Wanted)
              /\ query # LAMPORTS /\ 2 * finals = Cardinality({k \in Window(query) : sigs[k].kind # "topup"}) =>
                    2 * StartsOf(Wanted) <= 3 * estimate /\ 3 * estimate <= 4 * StartsOf(Wanted) + 2
  BY DEF ReportsWithin
<1> PICK settled : settled = {k \in Wanted : k <= since}
  OBVIOUS
<1>1. /\ query \in Queries /\ fetches[query].pc = "done" /\ Wanted \subseteq 1..Len(sigs)
      /\ IsFiniteSet(Wanted) /\ told \subseteq Wanted /\ settled \subseteq told
  BY ToldOfWanted
<1>2. IsFiniteSet(told) /\ told \subseteq 1..Len(sigs)
  BY <1>1, FS_Subset
<1>3. TxsCount = StartsOf(told)
  BY DEF TxsCount, Counted, StartsOf
<1>4. StartsOf(settled) <= TxsCount /\ TxsCount <= StartsOf(Wanted)
  BY <1>1, <1>2, <1>3, FewerStarts
<1>5. query \in Tokens => Volume(settled) <= Volume(told) /\ Volume(told) <= Volume(Wanted)
  BY <1>1, <1>2, SmallerVolume
<1>6. ASSUME query # LAMPORTS,
             2 * Cardinality({k \in Window(query) : sigs[k].kind = "finalize"})
             = Cardinality({k \in Window(query) : sigs[k].kind # "topup"})
      PROVE  LET estimate == EstimateOf(fetches[query].length)
             IN  2 * StartsOf(Wanted) <= 3 * estimate /\ 3 * estimate <= 4 * StartsOf(Wanted) + 2
  <2>1. Wanted = Window(query)
    BY <1>6 DEF Wanted
  <2>2. fetches[query].length = Cardinality(Window(query))
    BY <1>1, ExactHolds DEF FetchExact
  <2>3. \A k \in Wanted : sigs[k].kind \in {"topup", "init", "finalize"}
    BY <1>1, KindOf
  <2> QED BY <1>1, <1>6, <2>1, <2>2, <2>3, EstimateNear
<1> QED BY <1>4, <1>5, <1>6

(* What is told (getTxsCountLastTime, getVolumeLastTime) is counted and added*)
(* up once each over what is final of the window, with nothing left out that *)
(* was final when the call was made, for LAMPORTS too; the estimate is off by*)
(* a third at most. For any size of the pages and the batches, whatever fails*)
(* and whenever it becomes final.                                            *)
THEOREM ReportsAreWithin == Spec => []ReportsWithin
BY TellInvariant, ReportsHold, PTL
=============================================================================
