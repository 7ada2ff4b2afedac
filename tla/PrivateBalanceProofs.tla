----------------------- MODULE PrivateBalanceProofs -----------------------
(* Proofs about PrivateBalance, for every set of tokens and amounts, every   *)
(* fee and batch size, and every length of the ledger.                       *)
EXTENDS PrivateBalance, FiniteSetTheorems, WellFoundedInduction, TLAPS

-----------------------------------------------------------------------------
(* Numbers and finite sets.                                                  *)
LEMMA Least ==
    ASSUME NEW S, S \subseteq Nat, S # {}
    PROVE  \E k \in S : \A l \in S : k <= l
<1>1. PICK k \in S : \A l \in S : ~(<<l, k>> \in OpToRel(<, Nat))
  BY NatLessThanWellFounded, WFMin
<1>2. \A l \in S : <<l, k>> \in OpToRel(<, Nat) <=> l < k
  BY DEF OpToRel
<1>3. \A l \in S : ~(l < k)
  BY <1>1, <1>2, Zenon
<1> QED BY <1>3

(* A non-empty set of numbers up to n has a greatest one.                    *)
LEMMA Greatest ==
    ASSUME NEW n \in Nat, NEW S, S \subseteq 1..n, S # {}
    PROVE  \E k \in S : \A l \in S : l <= k
<1> DEFINE T == {n - k : k \in S}
<1>1. T \subseteq Nat /\ T # {}
  <2>1. \A k \in S : n - k \in Nat
    OBVIOUS
  <2> QED BY <2>1
<1>2. PICK t \in T : \A u \in T : t <= u
  <2> HIDE DEF T
  <2> QED BY <1>1, Least
<1>3. PICK k \in S : t = n - k
  BY <1>2
<1>4. ASSUME NEW l \in S PROVE l <= k
  <2>1. n - k <= n - l
    BY <1>2, <1>3
  <2> QED BY <2>1
<1> QED BY <1>4

(* A set with 0 that has n + 1 whenever it has n has every number.           *)
LEMMA AllNumbers ==
    ASSUME NEW S, S \subseteq Nat, 0 \in S, \A n \in S : n + 1 \in S
    PROVE  \A n \in Nat : n \in S
<1> SUFFICES ASSUME Nat \ S # {} PROVE FALSE
  BY Zenon
<1>1. PICK k \in Nat \ S : \A l \in Nat \ S : k <= l
  <2> DEFINE T == Nat \ S
  <2>1. T \subseteq Nat /\ T # {}
    OBVIOUS
  <2> HIDE DEF T
  <2>2. PICK k \in T : \A l \in T : k <= l
    BY <2>1, Least
  <2> QED BY <2>2 DEF T
<1>2. k \in Nat /\ k # 0
  BY <1>1
<1>3. k - 1 \in Nat /\ ~(k <= k - 1) /\ (k - 1) + 1 = k
  BY <1>2
<1>4. k - 1 \in S
  BY <1>1, <1>3
<1> QED BY <1>1, <1>3, <1>4

(* A set of subsets of a finite set that has the empty one, and a set with   *)
(* an element more whenever it has all sets with that one less, has them all.*)
LEMMA AllSubsets ==
    ASSUME NEW T, IsFiniteSet(T), NEW Q, {} \in Q,
           \A s \in SUBSET T : s # {} => \E x \in s : s \ {x} \in Q => s \in Q
    PROVE  \A s \in SUBSET T : s \in Q
<1> DEFINE S == {n \in Nat : \A s \in SUBSET T : Cardinality(s) = n => s \in Q}
<1>1. \A s \in SUBSET T : IsFiniteSet(s) /\ Cardinality(s) \in Nat
  BY FS_Subset, FS_CardinalityType
<1>2. 0 \in S
  <2>1. \A s \in SUBSET T : Cardinality(s) = 0 => s = {}
    BY <1>1, FS_EmptySet
  <2> QED BY <2>1
<1>3. ASSUME NEW n \in S PROVE n + 1 \in S
  <2>1. n \in Nat /\ n + 1 \in Nat /\ n + 1 # 0
    OBVIOUS
  <2> SUFFICES ASSUME NEW s \in SUBSET T, Cardinality(s) = n + 1 PROVE s \in Q
    BY <2>1
  <2>2. s # {}
    BY <2>1, FS_EmptySet
  <2>3. PICK x \in s : s \ {x} \in Q => s \in Q
    BY <2>2
  <2>4. Cardinality(s \ {x}) = Cardinality(s) - 1
    BY <1>1, <2>3, FS_RemoveElement
  <2>5. Cardinality(s \ {x}) = n /\ s \ {x} \in SUBSET T
    BY <2>1, <2>4
  <2> QED BY <2>3, <2>5
<1>4. \A n \in Nat : n \in S
  <2> HIDE DEF S
  <2>1. S \subseteq Nat
    BY DEF S
  <2> QED BY <1>2, <1>3, <2>1, AllNumbers
<1> QED BY <1>1, <1>4

(* Two functions that compute a set from one with an element less in the     *)
(* same way are equal on it.                                                 *)
LEMMA SameFold ==
    ASSUME NEW T, IsFiniteSet(T), NEW f, NEW g, f[{}] = g[{}],
           \A s \in SUBSET T : s # {} => \E x \in s : f[s \ {x}] = g[s \ {x}] => f[s] = g[s]
    PROVE  f[T] = g[T]
<1> DEFINE Q == {s \in SUBSET T : f[s] = g[s]}
<1>1. {} \in Q
  OBVIOUS
<1>2. \A s \in SUBSET T : s # {} => \E x \in s : s \ {x} \in Q => s \in Q
  OBVIOUS
<1>3. \A s \in SUBSET T : s \in Q
  <2> HIDE DEF Q
  <2> QED BY <1>1, <1>2, AllSubsets
<1> QED BY <1>3

-----------------------------------------------------------------------------
(* A sum of natural numbers counts units.                                    *)
Units(w, S) == {p \in S \X Nat : 1 <= p[2] /\ p[2] <= w[p[1]]}
SumOf(w, S) == Cardinality(Units(w, S))

(* One element more adds as many units as it weighs.                         *)
LEMMA UnitsMore ==
    ASSUME NEW w, NEW S, IsFiniteSet(Units(w, S)), NEW x, x \notin S, w[x] \in Nat
    PROVE  /\ IsFiniteSet(Units(w, S \cup {x}))
           /\ SumOf(w, S \cup {x}) = SumOf(w, S) + w[x]
<1> DEFINE A == Units(w, S)
           B == {x} \X (1..w[x])
<1>1. Units(w, S \cup {x}) = A \cup B
  <2>1. Units(w, S \cup {x}) = Units(w, S) \cup Units(w, {x})
    BY DEF Units
  <2>2. Units(w, {x}) = B
    BY DEF Units
  <2> QED BY <2>1, <2>2
<1>2. A \cap B = {}
  BY DEF Units
<1>3. IsFiniteSet(B) /\ Cardinality(B) = w[x]
  <2>1. IsFiniteSet(1..w[x]) /\ Cardinality(1..w[x]) = w[x]
    <3>1. 1 \in Int /\ w[x] \in Int /\ (IF 1 > w[x] THEN 0 ELSE w[x] - 1 + 1) = w[x]
      OBVIOUS
    <3> QED BY <3>1, FS_Interval
  <2>2. IsFiniteSet({x}) /\ Cardinality({x}) = 1
    BY FS_Singleton
  <2>3. IsFiniteSet(B) /\ Cardinality(B) = Cardinality({x}) * Cardinality(1..w[x])
    BY <2>1, <2>2, FS_Product
  <2> QED BY <2>1, <2>2, <2>3
<1> HIDE DEF A, B
<1>4. /\ IsFiniteSet(A \cup B)
      /\ Cardinality(A \cup B) = Cardinality(A) + Cardinality(B) - Cardinality(A \cap B)
  BY <1>3, FS_Union DEF A
<1>5. Cardinality(A \cap B) = 0
  BY <1>2, FS_EmptySet
<1>6. Cardinality(A) \in Nat
  BY FS_CardinalityType DEF A
<1>7. Cardinality(A \cup B) = Cardinality(A) + w[x]
  BY <1>3, <1>4, <1>5, <1>6
<1> QED BY <1>1, <1>4, <1>7 DEF SumOf, A

(* A sum of numbers over a finite set is a number.                           *)
LEMMA SumType ==
    ASSUME NEW w, NEW S, IsFiniteSet(S), \A x \in S : w[x] \in Nat
    PROVE  IsFiniteSet(Units(w, S)) /\ SumOf(w, S) \in Nat
<1> DEFINE Q == {s \in SUBSET S : IsFiniteSet(Units(w, s))}
<1>1. {} \in Q
  <2>1. Units(w, {}) = {}
    BY DEF Units
  <2> QED BY <2>1, FS_EmptySet
<1>2. ASSUME NEW s \in SUBSET S, s # {} PROVE \E x \in s : s \ {x} \in Q => s \in Q
  <2>1. PICK x \in s : TRUE
    BY <1>2
  <2> SUFFICES ASSUME IsFiniteSet(Units(w, s \ {x})) PROVE IsFiniteSet(Units(w, s))
    BY <2>1
  <2> DEFINE t == s \ {x}
  <2>2. x \notin t /\ t \cup {x} = s /\ w[x] \in Nat
    BY <2>1
  <2>3. IsFiniteSet(Units(w, t \cup {x}))
    <3> HIDE DEF t
    <3>1. IsFiniteSet(Units(w, t))
      BY DEF t
    <3> QED BY <2>2, <3>1, UnitsMore
  <2> QED BY <2>2, <2>3
<1>3. \A s \in SUBSET S : s \in Q
  <2> HIDE DEF Q
  <2> QED BY <1>1, <1>2, AllSubsets
<1>4. S \in Q
  <2> HIDE DEF Q
  <2> QED BY <1>3
<1> QED BY <1>4, FS_CardinalityType DEF SumOf

(* Nothing sums up to 0.                                                     *)
LEMMA SumNone == \A w : SumOf(w, {}) = 0
<1> TAKE w
<1>1. Units(w, {}) = {}
  BY DEF Units
<1> QED BY <1>1, FS_EmptySet DEF SumOf

(* An element more adds its number to the sum.                               *)
LEMMA SumMore ==
    ASSUME NEW w, NEW S, IsFiniteSet(S), \A y \in S : w[y] \in Nat, NEW x, x \notin S, w[x] \in Nat
    PROVE  SumOf(w, S \cup {x}) = SumOf(w, S) + w[x]
BY SumType, UnitsMore

(* The sum over two sets without a common element is that of their sums.     *)
LEMMA SumUnion ==
    ASSUME NEW w, NEW S, NEW T, IsFiniteSet(S), IsFiniteSet(T), S \cap T = {},
           \A x \in S \cup T : w[x] \in Nat
    PROVE  SumOf(w, S \cup T) = SumOf(w, S) + SumOf(w, T)
<1> DEFINE A == Units(w, S)
           B == Units(w, T)
<1>1. IsFiniteSet(A) /\ IsFiniteSet(B) /\ Cardinality(A) \in Nat /\ Cardinality(B) \in Nat
  BY SumType DEF SumOf
<1>2. Units(w, S \cup T) = A \cup B /\ A \cap B = {}
  BY DEF Units
<1> HIDE DEF A, B
<1>3. Cardinality(A \cup B) = Cardinality(A) + Cardinality(B) - Cardinality(A \cap B)
  BY <1>1, FS_Union
<1>4. Cardinality(A \cap B) = 0
  BY <1>2, FS_EmptySet
<1>5. Cardinality(A \cup B) = Cardinality(A) + Cardinality(B)
  BY <1>1, <1>3, <1>4
<1> QED BY <1>2, <1>5 DEF SumOf, A, B

(* The sum depends on nothing but the numbers of the elements.               *)
LEMMA SumSame ==
    ASSUME NEW w, NEW v, NEW S, \A x \in S : w[x] = v[x]
    PROVE  SumOf(w, S) = SumOf(v, S)
<1>1. \A p \in S \X Nat : w[p[1]] = v[p[1]]
  OBVIOUS
<1>2. Units(w, S) = Units(v, S)
  BY <1>1 DEF Units
<1> QED BY <1>2 DEF SumOf

-----------------------------------------------------------------------------
(* The balances of the commitments, by place.                                *)
Balances == [i \in DOMAIN ledger |-> ledger[i].balance]
BalanceOf(S) == MapThenSumSet(LAMBDA i : ledger[i].balance, S)

(* The fold that the balance of a set of places is computed with is the sum, *)
(* in whatever order the elements are chosen.                                *)
LEMMA BalanceIsSum ==
    ASSUME NEW S, IsFiniteSet(S), S \subseteq DOMAIN ledger, \A i \in S : ledger[i].balance \in Nat
    PROVE  BalanceOf(S) = SumOf(Balances, S)
<1> DEFINE eq(f) == f = [s \in SUBSET S |->
                IF s = {} THEN 0
                ELSE ledger[CHOOSE x \in s : TRUE].balance + f[s \ {CHOOSE x \in s : TRUE}]]
           iter == CHOOSE f : eq(f)
           sums == [s \in SUBSET S |-> SumOf(Balances, s)]
<1>1. BalanceOf(S) = iter[S]
  BY DEF BalanceOf, MapThenSumSet, MapThenFoldSet
<1>2. eq(sums)
  <2> SUFFICES ASSUME NEW s \in SUBSET S
               PROVE  SumOf(Balances, s) = IF s = {} THEN 0
                         ELSE ledger[CHOOSE x \in s : TRUE].balance
                              + SumOf(Balances, s \ {CHOOSE x \in s : TRUE})
    OBVIOUS
  <2>1. CASE s = {}
    BY <2>1, SumNone
  <2>2. CASE s # {}
    <3> DEFINE x == CHOOSE y \in s : TRUE
    <3>1. x \in s
      BY <2>2
    <3> HIDE DEF x
    <3> DEFINE t == s \ {x}
    <3>2. t \cup {x} = s /\ x \notin t /\ IsFiniteSet(t)
      BY <3>1, FS_Subset
    <3>3. \A y \in S : Balances[y] = ledger[y].balance /\ Balances[y] \in Nat
      BY DEF Balances
    <3>4. t \subseteq S /\ x \in S
      BY <3>1
    <3>5. SumOf(Balances, t \cup {x}) = SumOf(Balances, t) + Balances[x]
      <4> HIDE DEF t
      <4> QED BY <3>2, <3>3, <3>4, SumMore
    <3>6. SumOf(Balances, t) \in Nat
      <4> HIDE DEF t
      <4> QED BY <3>2, <3>3, <3>4, SumType
    <3>7. SumOf(Balances, s) = SumOf(Balances, t) + Balances[x]
      <4> HIDE DEF t
      <4> QED BY <3>2, <3>5
    <3>8. Balances[x] = ledger[x].balance /\ Balances[x] \in Nat
      BY <3>3, <3>4
    <3>9. SumOf(Balances, s) = ledger[x].balance + SumOf(Balances, t)
      <4> HIDE DEF t
      <4> QED BY <3>6, <3>7, <3>8
    <3> QED BY <2>2, <3>9 DEF x
  <2> QED BY <2>1, <2>2
<1>3. eq(iter)
  <2> HIDE DEF eq, sums
  <2> QED BY <1>2
<1>4. \A s \in SUBSET S : s # {} => \E x \in s :
          iter[s \ {x}] = sums[s \ {x}] => iter[s] = sums[s]
  <2> HIDE DEF iter, sums
  <2> SUFFICES ASSUME NEW s \in SUBSET S, s # {}
               PROVE  \E x \in s : iter[s \ {x}] = sums[s \ {x}] => iter[s] = sums[s]
    OBVIOUS
  <2> DEFINE x == CHOOSE y \in s : TRUE
  <2>1. x \in s
    OBVIOUS
  <2>2. iter[s] = ledger[x].balance + iter[s \ {x}]
    BY <1>3
  <2>3. sums[s] = ledger[x].balance + sums[s \ {x}]
    BY <1>2
  <2> HIDE DEF x
  <2> QED BY <2>1, <2>2, <2>3
<1>5. iter[{}] = sums[{}]
  <2> HIDE DEF iter, sums
  <2>1. {} \in SUBSET S
    OBVIOUS
  <2>2. iter[{}] = 0 /\ sums[{}] = 0
    BY <1>2, <1>3, <2>1
  <2> QED BY <2>2
<1>6. iter[S] = sums[S]
  <2> HIDE DEF iter, sums
  <2> QED BY <1>4, <1>5, SameFold
<1>7. sums[S] = SumOf(Balances, S)
  OBVIOUS
<1> QED BY <1>1, <1>6, <1>7

(* A worth is signed, so the gains and the costs are summed apart.           *)
Gains == [i \in DOMAIN ledger |->
             IF ledger[i].txType = "TOPUP" THEN ledger[i].amount ELSE 0]
Costs == [i \in DOMAIN ledger |->
             IF ledger[i].txType = "TOPUP" THEN 0 ELSE ledger[i].amount + ledger[i].fee]
WorthOf(S) == SumOf(Gains, S) - SumOf(Costs, S)

Priced == \A i \in DOMAIN ledger : ledger[i].amount \in Nat /\ ledger[i].fee \in Nat

(* What is gained and what it cost are numbers.                              *)
LEMMA WorthType ==
    ASSUME Priced, NEW S, IsFiniteSet(S), S \subseteq DOMAIN ledger
    PROVE  SumOf(Gains, S) \in Nat /\ SumOf(Costs, S) \in Nat /\ WorthOf(S) \in Int
<1>1. \A i \in S : Gains[i] \in Nat /\ Costs[i] \in Nat
  BY DEF Priced, Gains, Costs
<1>2. SumOf(Gains, S) \in Nat /\ SumOf(Costs, S) \in Nat
  BY <1>1, SumType
<1> QED BY <1>2 DEF WorthOf

(* Nothing is worth nothing.                                                 *)
LEMMA WorthNone == WorthOf({}) = 0
BY SumNone DEF WorthOf

(* A transaction more changes the worth by its own.                          *)
LEMMA WorthMore ==
    ASSUME Priced, NEW S, IsFiniteSet(S), S \subseteq DOMAIN ledger,
           NEW i \in DOMAIN ledger, i \notin S
    PROVE  /\ WorthOf(S \cup {i}) = WorthOf(S) + Worth(ledger[i])
           /\ Worth(ledger[i]) \in Int
<1>1. \A j \in DOMAIN ledger : Gains[j] \in Nat /\ Costs[j] \in Nat
  BY DEF Priced, Gains, Costs
<1>2. /\ SumOf(Gains, S \cup {i}) = SumOf(Gains, S) + Gains[i]
      /\ SumOf(Costs, S \cup {i}) = SumOf(Costs, S) + Costs[i]
  BY <1>1, SumMore
<1>3. SumOf(Gains, S) \in Nat /\ SumOf(Costs, S) \in Nat
  BY WorthType
<1>4. Worth(ledger[i]) = Gains[i] - Costs[i]
  <2>1. ledger[i].amount \in Nat /\ ledger[i].fee \in Nat
    BY DEF Priced
  <2> QED BY <2>1 DEF Worth, Gains, Costs
<1> QED BY <1>1, <1>2, <1>3, <1>4 DEF WorthOf

(* The worth of two sets without a common transaction is the sum of theirs.  *)
LEMMA WorthUnion ==
    ASSUME Priced, NEW S, NEW T, IsFiniteSet(S), IsFiniteSet(T), S \cap T = {},
           S \subseteq DOMAIN ledger, T \subseteq DOMAIN ledger
    PROVE  WorthOf(S \cup T) = WorthOf(S) + WorthOf(T)
<1>1. \A j \in S \cup T : Gains[j] \in Nat /\ Costs[j] \in Nat
  BY DEF Priced, Gains, Costs
<1>2. /\ SumOf(Gains, S \cup T) = SumOf(Gains, S) + SumOf(Gains, T)
      /\ SumOf(Costs, S \cup T) = SumOf(Costs, S) + SumOf(Costs, T)
  BY <1>1, SumUnion
<1>3. /\ SumOf(Gains, S) \in Nat /\ SumOf(Costs, S) \in Nat
      /\ SumOf(Gains, T) \in Nat /\ SumOf(Costs, T) \in Nat
  BY WorthType
<1> QED BY <1>2, <1>3 DEF WorthOf

(* The fold over a batch, from its first transaction to its last, is the     *)
(* worth of the set of its transactions, if it has each but once.            *)
LEMMA SumOfWorthIsWorth ==
    ASSUME Priced, NEW n \in Nat, NEW txs \in [1..n -> DOMAIN ledger],
           \A a, b \in 1..n : txs[a] = txs[b] => a = b
    PROVE  SumOfWorth(txs) = WorthOf({txs[a] : a \in 1..n})
<1>a. SUFFICES ASSUME NEW S, S = 1..n
             PROVE  SumOfWorth(txs) = WorthOf({txs[a] : a \in S})
  OBVIOUS
<1> DEFINE at(s) == {txs[a] : a \in s}
           eq(f) == f = [s \in SUBSET S |->
                IF s = {} THEN 0
                ELSE f[s \ {Max(s)}] + Worth(ledger[txs[Max(s)]])]
           iter == CHOOSE f : eq(f)
           sums == [s \in SUBSET S |-> WorthOf(at(s))]
<1>0. DOMAIN txs = S /\ IsFiniteSet(S) /\ S = 1..n
  BY <1>a, FS_Interval
<1>1. SumOfWorth(txs) = iter[S]
  BY <1>0 DEF SumOfWorth, FoldLeft, MapThenFoldSet
<1>2. \A s \in SUBSET S : s # {} => Max(s) \in s
  <2> TAKE s \in SUBSET S
  <2> HAVE s # {}
  <2>1. \E k \in s : \A l \in s : k >= l
    BY <1>a, Greatest
  <2> QED BY <2>1 DEF Max
<1>3. \A s \in SUBSET S : s # {} => sums[s] = sums[s \ {Max(s)}] + Worth(ledger[txs[Max(s)]])
  <2> SUFFICES ASSUME NEW s \in SUBSET S, s # {}
               PROVE  sums[s] = sums[s \ {Max(s)}] + Worth(ledger[txs[Max(s)]])
    OBVIOUS
  <2> DEFINE x == Max(s)
             t == s \ {x}
  <2>1. x \in s
    BY <1>2
  <2> HIDE DEF x
  <2>2. at(s) = at(t) \cup {txs[x]} /\ txs[x] \notin at(t) /\ txs[x] \in DOMAIN ledger
    BY <1>a, <2>1
  <2>3. at(t) \subseteq DOMAIN ledger /\ t \in SUBSET S /\ s \in SUBSET S
    BY <1>a, <2>1
  <2>4. IsFiniteSet(at(t))
    <3>1. IsFiniteSet(t)
      BY <1>0, <2>3, FS_Subset
    <3>2. [a \in t |-> txs[a]] \in Surjection(t, at(t))
      BY DEF Surjection
    <3> HIDE DEF t, at
    <3> QED BY <3>1, <3>2, FS_Surjection
  <2>5. WorthOf(at(t) \cup {txs[x]}) = WorthOf(at(t)) + Worth(ledger[txs[x]])
    <3> HIDE DEF t, at
    <3> QED BY <2>2, <2>3, <2>4, WorthMore
  <2>6. sums[s] = sums[t] + Worth(ledger[txs[x]])
    <3>1. sums[s] = WorthOf(at(s)) /\ sums[t] = WorthOf(at(t))
      BY <2>3
    <3> HIDE DEF t, at, sums
    <3> QED BY <2>2, <2>5, <3>1
  <2> QED BY <2>6 DEF x
<1>4. sums[{}] = 0
  <2>1. at({}) = {} /\ {} \in SUBSET S
    OBVIOUS
  <2>2. sums[{}] = WorthOf({})
    BY <2>1
  <2> HIDE DEF sums, at
  <2> QED BY <2>2, WorthNone
<1>5. eq(sums)
  <2> SUFFICES ASSUME NEW s \in SUBSET S
               PROVE  sums[s] = IF s = {} THEN 0
                         ELSE sums[s \ {Max(s)}] + Worth(ledger[txs[Max(s)]])
    <3> DEFINE rhs(s) == IF s = {} THEN 0 ELSE sums[s \ {Max(s)}] + Worth(ledger[txs[Max(s)]])
    <3>1. \A s \in SUBSET S : sums[s] = rhs(s)
      OBVIOUS
    <3>2. sums = [s \in SUBSET S |-> sums[s]]
      OBVIOUS
    <3> HIDE DEF sums, rhs
    <3>3. sums = [s \in SUBSET S |-> rhs(s)]
      BY <3>1, <3>2
    <3> QED BY <3>3 DEF rhs
  <2> HIDE DEF sums
  <2> QED BY <1>3, <1>4
<1>6. eq(iter)
  <2> HIDE DEF eq, sums
  <2> QED BY <1>5
<1>7. \A s \in SUBSET S : s # {} => \E x \in s :
          iter[s \ {x}] = sums[s \ {x}] => iter[s] = sums[s]
  <2> HIDE DEF iter, sums
  <2> SUFFICES ASSUME NEW s \in SUBSET S, s # {}
               PROVE  \E x \in s : iter[s \ {x}] = sums[s \ {x}] => iter[s] = sums[s]
    OBVIOUS
  <2> DEFINE x == Max(s)
  <2>1. x \in s
    BY <1>2
  <2>2. iter[s] = iter[s \ {x}] + Worth(ledger[txs[x]])
    BY <1>6
  <2>3. sums[s] = sums[s \ {x}] + Worth(ledger[txs[x]])
    BY <1>3
  <2> HIDE DEF x
  <2> QED BY <2>1, <2>2, <2>3
<1>8. iter[{}] = sums[{}]
  <2> HIDE DEF iter, sums
  <2>1. {} \in SUBSET S
    OBVIOUS
  <2>2. iter[{}] = 0
    BY <1>6, <2>1
  <2> QED BY <1>4, <2>2
<1>9. iter[S] = sums[S]
  <2> HIDE DEF iter, sums
  <2>1. IsFiniteSet(S)
    BY <1>0
  <2> QED BY <1>7, <1>8, <2>1, SameFold
<1>10. sums[S] = WorthOf({txs[a] : a \in S})
  OBVIOUS
<1> QED BY <1>1, <1>9, <1>10

-----------------------------------------------------------------------------
(* The places in a sequence, each once, newest nonce first.                  *)
Ranked(seq, places) ==
    /\ seq \in [1..Cardinality(places) -> places]
    /\ \A a, b \in 1..Cardinality(places) : seq[a] = seq[b] => a = b
    /\ \A i \in places : \E a \in 1..Cardinality(places) : seq[a] = i
    /\ \A a, b \in 1..Cardinality(places) : a < b => ledger[seq[a]].nonce >= ledger[seq[b]].nonce

(* NewestFirst ranks the places: how many sort before one is different for   *)
(* each, and below how many there are, so that every rank is taken.          *)
LEMMA NewestFirstRanks ==
    ASSUME NEW P, IsFiniteSet(P), P \subseteq Nat, \A i \in P : ledger[i].nonce \in Nat,
           NEW laterFirst \in BOOLEAN
    PROVE  Ranked(NewestFirst(P, laterFirst), P) /\ Cardinality(P) \in Nat
<1> DEFINE c == Cardinality(P)
           newer(i) == {j \in P : SortsBefore(j, i, laterFirst)}
           rank == [i \in P |-> Cardinality(newer(i)) + 1]
           s == NewestFirst(P, laterFirst)
<1>1. c \in Nat /\ IsFiniteSet(1..c) /\ Cardinality(1..c) = c
  <2>1. c \in Nat
    BY FS_CardinalityType
  <2> HIDE DEF c
  <2> QED BY <2>1, FS_Interval
<1>2. \A i, j, k \in P : /\ ~SortsBefore(i, i, laterFirst)
                         /\ i # j => SortsBefore(i, j, laterFirst) \/ SortsBefore(j, i, laterFirst)
                         /\ SortsBefore(i, j, laterFirst) /\ SortsBefore(j, k, laterFirst)
                                => SortsBefore(i, k, laterFirst)
  BY DEF SortsBefore
<1>3. \A i \in P : newer(i) \subseteq P /\ i \notin newer(i) /\ IsFiniteSet(newer(i))
  BY <1>2, FS_Subset
<1>4. ASSUME NEW i \in P PROVE Cardinality(newer(i)) \in Nat /\ rank[i] \in 1..c
  <2>1. Cardinality(newer(i)) \in Nat
    BY <1>3, FS_CardinalityType
  <2>2. /\ Cardinality(newer(i)) <= Cardinality(P)
        /\ (Cardinality(newer(i)) = Cardinality(P) => newer(i) = P)
    <3>1. newer(i) \in SUBSET P
      BY <1>3
    <3> HIDE DEF newer
    <3> QED BY <3>1, FS_Subset
  <2>3. Cardinality(newer(i)) # Cardinality(P)
    BY <1>3, <2>2
  <2> HIDE DEF newer
  <2> QED BY <1>1, <2>1, <2>2, <2>3
<1>5. ASSUME NEW i \in P, NEW j \in P, SortsBefore(i, j, laterFirst) PROVE rank[i] < rank[j]
  <2>1. newer(i) \subseteq newer(j) /\ i \in newer(j) /\ i \notin newer(i)
    BY <1>2, <1>5
  <2>2. Cardinality(newer(i)) <= Cardinality(newer(j)) /\ Cardinality(newer(i)) # Cardinality(newer(j))
    <3>1. newer(i) \in SUBSET newer(j) /\ IsFiniteSet(newer(j)) /\ newer(i) # newer(j)
      BY <1>3, <2>1
    <3> HIDE DEF newer
    <3> QED BY <3>1, FS_Subset
  <2> HIDE DEF newer
  <2>3. rank[i] = Cardinality(newer(i)) + 1 /\ rank[j] = Cardinality(newer(j)) + 1
    OBVIOUS
  <2> QED BY <1>4, <2>2, <2>3
<1> HIDE DEF rank, newer
<1>6. rank \in [P -> 1..c] /\ \A i, j \in P : rank[i] = rank[j] => i = j
  <2>1. rank \in [P -> 1..c]
    <3>1. rank = [i \in P |-> rank[i]]
      BY DEF rank
    <3> QED BY <1>4, <3>1
  <2>2. ASSUME NEW i \in P, NEW j \in P, i # j PROVE rank[i] # rank[j]
    <3>1. rank[i] \in Int /\ rank[j] \in Int
      BY <1>4
    <3>2. SortsBefore(i, j, laterFirst) \/ SortsBefore(j, i, laterFirst)
      BY <1>2, <2>2
    <3>3. rank[i] < rank[j] \/ rank[j] < rank[i]
      BY <1>5, <3>2
    <3> QED BY <3>1, <3>3
  <2> QED BY <2>1, <2>2
<1>7. \A a \in 1..c : \E i \in P : rank[i] = a
  <2>1. rank \in Injection(P, 1..c)
    BY <1>6 DEF Injection, IsInjective
  <2>2. rank \in Surjection(P, 1..c)
    <3> DEFINE T == 1..c
    <3>1. IsFiniteSet(T) /\ Cardinality(P) = Cardinality(T) /\ rank \in Injection(P, T)
      BY <1>1, <2>1
    <3>2. rank \in Surjection(P, T)
      <4> HIDE DEF T
      <4> QED BY <3>1, FS_Injection
    <3> QED BY <3>2
  <2> QED BY <2>2 DEF Surjection
<1>8. \A a \in 1..c : s[a] \in P /\ rank[s[a]] = a
  <2> TAKE a \in 1..c
  <2>1. s[a] = CHOOSE i \in P : Cardinality(newer(i)) = a - 1
    BY DEF NewestFirst, newer
  <2>2. \A i \in P : Cardinality(newer(i)) = a - 1 <=> rank[i] = a
    <3>1. \A i \in P : rank[i] = Cardinality(newer(i)) + 1
      BY DEF rank
    <3>2. a \in Int
      BY <1>1
    <3> QED BY <1>4, <3>1, <3>2
  <2>3. \E i \in P : Cardinality(newer(i)) = a - 1
    BY <1>7, <2>2
  <2>4. s[a] \in P /\ Cardinality(newer(s[a])) = a - 1
    BY <2>1, <2>3
  <2> QED BY <2>2, <2>4
<1>9. s \in [1..c -> P]
  <2> DEFINE best(a) == CHOOSE i \in P : Cardinality({j \in P : SortsBefore(j, i, laterFirst)}) = a - 1
  <2>1. s = [a \in 1..c |-> best(a)]
    BY DEF NewestFirst
  <2> HIDE DEF s, best, c
  <2>2. \A a \in 1..c : s[a] = best(a)
    BY <2>1
  <2> QED BY <1>8, <2>1, <2>2
<1> HIDE DEF s
<1>10. \A a, b \in 1..c : s[a] = s[b] => a = b
  BY <1>8
<1>11. \A i \in P : \E a \in 1..c : s[a] = i
  BY <1>4, <1>6, <1>8
<1>12. ASSUME NEW a \in 1..c, NEW b \in 1..c, a < b
       PROVE  ledger[s[a]].nonce >= ledger[s[b]].nonce
  <2>1. s[a] \in P /\ s[b] \in P /\ rank[s[a]] = a /\ rank[s[b]] = b
    BY <1>8
  <2>2. ~SortsBefore(s[b], s[a], laterFirst)
    <3>1. ~(b < a)
      BY <1>1, <1>12
    <3> QED BY <1>5, <2>1, <3>1
  <2>3. ledger[s[a]].nonce \in Nat /\ ledger[s[b]].nonce \in Nat
    BY <2>1
  <2>4. ~(ledger[s[b]].nonce > ledger[s[a]].nonce)
    BY <2>2 DEF SortsBefore
  <2> QED BY <2>3, <2>4
<1> QED BY <1>1, <1>9, <1>10, <1>11, <1>12 DEF Ranked, s

(* What is fetched of the places P, n of them: each once, newest nonce first,*)
(* all with a nonce that is not below one of theirs, and count of them unless*)
(* P has fewer.                                                              *)
Fetched(txs, n, P, count) ==
    /\ txs \in [1..n -> P]
    /\ \A a, b \in 1..n : txs[a] = txs[b] => a = b
    /\ \A a, b \in 1..n : a < b => ledger[txs[a]].nonce >= ledger[txs[b]].nonce
    /\ \A i \in P, a \in 1..n : ledger[i].nonce >= ledger[txs[a]].nonce => \E b \in 1..n : txs[b] = i
    /\ n >= count \/ \A i \in P : \E b \in 1..n : txs[b] = i

(* A function from 1..n is a sequence of that length.                        *)
LEMMA FunctionIsSequence ==
    ASSUME NEW n \in Nat, NEW P, NEW txs \in [1..n -> P]
    PROVE  txs \in Seq(P) /\ Len(txs) = n
OBVIOUS

(* getTxsInNonceRange keeps what was asked for and all that shares the nonce *)
(* of the last, so that what it leaves out is older than what it keeps.      *)
LEMMA NonceRangeIsFetched ==
    ASSUME NEW P, \A i \in P : ledger[i].nonce \in Nat, Cardinality(P) \in Nat,
           NEW txs, Ranked(txs, P), NEW count \in Nat \ {0}
    PROVE  \E n \in Nat : Fetched(TxsInNonceRange(txs, count), n, P, count)
<1> DEFINE c == Cardinality(P)
<1>1. c \in Nat /\ txs \in [1..c -> P] /\ txs \in Seq(P) /\ Len(txs) = c
  <2>1. c \in Nat /\ txs \in [1..c -> P]
    BY DEF Ranked
  <2> HIDE DEF c
  <2> QED BY <2>1, FunctionIsSequence
<1>2. /\ \A a, b \in 1..c : txs[a] = txs[b] => a = b
      /\ \A i \in P : \E a \in 1..c : txs[a] = i
      /\ \A a, b \in 1..c : a < b => ledger[txs[a]].nonce >= ledger[txs[b]].nonce
  BY DEF Ranked
<1> HIDE DEF c
<1>3. CASE c <= count
  <2>1. TxsInNonceRange(txs, count) = txs
    BY <1>1, <1>3 DEF TxsInNonceRange
  <2>2. Fetched(txs, c, P, count)
    BY <1>1, <1>2 DEF Fetched
  <2> QED BY <1>1, <2>1, <2>2
<1>4. CASE c > count
  <2> DEFINE E == {m \in count..c : ledger[txs[m]].nonce = ledger[txs[count]].nonce}
             e == Max(E)
  <2>1. count \in E /\ E \subseteq 1..c
    BY <1>1, <1>4
  <2>2. e \in E /\ \A m \in E : m <= e
    <3> HIDE DEF E
    <3>1. \E k \in E : \A l \in E : k >= l
      <4>1. PICK k \in E : \A l \in E : l <= k
        BY <1>1, <2>1, Greatest
      <4>2. \A l \in E : k >= l
        BY <1>1, <2>1, <4>1
      <4> QED BY <4>2
    <3>2. e \in E /\ \A l \in E : e >= l
      BY <3>1 DEF Max
    <3> QED BY <1>1, <2>1, <3>2
  <2>3. TxsInNonceRange(txs, count) = SubSeq(txs, 1, e)
    <3>1. {m \in count..Len(txs) : ledger[txs[m]].nonce = ledger[txs[count]].nonce} = E
      BY <1>1
    <3>2. ~(Len(txs) <= count)
      BY <1>1, <1>4
    <3> HIDE DEF E
    <3> QED BY <3>1, <3>2 DEF TxsInNonceRange
  <2> HIDE DEF e
  <2>4. e \in count..c /\ e \in Nat /\ e \in 1..c
    <3>1. e \in count..c
      BY <2>2
    <3> QED BY <1>1, <3>1
  <2>5. ASSUME NEW m \in 1..c, m > e PROVE ledger[txs[m]].nonce < ledger[txs[count]].nonce
    <3>1. count \in 1..c /\ count < m /\ m \in count..c
      BY <1>1, <1>4, <2>4, <2>5
    <3>2. m \notin E
      BY <1>1, <2>2, <2>4, <2>5
    <3>3. ledger[txs[m]].nonce # ledger[txs[count]].nonce
      BY <3>1, <3>2
    <3>4. ledger[txs[count]].nonce >= ledger[txs[m]].nonce
      BY <1>2, <3>1
    <3>5. ledger[txs[m]].nonce \in Nat /\ ledger[txs[count]].nonce \in Nat
      BY <1>1, <3>1
    <3> QED BY <3>3, <3>4, <3>5
  <2>6. ASSUME NEW a \in 1..e PROVE ledger[txs[a]].nonce >= ledger[txs[count]].nonce
    <3>1. a \in 1..c /\ count \in 1..c /\ e \in 1..c /\ a <= e
      BY <1>1, <1>4, <2>4
    <3>2. ledger[txs[e]].nonce = ledger[txs[count]].nonce
      BY <2>2
    <3>3. ledger[txs[a]].nonce >= ledger[txs[e]].nonce
      <4>1. CASE a = e
        <5>1. ledger[txs[e]].nonce \in Nat
          BY <1>1, <3>1
        <5> QED BY <4>1, <5>1
      <4>2. CASE a < e
        BY <1>2, <3>1, <4>2
      <4> QED BY <3>1, <4>1, <4>2
    <3> QED BY <3>2, <3>3
  <2> HIDE DEF E
  <2> DEFINE t == SubSeq(txs, 1, e)
  <2>7. t \in [1..e -> P] /\ \A a \in 1..e : t[a] = txs[a]
    <3>1. t = [a \in 1..e |-> txs[a]]
      BY <1>1, <2>4
    <3>2. \A a \in 1..e : txs[a] \in P
      BY <1>1, <2>4
    <3> HIDE DEF t
    <3> QED BY <3>1, <3>2
  <2> HIDE DEF t
  <2>8. \A a \in 1..e : a \in 1..c
    BY <1>1, <2>4
  <2>9. \A a, b \in 1..e : t[a] = t[b] => a = b
    BY <1>2, <2>7, <2>8
  <2>12. \A a, b \in 1..e : a < b => ledger[t[a]].nonce >= ledger[t[b]].nonce
    BY <1>2, <2>7, <2>8
  <2>10. ASSUME NEW i \in P, NEW a \in 1..e, ledger[i].nonce >= ledger[t[a]].nonce
         PROVE  \E b \in 1..e : t[b] = i
    <3>1. PICK m \in 1..c : txs[m] = i
      BY <1>2
    <3>2. ledger[t[a]].nonce >= ledger[txs[count]].nonce
      BY <2>6, <2>7
    <3>3. /\ ledger[i].nonce \in Nat /\ ledger[t[a]].nonce \in Nat
          /\ ledger[txs[count]].nonce \in Nat
      <4>1. txs[count] \in P /\ t[a] \in P
        BY <1>1, <1>4, <2>7
      <4> QED BY <4>1
    <3>4. ~(m > e)
      <4> SUFFICES ASSUME m > e PROVE FALSE
        OBVIOUS
      <4>1. ledger[i].nonce < ledger[txs[count]].nonce
        BY <2>5, <3>1
      <4> QED BY <2>10, <3>2, <3>3, <4>1
    <3>5. m \in 1..e
      BY <1>1, <2>4, <3>4
    <3> QED BY <2>7, <3>1, <3>5
  <2>11. Fetched(t, e, P, count)
    <3>1. e >= count
      BY <2>4
    <3> QED BY <2>7, <2>9, <2>10, <2>12, <3>1 DEF Fetched
  <2> QED BY <2>3, <2>4, <2>11 DEF t
<1> QED BY <1>1, <1>3, <1>4

FetchPlaces(places, token, before) == {i \in OfToken(places, token) : ledger[i].nonce < before}

(* fetchTxs gives the newest transactions of the token before a nonce: as    *)
(* many as asked for, or all of them.                                        *)
LEMMA FetchTxsIsFetched ==
    ASSUME NEW k \in Nat, NEW places, places \subseteq 1..k, \A i \in places : ledger[i].nonce \in Nat,
           NEW token, NEW before, NEW laterFirst \in BOOLEAN, NEW count \in Nat \ {0}
    PROVE  /\ IsFiniteSet(FetchPlaces(places, token, before))
           /\ \E n \in Nat : Fetched(FetchTxs(places, count, token, before, laterFirst), n,
                                     FetchPlaces(places, token, before), count)
<1> DEFINE P == FetchPlaces(places, token, before)
           txs == NewestFirst(P, laterFirst)
<1>1. P \subseteq Nat /\ P \subseteq 1..k /\ \A i \in P : ledger[i].nonce \in Nat
  <2>1. \A i \in P : i \in places
    BY DEF FetchPlaces, OfToken
  <2>2. places \subseteq Nat
    OBVIOUS
  <2> HIDE DEF P
  <2> QED BY <2>1, <2>2
<1>2. IsFiniteSet(P)
  <2>1. IsFiniteSet(1..k)
    BY FS_Interval
  <2> HIDE DEF P
  <2> QED BY <1>1, <2>1, FS_Subset
<1>3. FetchTxs(places, count, token, before, laterFirst) = TxsInNonceRange(txs, count)
  BY DEF FetchTxs, FetchPlaces
<1>4. \E n \in Nat : Fetched(TxsInNonceRange(txs, count), n, P, count)
  <2> HIDE DEF P, txs
  <2>1. Ranked(NewestFirst(P, laterFirst), P) /\ Cardinality(P) \in Nat
    BY <1>1, <1>2, NewestFirstRanks
  <2>2. Ranked(txs, P)
    BY <2>1 DEF txs
  <2> QED BY <1>1, <2>1, <2>2, NonceRangeIsFetched
<1> QED BY <1>2, <1>3, <1>4

-----------------------------------------------------------------------------
(* What is active at a moment: all that was fetched if it has no send, or    *)
(* what was fetched up to the newest send, and top-ups with its nonce.       *)
UpToSend(active, P, txs, n, send, tail, m) ==
    /\ n \in Nat /\ txs \in [1..n -> P] /\ send \in 1..n
    /\ m \in Nat /\ tail \in [1..m -> P]
    /\ ledger[txs[send]].txType = "SEND"
    /\ \A a \in 1..(send - 1) : ledger[txs[a]].txType # "SEND"
    /\ \A b \in 1..m : /\ ledger[tail[b]].nonce = ledger[txs[send]].nonce
                       /\ \E a \in (send + 1)..n : tail[b] = txs[a]
    /\ active = SubSeq(txs, 1, send) \o tail

(* getActiveTxs is one of the two.                                           *)
LEMMA ActiveIs ==
    ASSUME NEW k \in Nat, NEW token, NEW laterFirst \in BOOLEAN, \A i \in 1..k : ledger[i].nonce \in Nat,
           NEW P, P = FetchPlaces(1..k, token, NoBefore),
           NEW active, active = ActiveTxs(1..k, token, laterFirst)
    PROVE  \E n \in Nat : \E txs \in [1..n -> P] :
               /\ Fetched(txs, n, P, SendArity)
               /\ \/ active = txs /\ \A a \in 1..n : ledger[txs[a]].txType # "SEND"
                  \/ \E send \in 1..n, m \in Nat : \E tail \in [1..m -> P] :
                         UpToSend(active, P, txs, n, send, tail, m)
<1> DEFINE txs == FetchTxs(1..k, SendArity, token, NoBefore, laterFirst)
           sends == {n \in 1..Len(txs) : ledger[txs[n]].txType = "SEND"}
           send == Min(sends)
           tops == {i \in ToSet(SubSeq(txs, send + 1, Len(txs))) :
                       ledger[i].txType = "TOPUP" /\ ledger[i].nonce = ledger[txs[send]].nonce}
           tail == NewestFirst(tops, laterFirst)
<1>1. PICK n \in Nat : Fetched(txs, n, P, SendArity)
  <2>1. SendArity \in Nat \ {0}
    BY BalanceAssumption
  <2> QED BY <2>1, FetchTxsIsFetched
<1>a. txs \in [1..n -> P]
  BY <1>1 DEF Fetched
<1>2. P \subseteq Nat /\ P \subseteq 1..k
  BY DEF FetchPlaces, OfToken
<1>3. active = IF sends = {} THEN txs ELSE SubSeq(txs, 1, send) \o tail
  BY DEF ActiveTxs
<1> HIDE DEF txs
<1>4. txs \in Seq(P) /\ Len(txs) = n
  BY <1>a, FunctionIsSequence
<1>5. CASE sends = {}
  <2>1. active = txs /\ \A a \in 1..n : ledger[txs[a]].txType # "SEND"
    BY <1>3, <1>4, <1>5
  <2> HIDE DEF sends
  <2> QED BY <1>1, <1>a, <2>1
<1>6. CASE sends # {}
  <2>1. send \in 1..n /\ send \in sends /\ \A a \in sends : send <= a
    <3>1. sends \subseteq Nat /\ sends \subseteq 1..n
      BY <1>4
    <3>2. PICK m \in sends : \A l \in sends : m <= l
      <4> HIDE DEF sends
      <4> QED BY <1>6, <3>1, Least
    <3>3. send \in sends /\ \A l \in sends : send <= l
      <4> HIDE DEF sends
      <4> QED BY <3>2 DEF Min
    <3> QED BY <3>1, <3>3
  <2>2. ledger[txs[send]].txType = "SEND" /\ \A a \in 1..(send - 1) : ledger[txs[a]].txType # "SEND"
    <3>1. ledger[txs[send]].txType = "SEND"
      BY <2>1
    <3>2. ASSUME NEW a \in 1..(send - 1) PROVE ledger[txs[a]].txType # "SEND"
      <4>1. a \in 1..Len(txs) /\ ~(send <= a)
        BY <1>4, <2>1
      <4> QED BY <2>1, <4>1
    <3> QED BY <3>1, <3>2
  <2>3. active = SubSeq(txs, 1, send) \o tail
    BY <1>3, <1>6
  <2> HIDE DEF send, sends
  <2>4. \A i \in tops : ledger[i].nonce = ledger[txs[send]].nonce /\ \E a \in (send + 1)..n : i = txs[a]
    <3>1. \A i \in ToSet(SubSeq(txs, send + 1, n)) : \E a \in (send + 1)..n : i = txs[a]
      BY <1>4, <2>1 DEF ToSet
    <3> QED BY <1>4, <3>1
  <2> HIDE DEF tops
  <2>5. tops \subseteq P
    <3>1. \A a \in (send + 1)..n : txs[a] \in P
      BY <1>a, <2>1
    <3> QED BY <2>4, <3>1
  <2>6. Ranked(tail, tops) /\ Cardinality(tops) \in Nat
    <3>1. IsFiniteSet(1..k)
      BY FS_Interval
    <3>2. IsFiniteSet(tops)
      BY <1>2, <2>5, <3>1, FS_Subset
    <3>3. \A i \in tops : ledger[i].nonce \in Nat
      BY <1>2, <2>5
    <3>4. tops \subseteq Nat
      BY <1>2, <2>5
    <3> QED BY <3>2, <3>3, <3>4, NewestFirstRanks
  <2> HIDE DEF tail
  <2>7. PICK m \in Nat : m = Cardinality(tops)
    BY <2>6
  <2>8. tail \in [1..m -> tops]
    BY <2>6, <2>7 DEF Ranked
  <2>9. tail \in [1..m -> P]
    BY <2>5, <2>8
  <2>10. \A b \in 1..m : tail[b] \in tops
    BY <2>8
  <2>11. UpToSend(active, P, txs, n, send, tail, m)
    BY <1>a, <2>1, <2>9, <2>2, <2>3, <2>4, <2>10 DEF UpToSend
  <2> QED BY <1>1, <1>a, <2>1, <2>9, <2>11
<1> QED BY <1>5, <1>6

(* The transactions of it.                                                   *)
LEMMA UpToSendSet ==
    ASSUME NEW P, NEW n, NEW txs, NEW send, NEW m, NEW tail, NEW active,
           UpToSend(active, P, txs, n, send, tail, m)
    PROVE  ToSet(active) = {txs[a] : a \in 1..send} \cup {tail[b] : b \in 1..m}
<1>0. /\ n \in Nat /\ txs \in [1..n -> P] /\ send \in 1..n
      /\ m \in Nat /\ tail \in [1..m -> P]
  BY DEF UpToSend
<1>1. txs \in Seq(P) /\ Len(txs) = n /\ tail \in Seq(P) /\ Len(tail) = m
  BY <1>0, FunctionIsSequence
<1>2. PICK s : s = SubSeq(txs, 1, send)
  OBVIOUS
<1>3. s \in Seq(P) /\ Len(s) = send /\ \A a \in 1..send : s[a] = txs[a]
  BY <1>0, <1>1, <1>2
<1>4. active = s \o tail
  BY <1>2 DEF UpToSend
<1>5. /\ Len(s \o tail) = send + m /\ s \o tail \in Seq(P)
      /\ \A a \in 1..(send + m) : (s \o tail)[a] = IF a <= send THEN s[a] ELSE tail[a - send]
  <2>1. s \in Seq(P) /\ tail \in Seq(P)
    BY <1>1, <1>3
  <2>2. Len(s \o tail) = Len(s) + Len(tail) /\ s \o tail \in Seq(P)
    BY <2>1
  <2>3. \A a \in 1..(Len(s) + Len(tail)) :
            (s \o tail)[a] = IF a <= Len(s) THEN s[a] ELSE tail[a - Len(s)]
    BY <2>1
  <2> QED BY <1>1, <1>3, <2>2, <2>3
<1>6. DOMAIN active = 1..(send + m)
  BY <1>4, <1>5
<1>7. \A a \in 1..send : a \in 1..(send + m) /\ active[a] = txs[a]
  BY <1>0, <1>3, <1>4, <1>5
<1>8. \A b \in 1..m : b + send \in 1..(send + m) /\ active[b + send] = tail[b]
  <2> TAKE b \in 1..m
  <2>1. b + send \in 1..(send + m) /\ ~(b + send <= send) /\ (b + send) - send = b
    BY <1>0
  <2> QED BY <1>4, <1>5, <2>1
<1>9. \A a \in 1..(send + m) : a \in 1..send \/ \E b \in 1..m : a = b + send
  <2> TAKE a \in 1..(send + m)
  <2>1. a \in 1..send \/ a - send \in 1..m
    BY <1>0
  <2>2. a = (a - send) + send
    BY <1>0
  <2> QED BY <2>1, <2>2
<1>10. ToSet(active) = {active[a] : a \in 1..(send + m)}
  BY <1>6 DEF ToSet
<1>11. \A i \in ToSet(active) : (\E a \in 1..send : i = txs[a]) \/ \E b \in 1..m : i = tail[b]
  BY <1>7, <1>8, <1>9, <1>10
<1>12. (\A a \in 1..send : txs[a] \in ToSet(active)) /\ \A b \in 1..m : tail[b] \in ToSet(active)
  BY <1>7, <1>8, <1>10
<1> QED BY <1>11, <1>12, Zenon

(* The active transactions are among those of the token.                     *)
LEMMA ActiveInPlaces ==
    ASSUME NEW k \in Nat, NEW token, NEW laterFirst \in BOOLEAN, \A i \in 1..k : ledger[i].nonce \in Nat
    PROVE  ToSet(ActiveTxs(1..k, token, laterFirst)) \subseteq OfToken(1..k, token)
<1>1. PICK P, active : P = FetchPlaces(1..k, token, NoBefore) /\ active = ActiveTxs(1..k, token, laterFirst)
  OBVIOUS
<1>a. PICK n \in Nat : \E txs \in [1..n -> P] :
          \/ active = txs
          \/ \E send \in 1..n, m \in Nat : \E tail \in [1..m -> P] :
                 UpToSend(active, P, txs, n, send, tail, m)
  <2>1. \E n \in Nat : \E txs \in [1..n -> P] :
               /\ Fetched(txs, n, P, SendArity)
               /\ \/ active = txs /\ \A a \in 1..n : ledger[txs[a]].txType # "SEND"
                  \/ \E send \in 1..n, m \in Nat : \E tail \in [1..m -> P] :
                         UpToSend(active, P, txs, n, send, tail, m)
    BY <1>1, ActiveIs
  <2> QED BY <2>1
<1>2. PICK txs \in [1..n -> P] :
          \/ active = txs
          \/ \E send \in 1..n, m \in Nat : \E tail \in [1..m -> P] :
                 UpToSend(active, P, txs, n, send, tail, m)
  BY <1>a
<1>3. CASE active = txs
  <2>1. ToSet(active) \subseteq P
    BY <1>3 DEF ToSet
  <2> QED BY <1>1, <2>1 DEF FetchPlaces
<1>4. ASSUME NEW send \in 1..n, NEW m \in Nat, NEW tail \in [1..m -> P],
             UpToSend(active, P, txs, n, send, tail, m)
      PROVE  ToSet(active) \subseteq P
  <2>1. ToSet(active) = {txs[a] : a \in 1..send} \cup {tail[b] : b \in 1..m}
    BY <1>4, UpToSendSet
  <2> QED BY <2>1
<1> QED BY <1>1, <1>2, <1>3, <1>4 DEF FetchPlaces

(* With an active transaction, all that the device saw of the token with a   *)
(* higher nonce is active, too.                                              *)
LEMMA ActiveFromTop ==
    ASSUME NEW k \in Nat, NEW token, NEW laterFirst \in BOOLEAN,
           \A i \in 1..k : ledger[i].nonce \in Nat /\ ledger[i].nonce < NoBefore,
           NEW active, active = ActiveTxs(1..k, token, laterFirst),
           NEW z \in ToSet(active), NEW i \in OfToken(1..k, token), ledger[i].nonce > ledger[z].nonce
    PROVE  i \in ToSet(active)
<1>1. PICK P : P = FetchPlaces(1..k, token, NoBefore)
  OBVIOUS
<1>2. i \in P /\ P \subseteq 1..k /\ \A l \in P : ledger[l].nonce \in Nat
  BY <1>1 DEF FetchPlaces, OfToken
<1>a. PICK n \in Nat : \E txs \in [1..n -> P] :
          /\ Fetched(txs, n, P, SendArity)
          /\ \/ active = txs
             \/ \E send \in 1..n, m \in Nat : \E tail \in [1..m -> P] :
                    UpToSend(active, P, txs, n, send, tail, m)
  <2>1. \E n \in Nat : \E txs \in [1..n -> P] :
               /\ Fetched(txs, n, P, SendArity)
               /\ \/ active = txs /\ \A a \in 1..n : ledger[txs[a]].txType # "SEND"
                  \/ \E send \in 1..n, m \in Nat : \E tail \in [1..m -> P] :
                         UpToSend(active, P, txs, n, send, tail, m)
    BY <1>1, ActiveIs
  <2> QED BY <2>1
<1>3. PICK txs \in [1..n -> P] :
          /\ Fetched(txs, n, P, SendArity)
          /\ \/ active = txs
             \/ \E send \in 1..n, m \in Nat : \E tail \in [1..m -> P] :
                    UpToSend(active, P, txs, n, send, tail, m)
  BY <1>a
<1>4. /\ \A a, b \in 1..n : a < b => ledger[txs[a]].nonce >= ledger[txs[b]].nonce
      /\ \A l \in P, a \in 1..n : ledger[l].nonce >= ledger[txs[a]].nonce => \E b \in 1..n : txs[b] = l
  BY <1>3 DEF Fetched
<1>5. ASSUME NEW a \in 1..n, ledger[txs[a]].nonce < ledger[i].nonce
      PROVE  \E b \in 1..n : txs[b] = i /\ b < a
  <2>1. ledger[txs[a]].nonce \in Nat /\ ledger[i].nonce \in Nat
    BY <1>2
  <2>2. PICK b \in 1..n : txs[b] = i
    BY <1>2, <1>4, <1>5, <2>1
  <2>3. ~(a < b) /\ a # b
    BY <1>4, <1>5, <2>1, <2>2
  <2> QED BY <2>2, <2>3
<1>6. CASE active = txs
  <2>1. ToSet(active) = {txs[a] : a \in 1..n}
    BY <1>6 DEF ToSet
  <2>2. PICK a \in 1..n : z = txs[a]
    BY <2>1
  <2>3. \E b \in 1..n : txs[b] = i
    <3>1. ledger[txs[a]].nonce \in Nat /\ ledger[i].nonce \in Nat
      BY <1>2
    <3> QED BY <1>5, <2>2, <3>1
  <2> QED BY <2>1, <2>3
<1>7. ASSUME NEW send \in 1..n, NEW m \in Nat, NEW tail \in [1..m -> P],
             UpToSend(active, P, txs, n, send, tail, m)
      PROVE  i \in ToSet(active)
  <2>1. ToSet(active) = {txs[a] : a \in 1..send} \cup {tail[b] : b \in 1..m}
    BY <1>7, UpToSendSet, SMTT(60)
  <2>2. \E a \in 1..send : ledger[z].nonce = ledger[txs[a]].nonce
    <3>1. \A b \in 1..m : ledger[tail[b]].nonce = ledger[txs[send]].nonce
      BY <1>7 DEF UpToSend
    <3>2. send \in 1..send
      OBVIOUS
    <3>3. (\E a \in 1..send : z = txs[a]) \/ \E b \in 1..m : z = tail[b]
      BY <2>1, Zenon
    <3> QED BY <3>1, <3>2, <3>3, Zenon
  <2>3. PICK a \in 1..send : ledger[z].nonce = ledger[txs[a]].nonce
    BY <2>2
  <2>4. a \in 1..n /\ ledger[txs[a]].nonce < ledger[i].nonce
    <3>1. a \in 1..n
      OBVIOUS
    <3>2. ledger[txs[a]].nonce \in Nat /\ ledger[i].nonce \in Nat
      BY <1>2, <3>1
    <3> QED BY <2>3, <3>1, <3>2
  <2>5. PICK b \in 1..n : txs[b] = i /\ b < a
    BY <1>5, <2>4
  <2>6. b \in 1..send
    BY <2>5
  <2> QED BY <2>1, <2>5, <2>6
<1> QED BY <1>3, <1>6, <1>7

-----------------------------------------------------------------------------
(* The nonce of the transaction that landed as the j-th: above those that    *)
(* its device must have seen, and one above one of those before it.          *)
Numbered(j) ==
    /\ ledger[j].nonce < j
    /\ \A i \in 1..(j - 1 - MaxMissed) : ledger[i].nonce < ledger[j].nonce
    /\ ledger[j].nonce = 0 \/ \E i \in 1..(j - 1) : ledger[j].nonce = ledger[i].nonce + 1

(* The send that landed as the j-th spends what was unspent of its token.    *)
Spends(j, token, inputs) ==
    /\ ledger[j].token = token /\ ledger[j].inputs = inputs
    /\ inputs \subseteq Unspent(j - 1, token)
    /\ ledger[j].balance = SumOf(Balances, inputs) - ledger[j].amount - ledger[j].fee

Balanced(j) ==
    \/ /\ ledger[j].txType = "TOPUP"
       /\ ledger[j].inputs = {} /\ ledger[j].balance = ledger[j].amount
    \/ /\ ledger[j].txType = "SEND"
       /\ \E token \in Tokens, inputs \in SUBSET (1..(j - 1)) : Spends(j, token, inputs)

(* The invariant of the ledger.                                              *)
LedgerInv ==
    /\ ledger \in Seq(Txs)
    /\ Len(ledger) <= MaxTxs
    /\ \A j \in 1..Len(ledger) : Numbered(j) /\ Balanced(j)

(* The types of what is in the ledger.                                       *)
LEMMA Rows ==
    ASSUME ledger \in Seq(Txs)
    PROVE  /\ Len(ledger) \in Nat /\ DOMAIN ledger = 1..Len(ledger) /\ Priced
           /\ \A i \in 1..Len(ledger) :
                  /\ ledger[i].nonce \in Nat /\ ledger[i].balance \in Nat /\ ledger[i].token \in Tokens
                  /\ ledger[i].amount \in Nat /\ ledger[i].fee \in Nat
<1>1. Len(ledger) \in Nat /\ DOMAIN ledger = 1..Len(ledger)
  OBVIOUS
<1>2. \A i \in 1..Len(ledger) : ledger[i] \in Txs
  OBVIOUS
<1>3. \A tx \in Txs : /\ tx.nonce \in Nat /\ tx.balance \in Nat /\ tx.token \in Tokens
                      /\ tx.amount \in Nat /\ tx.fee \in Nat
  BY DEF Txs
<1> QED BY <1>1, <1>2, <1>3 DEF Priced

(* The places of a token are finite in number, and grow with the ledger.     *)
LEMMA PlacesIn ==
    ASSUME NEW k \in Nat, NEW n \in Nat, k <= n, NEW token
    PROVE  /\ OfToken(1..k, token) \subseteq 1..n /\ IsFiniteSet(OfToken(1..k, token))
           /\ OfToken(1..k, token) \subseteq OfToken(1..n, token)
           /\ Unspent(k, token) \subseteq OfToken(1..k, token) /\ IsFiniteSet(Unspent(k, token))
<1>1. OfToken(1..k, token) \subseteq 1..n /\ OfToken(1..k, token) \subseteq OfToken(1..n, token)
  BY DEF OfToken
<1>2. IsFiniteSet(OfToken(1..k, token))
  <2>1. IsFiniteSet(1..n)
    BY FS_Interval
  <2> QED BY <1>1, <2>1, FS_Subset
<1>3. Unspent(k, token) \subseteq OfToken(1..k, token)
  BY DEF Unspent
<1> QED BY <1>1, <1>2, <1>3, FS_Subset

(* What is in the ledger stays as it is.                                     *)
LEMMA AppendKeeps ==
    ASSUME ledger \in Seq(Txs), NEW tx, ledger' = Append(ledger, tx)
    PROVE  /\ Len(ledger') = Len(ledger) + 1
           /\ DOMAIN ledger' = 1..Len(ledger') /\ ledger'[Len(ledger')] = tx
           /\ \A i \in 1..Len(ledger) : ledger'[i] = ledger[i]
OBVIOUS

(* So do the places of a token, and the unspent ones.                        *)
LEMMA AppendKeepsSets ==
    ASSUME ledger \in Seq(Txs), NEW tx, ledger' = Append(ledger, tx),
           NEW k \in 0..Len(ledger), NEW token
    PROVE  OfToken(1..k, token)' = OfToken(1..k, token) /\ Unspent(k, token)' = Unspent(k, token)
<1>1. \A i \in 1..k : ledger'[i] = ledger[i]
  BY AppendKeeps
<1>2. OfToken(1..k, token)' = OfToken(1..k, token)
  BY <1>1 DEF OfToken
<1>3. {ledger'[i].inputs : i \in 1..k} = {ledger[i].inputs : i \in 1..k}
  BY <1>1
<1>4. Spent(1..k)' = Spent(1..k)
  BY <1>3 DEF Spent
<1> QED BY <1>2, <1>4 DEF Unspent

(* So do the sums over it.                                                   *)
LEMMA AppendKeepsSums ==
    ASSUME ledger \in Seq(Txs), NEW tx, ledger' = Append(ledger, tx),
           NEW S, S \subseteq 1..Len(ledger)
    PROVE  SumOf(Balances, S)' = SumOf(Balances, S) /\ WorthOf(S)' = WorthOf(S)
<1>1. /\ \A i \in S : ledger'[i] = ledger[i] /\ i \in DOMAIN ledger /\ i \in DOMAIN ledger'
  BY AppendKeeps
<1>2. /\ \A i \in S : Balances'[i] = Balances[i]
      /\ \A i \in S : Gains'[i] = Gains[i]
      /\ \A i \in S : Costs'[i] = Costs[i]
  BY <1>1 DEF Balances, Gains, Costs
<1>3. /\ SumOf(Balances', S) = SumOf(Balances, S)
      /\ SumOf(Gains', S) = SumOf(Gains, S)
      /\ SumOf(Costs', S) = SumOf(Costs, S)
  BY <1>2, SumSame
<1>4. SumOf(Balances, S)' = SumOf(Balances', S)
  BY DEF SumOf, Units
<1>5. WorthOf(S)' = SumOf(Gains', S) - SumOf(Costs', S)
  BY DEF WorthOf, SumOf, Units
<1> QED BY <1>3, <1>4, <1>5 DEF WorthOf

(* The next nonce is above every nonce seen, by one.                         *)
LEMMA NextNonceIs ==
    ASSUME LedgerInv, NEW k \in 0..Len(ledger)
    PROVE  /\ NextNonce(k) \in Nat /\ NextNonce(k) <= k
           /\ \A i \in 1..k : ledger[i].nonce < NextNonce(k)
           /\ NextNonce(k) = 0 \/ \E i \in 1..k : NextNonce(k) = ledger[i].nonce + 1
<1> DEFINE S == {-1} \cup {ledger[i].nonce : i \in 1..k}
           N == {ledger[i].nonce + 1 : i \in 1..k}
<1>1. \A i \in 1..k : ledger[i].nonce \in Nat /\ ledger[i].nonce < i
  BY Rows DEF LedgerInv, Numbered
<1>2. \E m \in S : \A l \in S : m >= l
  <2>1. CASE k = 0
    BY <2>1
  <2>2. CASE k # 0
    <3>1. N \subseteq 1..k /\ N # {}
      BY <1>1, <2>2
    <3>2. PICK m \in N : \A l \in N : l <= m
      <4>1. k \in Nat
        OBVIOUS
      <4> HIDE DEF N
      <4> QED BY <3>1, <4>1, Greatest
    <3>3. PICK a \in 1..k : m = ledger[a].nonce + 1
      BY <3>2
    <3>4. ASSUME NEW l \in 1..k PROVE ledger[a].nonce >= ledger[l].nonce
      <4>1. ledger[l].nonce + 1 <= m
        BY <3>2
      <4> QED BY <1>1, <3>3, <4>1
    <3>5. \A l \in S : ledger[a].nonce >= l
      BY <1>1, <3>4
    <3> QED BY <3>5
  <2> QED BY <2>1, <2>2
<1>3. Max(S) \in S /\ \A l \in S : Max(S) >= l
  <2> HIDE DEF S
  <2> QED BY <1>2 DEF Max
<1>4. NextNonce(k) = Max(S) + 1
  BY DEF NextNonce
<1> DEFINE m == Max(S)
<1>5. /\ m = -1 \/ \E i \in 1..k : m = ledger[i].nonce
      /\ \A i \in 1..k : m >= ledger[i].nonce
      /\ m >= -1
  <2> HIDE DEF m
  <2> QED BY <1>3 DEF m
<1> HIDE DEF m, S
<1>6. NextNonce(k) = m + 1
  BY <1>4 DEF m
<1>7. m \in Int
  BY <1>1, <1>5
<1>8. CASE m = -1
  <2>1. \A i \in 1..k : ledger[i].nonce < 0
    BY <1>1, <1>5, <1>8
  <2> QED BY <1>6, <1>8, <2>1
<1>9. ASSUME NEW i \in 1..k, m = ledger[i].nonce
      PROVE  /\ NextNonce(k) \in Nat /\ NextNonce(k) <= k
             /\ \A l \in 1..k : ledger[l].nonce < NextNonce(k)
             /\ NextNonce(k) = ledger[i].nonce + 1
  <2>1. /\ ledger[i].nonce \in Nat /\ ledger[i].nonce < i /\ i \in Nat /\ i <= k /\ k \in Nat
        /\ NextNonce(k) = ledger[i].nonce + 1
    BY <1>1, <1>6, <1>9
  <2>2. ASSUME NEW l \in 1..k PROVE ledger[l].nonce < NextNonce(k)
    <3>1. ledger[l].nonce \in Nat /\ ledger[i].nonce >= ledger[l].nonce
      BY <1>1, <1>5, <1>9
    <3> QED BY <2>1, <3>1
  <2> QED BY <2>1, <2>2
<1> QED BY <1>5, <1>8, <1>9

(* A transaction that fits the end of the ledger keeps the invariant.        *)
LEMMA LandKeeps ==
    ASSUME LedgerInv, NEW tx \in Txs, ledger' = Append(ledger, tx), Len(ledger) < MaxTxs,
           tx.nonce <= Len(ledger),
           \A i \in 1..(Len(ledger) - MaxMissed) : ledger[i].nonce < tx.nonce,
           tx.nonce = 0 \/ \E i \in 1..Len(ledger) : tx.nonce = ledger[i].nonce + 1,
           \/ tx.txType = "TOPUP" /\ tx.inputs = {} /\ tx.balance = tx.amount
           \/ /\ tx.txType = "SEND"
              /\ tx.inputs \subseteq Unspent(Len(ledger), tx.token)
              /\ tx.balance = SumOf(Balances, tx.inputs) - tx.amount - tx.fee
    PROVE  LedgerInv'
<1>0. PICK n : n = Len(ledger)
  OBVIOUS
<1>1. /\ ledger \in Seq(Txs) /\ n \in Nat
      /\ ledger' \in Seq(Txs) /\ Len(ledger') = n + 1 /\ ledger'[n + 1] = tx
      /\ \A i \in 1..n : ledger'[i] = ledger[i]
  <2>1. ledger \in Seq(Txs) /\ ledger' \in Seq(Txs)
    BY DEF LedgerInv
  <2> QED BY <1>0, <2>1, AppendKeeps, Rows
<1>2. Len(ledger') <= MaxTxs
  BY <1>0, <1>1, BalanceAssumption
<1>3. MaxMissed \in Nat
  BY BalanceAssumption
<1>4. ASSUME NEW j \in 1..n PROVE Numbered(j)' /\ Balanced(j)'
  <2>1. Numbered(j) /\ Balanced(j)
    BY <1>0 DEF LedgerInv
  <2>2. \A i \in 1..j : ledger'[i] = ledger[i]
    BY <1>1
  <2>3. Numbered(j)'
    <3>1. \A i \in 1..(j - 1 - MaxMissed) : i \in 1..j
      BY <1>3
    <3>2. \A i \in 1..(j - 1) : i \in 1..j
      OBVIOUS
    <3>0. ledger'[j] = ledger[j] /\ j \in 1..j
      BY <1>1
    <3>3. \A i \in 1..(j - 1 - MaxMissed) : ledger'[i].nonce < ledger'[j].nonce
      BY <2>1, <2>2, <3>0, <3>1 DEF Numbered
    <3>4. ledger'[j].nonce < j
      BY <2>1, <2>2, <3>0 DEF Numbered
    <3>5. ledger'[j].nonce = 0 \/ \E i \in 1..(j - 1) : ledger'[j].nonce = ledger'[i].nonce + 1
      BY <2>1, <2>2, <3>0, <3>2 DEF Numbered
    <3> QED BY <3>3, <3>4, <3>5 DEF Numbered
  <2>4. Balanced(j)'
    <3>1. ledger'[j] = ledger[j] /\ j - 1 \in 0..n
      BY <1>1
    <3>2. CASE ledger[j].txType = "TOPUP"
      BY <2>1, <3>1, <3>2 DEF Balanced
    <3>3. CASE ledger[j].txType = "SEND"
      <4>1. PICK token \in Tokens, inputs \in SUBSET (1..(j - 1)) : Spends(j, token, inputs)
        BY <2>1, <3>3 DEF Balanced
      <4>2. Unspent(j - 1, token)' = Unspent(j - 1, token)
        BY <1>0, <1>1, <3>1, AppendKeepsSets
      <4>3. inputs \subseteq 1..n
        BY <1>1
      <4>4. SumOf(Balances, inputs)' = SumOf(Balances, inputs)
        BY <1>0, <1>1, <4>3, AppendKeepsSums
      <4>5. Spends(j, token, inputs)'
        BY <3>1, <4>1, <4>2, <4>4 DEF Spends
      <4> QED BY <3>1, <3>3, <4>5 DEF Balanced
    <3> QED BY <2>1, <3>2, <3>3 DEF Balanced
  <2> QED BY <2>3, <2>4
<1>5. Numbered(n + 1)'
  <2>1. (n + 1) - 1 - MaxMissed = n - MaxMissed /\ (n + 1) - 1 = n
    BY <1>1, <1>3
  <2>2. ledger'[n + 1].nonce < n + 1
    <3>1. tx.nonce \in Nat
      BY DEF Txs
    <3> QED BY <1>1, <3>1
  <2>3. \A i \in 1..(n - MaxMissed) : ledger'[i].nonce < ledger'[n + 1].nonce
    <3>1. \A i \in 1..(n - MaxMissed) : i \in 1..n /\ ledger[i].nonce < tx.nonce
      BY <1>1, <1>3
    <3> QED BY <1>1, <3>1
  <2>4. ledger'[n + 1].nonce = 0 \/ \E i \in 1..n : ledger'[n + 1].nonce = ledger'[i].nonce + 1
    <3>1. tx.nonce = 0 \/ \E i \in 1..n : tx.nonce = ledger[i].nonce + 1
      BY <1>0
    <3> QED BY <1>1, <3>1
  <2> QED BY <2>1, <2>2, <2>3, <2>4 DEF Numbered
<1>6. Balanced(n + 1)'
  <2>1. CASE tx.txType = "TOPUP"
    BY <1>1, <2>1 DEF Balanced
  <2>2. CASE tx.txType = "SEND"
    <3>1. /\ tx.inputs \subseteq Unspent(n, tx.token)
          /\ tx.balance = SumOf(Balances, tx.inputs) - tx.amount - tx.fee
      BY <1>0, <2>2
    <3>2. Unspent(n, tx.token)' = Unspent(n, tx.token)
      BY <1>0, <1>1, AppendKeepsSets
    <3>3. tx.inputs \subseteq 1..n
      BY <1>1, <3>1, PlacesIn
    <3>4. SumOf(Balances, tx.inputs)' = SumOf(Balances, tx.inputs)
      BY <1>0, <1>1, <3>3, AppendKeepsSums
    <3>5. (n + 1) - 1 = n
      BY <1>1
    <3>6. Spends(n + 1, tx.token, tx.inputs)'
      BY <1>1, <3>1, <3>2, <3>4, <3>5 DEF Spends
    <3>7. tx.token \in Tokens
      BY DEF Txs
    <3> QED BY <1>1, <2>2, <3>3, <3>5, <3>6, <3>7 DEF Balanced
  <2> QED BY <2>1, <2>2
<1>7. \A j \in 1..(n + 1) : Numbered(j)' /\ Balanced(j)'
  <2>1. \A j \in 1..(n + 1) : j \in 1..n \/ j = n + 1
    BY <1>1
  <2> QED BY <1>4, <1>5, <1>6, <2>1
<1> QED BY <1>1, <1>2, <1>7 DEF LedgerInv

(* So does one that was built on what a device had seen.                     *)
LEMMA LandFits ==
    ASSUME LedgerInv, Growing, NEW tx \in Txs, Land(tx), NEW kn \in Seen, tx.nonce = NextNonce(kn),
           \/ tx.txType = "TOPUP" /\ tx.inputs = {} /\ tx.balance = tx.amount
           \/ /\ tx.txType = "SEND"
              /\ tx.inputs \subseteq Unspent(Len(ledger), tx.token)
              /\ tx.balance = SumOf(Balances, tx.inputs) - tx.amount - tx.fee
    PROVE  LedgerInv'
<1>1. Len(ledger) \in Nat /\ MaxMissed \in Nat
  BY Rows, BalanceAssumption DEF LedgerInv
<1>2. kn \in 0..Len(ledger) /\ kn >= Len(ledger) - MaxMissed
  BY DEF Seen
<1>3. /\ tx.nonce \in Nat /\ tx.nonce <= kn
      /\ \A i \in 1..kn : ledger[i].nonce < tx.nonce
      /\ tx.nonce = 0 \/ \E i \in 1..kn : tx.nonce = ledger[i].nonce + 1
  BY <1>2, NextNonceIs
<1>4. tx.nonce <= Len(ledger)
  BY <1>1, <1>2, <1>3
<1>5. \A i \in 1..(Len(ledger) - MaxMissed) : ledger[i].nonce < tx.nonce
  <2>1. \A i \in 1..(Len(ledger) - MaxMissed) : i \in 1..kn
    BY <1>1, <1>2
  <2> QED BY <1>3, <2>1
<1>6. tx.nonce = 0 \/ \E i \in 1..Len(ledger) : tx.nonce = ledger[i].nonce + 1
  <2>1. \A i \in 1..kn : i \in 1..Len(ledger)
    BY <1>1, <1>2
  <2> QED BY <1>3, <2>1
<1>7. ledger' = Append(ledger, tx) /\ Len(ledger) < MaxTxs
  BY DEF Land, Growing
<1> QED BY <1>4, <1>5, <1>6, <1>7, LandKeeps

(* The empty ledger satisfies its invariant.                                 *)
LEMMA LedgerInit == Init => LedgerInv
BY BalanceAssumption DEF Init, LedgerInv

(* A top-up spends nothing.                                                  *)
LEMMA TopUpKeepsLedger ==
    ASSUME LedgerInv, Growing, NEW token \in Tokens, NEW amount \in TopUps, NEW active,
           NEW kn \in Seen, NEW ks \in Seen, TopUp(token, amount, active, kn, ks)
    PROVE  LedgerInv'
<1> DEFINE tx == [nonce |-> NextNonce(kn), txType |-> "TOPUP", token |-> token, amount |-> amount,
                  fee |-> TxFee, metadata |-> FALSE, startIndex |-> ks, balance |-> amount, inputs |-> {}]
<1>1. kn \in 0..Len(ledger) /\ ks \in Nat
  BY Rows DEF LedgerInv, Seen
<1>2. NextNonce(kn) \in Nat
  BY <1>1, NextNonceIs
<1>3. amount \in Nat /\ TxFee \in Nat
  BY BalanceAssumption
<1>4. tx \in Txs
  BY <1>1, <1>2, <1>3 DEF Txs
<1>5. Land(tx)
  BY DEF TopUp
<1>6. tx.nonce = NextNonce(kn) /\ tx.txType = "TOPUP" /\ tx.inputs = {} /\ tx.balance = tx.amount
  OBVIOUS
<1> HIDE DEF tx
<1> QED BY <1>4, <1>5, <1>6, LandFits

(* A send spends active transactions of its token that are unspent when it   *)
(* lands, and keeps what it does not send and pay.                           *)
LEMMA SendKeepsLedger ==
    ASSUME LedgerInv, Growing, NEW token \in Tokens, NEW amount \in Sends, NEW metadata \in BOOLEAN,
           NEW ka \in Seen, NEW active \in GetActiveCommitments(ka, token),
           NEW kn \in Seen, NEW ks \in Seen, Send(token, amount, metadata, active, kn, ks)
    PROVE  LedgerInv'
<1>0. PICK inputs : inputs = ToSet(active)
  OBVIOUS
<1> DEFINE privateBalance == SumOf(Balances, inputs)
           tx == [nonce |-> NextNonce(kn), txType |-> "SEND", token |-> token, amount |-> amount,
                  fee |-> TxFee, metadata |-> metadata, startIndex |-> ks,
                  balance |-> privateBalance - amount - TxFee, inputs |-> inputs]
<1>1. /\ kn \in 0..Len(ledger) /\ ks \in Nat /\ ka \in 0..Len(ledger) /\ Len(ledger) \in Nat
      /\ DOMAIN ledger = 1..Len(ledger)
  BY Rows DEF LedgerInv, Seen
<1>2. NextNonce(kn) \in Nat
  BY <1>1, NextNonceIs
<1>3. amount \in Nat /\ TxFee \in Nat
  BY BalanceAssumption
<1>4. inputs \subseteq OfToken(1..ka, token)
  <2>1. PICK laterFirst \in BOOLEAN : active = ActiveTxs(1..ka, token, laterFirst)
    BY DEF GetActiveCommitments
  <2>2. \A i \in 1..ka : ledger[i].nonce \in Nat
    BY <1>1, Rows DEF LedgerInv
  <2> QED BY <1>0, <1>1, <2>1, <2>2, ActiveInPlaces
<1>5. /\ inputs \subseteq OfToken(1..Len(ledger), token) /\ inputs \subseteq 1..Len(ledger)
      /\ IsFiniteSet(inputs)
  <2>1. ka \in Nat /\ ka <= Len(ledger)
    BY <1>1
  <2> QED BY <1>1, <1>4, <2>1, PlacesIn, FS_Subset
<1>6. inputs \subseteq Unspent(Len(ledger), token)
  BY <1>0, <1>5 DEF Send, Unspent
<1>7. BalanceOf(inputs) = privateBalance /\ privateBalance \in Nat
  <2>1. \A i \in inputs : ledger[i].balance \in Nat /\ Balances[i] = ledger[i].balance
    BY <1>1, <1>5, Rows DEF LedgerInv, Balances
  <2>2. BalanceOf(inputs) = SumOf(Balances, inputs)
    BY <1>1, <1>5, <2>1, BalanceIsSum
  <2>3. SumOf(Balances, inputs) \in Nat
    BY <1>5, <2>1, SumType
  <2> QED BY <2>2, <2>3
<1> HIDE DEF privateBalance
<1>8. privateBalance >= amount + TxFee /\ Land(tx)
  BY <1>0, <1>7 DEF Send, BalanceOf
<1>9. privateBalance - amount - TxFee \in Nat
  BY <1>3, <1>7, <1>8
<1>10. inputs \in SUBSET Nat
  BY <1>1, <1>5
<1>11. tx \in Txs
  BY <1>1, <1>2, <1>3, <1>9, <1>10 DEF Txs
<1>12. /\ tx.nonce = NextNonce(kn) /\ tx.txType = "SEND" /\ tx.inputs = inputs /\ tx.token = token
       /\ tx.balance = privateBalance - tx.amount - tx.fee
  OBVIOUS
<1> HIDE DEF tx
<1>13. /\ tx.inputs \subseteq Unspent(Len(ledger), tx.token)
       /\ tx.balance = SumOf(Balances, tx.inputs) - tx.amount - tx.fee
  BY <1>6, <1>12 DEF privateBalance
<1> QED BY <1>8, <1>11, <1>12, <1>13, LandFits

(* Only a top-up or a send changes the ledger.                               *)
Lands ==
    /\ Growing
    /\ \E token \in Tokens, ka \in Seen : \E active \in GetActiveCommitments(ka, token), kn, ks \in Seen :
          \/ \E amount \in TopUps : TopUp(token, amount, active, kn, ks)
          \/ \E amount \in Sends, metadata \in BOOLEAN : Send(token, amount, metadata, active, kn, ks)

LEMMA LandsOrNot ==
    ASSUME [Next]_vars
    PROVE  Lands \/ UNCHANGED ledger
<1>1. CASE Lands
  BY <1>1
<1>2. CASE Refresh
  BY <1>2 DEF Refresh
<1>3. CASE \E n \in call.asked : Tell(n)
  BY <1>3 DEF Tell
<1>4. CASE NextRefresh
  BY <1>4 DEF NextRefresh
<1>5. CASE GetMostRecentTx
  BY <1>5 DEF GetMostRecentTx
<1>6. CASE \E token \in Tokens :
               \/ GetPrivateBalance("metadata", token, NoBefore)
               \/ \E before \in Befores(token) : GetPrivateBalance("history", token, before)
  BY <1>6 DEF GetPrivateBalance
<1>7. CASE \E n \in Gaps(0) : FillGap(n)
  BY <1>7 DEF FillGap
<1>8. CASE BatchFromTxHistory
  BY <1>8 DEF BatchFromTxHistory
<1>9. CASE BatchFromMetadata
  BY <1>9 DEF BatchFromMetadata
<1>10. CASE FetchedAll
  BY <1>10 DEF FetchedAll
<1>11. CASE UNCHANGED vars
  BY <1>11 DEF vars
<1> QED BY <1>1, <1>2, <1>3, <1>4, <1>5, <1>6, <1>7, <1>8, <1>9, <1>10, <1>11 DEF Next, Lands

(* Every step keeps the ledger's invariant.                                  *)
LEMMA LedgerNext == LedgerInv /\ [Next]_vars => LedgerInv'
<1> SUFFICES ASSUME LedgerInv, [Next]_vars PROVE LedgerInv'
  OBVIOUS
<1>1. CASE Lands
  <2>1. Growing
    BY <1>1 DEF Lands
  <2>2. PICK token \in Tokens, ka \in Seen : \E active \in GetActiveCommitments(ka, token), kn, ks \in Seen :
          \/ \E amount \in TopUps : TopUp(token, amount, active, kn, ks)
          \/ \E amount \in Sends, metadata \in BOOLEAN : Send(token, amount, metadata, active, kn, ks)
    BY <1>1 DEF Lands
  <2>3. ASSUME NEW active \in GetActiveCommitments(ka, token), NEW kn \in Seen, NEW ks \in Seen,
               NEW amount \in TopUps, TopUp(token, amount, active, kn, ks)
        PROVE  LedgerInv'
    BY <2>1, <2>3, TopUpKeepsLedger
  <2>4. ASSUME NEW active \in GetActiveCommitments(ka, token), NEW kn \in Seen, NEW ks \in Seen,
               NEW amount \in Sends, NEW metadata \in BOOLEAN, Send(token, amount, metadata, active, kn, ks)
        PROVE  LedgerInv'
    BY <2>1, <2>4, SendKeepsLedger
  <2> QED BY <2>2, <2>3, <2>4
<1>2. CASE UNCHANGED ledger
  <2>1. \A k, token : Unspent(k, token)' = Unspent(k, token)
    BY <1>2 DEF Unspent, OfToken, Spent
  <2>2. \A S : SumOf(Balances, S)' = SumOf(Balances, S)
    BY <1>2 DEF SumOf, Units, Balances
  <2>3. \A j, token, inputs : Spends(j, token, inputs)' = Spends(j, token, inputs)
    BY <1>2, <2>1, <2>2 DEF Spends
  <2>4. \A j : Balanced(j)' = Balanced(j)
    BY <1>2, <2>3 DEF Balanced
  <2>5. \A j : Numbered(j)' = Numbered(j)
    BY <1>2 DEF Numbered
  <2> QED BY <1>2, <2>4, <2>5 DEF LedgerInv
<1> QED BY <1>1, <1>2, LandsOrNot

(* THE LEDGER. Whatever lands, and however much each device has missed, a    *)
(* nonce is above all that its device must have seen and never skips one,    *)
(* and a send spends what was unspent of its token and keeps the rest of it. *)
THEOREM LedgerRight == Spec => []LedgerInv
<1>1. Init => LedgerInv
  BY LedgerInit
<1>2. LedgerInv /\ [Next]_vars => LedgerInv'
  BY LedgerNext
<1> QED BY <1>1, <1>2, PTL DEF Spec

(* What is spent landed before, and is of the same token.                    *)
LEMMA InputsBefore ==
    ASSUME LedgerInv, NEW j \in 1..Len(ledger)
    PROVE  /\ ledger[j].inputs \subseteq OfToken(1..(j - 1), ledger[j].token)
           /\ ledger[j].inputs \subseteq 1..(j - 1)
<1>1. Balanced(j)
  BY DEF LedgerInv
<1>2. Unspent(j - 1, ledger[j].token) \subseteq OfToken(1..(j - 1), ledger[j].token)
  BY DEF Unspent
<1>3. OfToken(1..(j - 1), ledger[j].token) \subseteq 1..(j - 1)
  BY DEF OfToken
<1> QED BY <1>1, <1>2, <1>3 DEF Balanced, Spends

-----------------------------------------------------------------------------
(* The j-th transaction takes with what it spends all of its token that was  *)
(* there by then and has a higher nonce.                                     *)
FromTop(j) ==
    \A z \in ledger[j].inputs : \A i \in OfToken(1..z, ledger[j].token) :
        ledger[i].nonce > ledger[z].nonce => i \in ledger[j].inputs

LandedInv == \A j \in 1..Len(ledger) : FromTop(j)

(* What is in the ledger stays so.                                           *)
LEMMA LandKeepsLanded ==
    ASSUME LedgerInv, LandedInv, NEW tx \in Txs, Land(tx),
           tx.inputs \subseteq 1..Len(ledger),
           \A z \in tx.inputs : \A i \in OfToken(1..z, tx.token) :
               ledger[i].nonce > ledger[z].nonce => i \in tx.inputs
    PROVE  LandedInv'
<1>0. PICK n : n = Len(ledger)
  OBVIOUS
<1>1. /\ ledger \in Seq(Txs) /\ n \in Nat /\ ledger' = Append(ledger, tx)
      /\ Len(ledger') = n + 1 /\ ledger'[n + 1] = tx
      /\ \A i \in 1..n : ledger'[i] = ledger[i]
  <2>1. ledger \in Seq(Txs) /\ ledger' = Append(ledger, tx)
    BY DEF LedgerInv, Land
  <2> QED BY <1>0, <2>1, AppendKeeps, Rows
<1>2. ASSUME NEW z \in 1..n, NEW token PROVE OfToken(1..z, token)' = OfToken(1..z, token)
  <2>1. z \in 0..Len(ledger)
    BY <1>0, <1>1
  <2> QED BY <1>1, <2>1, AppendKeepsSets
<1>3. ASSUME NEW z \in 1..n, NEW token, NEW i \in OfToken(1..z, token)
      PROVE  ledger'[i] = ledger[i] /\ ledger'[z] = ledger[z]
  BY <1>1 DEF OfToken
<1>4. ASSUME NEW j \in 1..n PROVE FromTop(j)'
  <2>1. FromTop(j) /\ ledger'[j] = ledger[j]
    BY <1>0, <1>1 DEF LandedInv
  <2>2. ledger[j].inputs \subseteq 1..n
    <3>1. ledger[j].inputs \subseteq 1..(j - 1)
      BY <1>0, InputsBefore
    <3> QED BY <1>1, <3>1
  <2>3. FromTop(j)'
    <3>1. PICK inputs, token : inputs = ledger[j].inputs /\ token = ledger[j].token
      OBVIOUS
    <3>2. ASSUME NEW z \in inputs, NEW i \in OfToken(1..z, token)', ledger'[i].nonce > ledger'[z].nonce
          PROVE  i \in inputs
      <4>1. z \in 1..n
        BY <2>2, <3>1
      <4>2. i \in OfToken(1..z, token)
        BY <1>2, <4>1
      <4>3. ledger'[i] = ledger[i] /\ ledger'[z] = ledger[z]
        BY <1>3, <4>1, <4>2
      <4> QED BY <2>1, <3>1, <3>2, <4>2, <4>3 DEF FromTop
    <3>3. ledger'[j].inputs = inputs /\ ledger'[j].token = token
      BY <2>1, <3>1
    <3>4. \A z : OfToken(1..z, ledger[j].token)' = OfToken(1..z, token)'
      BY <3>3 DEF OfToken
    <3> QED BY <3>2, <3>3, <3>4 DEF FromTop
  <2> QED BY <2>3
<1>5. FromTop(n + 1)'
  <2>1. PICK inputs, token : inputs = tx.inputs /\ token = tx.token
    OBVIOUS
  <2>2. ASSUME NEW z \in inputs, NEW i \in OfToken(1..z, token)', ledger'[i].nonce > ledger'[z].nonce
        PROVE  i \in inputs
    <3>1. z \in 1..n
      BY <1>0, <2>1
    <3>2. i \in OfToken(1..z, token)
      BY <1>2, <3>1
    <3>3. ledger'[i] = ledger[i] /\ ledger'[z] = ledger[z]
      BY <1>3, <3>1, <3>2
    <3> QED BY <2>1, <2>2, <3>2, <3>3
  <2>3. ledger'[n + 1].inputs = inputs /\ ledger'[n + 1].token = token
    BY <1>1, <2>1
  <2>4. \A z : OfToken(1..z, ledger[n + 1].token)' = OfToken(1..z, token)'
    BY <2>3 DEF OfToken
  <2> QED BY <2>2, <2>3, <2>4 DEF FromTop
<1>6. \A j \in 1..(n + 1) : j \in 1..n \/ j = n + 1
  BY <1>1
<1> QED BY <1>1, <1>4, <1>5, <1>6 DEF LandedInv

(* A top-up spends nothing.                                                  *)
LEMMA TopUpKeepsLanded ==
    ASSUME LedgerInv, LandedInv, NEW token \in Tokens, NEW amount \in TopUps, NEW active,
           NEW kn \in Seen, NEW ks \in Seen, TopUp(token, amount, active, kn, ks)
    PROVE  LandedInv'
<1> DEFINE tx == [nonce |-> NextNonce(kn), txType |-> "TOPUP", token |-> token, amount |-> amount,
                  fee |-> TxFee, metadata |-> FALSE, startIndex |-> ks, balance |-> amount, inputs |-> {}]
<1>1. kn \in 0..Len(ledger) /\ ks \in Nat /\ ks <= Len(ledger)
  BY Rows DEF LedgerInv, Seen
<1>2. NextNonce(kn) \in Nat
  BY <1>1, NextNonceIs
<1>3. amount \in Nat /\ TxFee \in Nat
  BY BalanceAssumption
<1>4. tx \in Txs
  BY <1>1, <1>2, <1>3 DEF Txs
<1>5. Land(tx)
  BY DEF TopUp
<1>6. tx.inputs = {}
  OBVIOUS
<1> HIDE DEF tx
<1> QED BY <1>4, <1>5, <1>6, LandKeepsLanded

(* A send spends active transactions.                                        *)
LEMMA SendKeepsLanded ==
    ASSUME LedgerInv, LandedInv, NEW token \in Tokens, NEW amount \in Sends, NEW metadata \in BOOLEAN,
           NEW ka \in Seen, NEW active \in GetActiveCommitments(ka, token),
           NEW kn \in Seen, NEW ks \in Seen, Send(token, amount, metadata, active, kn, ks)
    PROVE  LandedInv'
<1>0. PICK inputs, balance : /\ inputs = ToSet(active)
                             /\ balance = MapThenSumSet(LAMBDA i : ledger[i].balance, inputs)
  OBVIOUS
<1> DEFINE tx == [nonce |-> NextNonce(kn), txType |-> "SEND", token |-> token, amount |-> amount,
                  fee |-> TxFee, metadata |-> metadata, startIndex |-> ks,
                  balance |-> balance - amount - TxFee, inputs |-> inputs]
<1>1. /\ kn \in 0..Len(ledger) /\ ks \in Nat /\ ks <= Len(ledger) /\ ka \in 0..Len(ledger)
      /\ Len(ledger) \in Nat /\ DOMAIN ledger = 1..Len(ledger)
  BY Rows DEF LedgerInv, Seen
<1>2. NextNonce(kn) \in Nat
  BY <1>1, NextNonceIs
<1>3. amount \in Nat /\ TxFee \in Nat
  BY BalanceAssumption
<1>4. PICK laterFirst \in BOOLEAN : active = ActiveTxs(1..ka, token, laterFirst)
  BY DEF GetActiveCommitments
<1>5. \A i \in 1..ka : ledger[i].nonce \in Nat /\ ledger[i].nonce < NoBefore
  <2>1. \A i \in 1..Len(ledger) : ledger[i].nonce \in Nat /\ ledger[i].nonce < i /\ Len(ledger) <= MaxTxs
    BY <1>1, Rows DEF LedgerInv, Numbered
  <2> QED BY <1>1, <2>1, BalanceAssumption DEF NoBefore
<1>6. inputs \subseteq OfToken(1..ka, token) /\ inputs \subseteq 1..ka
  <2>1. ka \in Nat /\ \A i \in 1..ka : ledger[i].nonce \in Nat
    BY <1>1, <1>5
  <2>2. inputs \subseteq OfToken(1..ka, token)
    BY <1>0, <1>4, <2>1, ActiveInPlaces
  <2> QED BY <2>2 DEF OfToken
<1>7. ASSUME NEW z \in inputs, NEW i \in OfToken(1..z, token), ledger[i].nonce > ledger[z].nonce
      PROVE  i \in inputs
  <2>1. i \in OfToken(1..ka, token) /\ ka \in Nat
    BY <1>1, <1>6 DEF OfToken
  <2> QED BY <1>0, <1>4, <1>5, <1>7, <2>1, ActiveFromTop
<1>8. inputs \subseteq 1..Len(ledger) /\ inputs \in SUBSET Nat /\ IsFiniteSet(inputs)
  <2>1. inputs \subseteq 1..Len(ledger) /\ inputs \in SUBSET Nat
    BY <1>1, <1>6
  <2>2. IsFiniteSet(1..Len(ledger))
    BY <1>1, FS_Interval
  <2> QED BY <2>1, <2>2, FS_Subset
<1>9. balance >= amount + TxFee /\ Land(tx)
  BY <1>0 DEF Send
<1>10. balance \in Nat
  <2>1. \A i \in inputs : ledger[i].balance \in Nat /\ Balances[i] = ledger[i].balance
    BY <1>1, <1>8, Rows DEF LedgerInv, Balances
  <2>2. BalanceOf(inputs) = SumOf(Balances, inputs)
    BY <1>1, <1>8, <2>1, BalanceIsSum
  <2>3. SumOf(Balances, inputs) \in Nat
    BY <1>8, <2>1, SumType
  <2> QED BY <1>0, <2>2, <2>3 DEF BalanceOf
<1>11. tx \in Txs
  <2>1. balance - amount - TxFee \in Nat
    BY <1>3, <1>9, <1>10
  <2> QED BY <1>1, <1>2, <1>3, <1>8, <2>1 DEF Txs
<1>12. tx.inputs = inputs /\ tx.token = token
  OBVIOUS
<1> HIDE DEF tx
<1> QED BY <1>1, <1>7, <1>8, <1>9, <1>11, <1>12, LandKeepsLanded

(* Every step keeps the invariant of what has landed.                        *)
LEMMA LandedNext == LedgerInv /\ LandedInv /\ [Next]_vars => LandedInv'
<1> SUFFICES ASSUME LedgerInv, LandedInv, [Next]_vars PROVE LandedInv'
  OBVIOUS
<1>1. CASE Lands
  <2>1. PICK token \in Tokens, ka \in Seen : \E active \in GetActiveCommitments(ka, token), kn, ks \in Seen :
          \/ \E amount \in TopUps : TopUp(token, amount, active, kn, ks)
          \/ \E amount \in Sends, metadata \in BOOLEAN : Send(token, amount, metadata, active, kn, ks)
    BY <1>1 DEF Lands
  <2>2. ASSUME NEW active \in GetActiveCommitments(ka, token), NEW kn \in Seen, NEW ks \in Seen,
               NEW amount \in TopUps, TopUp(token, amount, active, kn, ks)
        PROVE  LandedInv'
    BY <2>2, TopUpKeepsLanded
  <2>3. ASSUME NEW active \in GetActiveCommitments(ka, token), NEW kn \in Seen, NEW ks \in Seen,
               NEW amount \in Sends, NEW metadata \in BOOLEAN, Send(token, amount, metadata, active, kn, ks)
        PROVE  LandedInv'
    BY <2>3, SendKeepsLanded
  <2> QED BY <2>1, <2>2, <2>3
<1>2. CASE UNCHANGED ledger
  <2>1. \A j : FromTop(j)' = FromTop(j)
    BY <1>2 DEF FromTop, OfToken
  <2> QED BY <1>2, <2>1 DEF LandedInv
<1> QED BY <1>1, <1>2, LandsOrNot

(* Of an empty ledger it holds.                                              *)
LEMMA LandedInit == Init => LandedInv
BY DEF Init, LandedInv

-----------------------------------------------------------------------------
(* A transaction takes what it spends from what is unspent, and adds what it *)
(* holds: the difference is what it is worth. A top-up adds what it holds; a *)
(* send holds what it spent but for what it sent and paid.                   *)
LEMMA SpendingConserves ==
    ASSUME LedgerInv, NEW j \in 1..Len(ledger), NEW U, U \subseteq 1..(j - 1), ledger[j].inputs \subseteq U
    PROVE  SumOf(Balances, (U \ ledger[j].inputs) \cup {j}) = SumOf(Balances, U) + Worth(ledger[j])
<1>0. PICK I : I = ledger[j].inputs
  OBVIOUS
<1>1. /\ DOMAIN ledger = 1..Len(ledger) /\ Len(ledger) \in Nat
      /\ \A i \in 1..Len(ledger) : Balances[i] = ledger[i].balance /\ Balances[i] \in Nat
      /\ ledger[j].amount \in Nat /\ ledger[j].fee \in Nat
  BY Rows DEF LedgerInv, Balances
<1>2. U \subseteq 1..Len(ledger) /\ IsFiniteSet(U) /\ IsFiniteSet(U \ I) /\ IsFiniteSet(I) /\ j \notin U
  <2>1. U \subseteq 1..Len(ledger) /\ j \notin U
    BY <1>1
  <2>2. IsFiniteSet(1..Len(ledger))
    BY <1>1, FS_Interval
  <2> QED BY <1>0, <2>1, <2>2, FS_Subset
<1>3. SumOf(Balances, (U \ I) \cup {j}) = SumOf(Balances, U \ I) + Balances[j]
  <2>1. j \notin U \ I /\ \A y \in U \ I : Balances[y] \in Nat
    BY <1>1, <1>2
  <2>2. Balances[j] \in Nat
    BY <1>1
  <2> QED BY <1>2, <2>1, <2>2, SumMore
<1>4. SumOf(Balances, U) \in Nat /\ SumOf(Balances, U \ I) \in Nat /\ SumOf(Balances, I) \in Nat
  <2>1. \A y \in U : Balances[y] \in Nat
    BY <1>1, <1>2
  <2>2. (\A y \in U \ I : Balances[y] \in Nat) /\ \A y \in I : Balances[y] \in Nat
    BY <1>0, <2>1
  <2> QED BY <1>2, <2>1, <2>2, SumType
<1>5. SumOf(Balances, U) = SumOf(Balances, U \ I) + SumOf(Balances, I)
  <2>1. (U \ I) \cup I = U /\ (U \ I) \cap I = {}
    BY <1>0
  <2>2. \A y \in (U \ I) \cup I : Balances[y] \in Nat
    BY <1>1, <1>2, <2>1
  <2>3. SumOf(Balances, (U \ I) \cup I) = SumOf(Balances, U \ I) + SumOf(Balances, I)
    BY <1>2, <2>1, <2>2, SumUnion
  <2> QED BY <2>1, <2>3
<1>6. PICK u, r, s : u = SumOf(Balances, U) /\ r = SumOf(Balances, U \ I) /\ s = SumOf(Balances, I)
  OBVIOUS
<1>7. PICK b, a, f : b = ledger[j].balance /\ a = ledger[j].amount /\ f = ledger[j].fee
  OBVIOUS
<1>8. u \in Int /\ r \in Int /\ s \in Int /\ u = r + s /\ b \in Int /\ a \in Int /\ f \in Int
  BY <1>1, <1>4, <1>5, <1>6, <1>7
<1>9. r + b = u + Worth(ledger[j])
  <2>1. Balanced(j)
    BY DEF LedgerInv
  <2>2. CASE ledger[j].txType = "TOPUP"
    <3>1. I = {} /\ b = a /\ Worth(ledger[j]) = a
      BY <1>0, <1>7, <2>1, <2>2 DEF Balanced, Worth
    <3>2. U \ I = U
      BY <3>1
    <3>3. r = u
      BY <1>6, <3>2
    <3> QED BY <1>8, <3>1, <3>3
  <2>3. CASE ledger[j].txType = "SEND"
    <3>1. b = s - a - f
      BY <1>0, <1>6, <1>7, <2>1, <2>3 DEF Balanced, Spends
    <3>2. Worth(ledger[j]) = -(a + f)
      BY <1>7, <2>3 DEF Worth
    <3> QED BY <1>8, <3>1, <3>2
  <2> QED BY <2>1, <2>2, <2>3 DEF Balanced
<1>10. SumOf(Balances, (U \ I) \cup {j}) = r + b
  BY <1>1, <1>3, <1>6, <1>7
<1> QED BY <1>0, <1>6, <1>9, <1>10

(* A set of transactions that has all they spend is worth what is unspent of *)
(* it: by induction on how many have landed.                                 *)
LEMMA ClosedConserves ==
    ASSUME LedgerInv, NEW C, C \subseteq 1..Len(ledger), \A j \in C : ledger[j].inputs \subseteq C
    PROVE  WorthOf(C) = SumOf(Balances, C \ Spent(C))
<1>0. PICK n : n = Len(ledger) /\ n \in Nat
  BY Rows DEF LedgerInv
<1> DEFINE upTo(m) == C \cap (1..m)
           Right(m) == WorthOf(upTo(m)) = SumOf(Balances, upTo(m) \ Spent(upTo(m)))
           S == {m \in Nat : m <= n => Right(m)}
<1>1. DOMAIN ledger = 1..n /\ Priced
  BY <1>0, Rows DEF LedgerInv
<1>2. 0 \in S
  <2>1. upTo(0) = {}
    OBVIOUS
  <2>2. upTo(0) \ Spent(upTo(0)) = {}
    BY <2>1
  <2>3. Right(0)
    BY <2>1, <2>2, WorthNone, SumNone
  <2> QED BY <2>3
<1>3. ASSUME NEW m \in S PROVE m + 1 \in S
  <2> SUFFICES ASSUME m \in Nat, m + 1 <= n, Right(m) PROVE Right(m + 1)
    BY <1>0
  <2> DEFINE j == m + 1
             P == upTo(m)
             U == P \ Spent(P)
  <2>1. j \in 1..n /\ j - 1 = m /\ 1..j = (1..m) \cup {j} /\ j \notin 1..m
    BY <1>0
  <2>2. /\ ledger[j].inputs \subseteq 1..m
        /\ ledger[j].inputs \cap Spent(1..m) = {}
        /\ j \in 1..Len(ledger)
    <3>1. j \in 1..Len(ledger) /\ Balanced(j)
      BY <1>0, <2>1 DEF LedgerInv
    <3>2. ledger[j].inputs \subseteq 1..m
      BY <2>1, <3>1, InputsBefore
    <3>3. ledger[j].inputs = {} \/ \E token : ledger[j].inputs \subseteq Unspent(m, token)
      BY <2>1, <3>1 DEF Balanced, Spends
    <3> QED BY <3>1, <3>2, <3>3 DEF Unspent
  <2>3. CASE j \notin C
    <3>1. upTo(j) = P
      BY <2>1, <2>3
    <3> QED BY <3>1
  <2>4. CASE j \in C
    <3>1. upTo(j) = P \cup {j} /\ j \notin P
      BY <2>1, <2>4
    <3>2. Spent(P \cup {j}) = Spent(P) \cup ledger[j].inputs
      <4> DEFINE inputs(i) == ledger[i].inputs
      <4>1. UNION {inputs(i) : i \in P \cup {j}} = (UNION {inputs(i) : i \in P}) \cup inputs(j)
        <5> HIDE DEF inputs, P
        <5> QED OBVIOUS
      <4> QED BY <4>1 DEF Spent
    <3>3. ledger[j].inputs \subseteq U
      <4>1. ledger[j].inputs \subseteq P
        BY <2>2, <2>4
      <4>2. Spent(P) \subseteq Spent(1..m)
        <5>1. \A i \in P : i \in 1..m
          OBVIOUS
        <5> HIDE DEF P
        <5> QED BY <5>1 DEF Spent
      <4> QED BY <2>2, <4>1, <4>2
    <3>4. j \notin Spent(P) \cup ledger[j].inputs
      <4>1. \A i \in P : i \in 1..Len(ledger) /\ i \in 1..m
        BY <1>0
      <4>2. ASSUME NEW i \in P PROVE j \notin ledger[i].inputs
        <5>1. ledger[i].inputs \subseteq 1..(i - 1)
          BY <4>1, InputsBefore
        <5>2. j \notin 1..(i - 1)
          BY <4>1
        <5> QED BY <5>1, <5>2
      <4>3. j \notin ledger[j].inputs
        BY <2>1, <2>2
      <4> HIDE DEF P
      <4> QED BY <4>2, <4>3 DEF Spent
    <3>5. upTo(j) \ Spent(upTo(j)) = (U \ ledger[j].inputs) \cup {j}
      <4>1. upTo(j) \ Spent(upTo(j)) = (P \cup {j}) \ (Spent(P) \cup ledger[j].inputs)
        BY <3>1, <3>2
      <4> HIDE DEF P, j, upTo
      <4> QED BY <3>4, <4>1
    <3>6. /\ WorthOf(P \cup {j}) = WorthOf(P) + Worth(ledger[j])
      <4>1. P \subseteq DOMAIN ledger /\ IsFiniteSet(P) /\ j \in DOMAIN ledger
        <5>1. IsFiniteSet(1..m)
          BY FS_Interval
        <5>2. P \subseteq 1..m /\ P \subseteq DOMAIN ledger
          BY <1>0, <1>1
        <5> QED BY <1>1, <2>1, <5>1, <5>2, FS_Subset
      <4> HIDE DEF P, j
      <4> QED BY <1>1, <3>1, <4>1, WorthMore
    <3>7. SumOf(Balances, (U \ ledger[j].inputs) \cup {j}) = SumOf(Balances, U) + Worth(ledger[j])
      <4>1. U \subseteq 1..(j - 1)
        BY <2>1
      <4> HIDE DEF U, j
      <4> QED BY <2>2, <3>3, <4>1, SpendingConserves
    <3> HIDE DEF P, U, j, upTo
    <3>8. WorthOf(P) = SumOf(Balances, U)
      BY DEF P, U
    <3>9. WorthOf(upTo(j)) = SumOf(Balances, upTo(j) \ Spent(upTo(j)))
      BY <3>1, <3>5, <3>6, <3>7, <3>8
    <3> QED BY <3>9 DEF j
  <2> QED BY <2>3, <2>4
<1>4. n \in S
  <2> HIDE DEF S
  <2>1. S \subseteq Nat
    BY DEF S
  <2> QED BY <1>0, <1>2, <1>3, <2>1, AllNumbers
<1>5. upTo(n) = C
  BY <1>0
<1>6. Right(n)
  BY <1>0, <1>4
<1> HIDE DEF upTo
<1> QED BY <1>5, <1>6

(* What all transactions of a token are worth together is what those that    *)
(* are not spent hold.                                                       *)
LEMMA Conserved ==
    ASSUME LedgerInv, NEW token
    PROVE  \A m \in 0..Len(ledger) : WorthOf(OfToken(1..m, token)) = SumOf(Balances, Unspent(m, token))
<1> SUFFICES ASSUME NEW m \in 0..Len(ledger)
             PROVE  WorthOf(OfToken(1..m, token)) = SumOf(Balances, Unspent(m, token))
  OBVIOUS
<1>1. Len(ledger) \in Nat
  BY Rows DEF LedgerInv
<1>2. \A j \in 1..m : j \in 1..Len(ledger)
  BY <1>1
<1>3. OfToken(1..m, token) \subseteq 1..m /\ OfToken(1..m, token) \subseteq 1..Len(ledger)
  BY <1>2 DEF OfToken
<1>4. ASSUME NEW j \in 1..m
      PROVE  /\ ledger[j].inputs \subseteq OfToken(1..m, ledger[j].token)
  <2>1. ledger[j].inputs \subseteq OfToken(1..(j - 1), ledger[j].token)
    BY <1>2, InputsBefore
  <2>2. OfToken(1..(j - 1), ledger[j].token) \subseteq OfToken(1..m, ledger[j].token)
    BY <1>1 DEF OfToken
  <2> QED BY <2>1, <2>2
<1>5. \A j \in OfToken(1..m, token) : ledger[j].inputs \subseteq OfToken(1..m, token)
  BY <1>3, <1>4 DEF OfToken
<1>6. OfToken(1..m, token) \ Spent(OfToken(1..m, token)) = Unspent(m, token)
  <2>1. \A j \in 1..m : ledger[j].token # token => ledger[j].inputs \cap OfToken(1..m, token) = {}
    BY <1>4 DEF OfToken
  <2>2. \A j \in 1..m : ledger[j].token = token => j \in OfToken(1..m, token)
    BY DEF OfToken
  <2>3. ASSUME NEW i \in OfToken(1..m, token) PROVE i \in Spent(1..m) <=> i \in Spent(OfToken(1..m, token))
    <3>1. ASSUME NEW j \in 1..m, i \in ledger[j].inputs PROVE j \in OfToken(1..m, token)
      BY <2>1, <2>2, <3>1
    <3> QED BY <1>3, <3>1 DEF Spent
  <2> QED BY <2>3 DEF Unspent
<1> QED BY <1>3, <1>5, <1>6, ClosedConserves

(* The same with the sum that the model computes.                            *)
LEMMA HistoryIsUnspent ==
    ASSUME LedgerInv, NEW token, NEW m \in 0..Len(ledger)
    PROVE  WorthOf(OfToken(1..m, token)) = UnspentBalance(m, token)
<1>1. /\ Len(ledger) \in Nat /\ DOMAIN ledger = 1..Len(ledger) /\ m \in Nat /\ m <= Len(ledger)
      /\ \A i \in 1..Len(ledger) : ledger[i].balance \in Nat
  BY Rows DEF LedgerInv
<1>2. Unspent(m, token) \subseteq DOMAIN ledger /\ IsFiniteSet(Unspent(m, token))
  BY <1>1, PlacesIn
<1>3. BalanceOf(Unspent(m, token)) = SumOf(Balances, Unspent(m, token))
  BY <1>1, <1>2, BalanceIsSum
<1>4. UnspentBalance(m, token) = BalanceOf(Unspent(m, token))
  BY DEF UnspentBalance, BalanceOf
<1> QED BY <1>3, <1>4, Conserved

(* What all transactions of a token are worth is what is unspent.            *)
Conserving ==
    \A token \in Tokens : \A k \in 0..Len(ledger) :
        WorthOf(OfToken(1..k, token)) = UnspentBalance(k, token)

(* THE SUM OVER THE HISTORY of a token, which both computations rest on, is  *)
(* what its unspent commitments hold, after every transaction that lands and *)
(* however many each device has missed.                                      *)
THEOREM HistoryConserves == Spec => []Conserving
<1>1. LedgerInv => Conserving
  BY HistoryIsUnspent DEF Conserving
<1> QED BY <1>1, LedgerRight, PTL
-----------------------------------------------------------------------------
(* The calls of an instance.                                                 *)

(* Nonces leave no gap: every nonce below one is there, and landed before it.*)
LEMMA NoncesFilled ==
    ASSUME LedgerInv
    PROVE  \A i \in 1..Len(ledger) : \A n \in 0..ledger[i].nonce :
               \E j \in 1..i : ledger[j].nonce = n
<1> DEFINE Filling(i) == \A n \in 0..ledger[i].nonce : \E j \in 1..i : ledger[j].nonce = n
           S == {i \in 1..Len(ledger) : ~Filling(i)}
<1>0. /\ Len(ledger) \in Nat
      /\ \A i \in 1..Len(ledger) : ledger[i].nonce \in Nat
      /\ \A i \in 1..Len(ledger) : Numbered(i)
  BY Rows DEF LedgerInv
<1>1. S = {}
  <2> SUFFICES ASSUME S # {} PROVE FALSE
    OBVIOUS
  <2>1. S \subseteq Nat
    BY <1>0
  <2>2. PICK i \in S : \A l \in S : i <= l
    <3> HIDE DEF S
    <3> QED BY <2>1, Least
  <2>3. i \in 1..Len(ledger) /\ ~Filling(i)
    BY <2>2
  <2>4. \A l \in 1..(i - 1) : Filling(l)
    <3> SUFFICES ASSUME NEW l \in 1..(i - 1), ~Filling(l) PROVE FALSE
      OBVIOUS
    <3>1. l \in S /\ l < i
      BY <1>0, <2>3
    <3> HIDE DEF S, Filling
    <3> QED BY <2>2, <2>3, <3>1
  <2>5. PICK n \in 0..ledger[i].nonce : ~\E j \in 1..i : ledger[j].nonce = n
    BY <2>3
  <2>6. ledger[i].nonce # n /\ i \in 1..i
    BY <1>0, <2>3, <2>5
  <2>7. PICK l \in 1..(i - 1) : ledger[i].nonce = ledger[l].nonce + 1
    BY <1>0, <2>3, <2>5, <2>6 DEF Numbered
  <2>8. ledger[l].nonce \in Nat
    BY <1>0, <2>3
  <2>9. n \in 0..ledger[l].nonce
    BY <1>0, <2>3, <2>5, <2>6, <2>7, <2>8
  <2>10. PICK j \in 1..l : ledger[j].nonce = n
    BY <2>4, <2>9
  <2>11. j \in 1..i
    BY <1>0, <2>3
  <2> QED BY <2>5, <2>10, <2>11
<1> QED BY <1>1

(* The newest nonce of some places, if they are what is cached.              *)
Latest(C) == Max({-1} \cup {ledger[i].nonce : i \in C})

LEMMA LatestIs ==
    ASSUME LedgerInv, NEW C, C \subseteq 1..Len(ledger)
    PROVE  /\ Latest(C) \in Int /\ Latest(C) >= -1 /\ Latest(C) < NoBefore
           /\ \A i \in C : ledger[i].nonce <= Latest(C)
           /\ Latest(C) = -1 \/ \E i \in C : ledger[i].nonce = Latest(C)
<1>0. /\ Len(ledger) \in Nat /\ MaxTxs \in Nat /\ Len(ledger) <= MaxTxs
      /\ \A i \in 1..Len(ledger) : ledger[i].nonce \in Nat /\ ledger[i].nonce < i
  BY Rows, BalanceAssumption DEF LedgerInv, Numbered
<1> DEFINE N == {ledger[i].nonce : i \in C}
           S == {-1} \cup N
           T == {n + 2 : n \in S}
<1>1. \A s \in S : s \in Int /\ s >= -1 /\ s < Len(ledger)
  <2>1. ASSUME NEW i \in C
        PROVE  ledger[i].nonce \in Int /\ ledger[i].nonce >= -1 /\ ledger[i].nonce < Len(ledger)
    <3>1. i \in 1..Len(ledger)
      OBVIOUS
    <3> QED BY <1>0, <3>1
  <2>2. -1 \in Int /\ -1 >= -1 /\ -1 < Len(ledger)
    BY <1>0
  <2> QED BY <2>1, <2>2
<1>2. T \subseteq 1..(Len(ledger) + 1) /\ T # {} /\ Len(ledger) + 1 \in Nat
  <2>1. -1 \in S
    OBVIOUS
  <2>2. ASSUME NEW n \in S PROVE n + 2 \in 1..(Len(ledger) + 1)
    <3> HIDE DEF S
    <3> QED BY <1>0, <1>1
  <2> HIDE DEF S
  <2> QED BY <1>0, <2>1, <2>2
<1>3. PICK t \in T : \A u \in T : u <= t
  <2> HIDE DEF T
  <2> QED BY <1>2, Greatest
<1>4. PICK s \in S : t = s + 2
  BY <1>3
<1>5. \A r \in S : r <= s
  <2> SUFFICES ASSUME NEW r \in S PROVE r <= s
    OBVIOUS
  <2>1. r + 2 \in T
    OBVIOUS
  <2>2. r + 2 <= s + 2
    BY <1>3, <1>4, <2>1
  <2> HIDE DEF S, T
  <2> QED BY <1>1, <2>2
<1>6. Latest(C) = Max(S)
  BY DEF Latest
<1>7. Max(S) \in S /\ \A r \in S : Max(S) >= r
  <2>1. \A r \in S : s >= r
    <3> HIDE DEF S
    <3> QED BY <1>1, <1>5
  <2> HIDE DEF S
  <2> QED BY <1>4, <2>1 DEF Max
<1>8. Latest(C) \in S /\ \A r \in S : Latest(C) >= r
  <2> HIDE DEF S
  <2> QED BY <1>6, <1>7
<1>9. \A i \in C : ledger[i].nonce \in S
  OBVIOUS
<1>10. Latest(C) \in Int /\ Latest(C) >= -1 /\ Latest(C) < Len(ledger)
  <2> HIDE DEF S
  <2> QED BY <1>1, <1>8
<1>11. \A i \in C : ledger[i].nonce <= Latest(C)
  <2>1. \A i \in C : Latest(C) >= ledger[i].nonce
    <3> HIDE DEF S
    <3> QED BY <1>8, <1>9
  <2>2. \A i \in C : ledger[i].nonce \in Int
    BY <1>0
  <2> QED BY <1>10, <2>1, <2>2
<1>12. Latest(C) = -1 \/ \E i \in C : ledger[i].nonce = Latest(C)
  <2>1. Latest(C) \in N \/ Latest(C) = -1
    BY <1>8
  <2> QED BY <2>1
<1> QED BY <1>0, <1>10, <1>11, <1>12 DEF NoBefore
(* A batch: nothing if nothing is left, or the newest of what is left.       *)
LEMMA BatchIs ==
    ASSUME LedgerInv, cache \subseteq 1..Len(ledger), NEW token, NEW before \in Int, NEW laterFirst \in BOOLEAN,
           NEW P, P = FetchPlaces(cache, token, before),
           NEW batch, batch = FetchTxs(cache, BatchSize, token, before, laterFirst)
    PROVE  /\ P \subseteq 1..Len(ledger) /\ IsFiniteSet(P)
           /\ P = {} => SumOfWorth(batch) = 0 /\ LowestFetchedNonce(batch) = -1
           /\ P # {} => \E B \in SUBSET P : \E i \in B :
                  /\ LowestFetchedNonce(batch) = ledger[i].nonce
                  /\ SumOfWorth(batch) = WorthOf(B)
                  /\ B = {l \in P : ledger[l].nonce >= ledger[i].nonce}
<1>1. /\ Len(ledger) \in Nat /\ DOMAIN ledger = 1..Len(ledger) /\ Priced
      /\ \A i \in 1..Len(ledger) : ledger[i].nonce \in Nat
      /\ BatchSize \in Nat \ {0}
  BY Rows, BalanceAssumption DEF LedgerInv
<1>2. P \subseteq 1..Len(ledger)
  BY DEF FetchPlaces, OfToken
<1>3. IsFiniteSet(P)
  BY <1>1, FetchTxsIsFetched
<1>4. PICK n \in Nat : Fetched(batch, n, P, BatchSize)
  BY <1>1, FetchTxsIsFetched
<1>5. /\ batch \in [1..n -> P]
      /\ \A a, b \in 1..n : batch[a] = batch[b] => a = b
      /\ \A i \in P, a \in 1..n : ledger[i].nonce >= ledger[batch[a]].nonce
             => \E b \in 1..n : batch[b] = i
      /\ n >= BatchSize \/ \A i \in P : \E b \in 1..n : batch[b] = i
  BY <1>4 DEF Fetched
<1>6. Len(batch) = n /\ batch \in Seq(P)
  BY <1>5, FunctionIsSequence
<1> DEFINE B == {batch[a] : a \in 1..n}
<1>7. SumOfWorth(batch) = WorthOf(B)
  <2>1. batch \in [1..n -> DOMAIN ledger]
    BY <1>1, <1>2, <1>5
  <2> QED BY <1>1, <1>5, <2>1, SumOfWorthIsWorth
<1>8. CASE P = {}
  <2>1. n = 0
    BY <1>5, <1>8
  <2>2. batch = <<>>
    BY <1>6, <2>1
  <2>3. B = {}
    BY <2>1
  <2> QED BY <1>2, <1>3, <1>7, <1>8, <2>2, <2>3, WorthNone DEF LowestFetchedNonce
<1>9. CASE P # {}
  <2>1. n # 0
    BY <1>1, <1>5, <1>9
  <2> DEFINE N == {ledger[batch[a]].nonce : a \in 1..n}
  <2>2. N \subseteq Nat /\ N # {}
    <3>1. \A a \in 1..n : batch[a] \in 1..Len(ledger)
      BY <1>2, <1>5
    <3> QED BY <1>1, <2>1, <3>1
  <2>3. PICK lowest \in N : \A l \in N : lowest <= l
    <3> HIDE DEF N
    <3> QED BY <2>2, Least
  <2>4. LowestFetchedNonce(batch) \in N /\ \A l \in N : LowestFetchedNonce(batch) <= l
    <3>1. batch # <<>>
      BY <1>6, <2>1
    <3>2. LowestFetchedNonce(batch) = Min(N)
      BY <1>6, <3>1 DEF LowestFetchedNonce
    <3> HIDE DEF N
    <3> QED BY <2>3, <3>2 DEF Min
  <2>5. PICK a \in 1..n : LowestFetchedNonce(batch) = ledger[batch[a]].nonce
    BY <2>4
  <2>6. PICK i : i = batch[a]
    OBVIOUS
  <2>7. B \in SUBSET P /\ i \in B
    BY <1>5, <2>6
  <2>8. B = {l \in P : ledger[l].nonce >= ledger[i].nonce}
    <3>1. ASSUME NEW l \in B PROVE ledger[l].nonce >= ledger[i].nonce
      <4>1. ledger[l].nonce \in N
        OBVIOUS
      <4>2. ledger[i].nonce <= ledger[l].nonce
        BY <2>4, <2>5, <2>6, <4>1
      <4>3. ledger[l].nonce \in Nat /\ ledger[i].nonce \in Nat
        BY <1>1, <1>2, <2>7
      <4> QED BY <4>2, <4>3
    <3>2. ASSUME NEW l \in P, ledger[l].nonce >= ledger[i].nonce PROVE l \in B
      BY <1>5, <2>6, <3>2
    <3> QED BY <2>7, <3>1, <3>2
  <2> HIDE DEF B
  <2>9. LowestFetchedNonce(batch) = ledger[i].nonce
    BY <2>5, <2>6
  <2> QED BY <1>2, <1>3, <1>7, <1>9, <2>7, <2>8, <2>9
<1> QED BY <1>8, <1>9


(* What a computation counts down to a nonce, of what is cached.             *)
CountedOf(low) ==
    {i \in OfToken(cache, call.token) : ledger[i].nonce >= low /\ ledger[i].nonce < call.before}

(* All that had landed when the call began is not newer than what is cached. *)
ToldSince == \A i \in 1..call.since : ledger[i].nonce <= LatestCachedNonce

(* Something is cached of each nonce from one up to where the call begins.   *)
NoGap(low) == \A n \in 0..LatestCachedNonce : n >= low /\ n < call.before => IsCachedNonce(n)

(* What the fields of a call may be.                                         *)
CallRight ==
    /\ DOMAIN call = {"pc", "fn", "token", "before", "since", "asked", "next", "told",
                      "lowest", "total", "result"}
    /\ cache \subseteq 1..Len(ledger)
    /\ call.since \in 0..Len(ledger)
    /\ call.pc # "refreshing" => call.asked = {}
    /\ call.before \in Nat
    /\ call.lowest \in Int /\ call.lowest >= -1 /\ call.lowest <= call.before

(* A refresh has left behind nothing that had landed when it began; if its   *)
(* last batch told of nothing, there was nothing in it.                      *)
RefreshRight ==
    /\ call.next \in Nat /\ call.next >= RefreshSize /\ call.told \in BOOLEAN
    /\ \A i \in 1..call.since :
           \/ ledger[i].nonce <= LatestCachedNonce
           \/ ledger[i].nonce \in call.asked
           \/ ledger[i].nonce >= call.next
    /\ ~call.told =>
           \A i \in 1..call.since :
               \/ ledger[i].nonce < call.next - RefreshSize
               \/ ledger[i].nonce \in call.asked
               \/ ledger[i].nonce >= call.next

(* The invariant of the calls.                                               *)
CallInv ==
    /\ CallRight
    /\ call.pc = "refreshing" => RefreshRight
    /\ call.pc \in {"fetching", "done"} /\ call.before = NoBefore => ToldSince
    /\ call.pc = "fetching" => NoGap(call.lowest) /\ call.total = WorthOf(CountedOf(call.lowest))
    /\ call.pc = "done" /\ call.fn = "history" => NoGap(0) /\ call.result = WorthOf(CountedOf(0))

(* What is cached is a part of the ledger, so it has a worth.                *)
LEMMA CountedIs ==
    ASSUME LedgerInv, CallRight, NEW low
    PROVE  /\ CountedOf(low) \subseteq 1..Len(ledger) /\ CountedOf(low) \subseteq DOMAIN ledger
           /\ IsFiniteSet(CountedOf(low))
<1>1. CountedOf(low) \subseteq 1..Len(ledger)
  BY DEF CountedOf, OfToken, CallRight
<1>2. Len(ledger) \in Nat /\ DOMAIN ledger = 1..Len(ledger)
  BY Rows DEF LedgerInv
<1>3. IsFiniteSet(1..Len(ledger))
  BY <1>2, FS_Interval
<1> QED BY <1>1, <1>2, <1>3, FS_Subset

(* Before anything is asked nothing is cached.                               *)
LEMMA CallInit == Init => CallInv
<1> SUFFICES ASSUME Init PROVE CallInv
  OBVIOUS
<1>1. ledger = <<>> /\ cache = {} /\ call = Idle
  BY DEF Init
<1>2. call.pc = "idle" /\ MaxTxs \in Nat
  BY <1>1, BalanceAssumption DEF Idle
<1>3. CallRight
  BY <1>1, BalanceAssumption DEF CallRight, Idle, NoBefore
<1> QED BY <1>2, <1>3 DEF CallInv

(* A step that leaves the ledger's beginning, the cache and the call as they *)
(* are keeps the invariant.                                                  *)
LEMMA KeptInv ==
    ASSUME LedgerInv, CallInv, UNCHANGED <<cache, call>>,
           Len(ledger') \in Nat, Len(ledger') >= Len(ledger),
           \A i \in 1..Len(ledger) : ledger'[i] = ledger[i],
           \A S \in SUBSET (1..Len(ledger)) : WorthOf(S)' = WorthOf(S)
    PROVE  CallInv'
<1>0. /\ CallRight /\ cache' = cache /\ call' = call /\ Len(ledger) \in Nat
      /\ cache \subseteq 1..Len(ledger) /\ call.since \in 0..Len(ledger)
  BY Rows DEF CallInv, CallRight, LedgerInv
<1>1. LatestCachedNonce' = LatestCachedNonce
  <2>1. {ledger'[i].nonce : i \in cache'} = {ledger[i].nonce : i \in cache}
    BY <1>0
  <2> QED BY <2>1 DEF LatestCachedNonce
<1>2. \A n : IsCachedNonce(n)' <=> IsCachedNonce(n)
  BY <1>0 DEF IsCachedNonce
<1>3. \A low : CountedOf(low)' = CountedOf(low)
  BY <1>0 DEF CountedOf, OfToken
<1>4. \A low : WorthOf(CountedOf(low))' = WorthOf(CountedOf(low))
  <2> SUFFICES ASSUME NEW low PROVE WorthOf(CountedOf(low))' = WorthOf(CountedOf(low))
    OBVIOUS
  <2>1. CountedOf(low) \in SUBSET (1..Len(ledger))
    BY <1>0, CountedIs
  <2>2. PICK S : S = CountedOf(low)
    OBVIOUS
  <2>3. WorthOf(S)' = WorthOf(S)
    BY <2>1, <2>2
  <2>4. CountedOf(low)' = S
    BY <1>3, <2>2
  <2>5. WorthOf(CountedOf(low))' = WorthOf(S)'
    BY <2>4 DEF WorthOf, SumOf, Units
  <2> QED BY <2>2, <2>3, <2>5
<1>5. \A low : NoGap(low)' <=> NoGap(low)
  BY <1>0, <1>1, <1>2 DEF NoGap
<1>6. ToldSince' <=> ToldSince
  BY <1>0, <1>1 DEF ToldSince
<1>7. RefreshRight' <=> RefreshRight
  BY <1>0, <1>1 DEF RefreshRight
<1>8. CallRight'
  BY <1>0 DEF CallRight
<1> QED BY <1>0, <1>4, <1>5, <1>6, <1>7, <1>8 DEF CallInv

(* What lands changes nothing that a call knows.                             *)
LEMMA LandKeepsCall == LedgerInv /\ CallInv /\ Lands => CallInv'
<1> SUFFICES ASSUME LedgerInv, CallInv, Lands PROVE CallInv'
  OBVIOUS
<1>1. PICK tx : Land(tx)
  BY DEF Lands, TopUp, Send
<1>2. UNCHANGED <<cache, call>> /\ ledger' = Append(ledger, tx) /\ ledger \in Seq(Txs)
  BY <1>1 DEF Land, LedgerInv
<1>3. /\ Len(ledger') = Len(ledger) + 1 /\ Len(ledger) \in Nat
      /\ \A i \in 1..Len(ledger) : ledger'[i] = ledger[i]
  BY <1>2, AppendKeeps
<1>4. \A S \in SUBSET (1..Len(ledger)) : WorthOf(S)' = WorthOf(S)
  BY <1>2, AppendKeepsSums
<1> QED BY <1>2, <1>3, <1>4, KeptInv

(* A refresh begins with the nonces after the newest that is cached.         *)
LEMMA RefreshKeepsCall == LedgerInv /\ CallInv /\ Refresh => CallInv'
<1> SUFFICES ASSUME LedgerInv, CallInv, Refresh PROVE CallInv'
  OBVIOUS
<1> DEFINE L == LatestCachedNonce
<1>0. /\ RefreshSize \in Nat \ {0} /\ MaxTxs \in Nat
      /\ cache \subseteq 1..Len(ledger) /\ Len(ledger) \in Nat
      /\ \A i \in 1..Len(ledger) : ledger[i].nonce \in Nat
  BY Rows, BalanceAssumption DEF CallInv, CallRight, LedgerInv
<1>1. L \in Int /\ L >= -1
  <2>1. L = Latest(cache)
    BY DEF LatestCachedNonce, Latest
  <2> HIDE DEF L
  <2> QED BY <1>0, <2>1, LatestIs
<1>2. UNCHANGED <<ledger, cache>>
  BY DEF Refresh
<1> HIDE DEF L
<1>3. call' = AskBatch([Idle EXCEPT !.pc = "refreshing", !.since = Len(ledger)], L + 1)
  BY DEF Refresh, L
<1>4. /\ DOMAIN call' = {"pc", "fn", "token", "before", "since", "asked", "next", "told",
                         "lowest", "total", "result"}
      /\ call'.pc = "refreshing" /\ call'.since = Len(ledger)
      /\ call'.asked = L + 1..L + 1 + RefreshSize - 1
      /\ call'.next = L + 1 + RefreshSize /\ call'.told = FALSE
      /\ call'.before = NoBefore /\ call'.lowest = NoBefore
  BY <1>3 DEF AskBatch, Idle
<1>5. CallRight'
  BY <1>0, <1>2, <1>4 DEF CallRight, NoBefore
<1>6. LatestCachedNonce' = L
  BY <1>2 DEF LatestCachedNonce, L
<1>7. RefreshRight'
  <2>1. call'.next \in Nat /\ call'.next >= RefreshSize
    <3>1. call'.next = L + 1 + RefreshSize
      BY <1>4
    <3> QED BY <1>0, <1>1, <3>1
  <2>3. call'.told \in BOOLEAN
    BY <1>4
  <2>2. ASSUME NEW i \in 1..Len(ledger)
        PROVE  /\ \/ ledger[i].nonce <= L
                  \/ ledger[i].nonce \in call'.asked
                  \/ ledger[i].nonce >= call'.next
               /\ \/ ledger[i].nonce < call'.next - RefreshSize
                  \/ ledger[i].nonce \in call'.asked
                  \/ ledger[i].nonce >= call'.next
    BY <1>0, <1>1, <1>4
  <2> QED BY <1>2, <1>4, <1>6, <2>1, <2>2, <2>3 DEF RefreshRight
<1> QED BY <1>4, <1>5, <1>7 DEF CallInv

(* What is told of a nonce is cached, whatever else has landed.              *)
LEMMA TellKeepsCall ==
    ASSUME LedgerInv, CallInv, NEW n \in call.asked, Tell(n) PROVE CallInv'
<1> DEFINE L == LatestCachedNonce
<1>0. /\ CallRight /\ call.pc = "refreshing" /\ RefreshRight
      /\ cache \subseteq 1..Len(ledger) /\ Len(ledger) \in Nat
      /\ \A i \in 1..Len(ledger) : ledger[i].nonce \in Nat
  BY Rows DEF CallInv, CallRight, LedgerInv
<1>1. /\ ledger' = ledger /\ cache' = cache \cup OfNonce(n)
      /\ call' = [call EXCEPT !.asked = @ \ {n}, !.told = @ \/ OfNonce(n) # {}]
  BY DEF Tell
<1>2. /\ DOMAIN call' = DOMAIN call /\ call'.pc = "refreshing" /\ call'.since = call.since
      /\ call'.asked = call.asked \ {n} /\ call'.told = (call.told \/ OfNonce(n) # {})
      /\ call'.next = call.next /\ call'.before = call.before /\ call'.lowest = call.lowest
  BY <1>0, <1>1 DEF CallRight
<1>3. cache' \subseteq 1..Len(ledger)
  BY <1>0, <1>1 DEF OfNonce
<1>4. CallRight'
  BY <1>0, <1>1, <1>2, <1>3 DEF CallRight
<1>5. /\ L \in Int /\ L' \in Int
      /\ \A i \in cache' : ledger[i].nonce <= L'
      /\ L <= L'
  <2>1. PICK C : C = cache'
    OBVIOUS
  <2>2. L = Latest(cache) /\ L' = Latest(C)
    BY <1>1, <2>1 DEF LatestCachedNonce, Latest
  <2> HIDE DEF L
  <2>3. /\ L \in Int /\ (L = -1 \/ \E i \in cache : ledger[i].nonce = L)
        /\ L' \in Int /\ L' >= -1 /\ \A i \in C : ledger[i].nonce <= L'
    BY <1>0, <1>3, <2>1, <2>2, LatestIs
  <2>4. cache \subseteq C
    BY <1>1, <2>1
  <2> QED BY <2>1, <2>3, <2>4
<1> HIDE DEF L
<1>6. ASSUME NEW i \in 1..call.since, ledger[i].nonce = n
      PROVE  ledger[i].nonce <= L' /\ call'.told
  <2>1. i \in 1..Len(ledger)
    BY <1>0 DEF CallRight
  <2>2. i \in OfNonce(n)
    BY <1>6, <2>1 DEF OfNonce
  <2> QED BY <1>1, <1>2, <1>5, <2>2
<1>7. call.since \in Nat /\ \A i \in 1..call.since : ledger[i].nonce \in Nat
  BY <1>0 DEF CallRight
<1>8. RefreshRight'
  <2>1. call'.told \in BOOLEAN
    BY <1>0, <1>2 DEF RefreshRight
  <2>2. ASSUME NEW i \in 1..call.since
        PROVE  \/ ledger[i].nonce <= L'
               \/ ledger[i].nonce \in call'.asked
               \/ ledger[i].nonce >= call'.next
    <3>1. \/ ledger[i].nonce <= L
          \/ ledger[i].nonce \in call.asked
          \/ ledger[i].nonce >= call.next
      BY <1>0 DEF RefreshRight, L
    <3> QED BY <1>2, <1>5, <1>6, <1>7, <3>1
  <2>3. ASSUME ~call'.told, NEW i \in 1..call.since
        PROVE  \/ ledger[i].nonce < call'.next - RefreshSize
               \/ ledger[i].nonce \in call'.asked
               \/ ledger[i].nonce >= call'.next
    <3>1. ~call.told
      BY <1>2, <2>3
    <3>2. \/ ledger[i].nonce < call.next - RefreshSize
          \/ ledger[i].nonce \in call.asked
          \/ ledger[i].nonce >= call.next
      BY <1>0, <3>1 DEF RefreshRight
    <3> QED BY <1>2, <1>6, <2>3, <3>2
  <2>4. call'.next \in Nat /\ call'.next >= RefreshSize
    BY <1>0, <1>2 DEF RefreshRight
  <2> QED BY <1>1, <1>2, <2>1, <2>2, <2>3, <2>4 DEF RefreshRight, L
<1> QED BY <1>2, <1>4, <1>8 DEF CallInv

(* A batch is asked for when nothing of the last is outstanding.             *)
LEMMA NextRefreshKeepsCall == LedgerInv /\ CallInv /\ NextRefresh => CallInv'
<1> SUFFICES ASSUME LedgerInv, CallInv, NextRefresh PROVE CallInv'
  OBVIOUS
<1>0. /\ CallRight /\ call.pc = "refreshing" /\ RefreshRight /\ call.asked = {}
      /\ call.since \in Nat /\ \A i \in 1..call.since : ledger[i].nonce \in Nat
      /\ RefreshSize \in Nat \ {0}
  BY Rows, BalanceAssumption DEF CallInv, CallRight, LedgerInv, NextRefresh
<1>1. /\ ledger' = ledger /\ cache' = cache
      /\ call' = AskBatch(call, call.next)
  BY DEF NextRefresh
<1>2. /\ DOMAIN call' = DOMAIN call /\ call'.pc = "refreshing" /\ call'.since = call.since
      /\ call'.asked = call.next..call.next + RefreshSize - 1 /\ call'.told = FALSE
      /\ call'.next = call.next + RefreshSize /\ call'.before = call.before /\ call'.lowest = call.lowest
  BY <1>0, <1>1 DEF CallRight, AskBatch
<1>3. CallRight'
  BY <1>0, <1>1, <1>2 DEF CallRight
<1>4. LatestCachedNonce' = LatestCachedNonce
  BY <1>1 DEF LatestCachedNonce
<1>5. RefreshRight'
  <2>1. call.next \in Nat
    BY <1>0 DEF RefreshRight
  <2>2. ASSUME NEW i \in 1..call.since
        PROVE  /\ \/ ledger[i].nonce <= LatestCachedNonce
                  \/ ledger[i].nonce \in call'.asked
                  \/ ledger[i].nonce >= call'.next
               /\ \/ ledger[i].nonce < call'.next - RefreshSize
                  \/ ledger[i].nonce \in call'.asked
                  \/ ledger[i].nonce >= call'.next
    <3>1. ledger[i].nonce <= LatestCachedNonce \/ ledger[i].nonce >= call.next
      BY <1>0 DEF RefreshRight
    <3> QED BY <1>0, <1>2, <2>1, <3>1
  <2>3. call'.next \in Nat /\ call'.next >= RefreshSize
    <3>1. call'.next = call.next + RefreshSize
      BY <1>2
    <3> QED BY <1>0, <2>1, <3>1
  <2>4. call'.told \in BOOLEAN
    BY <1>2
  <2> QED BY <1>1, <1>2, <1>4, <2>2, <2>3, <2>4 DEF RefreshRight
<1> QED BY <1>2, <1>3, <1>5 DEF CallInv

(* After an empty batch nothing that had landed is left, as nonces leave no  *)
(* gap.                                                                      *)
LEMMA RefreshedIsTold ==
    ASSUME LedgerInv, CallInv, Refreshed PROVE ToldSince
<1>0. /\ RefreshRight /\ call.asked = {} /\ ~call.told /\ call.since \in 0..Len(ledger)
      /\ Len(ledger) \in Nat /\ RefreshSize \in Nat \ {0}
      /\ \A i \in 1..Len(ledger) : ledger[i].nonce \in Nat
  BY Rows, BalanceAssumption DEF CallInv, CallRight, LedgerInv, Refreshed
<1> SUFFICES ASSUME NEW i \in 1..call.since PROVE ledger[i].nonce <= LatestCachedNonce
  BY DEF ToldSince
<1>1. i \in 1..Len(ledger) /\ ledger[i].nonce \in Nat
  BY <1>0
<1>2. call.next \in Nat /\ call.next >= RefreshSize
  BY <1>0 DEF RefreshRight
<1>3. \A j \in 1..call.since : ledger[j].nonce < call.next - RefreshSize \/ ledger[j].nonce >= call.next
  BY <1>0 DEF RefreshRight
<1>4. ~(ledger[i].nonce >= call.next)
  <2> SUFFICES ASSUME ledger[i].nonce >= call.next PROVE FALSE
    OBVIOUS
  <2>1. PICK n : n = call.next - RefreshSize
    OBVIOUS
  <2>2. n \in 0..ledger[i].nonce
    BY <1>0, <1>1, <1>2, <2>1
  <2>3. PICK j \in 1..i : ledger[j].nonce = n
    BY <1>1, <2>2, NoncesFilled
  <2>4. j \in 1..call.since
    BY <1>0
  <2> QED BY <1>0, <1>2, <1>3, <2>1, <2>3, <2>4
<1> QED BY <1>0, <1>4 DEF RefreshRight

(* A balance begins with nothing counted; if it is of everything, what had   *)
(* landed when it was asked for has been told.                               *)
LEMMA GetKeepsCall ==
    ASSUME LedgerInv, CallInv, NEW fn, NEW token,
           NEW before, before = NoBefore \/ \E i \in cache : before = ledger[i].nonce,
           GetPrivateBalance(fn, token, before)
    PROVE  CallInv'
<1>0. /\ CallRight /\ cache \subseteq 1..Len(ledger) /\ call.since \in 0..Len(ledger)
      /\ Len(ledger) \in Nat /\ MaxTxs \in Nat
      /\ \A i \in 1..Len(ledger) : ledger[i].nonce \in Nat
  BY Rows, BalanceAssumption DEF CallInv, CallRight, LedgerInv
<1>1. before \in Nat
  BY <1>0 DEF NoBefore
<1>2. /\ ledger' = ledger /\ cache' = cache
      /\ call' = [Idle EXCEPT
             !.pc = "fetching", !.fn = fn, !.token = token, !.before = before, !.lowest = before,
             !.since = IF call.pc = "idle" THEN Len(ledger) ELSE call.since]
  BY DEF GetPrivateBalance
<1>3. /\ DOMAIN call' = {"pc", "fn", "token", "before", "since", "asked", "next", "told",
                         "lowest", "total", "result"}
      /\ call'.pc = "fetching" /\ call'.asked = {} /\ call'.before = before /\ call'.lowest = before
      /\ call'.since = (IF call.pc = "idle" THEN Len(ledger) ELSE call.since)
      /\ call'.total = 0
  BY <1>2 DEF Idle
<1>4. CallRight'
  BY <1>0, <1>1, <1>2, <1>3 DEF CallRight
<1>5. ASSUME before = NoBefore PROVE ToldSince'
  <2>1. NeedsRefresh(before)
    <3>1. LatestCachedNonce = Latest(cache)
      BY DEF LatestCachedNonce, Latest
    <3>2. LatestCachedNonce \in Int /\ LatestCachedNonce < NoBefore
      BY <1>0, <3>1, LatestIs
    <3> QED BY <1>0, <1>5, <3>2 DEF NeedsRefresh, NoBefore
  <2>2. Refreshed
    BY <2>1 DEF GetPrivateBalance
  <2>3. ToldSince
    BY <2>2, RefreshedIsTold
  <2>4. call'.since = call.since
    BY <1>3, <2>2 DEF Refreshed
  <2>5. LatestCachedNonce' = LatestCachedNonce
    BY <1>2 DEF LatestCachedNonce
  <2> QED BY <1>2, <2>3, <2>4, <2>5 DEF ToldSince
<1>6. NoGap(call.lowest)'
  <2>1. ASSUME NEW n \in Nat PROVE ~(n >= before /\ n < before)
    BY <1>1
  <2>2. \A n \in 0..LatestCachedNonce' : n \in Nat
    OBVIOUS
  <2> QED BY <1>3, <2>1, <2>2 DEF NoGap
<1>7. call'.total = WorthOf(CountedOf(call.lowest))'
  <2>1. ASSUME NEW i \in 1..Len(ledger) PROVE ~(ledger[i].nonce >= before /\ ledger[i].nonce < before)
    BY <1>0, <1>1
  <2>2. CountedOf(call.lowest)' = {}
    BY <1>0, <1>2, <1>3, <2>1 DEF CountedOf, OfToken
  <2>3. WorthOf({}) = 0
    BY WorthNone
  <2>4. WorthOf(CountedOf(call.lowest))' = WorthOf({})
    BY <1>2, <2>2 DEF WorthOf, SumOf, Units, Gains, Costs
  <2> QED BY <1>3, <2>3, <2>4
<1> QED BY <1>3, <1>4, <1>5, <1>6, <1>7 DEF CallInv

(* A gap is filled below what has been counted.                              *)
LEMMA FillKeepsCall ==
    ASSUME LedgerInv, CallInv, NEW n \in Gaps(0), FillGap(n) PROVE CallInv'
<1>0. /\ CallRight /\ call.pc = "fetching" /\ n < call.lowest /\ call.lowest \in Int
      /\ cache \subseteq 1..Len(ledger) /\ Len(ledger) \in Nat
      /\ n \in 0..LatestCachedNonce
      /\ \A i \in 1..Len(ledger) : ledger[i].nonce \in Nat
  BY Rows DEF CallInv, CallRight, LedgerInv, FillGap, Gaps
<1>1. ledger' = ledger /\ cache' = cache \cup OfNonce(n) /\ call' = call
  BY DEF FillGap
<1>2. cache' \subseteq 1..Len(ledger)
  BY <1>0, <1>1 DEF OfNonce
<1>3. CallRight'
  BY <1>0, <1>1, <1>2 DEF CallRight
<1>4. LatestCachedNonce' = LatestCachedNonce
  <2>1. PICK C : C = cache'
    OBVIOUS
  <2>2. LatestCachedNonce = Latest(cache) /\ LatestCachedNonce' = Latest(C)
    BY <1>1, <2>1 DEF LatestCachedNonce, Latest
  <2>3. PICK L, M : L = Latest(cache) /\ M = Latest(C)
    OBVIOUS
  <2>4. /\ L \in Int /\ L >= -1 /\ (L = -1 \/ \E i \in cache : ledger[i].nonce = L)
        /\ \A i \in cache : ledger[i].nonce <= L
        /\ M \in Int /\ M >= -1 /\ (M = -1 \/ \E i \in C : ledger[i].nonce = M)
        /\ \A i \in C : ledger[i].nonce <= M
    BY <1>0, <1>2, <2>1, <2>3, LatestIs
  <2>5. \A i \in C : i \in cache \/ ledger[i].nonce = n
    BY <1>1, <2>1 DEF OfNonce
  <2>6. cache \subseteq C /\ n \in Int /\ n <= L
    BY <1>0, <1>1, <2>1, <2>2, <2>3, <2>4
  <2>7. L <= M
    BY <2>4, <2>6
  <2>8. M <= L
    BY <2>4, <2>5, <2>6
  <2> QED BY <2>2, <2>3, <2>4, <2>7, <2>8
<1>5. \A m : IsCachedNonce(m) => IsCachedNonce(m)'
  BY <1>1 DEF IsCachedNonce
<1>6. NoGap(call.lowest) => NoGap(call.lowest)'
  BY <1>1, <1>4, <1>5 DEF NoGap
<1>7. CountedOf(call.lowest)' = CountedOf(call.lowest)
  <2>1. ASSUME NEW i \in OfNonce(n) PROVE ~(ledger[i].nonce >= call.lowest)
    BY <1>0 DEF OfNonce
  <2> QED BY <1>1, <2>1 DEF CountedOf, OfToken
<1>8. WorthOf(CountedOf(call.lowest))' = WorthOf(CountedOf(call.lowest))
  BY <1>1, <1>7 DEF WorthOf, SumOf, Units, Gains, Costs
<1>9. ToldSince => ToldSince'
  BY <1>1, <1>4 DEF ToldSince
<1> QED BY <1>0, <1>1, <1>3, <1>6, <1>8, <1>9 DEF CallInv

(* What is known of what is cached does not depend on the call.              *)
LEMMA SameCache ==
    ASSUME UNCHANGED <<ledger, cache>>
    PROVE  /\ LatestCachedNonce' = LatestCachedNonce
           /\ \A n : IsCachedNonce(n)' <=> IsCachedNonce(n)
           /\ \A S : WorthOf(S)' = WorthOf(S)
<1>1. \A S : WorthOf(S)' = WorthOf(S)
  BY DEF WorthOf, SumOf, Units, Gains, Costs
<1> QED BY <1>1 DEF LatestCachedNonce, IsCachedNonce

(* A batch counts what is between it and the one before; nothing of a nonce  *)
(* of it is left, and it has no gap.                                         *)
LEMMA BatchCounts ==
    ASSUME LedgerInv, CallInv, Fetching, NEW laterFirst \in BOOLEAN,
           NEW batch, batch = FetchTxs(cache, BatchSize, call.token, call.lowest, laterFirst),
           Filled(batch)
    PROVE  /\ LowestFetchedNonce(batch) \in Int /\ LowestFetchedNonce(batch) >= -1
           /\ LowestFetchedNonce(batch) <= call.before
           /\ NoGap(LowestFetchedNonce(batch))
           /\ call.total + SumOfWorth(batch) = WorthOf(CountedOf(LowestFetchedNonce(batch)))
<1>0. /\ CallRight /\ NoGap(call.lowest) /\ call.total = WorthOf(CountedOf(call.lowest))
      /\ call.lowest \in Int /\ call.before \in Nat /\ call.lowest <= call.before /\ call.lowest >= 0
      /\ cache \subseteq 1..Len(ledger) /\ Len(ledger) \in Nat /\ Priced
      /\ DOMAIN ledger = 1..Len(ledger)
      /\ \A i \in 1..Len(ledger) : ledger[i].nonce \in Nat
  BY Rows DEF CallInv, CallRight, LedgerInv, Fetching
<1>1. PICK P, low, sum :
          /\ P = FetchPlaces(cache, call.token, call.lowest)
          /\ low = LowestFetchedNonce(batch) /\ sum = SumOfWorth(batch)
  OBVIOUS
<1>2. PICK L : L = LatestCachedNonce
  OBVIOUS
<1>3. L \in Int /\ L >= -1
  <2>1. L = Latest(cache)
    BY <1>2 DEF LatestCachedNonce, Latest
  <2> QED BY <1>0, <2>1, LatestIs
<1>4. /\ P \subseteq 1..Len(ledger) /\ IsFiniteSet(P)
      /\ P = {} => sum = 0 /\ low = -1
      /\ P # {} => \E B \in SUBSET P : \E i \in B :
             /\ low = ledger[i].nonce
             /\ sum = WorthOf(B)
             /\ B = {l \in P : ledger[l].nonce >= ledger[i].nonce}
  BY <1>0, <1>1, BatchIs
<1>5. \A l : l \in P <=> l \in OfToken(cache, call.token) /\ ledger[l].nonce < call.lowest
  BY <1>1 DEF FetchPlaces
<1>6. /\ low \in Int /\ low >= -1 /\ low < call.lowest
      /\ \E B \in SUBSET P : sum = WorthOf(B) /\ B = {l \in P : ledger[l].nonce >= low}
  <2>1. CASE P = {}
    <3>1. {} \in SUBSET P /\ {} = {l \in P : ledger[l].nonce >= low} /\ sum = WorthOf({})
      BY <1>4, <2>1, WorthNone
    <3>2. low = -1
      BY <1>4, <2>1
    <3> QED BY <1>0, <3>1, <3>2
  <2>2. CASE P # {}
    <3>a. PICK B \in SUBSET P : \E i \in B :
             /\ low = ledger[i].nonce
             /\ sum = WorthOf(B)
             /\ B = {l \in P : ledger[l].nonce >= ledger[i].nonce}
      BY <1>4, <2>2
    <3>1. PICK i \in B :
             /\ low = ledger[i].nonce
             /\ sum = WorthOf(B)
             /\ B = {l \in P : ledger[l].nonce >= ledger[i].nonce}
      BY <3>a
    <3>2. i \in P /\ i \in 1..Len(ledger)
      BY <1>4, <3>1
    <3>3. low \in Nat /\ low < call.lowest
      BY <1>0, <1>5, <3>1, <3>2
    <3>4. low \in Int /\ low >= -1
      BY <3>3
    <3>5. sum = WorthOf(B) /\ B = {l \in P : ledger[l].nonce >= low}
      BY <3>1
    <3> QED BY <3>3, <3>4, <3>5
  <2> QED BY <2>1, <2>2
<1>7. PICK B \in SUBSET P : sum = WorthOf(B) /\ B = {l \in P : ledger[l].nonce >= low}
  BY <1>6
<1>8. NoGap(low)
  <2> SUFFICES ASSUME NEW n \in 0..L, n >= low, n < call.before, ~IsCachedNonce(n)
               PROVE  FALSE
    BY <1>2 DEF NoGap
  <2>1. PICK from : from = IF Len(batch) < BatchSize THEN 0 ELSE low
    OBVIOUS
  <2>2. from = 0 \/ from = low
    BY <2>1
  <2>3. n \in from..L
    BY <1>3, <1>6, <2>2
  <2>4. n \in Gaps(from)
    BY <1>2, <2>3 DEF Gaps
  <2>5. \A m \in Gaps(from) : m >= call.lowest
    BY <1>1, <2>1 DEF Filled
  <2> QED BY <1>0, <1>2, <2>4, <2>5 DEF NoGap
<1>9. call.total + sum = WorthOf(CountedOf(low))
  <2>1. CountedOf(low) = CountedOf(call.lowest) \cup B
    <3>1. ASSUME NEW l \in OfToken(cache, call.token)
          PROVE  (ledger[l].nonce >= low /\ ledger[l].nonce < call.before)
                 <=> \/ ledger[l].nonce >= call.lowest /\ ledger[l].nonce < call.before
                     \/ ledger[l].nonce < call.lowest /\ ledger[l].nonce >= low
      <4>1. ledger[l].nonce \in Nat
        BY <1>0 DEF OfToken
      <4> QED BY <1>0, <1>6, <4>1
    <3>2. \A l : l \in B <=> l \in OfToken(cache, call.token) /\ ledger[l].nonce < call.lowest
                              /\ ledger[l].nonce >= low
      BY <1>5, <1>7
    <3>3. \A l : l \in CountedOf(low) <=> l \in OfToken(cache, call.token)
                      /\ ledger[l].nonce >= low /\ ledger[l].nonce < call.before
      BY DEF CountedOf
    <3>4. \A l : l \in CountedOf(call.lowest) <=> l \in OfToken(cache, call.token)
                      /\ ledger[l].nonce >= call.lowest /\ ledger[l].nonce < call.before
      BY DEF CountedOf
    <3>5. \A l : l \in CountedOf(low) <=> l \in CountedOf(call.lowest) \/ l \in B
      BY <3>1, <3>2, <3>3, <3>4, Zenon
    <3> QED BY <3>5
  <2>2. CountedOf(call.lowest) \cap B = {}
    <3>1. ASSUME NEW l \in CountedOf(call.lowest), l \in B PROVE FALSE
      <4>1. l \in OfToken(cache, call.token) /\ ledger[l].nonce >= call.lowest
        BY DEF CountedOf
      <4>2. ledger[l].nonce < call.lowest
        BY <1>5, <1>7, <3>1
      <4>3. ledger[l].nonce \in Nat
        BY <1>0, <4>1 DEF OfToken
      <4> QED BY <1>0, <4>1, <4>2, <4>3
    <3> QED BY <3>1
  <2>3. CountedOf(call.lowest) \subseteq DOMAIN ledger /\ IsFiniteSet(CountedOf(call.lowest))
    BY <1>0, CountedIs
  <2>4. B \subseteq DOMAIN ledger /\ IsFiniteSet(B)
    BY <1>0, <1>4, FS_Subset
  <2>5. WorthOf(CountedOf(call.lowest) \cup B) = WorthOf(CountedOf(call.lowest)) + WorthOf(B)
    BY <1>0, <2>2, <2>3, <2>4, WorthUnion
  <2> QED BY <1>0, <1>7, <2>1, <2>5
<1> QED BY <1>0, <1>1, <1>6, <1>8, <1>9

(* The next batch is one more of what is counted.                            *)
LEMMA NextBatchKeepsCall ==
    ASSUME LedgerInv, CallInv, Fetching, NEW laterFirst \in BOOLEAN,
           NEW batch, batch = FetchTxs(cache, BatchSize, call.token, call.lowest, laterFirst),
           Filled(batch), NextBatch(batch), UNCHANGED <<ledger, cache>>
    PROVE  CallInv'
<1>0. /\ CallRight /\ call.pc = "fetching" /\ call.asked = {} /\ call.before \in Nat
      /\ call.before = NoBefore => ToldSince
  BY DEF CallInv, CallRight, Fetching
<1>1. PICK low, sum : low = LowestFetchedNonce(batch) /\ sum = call.total + SumOfWorth(batch)
  OBVIOUS
<1>2. /\ low \in Int /\ low >= -1 /\ low <= call.before
      /\ NoGap(low) /\ sum = WorthOf(CountedOf(low))
  BY <1>1, BatchCounts
<1>3. call' = [call EXCEPT !.total = sum, !.lowest = low]
  BY <1>1 DEF NextBatch
<1>4. /\ DOMAIN call' = DOMAIN call /\ call'.pc = call.pc /\ call'.asked = call.asked
      /\ call'.before = call.before /\ call'.since = call.since /\ call'.token = call.token
      /\ call'.lowest = low /\ call'.total = sum
  BY <1>0, <1>3 DEF CallRight
<1>5. CallRight'
  BY <1>0, <1>2, <1>4 DEF CallRight
<1>6. /\ LatestCachedNonce' = LatestCachedNonce
      /\ \A n : IsCachedNonce(n)' <=> IsCachedNonce(n)
      /\ \A S : WorthOf(S)' = WorthOf(S)
  BY SameCache
<1>7. NoGap(call.lowest)'
  BY <1>2, <1>4, <1>6 DEF NoGap
<1>8. ToldSince' <=> ToldSince
  BY <1>4, <1>6 DEF ToldSince
<1>9. call'.total = WorthOf(CountedOf(call.lowest))'
  <2>1. CountedOf(call.lowest)' = CountedOf(low)
    BY <1>4 DEF CountedOf, OfToken
  <2>2. WorthOf(CountedOf(call.lowest))' = WorthOf(CountedOf(low))
    BY <2>1 DEF WorthOf, SumOf, Units, Gains, Costs
  <2> QED BY <1>2, <1>4, <2>2
<1> QED BY <1>0, <1>4, <1>5, <1>7, <1>8, <1>9 DEF CallInv

(* When no nonce is left, everything has been counted.                       *)
LEMMA FetchedAllKeepsCall == LedgerInv /\ CallInv /\ FetchedAll => CallInv'
<1> SUFFICES ASSUME LedgerInv, CallInv, FetchedAll PROVE CallInv'
  OBVIOUS
<1>0. /\ CallRight /\ call.pc = "fetching" /\ call.asked = {} /\ call.before \in Nat
      /\ call.before = NoBefore => ToldSince
      /\ NoGap(call.lowest) /\ call.total = WorthOf(CountedOf(call.lowest))
      /\ call.lowest < 0 /\ call.lowest \in Int
      /\ cache \subseteq 1..Len(ledger)
      /\ \A i \in 1..Len(ledger) : ledger[i].nonce \in Nat
  BY Rows DEF CallInv, CallRight, FetchedAll, LedgerInv
<1>1. ledger' = ledger /\ cache' = cache /\ call' = [call EXCEPT !.pc = "done", !.result = call.total]
  BY DEF FetchedAll, Return
<1>2. /\ DOMAIN call' = DOMAIN call /\ call'.pc = "done" /\ call'.asked = call.asked
      /\ call'.before = call.before /\ call'.since = call.since /\ call'.token = call.token
      /\ call'.lowest = call.lowest /\ call'.result = call.total
  BY <1>0, <1>1 DEF CallRight
<1>3. CallRight'
  BY <1>0, <1>1, <1>2 DEF CallRight
<1>4. /\ LatestCachedNonce' = LatestCachedNonce
      /\ \A n : IsCachedNonce(n)' <=> IsCachedNonce(n)
      /\ \A S : WorthOf(S)' = WorthOf(S)
  BY <1>1, SameCache
<1>5. NoGap(0)'
  <2>1. \A n \in 0..LatestCachedNonce : n >= call.lowest
    BY <1>0
  <2> QED BY <1>0, <1>2, <1>4, <2>1 DEF NoGap
<1>6. ToldSince' <=> ToldSince
  BY <1>1, <1>2, <1>4 DEF ToldSince
<1>7. CountedOf(0)' = CountedOf(call.lowest)
  <2>1. ASSUME NEW i \in cache PROVE ledger[i].nonce >= 0 <=> ledger[i].nonce >= call.lowest
    <3>1. ledger[i].nonce \in Nat
      BY <1>0
    <3> QED BY <1>0, <3>1
  <2> QED BY <1>1, <1>2, <2>1 DEF CountedOf, OfToken
<1>8. WorthOf(CountedOf(0))' = WorthOf(CountedOf(call.lowest))
  BY <1>1, <1>7 DEF WorthOf, SumOf, Units, Gains, Costs
<1> QED BY <1>0, <1>2, <1>3, <1>5, <1>6, <1>8 DEF CallInv

(* The metadata of a send ends a computation.                                *)
LEMMA MetadataKeepsCall == LedgerInv /\ CallInv /\ BatchFromMetadata => CallInv'
<1> SUFFICES ASSUME LedgerInv, CallInv, BatchFromMetadata PROVE CallInv'
  OBVIOUS
<1>0. /\ CallRight /\ Fetching /\ call.pc = "fetching" /\ call.asked = {} /\ call.fn = "metadata"
      /\ call.before = NoBefore => ToldSince
      /\ UNCHANGED <<ledger, cache>>
  BY DEF CallInv, CallRight, BatchFromMetadata, Fetching
<1>1. PICK laterFirst, batch :
          /\ laterFirst \in BOOLEAN
          /\ batch = FetchTxs(cache, BatchSize, call.token, call.lowest, laterFirst)
          /\ Filled(batch)
          /\ \/ NextBatch(batch)
             \/ Throw
             \/ \E value : Return(value)
  <2>1. PICK laterFirst \in BOOLEAN :
            LET batch == FetchTxs(cache, BatchSize, call.token, call.lowest, laterFirst)
            IN Filled(batch) /\ (NextBatch(batch) \/ Throw \/ \E value : Return(value))
    BY Zenon DEF BatchFromMetadata
  <2>2. PICK batch : batch = FetchTxs(cache, BatchSize, call.token, call.lowest, laterFirst)
    OBVIOUS
  <2> QED BY <2>1, <2>2
<1>2. CASE NextBatch(batch)
  BY <1>0, <1>1, <1>2, NextBatchKeepsCall
<1>3. ASSUME /\ DOMAIN call' = DOMAIN call
             /\ call'.pc \in {"threw", "done"} /\ call'.fn = "metadata"
             /\ call'.asked = call.asked /\ call'.before = call.before /\ call'.since = call.since
             /\ call'.lowest = call.lowest
      PROVE  CallInv'
  <2>1. CallRight'
    BY <1>0, <1>3 DEF CallRight
  <2>2. ToldSince' <=> ToldSince
    BY <1>0, <1>3, SameCache DEF ToldSince
  <2> QED BY <1>0, <1>3, <2>1, <2>2 DEF CallInv
<1>4. CASE Throw
  BY <1>0, <1>3, <1>4 DEF Throw, CallRight
<1>5. ASSUME NEW value, Return(value) PROVE CallInv'
  BY <1>0, <1>3, <1>5 DEF Return, CallRight
<1> QED BY <1>1, <1>2, <1>4, <1>5

(* Every step keeps the invariant of the calls.                              *)
LEMMA CallNext == LedgerInv /\ CallInv /\ [Next]_vars => CallInv'
<1> SUFFICES ASSUME LedgerInv, CallInv, [Next]_vars PROVE CallInv'
  OBVIOUS
<1>1. CASE Lands
  BY <1>1, LandKeepsCall
<1>2. CASE Refresh
  BY <1>2, RefreshKeepsCall
<1>3. CASE \E n \in call.asked : Tell(n)
  BY <1>3, TellKeepsCall
<1>4. CASE NextRefresh
  BY <1>4, NextRefreshKeepsCall
<1>5. CASE GetMostRecentTx
  <2>1. ledger' = ledger /\ cache' = cache /\ call' = Idle
    BY <1>5 DEF GetMostRecentTx
  <2>2. call'.pc = "idle" /\ CallRight'
    <3>1. CallRight /\ Len(ledger) \in Nat /\ MaxTxs \in Nat
      BY Rows, BalanceAssumption DEF CallInv, LedgerInv
    <3> QED BY <2>1, <3>1 DEF CallRight, Idle, NoBefore
  <2> QED BY <2>2 DEF CallInv
<1>6. ASSUME NEW token \in Tokens, GetPrivateBalance("metadata", token, NoBefore) PROVE CallInv'
  BY <1>6, GetKeepsCall
<1>7. ASSUME NEW token \in Tokens, NEW before \in Befores(token), GetPrivateBalance("history", token, before)
      PROVE  CallInv'
  <2>1. before = NoBefore \/ \E i \in cache : before = ledger[i].nonce
    BY <1>7 DEF Befores, OfToken
  <2> QED BY <1>7, <2>1, GetKeepsCall
<1>8. CASE \E n \in Gaps(0) : FillGap(n)
  BY <1>8, FillKeepsCall
<1>9. CASE BatchFromTxHistory
  <2>1. PICK laterFirst, batch :
            /\ laterFirst \in BOOLEAN
            /\ batch = FetchTxs(cache, BatchSize, call.token, call.lowest, laterFirst)
            /\ Filled(batch) /\ NextBatch(batch)
    BY <1>9 DEF BatchFromTxHistory
  <2>2. Fetching /\ UNCHANGED <<ledger, cache>>
    BY <1>9 DEF BatchFromTxHistory
  <2> QED BY <2>1, <2>2, NextBatchKeepsCall
<1>10. CASE BatchFromMetadata
  BY <1>10, MetadataKeepsCall
<1>11. CASE FetchedAll
  BY <1>11, FetchedAllKeepsCall
<1>12. CASE UNCHANGED vars
  <2>1. ledger' = ledger /\ cache' = cache /\ call' = call
    BY <1>12 DEF vars
  <2>2. Len(ledger) \in Nat
    BY Rows DEF LedgerInv
  <2>3. \A S : WorthOf(S)' = WorthOf(S)
    BY <2>1, SameCache
  <2> QED BY <2>1, <2>2, <2>3, KeptInv
<1> QED BY <1>1, <1>2, <1>3, <1>4, <1>5, <1>6, <1>7, <1>8, <1>9, <1>10, <1>11, <1>12 DEF Next, Lands

(* What an instance that has missed nothing has cached, if nothing that      *)
(* landed since had missed anything, is the ledger of some moment since.     *)
LEMMA CachedIsPrefix ==
    ASSUME LedgerInv, CallRight, ToldSince, NoneMissed, NoneLate,
           NEW low \in Int,
           \A n \in 0..LatestCachedNonce : n >= low => IsCachedNonce(n)
    PROVE  \E k \in call.since..Len(ledger) :
               /\ \A i \in 1..Len(ledger) : i \in 1..k <=> ledger[i].nonce <= LatestCachedNonce
               /\ \A i \in 1..Len(ledger) : ledger[i].nonce >= low => (i \in 1..k <=> i \in cache)
<1>1. PICK L : L = LatestCachedNonce
  OBVIOUS
<1>0. /\ Len(ledger) \in Nat /\ call.since \in 0..Len(ledger) /\ call.since \in Nat
      /\ cache \subseteq 1..Len(ledger)
      /\ \A i \in 1..Len(ledger) : ledger[i].nonce \in Nat
  BY Rows DEF CallRight, LedgerInv
<1>2. L \in Int /\ \A i \in cache : ledger[i].nonce <= L
  <2>1. L = Latest(cache)
    BY <1>1 DEF LatestCachedNonce, Latest
  <2> QED BY <1>0, <2>1, LatestIs
<1> DEFINE K == {i \in 1..Len(ledger) : ledger[i].nonce <= L}
<1>3. \A i \in 1..call.since : i \in K
  BY <1>0, <1>1 DEF ToldSince
<1>4. ASSUME NEW i \in 1..Len(ledger), NEW j \in K, i <= j PROVE i \in K
  <2>1. CASE i <= call.since
    BY <1>0, <1>3, <2>1
  <2>2. CASE i > call.since /\ i # j
    <3>1. j \in call.since + 1..Len(ledger) /\ i \in 1..j - 1
      BY <1>0, <1>4, <2>2
    <3>2. ledger[i].nonce < ledger[j].nonce
      BY <3>1 DEF NoneLate
    <3> QED BY <1>0, <1>2, <3>2
  <2> QED BY <1>0, <2>1, <2>2
<1>5. PICK k \in call.since..Len(ledger) : \A i \in 1..Len(ledger) : i \in 1..k <=> i \in K
  <2>1. CASE K = {}
    <3>1. call.since = 0
      BY <1>0, <1>3, <2>1
    <3>2. \A i \in 1..Len(ledger) : i \in 1..0 <=> i \in K
      BY <2>1
    <3> QED BY <1>0, <3>1, <3>2
  <2>2. CASE K # {}
    <3>1. PICK k \in K : \A l \in K : l <= k
      <4>1. K \subseteq 1..Len(ledger)
        OBVIOUS
      <4> HIDE DEF K
      <4> QED BY <1>0, <2>2, <4>1, Greatest
    <3>2. k \in call.since..Len(ledger)
      <4>1. k \in 1..Len(ledger)
        BY <3>1
      <4>2. call.since = 0 \/ call.since \in 1..call.since
        BY <1>0
      <4>3. call.since = 0 \/ call.since <= k
        <5> HIDE DEF K
        <5> QED BY <1>3, <3>1, <4>2
      <4> QED BY <1>0, <4>1, <4>3
    <3>3. ASSUME NEW i \in 1..Len(ledger) PROVE i \in 1..k <=> i \in K
      <4>1. i \in K => i <= k
        <5> HIDE DEF K
        <5> QED BY <3>1
      <4>2. i <= k => i \in K
        <5> HIDE DEF K
        <5> QED BY <1>4, <3>1
      <4>3. k \in Nat
        BY <1>0, <3>2
      <4> HIDE DEF K
      <4> QED BY <1>0, <4>1, <4>2, <4>3
    <3> HIDE DEF K
    <3> QED BY <3>2, <3>3
  <2> QED BY <2>1, <2>2
<1>6. ASSUME NEW i \in 1..Len(ledger), ledger[i].nonce >= low PROVE i \in K <=> i \in cache
  <2>1. ASSUME i \in cache PROVE i \in K
    BY <1>2, <2>1
  <2>2. ASSUME i \in K PROVE i \in cache
    <3>1. ledger[i].nonce \in 0..L
      BY <1>0, <1>2, <2>2
    <3>2. IsCachedNonce(ledger[i].nonce)
      BY <1>1, <1>6, <3>1
    <3> QED BY <3>2 DEF NoneMissed
  <2> QED BY <2>1, <2>2
<1>7. \A i \in 1..Len(ledger) : i \in K <=> ledger[i].nonce <= LatestCachedNonce
  BY <1>1
<1> HIDE DEF K
<1> QED BY <1>5, <1>6, <1>7

(* So when no nonce is left the sum is what was unspent at that moment.      *)
LEMMA AllIsUnspent ==
    ASSUME LedgerInv, CallRight, ToldSince, NoneMissed, NoneLate, call.before = NoBefore, NoGap(0)
    PROVE  \E k \in call.since..Len(ledger) : WorthOf(CountedOf(0)) = UnspentBalance(k, call.token)
<1>1. /\ cache \subseteq 1..Len(ledger) /\ Len(ledger) \in Nat
      /\ \A i \in 1..Len(ledger) : ledger[i].nonce \in Nat
  BY Rows DEF CallRight, LedgerInv
<1>2. LatestCachedNonce \in Int /\ LatestCachedNonce >= -1 /\ LatestCachedNonce < NoBefore
      /\ \A i \in cache : ledger[i].nonce <= LatestCachedNonce
  <2>1. LatestCachedNonce = Latest(cache)
    BY DEF LatestCachedNonce, Latest
  <2> QED BY <1>1, <2>1, LatestIs
<1>3. NoBefore \in Nat
  BY BalanceAssumption DEF NoBefore
<1>4. \A n \in 0..LatestCachedNonce : n >= 0 => IsCachedNonce(n)
  BY <1>2, <1>3 DEF NoGap
<1>5. PICK k \in call.since..Len(ledger) :
          \A i \in 1..Len(ledger) : ledger[i].nonce >= 0 => (i \in 1..k <=> i \in cache)
  BY <1>4, CachedIsPrefix
<1>6. k \in 0..Len(ledger)
  BY <1>1 DEF CallRight
<1>7. CountedOf(0) = OfToken(1..k, call.token)
  <2>1. ASSUME NEW i \in cache PROVE ledger[i].nonce >= 0 /\ ledger[i].nonce < call.before
    BY <1>1, <1>2, <1>3
  <2>2. CountedOf(0) = OfToken(cache, call.token)
    BY <2>1 DEF CountedOf, OfToken
  <2>3. \A i \in 1..Len(ledger) : i \in 1..k <=> i \in cache
    BY <1>1, <1>5
  <2>4. 1..k \subseteq 1..Len(ledger)
    BY <1>1, <1>6
  <2>5. cache = 1..k
    BY <1>1, <2>3, <2>4
  <2> QED BY <2>2, <2>5
<1> QED BY <1>6, <1>7, HistoryIsUnspent

(* THE BALANCE FROM THE HISTORY. However many batches it takes, however      *)
(* nonces are shared and whatever lands between the batches, the balance is  *)
(* what was unspent at some moment during the call, unless the instance had  *)
(* been told one of several transactions of a nonce and not the others, or   *)
(* what landed during the call had itself missed something.                  *)
THEOREM HistoryIsExact == Spec => []HistoryExact
<1>1. Init => LedgerInv /\ CallInv
  BY LedgerInit, CallInit
<1>2. LedgerInv /\ CallInv /\ [Next]_vars => LedgerInv' /\ CallInv'
  BY LedgerNext, CallNext
<1>3. LedgerInv /\ CallInv => HistoryExact
  <2> SUFFICES ASSUME LedgerInv, CallInv, Done("history"), call.before = NoBefore, NoneMissed, NoneLate
               PROVE  OfSomeMoment
    BY DEF HistoryExact
  <2>1. CallRight /\ ToldSince /\ NoGap(0) /\ call.result = WorthOf(CountedOf(0))
    BY DEF CallInv, Done
  <2> QED BY <2>1, AllIsUnspent DEF OfSomeMoment
<1> QED BY <1>1, <1>2, <1>3, PTL DEF Spec

(* What the places of older transactions are.                                *)
LEMMA OlderIs ==
    ASSUME LedgerInv, NEW n \in 1..Len(ledger)
    PROVE  /\ Older(n) \subseteq 1..Len(ledger) /\ IsFiniteSet(Older(n))
           /\ \A i \in Older(n) : /\ ledger[i].token = ledger[n].token
                                  /\ ledger[i].nonce < ledger[n].nonce /\ ledger[i].nonce \in Nat
<1>1. Len(ledger) \in Nat /\ \A i \in 1..Len(ledger) : ledger[i].nonce \in Nat
  BY Rows DEF LedgerInv
<1>2. Older(n) \subseteq 1..Len(ledger)
  BY DEF Older, OfToken
<1>3. IsFiniteSet(1..Len(ledger))
  BY <1>1, FS_Interval
<1>4. IsFiniteSet(Older(n))
  BY <1>2, <1>3, FS_Subset
<1> QED BY <1>1, <1>2, <1>4 DEF Older, OfToken

(* A send that has been spent spent nothing with a nonce above its own: what *)
(* spent it would have had to spend that again.                              *)
LEMMA SpentAreAbove ==
    ASSUME LedgerInv, LandedInv, NEW j \in 1..Len(ledger), NEW x \in ledger[j].inputs,
           NEW b \in ledger[x].inputs
    PROVE  /\ x \in 1..Len(ledger) /\ b \in 1..Len(ledger)
           /\ ledger[x].token = ledger[j].token /\ ledger[b].token = ledger[x].token
           /\ ledger[b].nonce <= ledger[x].nonce
<1>1. Len(ledger) \in Nat /\ \A i \in 1..Len(ledger) : ledger[i].nonce \in Nat
  BY Rows DEF LedgerInv
<1>2. x \in OfToken(1..(j - 1), ledger[j].token) /\ x \in 1..(j - 1)
  BY InputsBefore
<1>3. x \in 1..Len(ledger) /\ ledger[x].token = ledger[j].token
  BY <1>1, <1>2 DEF OfToken
<1>4. b \in OfToken(1..(x - 1), ledger[x].token) /\ b \in 1..(x - 1)
  BY <1>3, InputsBefore
<1>5. b \in 1..Len(ledger) /\ ledger[b].token = ledger[x].token /\ b \in 1..x
  BY <1>1, <1>3, <1>4 DEF OfToken
<1>6. ~(ledger[b].nonce > ledger[x].nonce)
  <2> SUFFICES ASSUME ledger[b].nonce > ledger[x].nonce PROVE FALSE
    OBVIOUS
  <2>1. b \in OfToken(1..x, ledger[j].token)
    BY <1>3, <1>5 DEF OfToken
  <2>2. b \in ledger[j].inputs
    BY <2>1 DEF LandedInv, FromTop
  <2>3. b \in Spent(1..j - 1)
    BY <1>2 DEF Spent
  <2>4. ledger[j].inputs \cap Spent(1..j - 1) = {}
    BY DEF LedgerInv, Balanced, Spends, Unspent
  <2> QED BY <2>2, <2>3, <2>4
<1> QED BY <1>1, <1>3, <1>5, <1>6

(* So what is older than a send in order has all that it spends.             *)
LEMMA OlderClosed ==
    ASSUME LedgerInv, LandedInv, NEW n \in 1..Len(ledger), InOrder(n)
    PROVE  \A x \in Older(n) : ledger[x].inputs \subseteq Older(n)
<1> SUFFICES ASSUME NEW x \in Older(n), NEW b \in ledger[x].inputs PROVE b \in Older(n)
  OBVIOUS
<1>1. Older(n) \subseteq 1..Len(ledger) /\ x \in 1..Len(ledger)
  BY OlderIs
<1>2. \E j \in 1..Len(ledger) : x \in ledger[j].inputs
  BY <1>1 DEF InOrder, Spent
<1>3. /\ b \in 1..Len(ledger) /\ ledger[b].token = ledger[x].token
      /\ ledger[b].nonce <= ledger[x].nonce
  BY <1>2, SpentAreAbove
<1>4. ledger[x].token = ledger[n].token /\ ledger[x].nonce < ledger[n].nonce
  BY OlderIs
<1>5. /\ ledger[b].nonce \in Nat /\ ledger[x].nonce \in Nat /\ ledger[n].nonce \in Nat
  BY <1>1, <1>3, Rows DEF LedgerInv
<1> QED BY <1>3, <1>4, <1>5 DEF Older, OfToken

(* What it is worth is what the send spent.                                  *)
LEMMA OlderIsSpent ==
    ASSUME LedgerInv, LandedInv, NEW n \in 1..Len(ledger), InOrder(n)
    PROVE  WorthOf(Older(n)) = SumOf(Balances, ledger[n].inputs)
<1>1. Older(n) \subseteq 1..Len(ledger)
  BY OlderIs
<1>2. \A x \in Older(n) : ledger[x].inputs \subseteq Older(n)
  BY OlderClosed
<1>3. Older(n) \ Spent(Older(n)) = ledger[n].inputs
  BY DEF InOrder, Spent
<1> QED BY <1>1, <1>2, <1>3, ClosedConserves

(* The same with the sum that the model computes.                            *)
LEMMA InputsAre ==
    ASSUME LedgerInv, NEW n \in 1..Len(ledger)
    PROVE  /\ BalanceOf(ledger[n].inputs) = SumOf(Balances, ledger[n].inputs)
           /\ SumOf(Balances, ledger[n].inputs) \in Nat
<1>1. /\ DOMAIN ledger = 1..Len(ledger) /\ Len(ledger) \in Nat
      /\ \A i \in 1..Len(ledger) : Balances[i] = ledger[i].balance /\ ledger[i].balance \in Nat
  BY Rows DEF LedgerInv, Balances
<1>2. ledger[n].inputs \subseteq 1..Len(ledger)
  <2>1. ledger[n].inputs \subseteq 1..(n - 1)
    BY InputsBefore
  <2> QED BY <1>1, <2>1
<1>3. IsFiniteSet(ledger[n].inputs)
  <2>1. IsFiniteSet(1..Len(ledger))
    BY <1>1, FS_Interval
  <2> QED BY <1>2, <2>1, FS_Subset
<1>4. \A i \in ledger[n].inputs : Balances[i] = ledger[i].balance /\ ledger[i].balance \in Nat
  BY <1>1, <1>2
<1> QED BY <1>1, <1>2, <1>3, <1>4, BalanceIsSum, SumType

(* What was fetched before a nonce is of the history, and something is       *)
(* cached that is as new.                                                    *)
BeforeInv ==
    call.before # NoBefore => call.fn = "history" /\ call.before <= LatestCachedNonce

(* The newest nonce does not get lower with what a step caches or lands.     *)
LEMMA LatestGrows ==
    ASSUME LedgerInv, CallRight, CallRight',
           \/ cache' = cache /\ \A i \in 1..Len(ledger) : ledger'[i] = ledger[i]
           \/ cache \subseteq cache' /\ ledger' = ledger
    PROVE  /\ LatestCachedNonce \in Int /\ LatestCachedNonce' \in Int
           /\ LatestCachedNonce <= LatestCachedNonce'
<1>0. cache \subseteq 1..Len(ledger) /\ cache' \subseteq 1..Len(ledger')
      /\ \A i \in 1..Len(ledger) : ledger[i].nonce \in Nat
  BY Rows DEF CallRight, LedgerInv
<1>1. PICK L : L = LatestCachedNonce
  OBVIOUS
<1>2. L = Latest(cache)
  BY <1>1 DEF LatestCachedNonce, Latest
<1>3. L \in Int /\ (L = -1 \/ \E i \in cache : ledger[i].nonce = L)
  BY <1>0, <1>2, LatestIs
<1>4. CASE cache' = cache /\ \A i \in 1..Len(ledger) : ledger'[i] = ledger[i]
  <2>1. {ledger'[i].nonce : i \in cache'} = {ledger[i].nonce : i \in cache}
    BY <1>0, <1>4
  <2>2. LatestCachedNonce' = L
    BY <1>1, <2>1 DEF LatestCachedNonce
  <2> QED BY <1>1, <1>3, <2>2
<1>5. CASE cache \subseteq cache' /\ ledger' = ledger
  <2>1. PICK C, M : C = cache' /\ M = LatestCachedNonce'
    OBVIOUS
  <2>2. M = Latest(C)
    BY <1>5, <2>1 DEF LatestCachedNonce, Latest
  <2>3. C \subseteq 1..Len(ledger) /\ cache \subseteq C
    BY <1>0, <1>5, <2>1
  <2>4. M \in Int /\ M >= -1 /\ \A i \in C : ledger[i].nonce <= M
    BY <2>2, <2>3, LatestIs
  <2> QED BY <1>0, <1>1, <1>3, <2>1, <2>3, <2>4
<1> QED BY <1>4, <1>5

(* A step lands or caches, and goes on with the call, ends it or begins one. *)
LEMMA CallSteps ==
    ASSUME LedgerInv, CallRight, [Next]_vars
    PROVE  /\ \/ cache' = cache /\ \A i \in 1..Len(ledger) : ledger'[i] = ledger[i]
              \/ cache \subseteq cache' /\ ledger' = ledger
           /\ \/ call'.before = call.before /\ call'.fn = call.fn
              \/ call'.before = NoBefore
              \/ /\ call'.fn = "history" /\ UNCHANGED <<ledger, cache>>
                 /\ \E i \in cache : call'.before = ledger[i].nonce
<1> DEFINE Same == call'.before = call.before /\ call'.fn = call.fn
<1>1. CASE Lands
  <2>1. PICK tx : Land(tx)
    BY <1>1 DEF Lands, TopUp, Send
  <2>2. cache' = cache /\ call' = call /\ ledger \in Seq(Txs) /\ ledger' = Append(ledger, tx)
    BY <2>1 DEF Land, LedgerInv
  <2> QED BY <2>2, AppendKeeps
<1>2. CASE Refresh
  BY <1>2 DEF Refresh, AskBatch, Idle
<1>3. CASE \E n \in call.asked : Tell(n)
  <2>1. PICK n \in call.asked : Tell(n)
    BY <1>3
  <2>2. cache \subseteq cache' /\ ledger' = ledger /\ Same
    BY <2>1 DEF Tell, CallRight
  <2> QED BY <2>2
<1>4. CASE NextRefresh
  BY <1>4 DEF NextRefresh, AskBatch, CallRight
<1>5. CASE GetMostRecentTx
  BY <1>5 DEF GetMostRecentTx, Idle
<1>6. ASSUME NEW token \in Tokens, GetPrivateBalance("metadata", token, NoBefore)
      PROVE  UNCHANGED <<ledger, cache>> /\ call'.before = NoBefore
  BY <1>6 DEF GetPrivateBalance, Idle
<1>7. ASSUME NEW token \in Tokens, NEW before \in Befores(token), GetPrivateBalance("history", token, before)
      PROVE  /\ UNCHANGED <<ledger, cache>>
             /\ \/ call'.before = NoBefore
                \/ call'.fn = "history" /\ \E i \in cache : call'.before = ledger[i].nonce
  <2>1. before = NoBefore \/ \E i \in cache : before = ledger[i].nonce
    BY <1>7 DEF Befores, OfToken
  <2>2. UNCHANGED <<ledger, cache>> /\ call'.before = before /\ call'.fn = "history"
    BY <1>7 DEF GetPrivateBalance, Idle
  <2> QED BY <2>1, <2>2
<1>8. CASE \E n \in Gaps(0) : FillGap(n)
  BY <1>8 DEF FillGap
<1>9. ASSUME UNCHANGED <<ledger, cache>>, (\E batch : NextBatch(batch)) \/ Throw \/ \E value : Return(value)
      PROVE  UNCHANGED <<ledger, cache>> /\ Same
  BY <1>9 DEF NextBatch, Throw, Return, CallRight
<1>10. CASE BatchFromTxHistory
  <2>1. UNCHANGED <<ledger, cache>> /\ \E batch : NextBatch(batch)
    BY <1>10 DEF BatchFromTxHistory
  <2> QED BY <1>9, <2>1
<1>11. CASE BatchFromMetadata
  <2>1. UNCHANGED <<ledger, cache>> /\ ((\E batch : NextBatch(batch)) \/ Throw \/ \E value : Return(value))
    BY <1>11 DEF BatchFromMetadata
  <2> QED BY <1>9, <2>1
<1>12. CASE FetchedAll
  <2>1. UNCHANGED <<ledger, cache>> /\ \E value : Return(value)
    BY <1>12 DEF FetchedAll
  <2> QED BY <1>9, <2>1
<1>13. CASE UNCHANGED vars
  BY <1>13 DEF vars
<1> QED BY <1>1, <1>2, <1>3, <1>4, <1>5, <1>6, <1>7, <1>8, <1>10, <1>11, <1>12, <1>13 DEF Next, Lands

(* Every step keeps it.                                                      *)
LEMMA BeforeNext == LedgerInv /\ CallInv /\ BeforeInv /\ [Next]_vars => BeforeInv'
<1> SUFFICES ASSUME LedgerInv, CallInv, BeforeInv, [Next]_vars PROVE BeforeInv'
  OBVIOUS
<1>1. CallRight /\ CallRight' /\ call.before \in Nat
  BY CallNext DEF CallInv, CallRight
<1>2. /\ \/ cache' = cache /\ \A i \in 1..Len(ledger) : ledger'[i] = ledger[i]
         \/ cache \subseteq cache' /\ ledger' = ledger
      /\ \/ call'.before = call.before /\ call'.fn = call.fn
         \/ call'.before = NoBefore
         \/ /\ call'.fn = "history" /\ UNCHANGED <<ledger, cache>>
            /\ \E i \in cache : call'.before = ledger[i].nonce
  BY <1>1, CallSteps
<1>3. /\ LatestCachedNonce \in Int /\ LatestCachedNonce' \in Int
      /\ LatestCachedNonce <= LatestCachedNonce'
  BY <1>1, <1>2, LatestGrows
<1>4. NoBefore' = NoBefore
  BY DEF NoBefore
<1>5. CASE call'.before = call.before /\ call'.fn = call.fn
  BY <1>1, <1>3, <1>4, <1>5 DEF BeforeInv
<1>6. CASE call'.before = NoBefore
  BY <1>4, <1>6 DEF BeforeInv
<1>7. CASE /\ call'.fn = "history" /\ UNCHANGED <<ledger, cache>>
           /\ \E i \in cache : call'.before = ledger[i].nonce
  <2>1. PICK i \in cache : call'.before = ledger[i].nonce
    BY <1>7
  <2>2. LatestCachedNonce = Latest(cache) /\ cache \subseteq 1..Len(ledger)
    BY <1>1 DEF LatestCachedNonce, Latest, CallRight
  <2>3. ledger[i].nonce <= LatestCachedNonce
    BY <2>2, LatestIs
  <2>4. LatestCachedNonce' = LatestCachedNonce
    BY <1>7, SameCache
  <2> QED BY <1>7, <2>1, <2>3, <2>4 DEF BeforeInv
<1> QED BY <1>2, <1>5, <1>6, <1>7

(* So the balance before a send in order is what it spent.                   *)
LEMMA BeforeIsSpent ==
    ASSUME LedgerInv, LandedInv, CallInv, BeforeInv
    PROVE  BeforeSendExact
<1> SUFFICES ASSUME NEW n \in OfToken(1..Len(ledger), call.token), call.pc = "done", NoneMissed,
                    ledger[n].nonce = call.before, InOrder(n)
             PROVE  call.result = BalanceOf(ledger[n].inputs)
  BY DEF BeforeSendExact, BalanceOf
<1>1. /\ Len(ledger) \in Nat /\ n \in 1..Len(ledger) /\ ledger[n].token = call.token
      /\ cache \subseteq 1..Len(ledger)
      /\ \A i \in 1..Len(ledger) : ledger[i].nonce \in Nat
  BY Rows DEF LedgerInv, CallInv, CallRight, OfToken
<1>2. call.before # NoBefore
  <2>1. ledger[n].nonce < n /\ Len(ledger) <= MaxTxs
    BY <1>1 DEF LedgerInv, Numbered
  <2> QED BY <1>1, <2>1, BalanceAssumption DEF NoBefore
<1>3. call.fn = "history" /\ call.before <= LatestCachedNonce /\ call.before \in Nat
  BY <1>1, <1>2 DEF BeforeInv
<1>4. NoGap(0) /\ call.result = WorthOf(CountedOf(0))
  BY <1>3 DEF CallInv
<1>5. LatestCachedNonce \in Int
  <2>1. LatestCachedNonce = Latest(cache)
    BY DEF LatestCachedNonce, Latest
  <2> QED BY <1>1, <2>1, LatestIs
<1>6. CountedOf(0) = Older(n)
  <2>1. ASSUME NEW i \in 1..Len(ledger), ledger[i].nonce < call.before PROVE i \in cache
    <3>1. ledger[i].nonce \in 0..LatestCachedNonce
      BY <1>1, <1>3, <1>5, <2>1
    <3>2. IsCachedNonce(ledger[i].nonce)
      BY <1>1, <1>4, <2>1, <3>1 DEF NoGap
    <3> QED BY <3>2 DEF NoneMissed
  <2>2. \A i \in 1..Len(ledger) : ledger[i].nonce >= 0
    BY <1>1
  <2> QED BY <1>1, <2>1, <2>2 DEF CountedOf, OfToken, Older
<1> QED BY <1>1, <1>4, <1>6, OlderIsSpent, InputsAre

(* THE BALANCE BEFORE A SEND is the sum of what it spent, if it spent all    *)
(* that was older and nothing else, and the instance has been told all       *)
(* transactions of each nonce it knows: whatever lands while it is computed, *)
(* and however many transactions a device misses.                            *)
THEOREM BeforeSendIsExact == Spec => []BeforeSendExact
<1> DEFINE IInv == LedgerInv /\ LandedInv /\ CallInv /\ BeforeInv
<1>1. Init => IInv
  <2>1. Init => BeforeInv
    BY DEF Init, Idle, BeforeInv
  <2> QED BY <2>1, LedgerInit, LandedInit, CallInit
<1>2. IInv /\ [Next]_vars => IInv'
  BY LedgerNext, LandedNext, CallNext, BeforeNext
<1>3. IInv => BeforeSendExact
  BY BeforeIsSpent
<1> QED BY <1>1, <1>2, <1>3, PTL DEF Spec

-----------------------------------------------------------------------------
(* The last of the first so many numbers.                                    *)
LEMMA LastOf ==
    ASSUME NEW k \in Nat \ {0}
    PROVE  Max(1..k) = k /\ (1..k) \ {k} = 1..(k - 1) /\ k \in 1..k
<1>1. k \in 1..k /\ \A l \in 1..k : l \in Nat /\ k >= l
  OBVIOUS
<1>2. \A m \in 1..k : (\A l \in 1..k : m >= l) => m = k
  <2> SUFFICES ASSUME NEW m \in 1..k, \A l \in 1..k : m >= l PROVE m = k
    OBVIOUS
  <2>1. m >= k /\ k >= m
    BY <1>1
  <2> QED BY <1>1, <2>1
<1>3. Max(1..k) = k
  <2> DEFINE T == 1..k
  <2> HIDE DEF T
  <2>1. k \in T /\ (\A l \in T : k >= l) /\ \A m \in T : (\A l \in T : m >= l) => m = k
    BY <1>1, <1>2 DEF T
  <2>2. Max(T) = k
    BY <2>1 DEF Max
  <2> QED BY <2>2 DEF T
<1> QED BY <1>1, <1>3

(* What a fold from the first element to the last computes for the elements  *)
(* in a set. It exists for every step.                                       *)
FoldsBy(f, n, A, base, step) ==
    /\ f \in [SUBSET (1..n) -> A]
    /\ \A s \in SUBSET (1..n) : f[s] = IF s = {} THEN base ELSE step[<<f[s \ {Max(s)}], Max(s)>>]

(* There is such a function.                                                 *)
LEMMA FoldExists ==
    ASSUME NEW n \in Nat, NEW A, NEW base \in A, NEW step, \A x \in A, i \in 1..n : step[<<x, i>>] \in A
    PROVE  \E f : FoldsBy(f, n, A, base, step)
<1> DEFINE Folds(k, f) == \A s \in SUBSET (1..k) :
               f[s] = IF s = {} THEN base ELSE step[<<f[s \ {Max(s)}], Max(s)>>]
           K == {k \in Nat : k <= n => \E f \in [SUBSET (1..k) -> A] : Folds(k, f)}
<1>1. 0 \in K
  <2>1. [s \in SUBSET (1..0) |-> base] \in [SUBSET (1..0) -> A]
    OBVIOUS
  <2>2. Folds(0, [s \in SUBSET (1..0) |-> base])
    OBVIOUS
  <2> QED BY <2>1, <2>2
<1>2. ASSUME NEW k \in K PROVE k + 1 \in K
  <2>1. k \in Nat /\ k + 1 \in Nat
    OBVIOUS
  <2> SUFFICES ASSUME k + 1 <= n PROVE \E f \in [SUBSET (1..(k + 1)) -> A] : Folds(k + 1, f)
    BY <2>1
  <2>2. PICK f \in [SUBSET (1..k) -> A] : Folds(k, f)
    <3>1. k <= n
      BY <2>1
    <3> HIDE DEF Folds
    <3> QED BY <3>1
  <2> DEFINE g == [s \in SUBSET (1..(k + 1)) |->
                      IF k + 1 \in s THEN step[<<f[s \ {k + 1}], k + 1>>] ELSE f[s]]
  <2>3. k + 1 \in 1..n /\ 1..(k + 1) = (1..k) \cup {k + 1} /\ k + 1 \notin 1..k
    BY <2>1
  <2>4. ASSUME NEW s \in SUBSET (1..(k + 1)) PROVE s \ {k + 1} \in SUBSET (1..k)
    BY <2>3
  <2>5. g \in [SUBSET (1..(k + 1)) -> A]
    <3>1. ASSUME NEW s \in SUBSET (1..(k + 1))
          PROVE  (IF k + 1 \in s THEN step[<<f[s \ {k + 1}], k + 1>>] ELSE f[s]) \in A
      <4>1. CASE k + 1 \in s
        <5>1. f[s \ {k + 1}] \in A
          BY <2>4
        <5> QED BY <2>3, <4>1, <5>1
      <4>2. CASE k + 1 \notin s
        <5>1. s \in SUBSET (1..k)
          BY <2>3, <4>2
        <5> QED BY <4>2, <5>1
      <4> QED BY <4>1, <4>2
    <3> QED BY <3>1
  <2>6. ASSUME NEW s \in SUBSET (1..(k + 1))
        PROVE  g[s] = IF s = {} THEN base ELSE step[<<g[s \ {Max(s)}], Max(s)>>]
    <3>1. CASE k + 1 \in s
      <4>1. Max(s) = k + 1
        <5>1. \A l \in s : k + 1 >= l /\ l \in Nat
          BY <2>1
        <5>2. \A m \in s : (\A l \in s : m >= l) => m = k + 1
          BY <3>1, <5>1
        <5> QED BY <3>1, <5>1, <5>2 DEF Max
      <4>2. s \ {k + 1} \in SUBSET (1..(k + 1)) /\ k + 1 \notin s \ {k + 1} /\ s # {}
        BY <3>1
      <4>3. g[s \ {k + 1}] = f[s \ {k + 1}]
        BY <4>2
      <4>4. g[s] = step[<<f[s \ {k + 1}], k + 1>>]
        BY <3>1
      <4> QED BY <4>1, <4>2, <4>3, <4>4
    <3>2. CASE k + 1 \notin s
      <4>1. s \in SUBSET (1..k) /\ g[s] = f[s]
        BY <2>3, <3>2
      <4>2. f[s] = IF s = {} THEN base ELSE step[<<f[s \ {Max(s)}], Max(s)>>]
        BY <2>2, <4>1
      <4>3. g[s \ {Max(s)}] = f[s \ {Max(s)}]
        <5>1. s \ {Max(s)} \in SUBSET (1..(k + 1)) /\ k + 1 \notin s \ {Max(s)}
          BY <3>2
        <5> QED BY <5>1
      <4> QED BY <4>1, <4>2, <4>3
    <3> QED BY <3>1, <3>2
  <2>7. Folds(k + 1, g)
    <3> HIDE DEF g
    <3> QED BY <2>6
  <2> HIDE DEF g, Folds
  <2> QED BY <2>5, <2>7
<1>3. \A k \in Nat : k \in K
  <2> HIDE DEF K
  <2>1. K \subseteq Nat
    BY DEF K
  <2> QED BY <1>1, <1>2, <2>1, AllNumbers
<1>4. n \in K
  BY <1>3
<1>5. \E f \in [SUBSET (1..n) -> A] : Folds(n, f)
  <2>1. n <= n
    OBVIOUS
  <2> HIDE DEF Folds
  <2> QED BY <1>4, <2>1
<1> QED BY <1>5 DEF FoldsBy

-----------------------------------------------------------------------------
(* What is kept of the first so many transactions when some are selected. It *)
(* is selected from the first to the last.                                   *)
Selects(kept, P, n, txs, places) ==
    /\ kept \in [0..n -> Seq(P)]
    /\ kept[0] = <<>> /\ kept[n] = Select(txs, places)
    /\ \A a \in 1..n : kept[a] = IF txs[a] \in places THEN Append(kept[a - 1], txs[a])
                                 ELSE kept[a - 1]

(* Select goes through them in that way.                                     *)
LEMMA SelectSteps ==
    ASSUME NEW P, NEW n \in Nat, NEW txs \in [1..n -> P], NEW places
    PROVE  \E kept : Selects(kept, P, n, txs, places)
<1>0. PICK S : S = 1..n
  OBVIOUS
<1> DEFINE add(before, i) == IF i \in places THEN Append(before, i) ELSE before
           eq(f) == f = [s \in SUBSET S |-> IF s = {} THEN <<>>
                                            ELSE add(f[s \ {Max(s)}], txs[Max(s)])]
           iter == CHOOSE f : eq(f)
           step == [p \in Seq(P) \X S |-> add(p[1], txs[p[2]])]
<1>1. Select(txs, places) = iter[S]
  <2>1. DOMAIN txs = S
    BY <1>0
  <2> QED BY <2>1 DEF Select, FoldLeft, MapThenFoldSet
<1>2. \A before \in Seq(P), a \in S : add(before, txs[a]) \in Seq(P)
  BY <1>0
<1>3. \A before \in Seq(P), a \in 1..n : step[<<before, a>>] \in Seq(P)
  <2> HIDE DEF add
  <2> QED BY <1>0, <1>2
<1>4. PICK f \in [SUBSET S -> Seq(P)] : \A s \in SUBSET S :
          f[s] = IF s = {} THEN <<>> ELSE step[<<f[s \ {Max(s)}], Max(s)>>]
  <2> HIDE DEF step
  <2>0. <<>> \in Seq(P)
    OBVIOUS
  <2>1. PICK A, base : A = Seq(P) /\ base = <<>> /\ base \in A
    BY <2>0
  <2>2. \A x \in A, i \in 1..n : step[<<x, i>>] \in A
    BY <1>3, <2>1
  <2>3. PICK f : FoldsBy(f, n, A, base, step)
    BY <2>1, <2>2, FoldExists
  <2> QED BY <1>0, <2>1, <2>3 DEF FoldsBy
<1>5. \A s \in SUBSET S : s # {} => Max(s) \in s
  <2> TAKE s \in SUBSET S
  <2> HAVE s # {}
  <2>1. \E k \in s : \A l \in s : k >= l
    <3>1. s \subseteq 1..n
      BY <1>0
    <3>2. PICK k \in s : \A l \in s : l <= k
      BY <3>1, Greatest
    <3> QED BY <3>1, <3>2
  <2> QED BY <2>1 DEF Max
<1>6. eq(f)
  <2>1. ASSUME NEW s \in SUBSET S
        PROVE  f[s] = IF s = {} THEN <<>> ELSE add(f[s \ {Max(s)}], txs[Max(s)])
    <3>1. CASE s = {}
      BY <1>4, <3>1
    <3>2. CASE s # {}
      <4>1. PICK m : m = Max(s) /\ m \in s
        BY <1>5, <3>2
      <4>2. s \ {m} \in SUBSET S /\ m \in S
        BY <4>1
      <4>3. <<f[s \ {m}], m>> \in Seq(P) \X S
        BY <4>2
      <4>4. step[<<f[s \ {m}], m>>] = add(f[s \ {m}], txs[m])
        <5> HIDE DEF add
        <5> QED BY <4>3
      <4> HIDE DEF step, add
      <4> QED BY <1>4, <3>2, <4>1, <4>4
    <3> QED BY <3>1, <3>2
  <2> HIDE DEF add
  <2> QED BY <2>1
<1>7. eq(iter)
  <2> HIDE DEF eq
  <2> QED BY <1>6
<1> DEFINE kept == [a \in 0..n |-> iter[1..a]]
<1>8. \A a \in 0..n : 1..a \in SUBSET S
  BY <1>0
<1>9. kept[0] = <<>>
  <2>1. {} \in SUBSET S /\ 1..0 = {} /\ 0 \in 0..n
    OBVIOUS
  <2>2. iter[{}] = <<>>
    <3> HIDE DEF iter
    <3> QED BY <1>7, <2>1
  <2> HIDE DEF iter
  <2> QED BY <2>1, <2>2
<1>10. ASSUME NEW a \in 1..n PROVE kept[a] = add(kept[a - 1], txs[a])
  <2>1. Max(1..a) = a /\ (1..a) \ {a} = 1..(a - 1) /\ a \in 1..a
    BY LastOf
  <2>2. iter[1..a] = add(iter[1..(a - 1)], txs[a])
    <3>1. PICK s : s = 1..a
      OBVIOUS
    <3>2. s \in SUBSET S /\ s # {} /\ Max(s) = a /\ s \ {a} = 1..(a - 1)
      <4>1. a \in 0..n
        OBVIOUS
      <4> QED BY <1>8, <2>1, <3>1, <4>1
    <3> HIDE DEF iter, add
    <3>3. iter[s] = add(iter[s \ {a}], txs[a])
      BY <1>7, <3>2
    <3> QED BY <3>1, <3>2, <3>3
  <2>3. a \in 0..n /\ a - 1 \in 0..n
    OBVIOUS
  <2> HIDE DEF iter, add
  <2> QED BY <2>2, <2>3
<1>11. kept[n] = Select(txs, places)
  <2> HIDE DEF iter
  <2> QED BY <1>0, <1>1
<1>12. \A a \in 0..n : kept[a] \in Seq(P)
  <2> HIDE DEF kept
  <2> DEFINE K == {a \in Nat : a <= n => kept[a] \in Seq(P)}
  <2>1. 0 \in K
    <3>1. <<>> \in Seq(P)
      OBVIOUS
    <3> QED BY <1>9, <3>1
  <2>2. ASSUME NEW a \in K PROVE a + 1 \in K
    <3> SUFFICES ASSUME a + 1 <= n PROVE kept[a + 1] \in Seq(P)
      OBVIOUS
    <3>1. kept[a] \in Seq(P) /\ a + 1 \in 1..n /\ (a + 1) - 1 = a
      OBVIOUS
    <3>2. kept[a + 1] = add(kept[a], txs[a + 1])
      BY <1>10, <3>1
    <3> HIDE DEF add
    <3> QED BY <1>0, <1>2, <3>1, <3>2
  <2>3. \A a \in Nat : a \in K
    <3> HIDE DEF K
    <3>1. K \subseteq Nat
      BY DEF K
    <3> QED BY <2>1, <2>2, <3>1, AllNumbers
  <2> QED BY <2>3
<1>13. kept \in [0..n -> Seq(P)]
  BY <1>12
<1> HIDE DEF kept
<1> QED BY <1>9, <1>10, <1>11, <1>13 DEF Selects

(* What is kept has each transaction that is selected, and each once.        *)
Kept(kept, P, n, txs, places) ==
    /\ kept \in Seq(P)
    /\ \A a, b \in 1..Len(kept) : kept[a] = kept[b] => a = b
    /\ \A i : (\E a \in 1..Len(kept) : kept[a] = i) <=> i \in places /\ \E a \in 1..n : txs[a] = i

(* What is selected is what is in the set, each once.                        *)
LEMMA SelectIs ==
    ASSUME NEW P, NEW n \in Nat, NEW txs \in [1..n -> P], NEW places,
           \A a, b \in 1..n : txs[a] = txs[b] => a = b
    PROVE  Kept(Select(txs, places), P, n, txs, places)
<1>1. PICK kept : Selects(kept, P, n, txs, places)
  BY SelectSteps
<1> DEFINE Has(s, k) ==
               /\ s \in Seq(P)
               /\ \A a, b \in 1..Len(s) : s[a] = s[b] => a = b
               /\ \A i : (\E a \in 1..Len(s) : s[a] = i) <=> i \in places /\ \E a \in 1..k : txs[a] = i
           K == {k \in Nat : k <= n => Has(kept[k], k)}
<1>2. 0 \in K
  <2>1. kept[0] = <<>> /\ <<>> \in Seq(P) /\ Len(<<>>) = 0
    BY <1>1 DEF Selects
  <2>2. Has(<<>>, 0)
    BY <2>1
  <2> HIDE DEF Has
  <2> QED BY <2>1, <2>2
<1>3. ASSUME NEW k \in K PROVE k + 1 \in K
  <2>1. k \in Nat /\ k + 1 \in Nat
    OBVIOUS
  <2> SUFFICES ASSUME k + 1 <= n PROVE Has(kept[k + 1], k + 1)
    BY <2>1
  <2>2. Has(kept[k], k)
    <3> HIDE DEF Has
    <3>1. k <= n
      BY <2>1
    <3> QED BY <3>1
  <2>3. k + 1 \in 1..n /\ (k + 1) - 1 = k /\ 1..(k + 1) = (1..k) \cup {k + 1} /\ k + 1 \notin 1..k
    BY <2>1
  <2>4. kept[k + 1] = IF txs[k + 1] \in places THEN Append(kept[k], txs[k + 1]) ELSE kept[k]
    BY <1>1, <2>3 DEF Selects
  <2>5. CASE txs[k + 1] \notin places
    <3>1. ASSUME NEW i, i \in places
          PROVE  (\E a \in 1..(k + 1) : txs[a] = i) <=> \E a \in 1..k : txs[a] = i
      BY <2>3, <2>5, <3>1
    <3> QED BY <2>2, <2>4, <2>5, <3>1
  <2>6. CASE txs[k + 1] \in places
    <3>1. PICK s, x, t : s = kept[k] /\ x = txs[k + 1] /\ t = Append(s, x)
      OBVIOUS
    <3>2. s \in Seq(P) /\ x \in P /\ Len(s) \in Nat
      BY <2>2, <2>3, <3>1
    <3>3. /\ t \in Seq(P) /\ Len(t) = Len(s) + 1 /\ t[Len(s) + 1] = x
          /\ \A a \in 1..Len(s) : t[a] = s[a]
          /\ 1..Len(t) = (1..Len(s)) \cup {Len(s) + 1}
      BY <3>1, <3>2
    <3>4. \A a \in 1..Len(s) : s[a] # x
      <4> SUFFICES ASSUME NEW a \in 1..Len(s), s[a] = x PROVE FALSE
        OBVIOUS
      <4>1. PICK b \in 1..k : txs[b] = x
        BY <2>2, <3>1
      <4>2. b \in 1..n /\ b # k + 1
        BY <2>1
      <4> QED BY <2>3, <3>1, <4>1, <4>2
    <3>5. \A a, b \in 1..Len(t) : t[a] = t[b] => a = b
      <4>1. \A a, b \in 1..Len(s) : t[a] = t[b] => a = b
        BY <2>2, <3>1, <3>3
      <4> QED BY <3>3, <3>4, <4>1
    <3>6. \A i : (\E a \in 1..Len(t) : t[a] = i) <=> i \in places /\ \E a \in 1..(k + 1) : txs[a] = i
      <4> TAKE i
      <4>1. (\E a \in 1..Len(t) : t[a] = i) <=> i = x \/ \E a \in 1..Len(s) : s[a] = i
        BY <3>3
      <4>2. (\E a \in 1..(k + 1) : txs[a] = i) <=> i = x \/ \E a \in 1..k : txs[a] = i
        BY <2>3, <3>1
      <4>3. (\E a \in 1..Len(s) : s[a] = i) <=> i \in places /\ \E a \in 1..k : txs[a] = i
        BY <2>2, <3>1
      <4> QED BY <2>6, <3>1, <4>1, <4>2, <4>3
    <3>7. Has(t, k + 1)
      BY <3>3, <3>5, <3>6
    <3> HIDE DEF Has
    <3> QED BY <2>4, <2>6, <3>1, <3>7
  <2> QED BY <2>5, <2>6
<1>4. \A k \in Nat : k \in K
  <2> HIDE DEF K
  <2>1. K \subseteq Nat
    BY DEF K
  <2> QED BY <1>2, <1>3, <2>1, AllNumbers
<1>5. Has(kept[n], n)
  <2> HIDE DEF Has
  <2>1. n \in K /\ n <= n
    BY <1>4
  <2> QED BY <2>1
<1>6. kept[n] = Select(txs, places)
  BY <1>1 DEF Selects
<1> QED BY <1>5, <1>6 DEF Kept

(* A selection of transactions that follow each other.                       *)
InRange(txs, n, P, places, l, m) ==
    /\ n \in Nat /\ txs \in [1..n -> P]
    /\ l \in 0..n /\ m \in l..n
    /\ \A a \in 1..n : txs[a] \in places <=> l < a /\ a <= m

(* Select gives that part of the sequence then.                              *)
LEMMA SelectRange ==
    ASSUME NEW P, NEW n, NEW txs, NEW places, NEW l, NEW m, InRange(txs, n, P, places, l, m)
    PROVE  Select(txs, places) = SubSeq(txs, l + 1, m)
<1>a. /\ n \in Nat /\ txs \in [1..n -> P] /\ l \in 0..n /\ m \in l..n
      /\ \A a \in 1..n : txs[a] \in places <=> l < a /\ a <= m
  BY DEF InRange
<1>0. txs \in Seq(P) /\ Len(txs) = n
  BY <1>a, FunctionIsSequence
<1>1. PICK kept : Selects(kept, P, n, txs, places)
  BY <1>a, SelectSteps
<1> DEFINE upto(k) == IF k <= m THEN k ELSE m
           K == {k \in Nat : k <= n => kept[k] = SubSeq(txs, l + 1, upto(k))}
<1>2. 0 \in K
  <2>1. kept[0] = <<>>
    BY <1>1 DEF Selects
  <2>2. SubSeq(txs, l + 1, 0) = <<>> /\ upto(0) = 0
    BY <1>0, <1>a
  <2> QED BY <2>1, <2>2
<1>3. ASSUME NEW k \in K PROVE k + 1 \in K
  <2>1. k \in Nat /\ k + 1 \in Nat
    OBVIOUS
  <2> SUFFICES ASSUME k + 1 <= n PROVE kept[k + 1] = SubSeq(txs, l + 1, upto(k + 1))
    BY <2>1
  <2>2. kept[k] = SubSeq(txs, l + 1, upto(k))
    BY <1>a, <2>1
  <2>3. k + 1 \in 1..n /\ (k + 1) - 1 = k
    BY <1>a, <2>1
  <2>4. kept[k + 1] = IF txs[k + 1] \in places THEN Append(kept[k], txs[k + 1]) ELSE kept[k]
    BY <1>1, <2>3 DEF Selects
  <2>5. CASE k + 1 <= l
    <3>1. txs[k + 1] \notin places /\ upto(k) = k /\ upto(k + 1) = k + 1
      BY <1>a, <2>1, <2>3, <2>5
    <3>2. SubSeq(txs, l + 1, k) = <<>> /\ SubSeq(txs, l + 1, k + 1) = <<>>
      BY <1>0, <1>a, <2>1, <2>5
    <3> QED BY <2>2, <2>4, <3>1, <3>2
  <2>6. CASE l < k + 1 /\ k + 1 <= m
    <3>1. txs[k + 1] \in places /\ upto(k) = k /\ upto(k + 1) = k + 1
      BY <1>a, <2>1, <2>3, <2>6
    <3>2. Append(SubSeq(txs, l + 1, k), txs[k + 1]) = SubSeq(txs, l + 1, k + 1)
      BY <1>0, <1>a, <2>1, <2>3, <2>6
    <3> QED BY <2>2, <2>4, <3>1, <3>2
  <2>7. CASE m < k + 1
    <3>1. txs[k + 1] \notin places /\ upto(k) = m /\ upto(k + 1) = m
      BY <1>a, <2>1, <2>3, <2>7
    <3> QED BY <2>2, <2>4, <3>1
  <2> QED BY <1>a, <2>1, <2>5, <2>6, <2>7
<1>4. \A k \in Nat : k \in K
  <2> HIDE DEF K
  <2>1. K \subseteq Nat
    BY DEF K
  <2> QED BY <1>2, <1>3, <2>1, AllNumbers
<1>5. kept[n] = SubSeq(txs, l + 1, upto(n)) /\ upto(n) = m
  <2>1. n \in K /\ n <= n
    BY <1>4, <1>a
  <2> QED BY <1>a, <2>1
<1>6. kept[n] = Select(txs, places)
  BY <1>1 DEF Selects
<1> QED BY <1>5, <1>6

-----------------------------------------------------------------------------
(* What a transaction left is what it spent and its own worth.               *)
LEMMA LeftIs ==
    ASSUME LedgerInv, NEW i \in 1..Len(ledger)
    PROVE  /\ ledger[i].balance = SumOf(Balances, ledger[i].inputs) + Worth(ledger[i])
           /\ Worth(ledger[i]) \in Int
<1>1. /\ ledger[i].amount \in Nat /\ ledger[i].fee \in Nat
      /\ SumOf(Balances, ledger[i].inputs) \in Nat
  BY Rows, InputsAre DEF LedgerInv
<1>2. Balanced(i)
  BY DEF LedgerInv
<1>3. CASE ledger[i].txType = "TOPUP"
  <2>1. ledger[i].inputs = {} /\ ledger[i].balance = ledger[i].amount
    BY <1>2, <1>3 DEF Balanced
  <2>2. SumOf(Balances, ledger[i].inputs) = 0
    BY <2>1, SumNone
  <2> QED BY <1>1, <1>3, <2>1, <2>2 DEF Worth
<1>4. CASE ledger[i].txType = "SEND"
  <2>1. ledger[i].balance = SumOf(Balances, ledger[i].inputs) - ledger[i].amount - ledger[i].fee
    BY <1>2, <1>4 DEF Balanced, Spends
  <2> QED BY <1>1, <1>4, <2>1 DEF Worth
<1> QED BY <1>2, <1>3, <1>4 DEF Balanced

(* What is newer than a send, or shares its nonce, is counted once with the  *)
(* balance that the send left.                                               *)
SinceNonceOf(F, P) == {i \in P : ledger[i].nonce >= ledger[F].nonce}
CountsFromSend(F, P, sum) ==
    F \in P /\ sum = ledger[F].balance + WorthOf(SinceNonceOf(F, P) \ {F})

(* AfterSend is the balance of the send and what else counts.                *)
LEMMA AfterSendIs ==
    ASSUME LedgerInv, NEW P, P \subseteq 1..Len(ledger), NEW n \in Nat, NEW batch,
           Fetched(batch, n, P, BatchSize), NEW send \in 1..n
    PROVE  CountsFromSend(batch[send], P, AfterSend(batch, send))
<1>0. PICK F : F = batch[send]
  OBVIOUS
<1>1. /\ batch \in [1..n -> P]
      /\ F = batch[send]
      /\ \A a, b \in 1..n : batch[a] = batch[b] => a = b
      /\ \A a, b \in 1..n : a < b => ledger[batch[a]].nonce >= ledger[batch[b]].nonce
      /\ \A i \in P, a \in 1..n : ledger[i].nonce >= ledger[batch[a]].nonce => \E b \in 1..n : batch[b] = i
  BY <1>0 DEF Fetched
<1>2. /\ DOMAIN ledger = 1..Len(ledger) /\ Priced
      /\ \A i \in P : ledger[i].nonce \in Nat
  BY Rows DEF LedgerInv
<1>3. F \in P /\ F = batch[send] /\ batch \in Seq(P) /\ Len(batch) = n
  BY <1>0, <1>1, FunctionIsSequence
<1> DEFINE later == SubSeq(batch, send + 1, n)
           sharing == {i \in ToSet(later) : ledger[i].nonce = ledger[F].nonce}
           same == Select(later, sharing)
           first == SubSeq(batch, 1, send - 1)
           m == Len(same)
           r == send - 1
<1>4. /\ later \in [1..(n - send) -> P] /\ n - send \in Nat
      /\ \A a \in 1..(n - send) : later[a] = batch[send + a] /\ send + a \in 1..n
      /\ ToSet(later) = {later[a] : a \in 1..(n - send)}
  <2>1. later \in Seq(P) /\ Len(later) = n - send /\ n - send \in Nat
    BY <1>3
  <2>2. \A a \in 1..(n - send) : later[a] = batch[send + a] /\ send + a \in 1..n
    BY <1>3
  <2> HIDE DEF later
  <2>3. DOMAIN later = 1..(n - send)
    BY <2>1
  <2> QED BY <2>1, <2>2, <2>3 DEF ToSet
<1>5. /\ first \in Seq(P) /\ Len(first) = r /\ r \in Nat
      /\ \A a \in 1..r : first[a] = batch[a] /\ a \in 1..n /\ a < send
  BY <1>3
<1>6. AfterSend(batch, send) = ledger[F].balance + SumOfWorth(first \o same)
  BY <1>0, <1>3 DEF AfterSend
<1> HIDE DEF later
<1>7. \A a, b \in 1..(n - send) : later[a] = later[b] => a = b
  <2> TAKE a, b \in 1..(n - send)
  <2> HAVE later[a] = later[b]
  <2>1. send + a = send + b
    BY <1>1, <1>4
  <2> QED BY <1>4, <2>1
<1> HIDE DEF sharing
<1>8. /\ same \in Seq(P)
      /\ \A a, b \in 1..m : same[a] = same[b] => a = b
      /\ \A i : (\E a \in 1..m : same[a] = i)
                <=> i \in sharing /\ \E a \in 1..(n - send) : later[a] = i
  <2>1. PICK d, txs, kept : d = n - send /\ txs = later /\ kept = Select(txs, sharing)
    OBVIOUS
  <2>2. d \in Nat /\ txs \in [1..d -> P] /\ \A a, b \in 1..d : txs[a] = txs[b] => a = b
    BY <1>4, <1>7, <2>1
  <2>3. Kept(Select(txs, sharing), P, d, txs, sharing)
    BY <2>2, SelectIs
  <2> QED BY <2>1, <2>3 DEF Kept
<1> HIDE DEF first, same
<1>9. \A i : (\E a \in 1..m : same[a] = i)
             <=> \E b \in (send + 1)..n : batch[b] = i /\ ledger[i].nonce = ledger[F].nonce
  <2> TAKE i
  <2>1. i \in sharing <=> ledger[i].nonce = ledger[F].nonce /\ \E a \in 1..(n - send) : later[a] = i
    BY <1>4 DEF sharing
  <2>2. (\E a \in 1..(n - send) : later[a] = i) <=> \E b \in (send + 1)..n : batch[b] = i
    <3>1. ASSUME NEW a \in 1..(n - send), later[a] = i PROVE \E b \in (send + 1)..n : batch[b] = i
      <4>1. send + a \in (send + 1)..n
        BY <1>4
      <4> QED BY <1>4, <3>1, <4>1
    <3>2. ASSUME NEW b \in (send + 1)..n, batch[b] = i PROVE \E a \in 1..(n - send) : later[a] = i
      <4>1. b - send \in 1..(n - send) /\ send + (b - send) = b
        BY <1>4
      <4> QED BY <1>4, <3>2, <4>1
    <3> QED BY <3>1, <3>2
  <2> QED BY <1>8, <2>1, <2>2
<1> DEFINE q == first \o same
           N == r + m
<1>10. /\ N \in Nat /\ m \in Nat /\ q \in [1..N -> P]
       /\ \A a \in 1..N : q[a] = IF a <= r THEN first[a] ELSE same[a - r]
  <2>1. m \in Nat
    BY <1>8
  <2>2. Len(q) = N /\ q \in Seq(P) /\ N \in Nat
    <3>1. PICK s, t : s = first /\ t = same
      OBVIOUS
    <3>2. s \in Seq(P) /\ t \in Seq(P) /\ Len(s) = r /\ r \in Nat /\ Len(t) = m
      BY <1>5, <1>8, <3>1
    <3>3. Len(s \o t) = r + m /\ s \o t \in Seq(P)
      BY <3>2
    <3> QED BY <2>1, <3>1, <3>2, <3>3
  <2>3. \A a \in 1..N : q[a] = IF a <= r THEN first[a] ELSE same[a - r]
    BY <1>5, <1>8, <2>1
  <2> HIDE DEF q, m, N
  <2> QED BY <2>1, <2>2, <2>3
<1> HIDE DEF q, m, r
<1>11. /\ \A a \in 1..r : a \in 1..N /\ q[a] = batch[a]
       /\ \A a \in 1..m : r + a \in 1..N /\ q[r + a] = same[a]
       /\ \A a \in 1..N : a \in 1..r \/ (a - r \in 1..m /\ a = r + (a - r))
  <2>1. \A a \in 1..r : a \in 1..N /\ q[a] = batch[a]
    BY <1>5, <1>10
  <2>2. \A a \in 1..m : r + a \in 1..N /\ q[r + a] = same[a]
    <3> TAKE a \in 1..m
    <3>1. r + a \in 1..N /\ ~(r + a <= r) /\ (r + a) - r = a
      BY <1>5, <1>10
    <3> QED BY <1>10, <3>1
  <2>3. \A a \in 1..N : a \in 1..r \/ (a - r \in 1..m /\ a = r + (a - r))
    BY <1>5, <1>10
  <2> QED BY <2>1, <2>2, <2>3
<1> HIDE DEF N
<1>12. \A a, b \in 1..N : q[a] = q[b] => a = b
  <2>1. ASSUME NEW a \in 1..r, NEW b \in 1..m PROVE batch[a] # same[b]
    <3>1. PICK c \in (send + 1)..n : batch[c] = same[b]
      BY <1>9
    <3>2. a \in 1..n /\ c \in 1..n /\ a # c
      BY <1>5
    <3> QED BY <1>1, <3>1, <3>2
  <2>2. \A a, b \in 1..r : batch[a] = batch[b] => a = b
    BY <1>1, <1>5
  <2> TAKE a, b \in 1..N
  <2> HAVE q[a] = q[b]
  <2>3. CASE a \in 1..r /\ b \in 1..r
    BY <1>11, <2>2, <2>3
  <2>4. CASE a \in 1..r /\ b - r \in 1..m /\ b = r + (b - r)
    BY <1>11, <2>1, <2>4
  <2>5. CASE b \in 1..r /\ a - r \in 1..m /\ a = r + (a - r)
    BY <1>11, <2>1, <2>5
  <2>6. CASE a - r \in 1..m /\ a = r + (a - r) /\ b - r \in 1..m /\ b = r + (b - r)
    <3>1. same[a - r] = same[b - r]
      BY <1>11, <2>6
    <3>2. a - r = b - r
      BY <1>8, <2>6, <3>1
    <3> QED BY <2>6, <3>2
  <2> QED BY <1>11, <2>3, <2>4, <2>5, <2>6
<1>13. {q[a] : a \in 1..N} = {i \in P : ledger[i].nonce >= ledger[F].nonce} \ {F}
  <2>1. ASSUME NEW a \in 1..N
        PROVE  q[a] \in P /\ ledger[q[a]].nonce >= ledger[F].nonce /\ q[a] # F
    <3>1. q[a] \in P
      BY <1>10
    <3>2. CASE a \in 1..r
      <4>1. a \in 1..n /\ a < send /\ q[a] = batch[a]
        BY <1>5, <1>11, <3>2
      <4>2. a # send
        BY <4>1
      <4> QED BY <1>1, <3>1, <4>1, <4>2
    <3>3. CASE a - r \in 1..m /\ a = r + (a - r)
      <4>1. q[a] = same[a - r]
        BY <1>11, <3>3
      <4>2. PICK c \in (send + 1)..n : batch[c] = q[a] /\ ledger[q[a]].nonce = ledger[F].nonce
        BY <1>9, <3>3, <4>1
      <4>3. c \in 1..n /\ c # send
        OBVIOUS
      <4>4. q[a] # F
        BY <1>1, <4>2, <4>3
      <4>5. ledger[F].nonce \in Nat
        BY <1>2, <1>3
      <4> QED BY <3>1, <4>2, <4>4, <4>5
    <3> QED BY <1>11, <3>2, <3>3
  <2>2. ASSUME NEW i \in P, ledger[i].nonce >= ledger[F].nonce, i # F
        PROVE  \E a \in 1..N : q[a] = i
    <3>1. PICK b \in 1..n : batch[b] = i
      BY <1>1, <2>2
    <3>2. b # send
      BY <1>1, <2>2, <3>1
    <3>3. CASE b < send
      <4>1. b \in 1..r
        BY <3>3 DEF r
      <4> QED BY <1>11, <3>1, <4>1
    <3>4. CASE b > send
      <4>1. ledger[F].nonce >= ledger[i].nonce
        BY <1>1, <3>1, <3>4
      <4>2. ledger[i].nonce = ledger[F].nonce
        BY <1>2, <1>3, <2>2, <4>1
      <4>3. b \in (send + 1)..n
        BY <3>4
      <4>4. PICK a \in 1..m : same[a] = i
        BY <1>9, <3>1, <4>2, <4>3
      <4> QED BY <1>11, <4>4
    <3> QED BY <3>2, <3>3, <3>4
  <2> QED BY <2>1, <2>2
<1>14. SumOfWorth(q) = WorthOf({q[a] : a \in 1..N})
  <2>1. q \in [1..N -> DOMAIN ledger]
    BY <1>2, <1>10
  <2> QED BY <1>2, <1>10, <1>12, <2>1, SumOfWorthIsWorth
<1> QED BY <1>0, <1>3, <1>6, <1>13, <1>14 DEF q, SinceNonceOf, CountsFromSend

-----------------------------------------------------------------------------
(* No transaction of a batch has a nonce below its lowest.                   *)
LEMMA LowestIsLeast ==
    ASSUME LedgerInv, NEW P, P \subseteq 1..Len(ledger), NEW n \in Nat, NEW batch, batch \in [1..n -> P],
           NEW send \in 1..n
    PROVE  LowestFetchedNonce(batch) <= ledger[batch[send]].nonce
<1>1. Len(batch) = n /\ batch # <<>>
  BY FunctionIsSequence
<1>2. \A i \in P : ledger[i].nonce \in Nat
  BY Rows DEF LedgerInv
<1>3. PICK N : N = {ledger[batch[a]].nonce : a \in 1..n}
  OBVIOUS
<1>4. N \subseteq Nat /\ N # {} /\ ledger[batch[send]].nonce \in N
  BY <1>2, <1>3
<1>5. PICK m \in N : \A l \in N : m <= l
  BY <1>4, Least
<1>6. LowestFetchedNonce(batch) = Min(N)
  BY <1>1, <1>3 DEF LowestFetchedNonce
<1>7. Min(N) \in N /\ \A l \in N : Min(N) <= l
  BY <1>5 DEF Min
<1> QED BY <1>4, <1>6, <1>7

(* A batch that has a send in order is the last one needed: what is older    *)
(* than that send is worth what it spent, whether it has been told or not.   *)
LEMMA SendEndsBatches ==
    ASSUME LedgerInv, LandedInv, CallInv, Fetching, call.before = NoBefore, NoneMissed, NoneLate,
           NEW laterFirst \in BOOLEAN,
           NEW batch, batch = FetchTxs(cache, BatchSize, call.token, call.lowest, laterFirst),
           Filled(batch),
           NEW send \in 1..Len(batch), InOrder(batch[send])
    PROVE  \E k \in call.since..Len(ledger) :
               call.total + AfterSend(batch, send) = UnspentBalance(k, call.token)
<1>0. PICK n, token, L, P, F, low, top :
          /\ n = Len(ledger) /\ token = call.token /\ L = call.lowest
          /\ P = FetchPlaces(cache, token, L) /\ F = batch[send]
          /\ low = LowestFetchedNonce(batch) /\ top = LatestCachedNonce
  OBVIOUS
<1>1. /\ n \in Nat /\ DOMAIN ledger = 1..n /\ Priced
      /\ \A i \in 1..n : ledger[i].nonce \in Nat
      /\ BatchSize \in Nat \ {0}
      /\ cache \subseteq 1..n /\ L \in Int /\ CallRight /\ ToldSince
      /\ call.total = WorthOf(CountedOf(L)) /\ call.since \in 0..n
  BY <1>0, Rows, BalanceAssumption DEF LedgerInv, CallInv, CallRight, Fetching
<1>2. P \subseteq 1..n /\ P = {i \in OfToken(cache, token) : ledger[i].nonce < L}
  BY <1>0, <1>1 DEF FetchPlaces, OfToken
<1>3. PICK c \in Nat : Fetched(batch, c, P, BatchSize)
  BY <1>0, <1>1, FetchTxsIsFetched
<1>4. batch \in [1..c -> P] /\ send \in 1..c
  <2>1. batch \in [1..c -> P]
    BY <1>3 DEF Fetched
  <2>2. Len(batch) = c
    BY <2>1, FunctionIsSequence
  <2> QED BY <2>1, <2>2
<1>5. PICK H : H = SinceNonceOf(F, P) /\ H = {i \in P : ledger[i].nonce >= ledger[F].nonce}
  BY DEF SinceNonceOf
<1>6. F \in P /\ AfterSend(batch, send) = ledger[F].balance + WorthOf(H \ {F})
  <2>1. P \subseteq 1..Len(ledger) /\ F = batch[send]
    BY <1>0, <1>2
  <2>2. CountsFromSend(batch[send], P, AfterSend(batch, send))
    BY <1>3, <1>4, <2>1, AfterSendIs
  <2> QED BY <1>5, <2>1, <2>2 DEF CountsFromSend
<1>7. low \in Int /\ low <= ledger[F].nonce /\ NoGap(low)
  <2>1. LowestFetchedNonce(batch) \in Int /\ NoGap(LowestFetchedNonce(batch))
    BY BatchCounts
  <2>2. LowestFetchedNonce(batch) <= ledger[batch[send]].nonce
    BY <1>0, <1>2, <1>4, LowestIsLeast
  <2> QED BY <1>0, <2>1, <2>2
<1>8. /\ top \in Int /\ top < NoBefore /\ NoBefore \in Nat
      /\ \A i \in cache : ledger[i].nonce <= top
  <2>1. top = Latest(cache)
    BY <1>0 DEF LatestCachedNonce, Latest
  <2> QED BY <1>0, <1>1, <2>1, LatestIs, BalanceAssumption DEF NoBefore
<1>9. PICK k \in call.since..n :
          /\ \A i \in 1..n : i \in 1..k <=> ledger[i].nonce <= top
          /\ \A i \in 1..n : ledger[i].nonce >= low => (i \in 1..k <=> i \in cache)
  <2>1. \A m \in 0..LatestCachedNonce : m >= low => IsCachedNonce(m)
    BY <1>0, <1>7, <1>8 DEF NoGap
  <2> QED BY <1>0, <1>1, <1>7, <2>1, CachedIsPrefix
<1>10. k \in 0..n /\ k \in Nat /\ 1..k \subseteq 1..n
  BY <1>1
<1>11. F \in 1..n /\ InOrder(F) /\ ledger[F].token = token /\ F \in H
       /\ ledger[F].nonce \in Nat /\ ledger[F].nonce < L /\ ledger[F].nonce <= top
  <2>1. ledger[F].nonce \in Nat
    BY <1>1, <1>2, <1>6
  <2> QED BY <1>0, <1>2, <1>5, <1>6, <1>8, <2>1 DEF OfToken
<1>12. PICK C, O : C = CountedOf(L) /\ O = Older(F)
  OBVIOUS
<1>13. WorthOf(O) = SumOf(Balances, ledger[F].inputs)
  BY <1>0, <1>11, <1>12, OlderIsSpent
<1>14. \A i \in 1..n :
           /\ i \in C <=> i \in cache /\ ledger[i].token = token /\ ledger[i].nonce >= L
           /\ i \in H <=> i \in cache /\ ledger[i].token = token /\ ledger[i].nonce < L
                          /\ ledger[i].nonce >= ledger[F].nonce
           /\ i \in O <=> ledger[i].token = token /\ ledger[i].nonce < ledger[F].nonce
  <2> TAKE i \in 1..n
  <2>1. i \in C <=> i \in cache /\ ledger[i].token = token /\ ledger[i].nonce >= L
    <3>1. i \in cache => ledger[i].nonce < call.before
      BY <1>1, <1>8
    <3> QED BY <1>0, <1>12, <3>1 DEF CountedOf, OfToken
  <2>2. i \in H <=> i \in cache /\ ledger[i].token = token /\ ledger[i].nonce < L
                          /\ ledger[i].nonce >= ledger[F].nonce
    BY <1>2, <1>5 DEF OfToken
  <2>3. i \in O <=> ledger[i].token = token /\ ledger[i].nonce < ledger[F].nonce
    BY <1>0, <1>11, <1>12 DEF Older, OfToken
  <2> QED BY <2>1, <2>2, <2>3
<1>15. C \subseteq 1..n /\ H \subseteq 1..n /\ O \subseteq 1..n
  <2>1. C \subseteq 1..n
    BY <1>0, <1>1, <1>12, CountedIs
  <2>2. O \subseteq 1..n
    BY <1>0, <1>11, <1>12, OlderIs
  <2> QED BY <1>2, <1>5, <2>1, <2>2
<1>16. C \cap H = {} /\ (C \cup H) \cap O = {}
  <2>1. ASSUME NEW i \in 1..n PROVE ~(i \in C /\ i \in H) /\ ~(i \in C /\ i \in O) /\ ~(i \in H /\ i \in O)
    <3>1. ledger[i].nonce \in Nat
      BY <1>1
    <3> QED BY <1>1, <1>11, <1>14, <3>1
  <2> QED BY <1>15, <2>1
<1>17. OfToken(1..k, token) = (C \cup H) \cup O
  <2>1. ASSUME NEW i \in 1..n
        PROVE  i \in 1..k /\ ledger[i].token = token <=> i \in C \/ i \in H \/ i \in O
    <3>1. ledger[i].nonce \in Nat
      BY <1>1
    <3>2. ledger[i].nonce < ledger[F].nonce => i \in 1..k
      BY <1>8, <1>9, <1>11, <3>1
    <3>3. ledger[i].nonce >= ledger[F].nonce => (i \in 1..k <=> i \in cache)
      <4>1. ledger[i].nonce >= ledger[F].nonce => ledger[i].nonce >= low
        BY <1>7, <1>11, <3>1
      <4> QED BY <1>9, <4>1
    <3>4. ledger[i].nonce >= L => ledger[i].nonce >= ledger[F].nonce
      BY <1>1, <1>11, <3>1
    <3>5. ledger[i].nonce < ledger[F].nonce \/ ledger[i].nonce >= ledger[F].nonce
      BY <1>11, <3>1
    <3>6. ledger[i].nonce < L \/ ledger[i].nonce >= L
      BY <1>1, <3>1
    <3> QED BY <1>14, <3>2, <3>3, <3>4, <3>5, <3>6, Zenon
  <2>2. \A i : i \in OfToken(1..k, token) <=> i \in 1..n /\ i \in 1..k /\ ledger[i].token = token
    BY <1>10 DEF OfToken
  <2> QED BY <1>15, <2>1, <2>2
<1>18. /\ IsFiniteSet(C) /\ IsFiniteSet(H) /\ IsFiniteSet(O) /\ IsFiniteSet(H \ {F}) /\ IsFiniteSet(C \cup H)
  <2>1. IsFiniteSet(1..n)
    BY <1>1, FS_Interval
  <2>2. H \ {F} \subseteq 1..n /\ C \cup H \subseteq 1..n
    BY <1>15
  <2> QED BY <1>15, <2>1, <2>2, FS_Subset
<1>19. WorthOf(H) = WorthOf(H \ {F}) + Worth(ledger[F])
  <2>1. PICK G : G = H \ {F}
    OBVIOUS
  <2>2. H = G \cup {F} /\ F \notin G /\ G \subseteq DOMAIN ledger /\ F \in DOMAIN ledger /\ IsFiniteSet(G)
    BY <1>1, <1>11, <1>15, <1>18, <2>1
  <2>3. WorthOf(G \cup {F}) = WorthOf(G) + Worth(ledger[F])
    BY <1>1, <2>2, WorthMore
  <2> QED BY <2>1, <2>2, <2>3
<1>20. ledger[F].balance = WorthOf(O) + Worth(ledger[F]) /\ Worth(ledger[F]) \in Int
  BY <1>0, <1>11, <1>13, LeftIs
<1>21. WorthOf((C \cup H) \cup O) = WorthOf(C \cup H) + WorthOf(O)
  BY <1>1, <1>15, <1>16, <1>18, WorthUnion
<1>22. WorthOf(C \cup H) = WorthOf(C) + WorthOf(H)
  BY <1>1, <1>15, <1>16, <1>18, WorthUnion
<1>23. WorthOf(C) \in Int /\ WorthOf(O) \in Int /\ WorthOf(H \ {F}) \in Int
  <2>1. H \ {F} \subseteq DOMAIN ledger
    BY <1>1, <1>15
  <2> QED BY <1>1, <1>15, <1>18, <2>1, WorthType
<1>24. call.total + AfterSend(batch, send) = WorthOf(OfToken(1..k, token))
  <2>1. call.total = WorthOf(C)
    BY <1>1, <1>12
  <2>2. WorthOf(OfToken(1..k, token)) = WorthOf((C \cup H) \cup O)
    BY <1>17
  <2>3. PICK wC, wO, wH, wF, left : /\ wC = WorthOf(C) /\ wO = WorthOf(O) /\ wH = WorthOf(H \ {F})
                                    /\ wF = Worth(ledger[F]) /\ left = ledger[F].balance
    OBVIOUS
  <2>4. wC \in Int /\ wO \in Int /\ wH \in Int /\ wF \in Int
    BY <1>20, <1>23, <2>3
  <2>5. call.total + AfterSend(batch, send) = wC + (left + wH)
    BY <1>6, <2>1, <2>3
  <2>6. WorthOf((C \cup H) \cup O) = (wC + (wH + wF)) + wO
    BY <1>19, <1>21, <1>22, <2>3
  <2>7. left = wO + wF
    BY <1>20, <2>3
  <2> QED BY <2>2, <2>4, <2>5, <2>6, <2>7
<1>25. WorthOf(OfToken(1..k, token)) = UnspentBalance(k, token)
  BY <1>0, <1>10, HistoryIsUnspent
<1> QED BY <1>0, <1>24, <1>25

(* What is judged of a result does not change while nothing lands and nothing*)
(* is cached.                                                                *)
LEMMA SameJudged ==
    ASSUME UNCHANGED <<ledger, cache>>, call'.token = call.token, call'.since = call.since
    PROVE  /\ NoneMissed' <=> NoneMissed
           /\ NoneLate' <=> NoneLate
           /\ \A n : InOrder(n)' <=> InOrder(n)
           /\ OfToken(1..Len(ledger), call.token)' = OfToken(1..Len(ledger), call.token)
           /\ \A k, token : UnspentBalance(k, token)' = UnspentBalance(k, token)
<1>1. NoneMissed' <=> NoneMissed
  BY DEF NoneMissed, IsCachedNonce
<1>2. NoneLate' <=> NoneLate
  BY DEF NoneLate
<1>3. \A n : InOrder(n)' <=> InOrder(n)
  BY DEF InOrder, Older, OfToken, Spent
<1>4. OfToken(1..Len(ledger), call.token)' = OfToken(1..Len(ledger), call.token)
  BY DEF OfToken
<1>5. \A k, token : UnspentBalance(k, token)' = UnspentBalance(k, token)
  <2> TAKE k, token
  <2>1. Unspent(k, token)' = Unspent(k, token)
    BY DEF Unspent, OfToken, Spent
  <2> QED BY <2>1 DEF UnspentBalance, MapThenSumSet, MapThenFoldSet
<1> QED BY <1>1, <1>2, <1>3, <1>4, <1>5

(* The balance from the metadata, when a batch ends it.                      *)
LEMMA MetadataBatchIsExact ==
    ASSUME LedgerInv, LandedInv, CallInv, BeforeInv, BatchFromMetadata
    PROVE  MetadataExact'
<1>1. Fetching /\ UNCHANGED <<ledger, cache>> /\ call.fn = "metadata" /\ CallRight
  BY DEF BatchFromMetadata, CallInv
<1>2. call.before = NoBefore
  BY <1>1 DEF BeforeInv
<1>3. PICK laterFirst \in BOOLEAN :
        LET batch == FetchTxs(cache, BatchSize, call.token, call.lowest, laterFirst)
            sends == {n \in 1..Len(batch) : ledger[batch[n]].metadata}
            send == Min(sends)
        IN /\ Filled(batch)
           /\ \/ NextBatch(batch)
              \/ Throw
              \/ sends # {} /\ Return(call.total + AfterSend(batch, send))
  BY DEF BatchFromMetadata
<1>4. PICK batch : batch = FetchTxs(cache, BatchSize, call.token, call.lowest, laterFirst)
  OBVIOUS
<1>5. PICK sends : sends = {n \in 1..Len(batch) : ledger[batch[n]].metadata}
  OBVIOUS
<1>6. CASE NextBatch(batch) \/ Throw
  <2>1. call'.pc # "done"
    BY <1>1, <1>6 DEF NextBatch, Throw, CallRight, Fetching
  <2> QED BY <2>1 DEF MetadataExact, Done
<1>7. CASE sends # {} /\ Return(call.total + AfterSend(batch, Min(sends)))
  <2> SUFFICES ASSUME NoneMissed', NoneLate',
                      \A n \in OfToken(1..Len(ledger), call.token)' : ledger'[n].metadata => InOrder(n)'
               PROVE  OfSomeMoment'
    BY DEF MetadataExact
  <2>1. call'.token = call.token /\ call'.since = call.since
    BY <1>1, <1>7 DEF Return, CallRight
  <2>2. /\ NoneMissed /\ NoneLate
        /\ \A n \in OfToken(1..Len(ledger), call.token) : ledger[n].metadata => InOrder(n)
        /\ \A k, token : UnspentBalance(k, token)' = UnspentBalance(k, token)
    BY <1>1, <2>1, SameJudged
  <2>3. PICK P : P = FetchPlaces(cache, call.token, call.lowest)
    OBVIOUS
  <2>4. PICK c \in Nat : batch \in [1..c -> P]
    <3>1. /\ BatchSize \in Nat \ {0} /\ Len(ledger) \in Nat /\ cache \subseteq 1..Len(ledger)
          /\ \A i \in cache : ledger[i].nonce \in Nat
      BY <1>1, Rows, BalanceAssumption DEF LedgerInv, CallRight
    <3>2. PICK c \in Nat : Fetched(batch, c, P, BatchSize)
      BY <1>4, <2>3, <3>1, FetchTxsIsFetched
    <3> QED BY <3>2 DEF Fetched
  <2>5. Len(batch) = c
    BY <2>4, FunctionIsSequence
  <2>6. PICK send : send = Min(sends) /\ send \in sends
    <3>1. sends \subseteq Nat
      BY <1>5, <2>5
    <3>2. PICK m \in sends : \A l \in sends : m <= l
      BY <1>7, <3>1, Least
    <3>3. Min(sends) \in sends
      BY <3>2 DEF Min
    <3> QED BY <3>3
  <2>7. send \in 1..Len(batch) /\ ledger[batch[send]].metadata
    BY <1>5, <2>6
  <2>8. batch[send] \in OfToken(1..Len(ledger), call.token)
    <3>1. batch[send] \in P /\ cache \subseteq 1..Len(ledger)
      BY <1>1, <2>4, <2>5, <2>7 DEF CallRight
    <3> QED BY <2>3, <3>1 DEF FetchPlaces, OfToken
  <2>9. InOrder(batch[send])
    BY <2>2, <2>7, <2>8
  <2>10. Filled(batch)
    BY <1>3, <1>4
  <2>11. PICK k \in call.since..Len(ledger) :
            call.total + AfterSend(batch, send) = UnspentBalance(k, call.token)
    BY <1>1, <1>2, <1>4, <2>2, <2>7, <2>9, <2>10, SendEndsBatches
  <2>12. call'.result = UnspentBalance(k, call.token)
    BY <1>1, <1>7, <2>6, <2>11 DEF Return, CallRight
  <2>13. call'.result = UnspentBalance(k, call.token)' /\ k \in (call.since..Len(ledger))'
    BY <1>1, <2>1, <2>2, <2>12
  <2> QED BY <2>13 DEF OfSomeMoment
<1> QED BY <1>3, <1>4, <1>5, <1>6, <1>7

(* And when no nonce is left.                                                *)
LEMMA FetchedAllIsExact ==
    ASSUME LedgerInv, CallInv, BeforeInv, FetchedAll PROVE MetadataExact'
<1> SUFFICES ASSUME call'.fn = "metadata", NoneMissed', NoneLate' PROVE OfSomeMoment'
  BY DEF MetadataExact, Done
<1>1. /\ UNCHANGED <<ledger, cache>> /\ CallRight /\ call.fn = "metadata" /\ call.pc = "fetching"
      /\ call'.token = call.token /\ call'.since = call.since /\ call'.before = call.before
      /\ call'.result = call.total /\ call.lowest < 0
  BY DEF FetchedAll, Return, CallInv, CallRight
<1>2. call.before = NoBefore
  BY <1>1 DEF BeforeInv
<1>3. /\ NoneMissed /\ NoneLate
      /\ \A k, token : UnspentBalance(k, token)' = UnspentBalance(k, token)
  BY <1>1, SameJudged
<1>4. /\ ToldSince /\ NoGap(call.lowest) /\ call.total = WorthOf(CountedOf(call.lowest))
      /\ cache \subseteq 1..Len(ledger) /\ call.lowest \in Int
      /\ \A i \in 1..Len(ledger) : ledger[i].nonce \in Nat
  BY <1>1, <1>2, Rows DEF CallInv, CallRight, LedgerInv
<1>5. NoGap(0)
  <2>1. \A n \in 0..LatestCachedNonce : n >= call.lowest
    BY <1>1, <1>4
  <2> QED BY <1>4, <2>1 DEF NoGap
<1>6. CountedOf(call.lowest) = CountedOf(0)
  <2>1. ASSUME NEW i \in cache PROVE ledger[i].nonce >= 0 <=> ledger[i].nonce >= call.lowest
    <3>1. ledger[i].nonce \in Nat
      BY <1>4
    <3> QED BY <1>1, <1>4, <3>1
  <2> QED BY <2>1 DEF CountedOf, OfToken
<1>7. PICK k \in call.since..Len(ledger) : WorthOf(CountedOf(0)) = UnspentBalance(k, call.token)
  BY <1>1, <1>2, <1>3, <1>4, <1>5, AllIsUnspent
<1>8. call'.result = UnspentBalance(k, call.token)' /\ k \in (call.since..Len(ledger))'
  BY <1>1, <1>3, <1>4, <1>6, <1>7
<1> QED BY <1>8 DEF OfSomeMoment

(* Every step keeps the balance from the metadata right.                     *)
LEMMA MetadataNext ==
    ASSUME LedgerInv, LandedInv, CallInv, BeforeInv, MetadataExact, [Next]_vars
    PROVE  MetadataExact'
<1>0. CallRight
  BY DEF CallInv
<1>1. ASSUME call'.pc # "done" PROVE MetadataExact'
  BY <1>1 DEF MetadataExact, Done
<1>2. CASE Lands
  <2>1. PICK tx : Land(tx)
    BY <1>2 DEF Lands, TopUp, Send
  <2>2. call' = call /\ call.pc # "done"
    BY <1>2, <2>1 DEF Lands, Land, Growing
  <2> QED BY <1>1, <2>2
<1>3. CASE Refresh
  <2>1. call'.pc = "refreshing"
    BY <1>3 DEF Refresh, AskBatch, Idle
  <2> QED BY <1>1, <2>1
<1>4. CASE \E n \in call.asked : Tell(n)
  <2>1. PICK n \in call.asked : Tell(n)
    BY <1>4
  <2>2. call.pc = "refreshing" /\ call'.pc = call.pc
    BY <1>0, <2>1 DEF Tell, CallRight
  <2> QED BY <1>1, <2>2
<1>5. CASE NextRefresh
  <2>1. call'.pc = "refreshing"
    BY <1>0, <1>5 DEF NextRefresh, AskBatch, CallRight
  <2> QED BY <1>1, <2>1
<1>6. CASE GetMostRecentTx
  <2>1. call'.pc = "idle"
    BY <1>6 DEF GetMostRecentTx, Idle
  <2> QED BY <1>1, <2>1
<1>7. ASSUME NEW fn, NEW token, NEW before, GetPrivateBalance(fn, token, before) PROVE MetadataExact'
  <2>1. call'.pc = "fetching"
    BY <1>7 DEF GetPrivateBalance, Idle
  <2> QED BY <1>1, <2>1
<1>8. CASE \E n \in Gaps(0) : FillGap(n)
  <2>1. call'.pc = "fetching"
    BY <1>8 DEF FillGap
  <2> QED BY <1>1, <2>1
<1>9. CASE BatchFromTxHistory
  <2>1. call'.pc = "fetching"
    BY <1>0, <1>9 DEF BatchFromTxHistory, NextBatch, Fetching, CallRight
  <2> QED BY <1>1, <2>1
<1>10. CASE BatchFromMetadata
  BY <1>10, MetadataBatchIsExact
<1>11. CASE FetchedAll
  BY <1>11, FetchedAllIsExact
<1>12. CASE UNCHANGED vars
  <2>1. UNCHANGED <<ledger, cache>> /\ call' = call
    BY <1>12 DEF vars
  <2>2. OfSomeMoment' <=> OfSomeMoment
    BY <2>1, SameJudged DEF OfSomeMoment
  <2> QED BY <2>1, <2>2, SameJudged DEF MetadataExact, Done
<1> QED BY <1>2, <1>3, <1>4, <1>5, <1>6, <1>7, <1>8, <1>9, <1>10, <1>11, <1>12 DEF Next, Lands

(* THE BALANCE FROM THE METADATA of the newest send is what was unspent at   *)
(* some moment during the call, too, although no transaction before that     *)
(* send is read: as long as each send with metadata spent what was older and *)
(* nothing else, and under the same conditions on what is missed.            *)
THEOREM MetadataIsExact == Spec => []MetadataExact
<1> DEFINE IInv == LedgerInv /\ LandedInv /\ CallInv /\ BeforeInv /\ MetadataExact
<1>1. Init => IInv
  <2>1. Init => BeforeInv /\ MetadataExact
    BY DEF Init, Idle, BeforeInv, MetadataExact, Done
  <2> QED BY <2>1, LedgerInit, LandedInit, CallInit
<1>2. IInv /\ [Next]_vars => IInv'
  BY LedgerNext, LandedNext, CallNext, BeforeNext, MetadataNext
<1>3. IInv => MetadataExact
  OBVIOUS
<1> QED BY <1>1, <1>2, <1>3, PTL DEF Spec
=============================================================================
