----------------------------- MODULE FeesProofs -----------------------------
(* Proofs about Fees, for every fee data, price, balance and set of inputs,  *)
(* and every length and cost of an input that one transaction can take.      *)
EXTENDS Fees, FiniteSetTheorems, SequenceTheorems, WellFoundedInduction, TLAPS

-----------------------------------------------------------------------------
(* Numbers.                                                                  *)
LEMMA Least ==
    ASSUME NEW S, S \subseteq Nat, S # {}
    PROVE  \E k \in S : \A l \in S : k <= l
<1>1. PICK k \in S : \A l \in S : ~(<<l, k>> \in OpToRel(<, Nat))
  BY NatLessThanWellFounded, WFMin
<1>2. \A l \in S : <<l, k>> \in OpToRel(<, Nat) <=> l < k
  BY DEF OpToRel
<1>3. \A l \in S : ~(l < k)
  BY <1>1, <1>2, Zenon
<1> QED BY <1>3

(* A set with 0 that has n + 1 whenever it has n has every number.           *)
LEMMA AllNumbers ==
    ASSUME NEW S, S \subseteq Nat, 0 \in S, \A n \in S : n + 1 \in S
    PROVE  \A n \in Nat : n \in S
<1> SUFFICES ASSUME Nat \ S # {} PROVE FALSE
  BY Zenon
<1>1. PICK k \in Nat \ S : \A l \in Nat \ S : k <= l
  <2> DEFINE T == Nat \ S
  <2>1. T \subseteq Nat /\ T # {}
    OBVIOUS
  <2> HIDE DEF T
  <2>2. PICK k \in T : \A l \in T : k <= l
    BY <2>1, Least
  <2> QED BY <2>2 DEF T
<1>2. k \in Nat /\ k # 0
  BY <1>1
<1>3. k - 1 \in Nat /\ ~(k <= k - 1) /\ (k - 1) + 1 = k
  BY <1>2
<1>4. k - 1 \in S
  BY <1>1, <1>3
<1> QED BY <1>1, <1>3, <1>4

(* A set of numbers up to n with 0 that goes on to n has all of them.        *)
LEMMA NumbersUpTo ==
    ASSUME NEW n \in Nat, NEW S, 0 \in S, \A k \in 0..(n - 1) : k \in S => k + 1 \in S
    PROVE  \A k \in 0..n : k \in S
<1> DEFINE T == {k \in Nat : k <= n => k \in S}
<1>1. 0 \in T /\ \A k \in T : k + 1 \in T
  OBVIOUS
<1>2. \A k \in Nat : k \in T
  <2>1. T \subseteq Nat
    OBVIOUS
  <2> HIDE DEF T
  <2> QED BY <1>1, <2>1, AllNumbers
<1> QED BY <1>2

LEMMA DivBounds ==
    ASSUME NEW a \in Int, NEW b \in Nat \ {0}
    PROVE  a \div b \in Int /\ b * (a \div b) <= a /\ a < b * (a \div b) + b
OBVIOUS

LEMMA Products ==
    ASSUME NEW b \in Nat, NEW x \in Int, NEW y \in Int
    PROVE  b * x \in Int /\ (x < y => b * x + b <= b * y) /\ (x >= 0 => b * x >= 0)
OBVIOUS

(* The ceiling is the least number that is not below the quotient.           *)
LEMMA Ceiling ==
    ASSUME NEW a \in Int, NEW b \in Nat \ {0}
    PROVE  /\ CeilDiv(a, b) \in Int /\ b * CeilDiv(a, b) >= a
           /\ \A c \in Int : b * c >= a => CeilDiv(a, b) <= c
           /\ a >= 0 => CeilDiv(a, b) >= 0
           /\ a > 0 => CeilDiv(a, b) > 0
<1> DEFINE q == CeilDiv(a, b)
<1>1. q \in Int /\ b * q <= a + b - 1 /\ a + b - 1 < b * q + b
  BY DivBounds DEF CeilDiv
<1> HIDE DEF q
<1>2. b * q \in Int /\ b * q >= a
  BY <1>1, Products
<1>3. ASSUME NEW c \in Int, b * c >= a PROVE q <= c
  <2>1. c < q => b * c + b <= b * q
    BY <1>1, Products
  <2>2. b * c \in Int
    BY Products
  <2> QED BY <1>1, <1>2, <1>3, <2>1, <2>2
<1>4. q < 0 => b * q + b <= b * 0
  BY <1>1, Products
<1>5. q < 1 => b * q + b <= b * 1
  BY <1>1, Products
<1>6. b * 0 = 0 /\ b * 1 = b
  OBVIOUS
<1>7. (a >= 0 => q >= 0) /\ (a > 0 => q > 0)
  BY <1>1, <1>2, <1>4, <1>5, <1>6
<1> QED BY <1>1, <1>2, <1>3, <1>7 DEF q

-----------------------------------------------------------------------------
(* Folds from the first element of a sequence to the last.                   *)
(* What Max picks from a set of numbers up to n.                             *)
LEMMA LastOf ==
    ASSUME NEW n \in Nat, NEW s \in SUBSET (1..n), s # {}
    PROVE  Max(s) \in s /\ \A l \in s : l <= Max(s)
<1> DEFINE T == {n - k : k \in s}
<1>1. T \subseteq Nat /\ T # {}
  OBVIOUS
<1>2. PICK t \in T : \A u \in T : t <= u
  <2> HIDE DEF T
  <2> QED BY <1>1, Least
<1>3. PICK k \in s : t = n - k
  BY <1>2
<1>4. ASSUME NEW l \in s PROVE l <= k
  <2>1. n - k <= n - l
    BY <1>2, <1>3
  <2> QED BY <2>1
<1>5. \E m \in s : \A l \in s : m >= l
  BY <1>4
<1> QED BY <1>5 DEF Max

(* The equation of the fold of Pack over the first n costs, by which it is   *)
(* computed for every subset of them.                                        *)
PackEquation(f, start, costs, n) ==
    f = [s \in SUBSET (1..n) |-> IF s = {} THEN start ELSE Pack(f[s \ {Max(s)}], costs[Max(s)])]

LEMMA PackEquationNext ==
    ASSUME NEW start, NEW costs, NEW n \in Nat, NEW f, PackEquation(f, start, costs, n)
    PROVE  \E g : PackEquation(g, start, costs, n + 1)
<1> DEFINE g == [s \in SUBSET (1..(n + 1)) |->
                    IF n + 1 \in s THEN Pack(f[s \ {n + 1}], costs[n + 1]) ELSE f[s]]
           rhs(s) == IF s = {} THEN start ELSE Pack(g[s \ {Max(s)}], costs[Max(s)])
<1>1. ASSUME NEW s \in SUBSET (1..(n + 1)) PROVE g[s] = rhs(s)
  <2>1. CASE n + 1 \in s
    <3>1. Max(s) = n + 1
      <4>0. n + 1 \in Nat /\ s # {}
        BY <2>1
      <4>1. Max(s) \in s /\ \A l \in s : l <= Max(s)
        BY <4>0, LastOf
      <4>2. n + 1 <= Max(s) /\ Max(s) \in 1..(n + 1)
        BY <2>1, <4>1
      <4> QED BY <4>2
    <3>2. g[s \ {n + 1}] = f[s \ {n + 1}]
      OBVIOUS
    <3>3. g[s] = Pack(f[s \ {n + 1}], costs[n + 1])
      BY <2>1
    <3> QED BY <2>1, <3>1, <3>2, <3>3
  <2>2. CASE s = {}
    <3>1. {} \in SUBSET (1..n)
      OBVIOUS
    <3>2. f[{}] = start
      BY <3>1 DEF PackEquation
    <3> QED BY <2>2, <3>2
  <2>3. CASE n + 1 \notin s /\ s # {}
    <3>1. s \in SUBSET (1..n)
      BY <2>3
    <3>2. Max(s) \in s
      BY <2>3, <3>1, LastOf
    <3>3. f[s] = Pack(f[s \ {Max(s)}], costs[Max(s)])
      BY <2>3, <3>1 DEF PackEquation
    <3>4. g[s] = f[s] /\ g[s \ {Max(s)}] = f[s \ {Max(s)}]
      BY <2>3
    <3> QED BY <2>3, <3>3, <3>4
  <2> QED BY <2>1, <2>2, <2>3
<1>2. g = [s \in SUBSET (1..(n + 1)) |-> g[s]]
  OBVIOUS
<1>3. g = [s \in SUBSET (1..(n + 1)) |-> rhs(s)]
  <2> HIDE DEF g, rhs
  <2> QED BY <1>1, <1>2
<1>4. PackEquation(g, start, costs, n + 1)
  <2> HIDE DEF g
  <2> QED BY <1>3 DEF PackEquation
<1> QED BY <1>4

LEMMA PackEquationHolds ==
    ASSUME NEW start, NEW costs, NEW n \in Nat
    PROVE  \E f : PackEquation(f, start, costs, n)
<1> DEFINE S == {k \in Nat : \E f : PackEquation(f, start, costs, k)}
<1>1. 0 \in S
  <2> DEFINE f == [s \in SUBSET (1..0) |-> start]
             rhs(s) == IF s = {} THEN start ELSE Pack(f[s \ {Max(s)}], costs[Max(s)])
  <2>1. \A s \in SUBSET (1..0) : s = {}
    OBVIOUS
  <2>2. f = [s \in SUBSET (1..0) |-> rhs(s)]
    BY <2>1
  <2>3. PackEquation(f, start, costs, 0)
    BY <2>2 DEF PackEquation
  <2> QED BY <2>3
<1>2. \A k \in S : k + 1 \in S
  BY PackEquationNext
<1>3. S \subseteq Nat
  OBVIOUS
<1> HIDE DEF S
<1>4. n \in S
  BY <1>1, <1>2, <1>3, AllNumbers
<1> QED BY <1>4 DEF S

(* The fold of Pack is the last of a row of states, each one cost further.   *)
PackRow(acc, start, costs, n) ==
    acc[0] = start /\ \A k \in 1..n : acc[k] = Pack(acc[k - 1], costs[k])

PackAll(start, costs) == FoldLeft(Pack, start, costs)

LEMMA PackFold ==
    ASSUME NEW start, NEW costs, NEW n \in Nat, DOMAIN costs = 1..n
    PROVE  \E acc : PackRow(acc, start, costs, n) /\ PackAll(start, costs) = acc[n]
<1> DEFINE iter == CHOOSE f : PackEquation(f, start, costs, n)
<1>1. PackAll(start, costs) = iter[1..n]
  BY DEF PackAll, FoldLeft, MapThenFoldSet, PackEquation
<1>2. PackEquation(iter, start, costs, n)
  <2> HIDE DEF PackEquation
  <2> QED BY PackEquationHolds
<1> HIDE DEF iter
<1> DEFINE acc == [k \in 0..n |-> iter[1..k]]
<1>3. acc[0] = start
  <2>1. 1..0 = {} /\ {} \in SUBSET (1..n)
    OBVIOUS
  <2> QED BY <1>2, <2>1 DEF PackEquation
<1>4. ASSUME NEW k \in 1..n PROVE acc[k] = Pack(acc[k - 1], costs[k])
  <2>1. 1..k \in SUBSET (1..n) /\ 1..k # {} /\ k \in 1..k /\ k \in Nat
    OBVIOUS
  <2>2. Max(1..k) \in 1..k /\ \A l \in 1..k : l <= Max(1..k)
    BY <2>1, LastOf
  <2>3. Max(1..k) = k
    BY <2>1, <2>2
  <2>4. (1..k) \ {k} = 1..(k - 1)
    OBVIOUS
  <2>5. iter[1..k] = Pack(iter[1..(k - 1)], costs[k])
    BY <1>2, <2>1, <2>3, <2>4 DEF PackEquation
  <2> QED BY <2>5
<1>5. acc[n] = iter[1..n]
  OBVIOUS
<1> HIDE DEF acc
<1> QED BY <1>1, <1>3, <1>4, <1>5 DEF PackRow

(* Rows that begin alike and have the same costs are the same.               *)
LEMMA SameRow ==
    ASSUME NEW start, NEW costs, NEW more, NEW m \in Nat, NEW n \in Nat, n <= m,
           NEW a, PackRow(a, start, costs, n), NEW b, PackRow(b, start, more, m),
           \A k \in 1..n : costs[k] = more[k]
    PROVE  \A k \in 0..n : a[k] = b[k]
<1> DEFINE S == {k \in 0..n : a[k] = b[k]}
<1>1. 0 \in S
  BY DEF PackRow
<1>2. ASSUME NEW k \in 0..(n - 1), k \in S PROVE k + 1 \in S
  <2>1. k + 1 \in 1..n /\ k + 1 \in 1..m /\ (k + 1) - 1 = k /\ k + 1 \in 0..n
    OBVIOUS
  <2>2. a[k + 1] = Pack(a[k], costs[k + 1]) /\ b[k + 1] = Pack(b[k], more[k + 1])
    BY <2>1 DEF PackRow
  <2> QED BY <1>2, <2>1, <2>2
<1>3. \A k \in 0..n : k \in S
  <2> HIDE DEF S
  <2> QED BY <1>1, <1>2, NumbersUpTo
<1> QED BY <1>3

-----------------------------------------------------------------------------
(* Sequences of sequences, one after the other.                              *)
FlattenEquation(f, ss, n) ==
    f = [i \in 1..n |-> IF i = 1 THEN ss[i] ELSE f[i - 1] \o ss[i]]

FlattenStep(g, f, more, n) == g[n + 1] = IF n = 0 THEN more[1] ELSE f[n] \o more[n + 1]

(* One sequence more is computed from the same for those before it.          *)
LEMMA FlattenNext ==
    ASSUME NEW ss, NEW more, NEW n \in Nat, NEW f, FlattenEquation(f, ss, n),
           \A i \in 1..n : more[i] = ss[i]
    PROVE  \E g : FlattenEquation(g, more, n + 1) /\ FlattenStep(g, f, more, n)
<1> DEFINE last == IF n = 0 THEN more[1] ELSE f[n] \o more[n + 1]
           g == [i \in 1..(n + 1) |-> IF i = n + 1 THEN last ELSE f[i]]
<1>1. ASSUME NEW i \in 1..(n + 1)
      PROVE  g[i] = IF i = 1 THEN more[i] ELSE g[i - 1] \o more[i]
  <2>1. CASE i = n + 1
    <3>1. CASE n = 0
      BY <2>1, <3>1
    <3>2. CASE n # 0
      <4>1. i # 1 /\ i - 1 = n /\ n \in 1..(n + 1) /\ n # n + 1
        BY <2>1, <3>2
      <4>2. g[i - 1] = f[n] /\ g[i] = f[n] \o more[n + 1]
        BY <2>1, <3>2, <4>1
      <4> QED BY <2>1, <4>1, <4>2
    <3> QED BY <3>1, <3>2
  <2>2. CASE i # n + 1
    <3>1. i \in 1..n
      BY <2>2
    <3>2. g[i] = f[i] /\ (i # 1 => i - 1 \in 1..n /\ g[i - 1] = f[i - 1])
      BY <2>2, <3>1
    <3>3. f[i] = IF i = 1 THEN ss[i] ELSE f[i - 1] \o ss[i]
      BY <3>1 DEF FlattenEquation
    <3> QED BY <3>1, <3>2, <3>3
  <2> QED BY <2>1, <2>2
<1>2. g = [i \in 1..(n + 1) |-> g[i]]
  OBVIOUS
<1>3. FlattenEquation(g, more, n + 1)
  <2> HIDE DEF g
  <2> QED BY <1>1, <1>2 DEF FlattenEquation
<1>4. FlattenStep(g, f, more, n)
  BY DEF FlattenStep
<1> HIDE DEF g
<1> QED BY <1>3, <1>4

LEMMA FlattenUnique ==
    ASSUME NEW ss, NEW n \in Nat, NEW f, FlattenEquation(f, ss, n), NEW g, FlattenEquation(g, ss, n)
    PROVE  \A i \in 1..n : f[i] = g[i]
<1> DEFINE S == {i \in 0..n : i # 0 => f[i] = g[i]}
<1>1. 0 \in S
  OBVIOUS
<1>2. ASSUME NEW i \in 0..(n - 1), i \in S PROVE i + 1 \in S
  <2>1. i + 1 \in 1..n /\ (i + 1) - 1 = i /\ (i + 1 = 1 <=> i = 0)
    OBVIOUS
  <2>2. /\ f[i + 1] = IF i = 0 THEN ss[i + 1] ELSE f[i] \o ss[i + 1]
        /\ g[i + 1] = IF i = 0 THEN ss[i + 1] ELSE g[i] \o ss[i + 1]
    BY <2>1 DEF FlattenEquation
  <2> QED BY <1>2, <2>1, <2>2
<1>3. \A i \in 0..n : i \in S
  <2> HIDE DEF S
  <2> QED BY <1>1, <1>2, NumbersUpTo
<1> QED BY <1>3

LEMMA FlattenHolds ==
    ASSUME NEW ss, NEW n \in Nat
    PROVE  \E f : FlattenEquation(f, ss, n)
<1> DEFINE S == {k \in Nat : \E f : FlattenEquation(f, ss, k)}
<1>1. 0 \in S
  <2> DEFINE f == [i \in 1..0 |-> ss]
  <2>1. f = [i \in 1..0 |-> IF i = 1 THEN ss[i] ELSE f[i - 1] \o ss[i]]
    OBVIOUS
  <2>2. FlattenEquation(f, ss, 0)
    BY <2>1 DEF FlattenEquation
  <2> QED BY <2>2
<1>2. ASSUME NEW k \in S PROVE k + 1 \in S
  <2>1. k \in Nat /\ k + 1 \in Nat
    OBVIOUS
  <2>2. PICK f : FlattenEquation(f, ss, k)
    OBVIOUS
  <2>3. \A i \in 1..k : ss[i] = ss[i]
    OBVIOUS
  <2>4. \E g : FlattenEquation(g, ss, k + 1)
    <3> HIDE DEF S
    <3> QED BY <2>1, <2>2, <2>3, FlattenNext, Zenon
  <2> QED BY <2>1, <2>4
<1>3. S \subseteq Nat
  OBVIOUS
<1> HIDE DEF S
<1>4. n \in S
  BY <1>1, <1>2, <1>3, AllNumbers
<1> QED BY <1>4 DEF S

LEMMA FlattenIs ==
    ASSUME NEW T, NEW ss \in Seq(T), ss # <<>>
    PROVE  \E f : FlattenEquation(f, ss, Len(ss)) /\ FlattenSeq(ss) = f[Len(ss)]
<1> DEFINE flatten == CHOOSE f : FlattenEquation(f, ss, Len(ss))
<1>1. Len(ss) \in Nat /\ Len(ss) # 0
  OBVIOUS
<1>2. FlattenSeq(ss) = flatten[Len(ss)]
  BY <1>1 DEF FlattenSeq, FlattenEquation
<1>3. FlattenEquation(flatten, ss, Len(ss))
  <2> HIDE DEF FlattenEquation
  <2> QED BY <1>1, FlattenHolds
<1> HIDE DEF flatten
<1> QED BY <1>2, <1>3

(* A sequence at the end is put at the end.                                  *)
LEMMA FlattenAppend ==
    ASSUME NEW T, NEW ss \in Seq(Seq(T)), NEW r \in Seq(T)
    PROVE  /\ FlattenSeq(Append(ss, r)) = FlattenSeq(ss) \o r
           /\ ss = <<>> => FlattenSeq(ss) = <<>>
<1>a. SUFFICES ASSUME NEW n, n = Len(ss), NEW more, more = Append(ss, r)
             PROVE  /\ FlattenSeq(more) = FlattenSeq(ss) \o r
                    /\ ss = <<>> => FlattenSeq(ss) = <<>>
  OBVIOUS
<1>1. /\ n \in Nat /\ more \in Seq(Seq(T)) /\ Len(more) = n + 1 /\ more # <<>>
      /\ more[n + 1] = r /\ \A i \in 1..n : more[i] = ss[i]
  <2>1. n \in Nat /\ more \in Seq(Seq(T)) /\ Len(more) = n + 1
    BY <1>a
  <2>2. more[n + 1] = r
    BY <1>a
  <2>3. \A i \in 1..n : more[i] = ss[i]
    BY <1>a
  <2>4. more # <<>>
    BY <2>1
  <2> QED BY <2>1, <2>2, <2>3, <2>4
<1>2. PICK h : FlattenEquation(h, more, n + 1) /\ FlattenSeq(more) = h[n + 1]
  <2> QED BY <1>1, FlattenIs
<1>3. PICK f : FlattenEquation(f, ss, n)
  BY <1>1, FlattenHolds
<1>4. PICK g : FlattenEquation(g, more, n + 1) /\ FlattenStep(g, f, more, n)
  <2>1. n \in Nat /\ \A i \in 1..n : more[i] = ss[i]
    BY <1>1
  <2> QED BY <1>3, <2>1, FlattenNext
<1>5. h[n + 1] = g[n + 1]
  <2>1. n + 1 \in Nat /\ n + 1 \in 1..(n + 1)
    BY <1>1
  <2>2. \A i \in 1..(n + 1) : h[i] = g[i]
    BY <1>2, <1>4, <2>1, FlattenUnique
  <2> QED BY <2>1, <2>2
<1>6. CASE ss = <<>>
  <2>1. n = 0 /\ FlattenSeq(ss) = <<>>
    BY <1>a, <1>6 DEF FlattenSeq
  <2>2. more[1] = r /\ <<>> \o r = r
    BY <1>1, <2>1
  <2>3. FlattenSeq(more) = FlattenSeq(ss) \o r
    BY <1>2, <1>4, <1>5, <2>1, <2>2 DEF FlattenStep
  <2> QED BY <1>6, <2>1, <2>3
<1>7. CASE ss # <<>>
  <2>1. n # 0
    BY <1>a, <1>7
  <2>2. PICK i : FlattenEquation(i, ss, n) /\ FlattenSeq(ss) = i[n]
    BY <1>a, <1>7, FlattenIs
  <2>3. n \in 1..n
    BY <1>1, <2>1
  <2>4. i[n] = f[n]
    BY <1>1, <1>3, <2>2, <2>3, FlattenUnique
  <2>5. FlattenSeq(more) = FlattenSeq(ss) \o r
    BY <1>1, <1>2, <1>4, <1>5, <2>1, <2>2, <2>4 DEF FlattenStep
  <2> QED BY <1>7, <2>5
<1> QED BY <1>6, <1>7

LEMMA FlattenType ==
    ASSUME NEW T, NEW ss \in Seq(Seq(T))
    PROVE  FlattenSeq(ss) \in Seq(T)
<1>1. CASE ss = <<>>
  <2>1. FlattenSeq(ss) = <<>>
    BY <1>1 DEF FlattenSeq
  <2> QED BY <2>1
<1>2. CASE ss # <<>>
  <2>1. PICK n : n = Len(ss)
    OBVIOUS
  <2>2. n \in Nat /\ n # 0 /\ \A i \in 1..n : ss[i] \in Seq(T)
    BY <1>2, <2>1
  <2>3. PICK f : FlattenEquation(f, ss, n) /\ FlattenSeq(ss) = f[n]
    BY <1>2, <2>1, FlattenIs
  <2> DEFINE S == {i \in 0..n : i # 0 => f[i] \in Seq(T)}
  <2>4. 0 \in S
    BY <2>2
  <2>5. ASSUME NEW i \in 0..(n - 1), i \in S PROVE i + 1 \in S
    <3>1. i + 1 \in 1..n /\ (i + 1) - 1 = i /\ (i + 1 = 1 <=> i = 0)
      BY <2>2
    <3>2. f[i + 1] = IF i = 0 THEN ss[i + 1] ELSE f[i] \o ss[i + 1]
      BY <2>3, <3>1 DEF FlattenEquation
    <3>3. ss[i + 1] \in Seq(T)
      BY <2>2, <3>1
    <3>4. f[i + 1] \in Seq(T)
      <4>1. CASE i = 0
        BY <3>2, <3>3, <4>1
      <4>2. CASE i # 0
        <5>1. f[i] \in Seq(T)
          BY <2>5, <4>2
        <5> QED BY <3>2, <3>3, <4>2, <5>1
      <4> QED BY <4>1, <4>2
    <3> QED BY <2>2, <3>1, <3>4
  <2>6. \A i \in 0..n : i \in S
    <3> HIDE DEF S
    <3> QED BY <2>2, <2>4, <2>5, NumbersUpTo
  <2> QED BY <2>2, <2>3, <2>6
<1> QED BY <1>1, <1>2

-----------------------------------------------------------------------------
(* The preparation of inputs.                                                *)
NoInputs == [txCount |-> 1, computeUnits |-> 0]

LEMMA RoundsType ==
    ASSUME NEW x
    PROVE  /\ InputBytes + 1 \in Nat /\ DOMAIN Rounds(x) = 1..(InputBytes + 1)
           /\ Rounds(x) \in Seq(Nat) /\ Len(Rounds(x)) = InputBytes + 1
           /\ \A b \in 1..(InputBytes + 1) :
                  /\ Rounds(x)[b] \in Nat
                  /\ Rounds(x)[b] <= IF b > InputBytes THEN AddCost ELSE AddMixedCost
<1>1. InputBytes \in Nat /\ AddCost \in Nat /\ AddMixedCost \in Nat
  BY InputAssumption
<1>2. \A b \in 1..(InputBytes + 1) :
          /\ RoundCost(x, b) \in Nat
          /\ RoundCost(x, b) <= IF b > InputBytes THEN AddCost ELSE AddMixedCost
  BY <1>1 DEF RoundCost
<1>3. Rounds(x) = [b \in 1..(InputBytes + 1) |-> RoundCost(x, b)]
  BY DEF Rounds
<1>4. \A b \in 1..(InputBytes + 1) : Rounds(x)[b] = RoundCost(x, b)
  BY <1>3
<1>5. Rounds(x) \in [1..(InputBytes + 1) -> Nat]
  BY <1>2, <1>3
<1>6. Rounds(x) \in Seq(Nat) /\ Len(Rounds(x)) = InputBytes + 1
  BY <1>1, <1>5
<1> QED BY <1>1, <1>2, <1>4, <1>5, <1>6

LEMMA PrepareNone == InputPreparation(<<>>) = NoInputs
<1>1. PICK rounds : rounds = [n \in 1..0 |-> Rounds(<<>>[n])]
  OBVIOUS
<1>2. FlattenSeq(rounds) = rounds /\ DOMAIN rounds = 1..0
  BY <1>1 DEF FlattenSeq
<1>3. PICK acc : PackRow(acc, NoInputs, rounds, 0) /\ PackAll(NoInputs, rounds) = acc[0]
  BY <1>2, PackFold
<1>4. InputPreparation(<<>>) = PackAll(NoInputs, FlattenSeq(rounds))
  BY <1>1 DEF InputPreparation, NoInputs, PackAll
<1> QED BY <1>2, <1>3, <1>4 DEF PackRow

(* What one input more takes goes on from what those before it took.         *)
LEMMA PrepareOneMore ==
    ASSUME NEW T, NEW inputs \in Seq(T), NEW x \in T
    PROVE  \E acc : /\ PackRow(acc, InputPreparation(inputs), Rounds(x), InputBytes + 1)
                    /\ InputPreparation(Append(inputs, x)) = acc[InputBytes + 1]
<1>1. PICK R, m, ss, more, l :
          /\ R = Rounds(x) /\ m = InputBytes + 1 /\ l = Len(inputs)
          /\ ss = [n \in 1..l |-> Rounds(inputs[n])]
          /\ more = [n \in 1..(l + 1) |-> Rounds(Append(inputs, x)[n])]
  OBVIOUS
<1>2. R \in Seq(Nat) /\ Len(R) = m /\ m \in Nat /\ l \in Nat
  BY <1>1, RoundsType
<1>3. ss \in Seq(Seq(Nat)) /\ more = Append(ss, R)
  <2>1. ss \in [1..l -> Seq(Nat)]
    BY <1>1, RoundsType
  <2>2. ss \in Seq(Seq(Nat)) /\ Len(ss) = l
    BY <1>2, <2>1
  <2>3. /\ Append(ss, R) \in Seq(Seq(Nat)) /\ Len(Append(ss, R)) = l + 1
        /\ \A n \in 1..(l + 1) : Append(ss, R)[n] = IF n = l + 1 THEN R ELSE ss[n]
    BY <1>2, <2>2
  <2>4. \A n \in 1..(l + 1) : Append(inputs, x)[n] = IF n = l + 1 THEN x ELSE inputs[n]
    BY <1>1, <1>2
  <2>5. \A n \in 1..(l + 1) : Rounds(Append(inputs, x)[n]) = IF n = l + 1 THEN R ELSE ss[n]
    BY <1>1, <1>2, <2>4
  <2>6. more = [n \in 1..(l + 1) |-> IF n = l + 1 THEN R ELSE ss[n]]
    BY <1>1, <2>5
  <2>7. more \in Seq(Seq(Nat)) /\ Len(more) = l + 1
    <3>1. \A n \in 1..(l + 1) : (IF n = l + 1 THEN R ELSE ss[n]) \in Seq(Nat)
      BY <1>2, <2>1
    <3>2. more \in [1..(l + 1) -> Seq(Nat)]
      BY <2>6, <3>1
    <3> QED BY <1>2, <3>2
  <2>8. \A n \in 1..Len(more) : more[n] = Append(ss, R)[n]
    BY <2>3, <2>6, <2>7
  <2> QED BY <2>2, <2>3, <2>7, <2>8, SeqEqual
<1>4. PICK flat : flat = FlattenSeq(ss)
  OBVIOUS
<1>5. flat \in Seq(Nat) /\ FlattenSeq(more) = flat \o R
  BY <1>2, <1>3, <1>4, FlattenType, FlattenAppend
<1>6. PICK n, costs : n = Len(flat) /\ costs = flat \o R
  OBVIOUS
<1>7. /\ n \in Nat /\ DOMAIN flat = 1..n /\ n + m \in Nat /\ n <= n + m
      /\ DOMAIN costs = 1..(n + m)
      /\ \A k \in 1..n : flat[k] = costs[k]
      /\ \A k \in 1..m : costs[n + k] = R[k]
  <2>1. n \in Nat /\ DOMAIN flat = 1..n
    BY <1>5, <1>6
  <2>2. costs \in Seq(Nat) /\ Len(costs) = n + m
    <3>1. R \in Seq(Nat) /\ flat \in Seq(Nat) /\ Len(R) = m /\ Len(flat) = n
      BY <1>2, <1>5, <1>6
    <3> QED BY <1>6, <3>1, ConcatProperties
  <2>3. \A k \in 1..n : flat[k] = costs[k]
    BY <1>2, <1>5, <1>6
  <2>4. \A k \in 1..m : costs[n + k] = R[k]
    BY <1>2, <1>5, <1>6
  <2> QED BY <1>2, <2>1, <2>2, <2>3, <2>4
<1>8. PICK a : PackRow(a, NoInputs, flat, n) /\ InputPreparation(inputs) = a[n]
  <2>1. InputPreparation(inputs) = PackAll(NoInputs, flat)
    BY <1>1, <1>4 DEF InputPreparation, NoInputs, PackAll
  <2>2. n \in Nat /\ DOMAIN flat = 1..n
    BY <1>7
  <2>3. \E a : PackRow(a, NoInputs, flat, n) /\ PackAll(NoInputs, flat) = a[n]
    BY <2>2, PackFold
  <2> QED BY <2>1, <2>3
<1>9. PICK b : PackRow(b, NoInputs, costs, n + m) /\ InputPreparation(Append(inputs, x)) = b[n + m]
  <2>1. Len(Append(inputs, x)) = l + 1
    BY <1>1
  <2>2. InputPreparation(Append(inputs, x)) = PackAll(NoInputs, costs)
    BY <1>1, <1>5, <1>6, <2>1 DEF InputPreparation, NoInputs, PackAll
  <2> QED BY <1>7, <2>2, PackFold
<1>10. a[n] = b[n]
  <2>1. n \in 0..n /\ n \in Nat /\ n + m \in Nat /\ n <= n + m
    BY <1>7
  <2>2. \A k \in 1..n : flat[k] = costs[k]
    BY <1>7
  <2>3. \A k \in 0..n : a[k] = b[k]
    BY <1>2, <1>8, <1>9, <2>1, <2>2, SameRow
  <2> QED BY <2>1, <2>3
<1> DEFINE acc == [k \in 0..m |-> b[n + k]]
<1>11. acc[0] = a[n] /\ acc[m] = b[n + m]
  BY <1>2, <1>7, <1>10
<1>12. ASSUME NEW k \in 1..m PROVE acc[k] = Pack(acc[k - 1], R[k])
  <2>1. n + k \in 1..(n + m) /\ k \in 0..m /\ k - 1 \in 0..m /\ (n + k) - 1 = n + (k - 1)
    BY <1>2, <1>7
  <2>2. b[n + k] = Pack(b[n + (k - 1)], costs[n + k])
    BY <1>9, <2>1 DEF PackRow
  <2> QED BY <1>7, <2>1, <2>2
<1>13. PackRow(acc, InputPreparation(inputs), R, m)
  <2> HIDE DEF acc
  <2> QED BY <1>8, <1>11, <1>12 DEF PackRow
<1> HIDE DEF acc
<1> QED BY <1>1, <1>9, <1>11, <1>13

(* The work of one input fits into a transaction.                            *)
Prepared(p) ==
    /\ p = [txCount |-> p.txCount, computeUnits |-> p.computeUnits]
    /\ p.txCount \in Nat \ {0} /\ p.computeUnits \in 0..MaxCUs

LEMMA Costs ==
    /\ InputBytes \in Nat \ {0} /\ AddMixedCost \in Nat /\ AddCost \in Nat \ {0} /\ MaxCUs \in Nat \ {0}
    /\ InputBytes * AddMixedCost \in Nat /\ InputBytes * AddMixedCost + AddCost <= MaxCUs
    /\ AddMixedCost <= MaxCUs
<1>1. /\ InputBytes \in Nat \ {0} /\ AddMixedCost \in Nat /\ AddCost \in Nat \ {0} /\ MaxCUs \in Nat
      /\ InputBytes * AddMixedCost + AddCost <= MaxCUs
  BY InputAssumption
<1>2. InputBytes * AddMixedCost \in Nat
  BY <1>1
<1>3. InputBytes * AddMixedCost >= AddMixedCost
  BY <1>1
<1> QED BY <1>1, <1>2, <1>3

LEMMA PackType ==
    ASSUME NEW p, Prepared(p), NEW c \in 0..MaxCUs
    PROVE  /\ Prepared(Pack(p, c))
           /\ p.computeUnits + c > MaxCUs =>
                  Pack(p, c).txCount = p.txCount + 1 /\ Pack(p, c).computeUnits = c
           /\ p.computeUnits + c <= MaxCUs =>
                  Pack(p, c).txCount = p.txCount /\ Pack(p, c).computeUnits = p.computeUnits + c
<1>1. MaxCUs \in Nat
  BY Costs
<1>2. PICK t, u : p = [txCount |-> t, computeUnits |-> u] /\ t \in Nat \ {0} /\ u \in 0..MaxCUs
  BY DEF Prepared
<1>3. p.txCount = t /\ p.computeUnits = u
  BY <1>2
<1>4. CASE u + c > MaxCUs
  <2>1. Pack(p, c) = [txCount |-> t + 1, computeUnits |-> c]
    BY <1>3, <1>4 DEF Pack
  <2> QED BY <1>1, <1>2, <1>3, <1>4, <2>1 DEF Prepared
<1>5. CASE u + c <= MaxCUs
  <2>1. Pack(p, c) = [txCount |-> t, computeUnits |-> u + c]
    BY <1>1, <1>2, <1>3, <1>5 DEF Pack
  <2>2. u + c \in 0..MaxCUs
    BY <1>1, <1>2, <1>5
  <2> QED BY <1>1, <1>2, <1>3, <1>5, <2>1, <2>2 DEF Prepared
<1> QED BY <1>1, <1>2, <1>3, <1>4, <1>5

(* How far one input gets on its own, in one transaction; and how far after  *)
(* others, where it begins at most one transaction more, exactly if all of   *)
(* it does not fit into what the last one has left.                          *)
LEMMA RowAlone ==
    ASSUME NEW x, NEW acc, PackRow(acc, NoInputs, Rounds(x), InputBytes + 1)
    PROVE  /\ \A k \in 0..(InputBytes + 1) : Prepared(acc[k]) /\ acc[k].txCount = 1
           /\ \A k \in 1..(InputBytes + 1) :
                  acc[k].computeUnits = acc[k - 1].computeUnits + Rounds(x)[k]
<1> DEFINE low(k) == acc[k].computeUnits <= k * AddMixedCost
           S == {k \in 0..InputBytes : /\ Prepared(acc[k]) /\ acc[k].txCount = 1 /\ low(k)
                                       /\ k # 0 => acc[k].computeUnits
                                                   = acc[k - 1].computeUnits + Rounds(x)[k]}
<1>1. 0 \in S
  <2>1. acc[0] = NoInputs /\ 0 * AddMixedCost = 0
    BY Costs DEF PackRow
  <2>2. Prepared(acc[0]) /\ acc[0].txCount = 1 /\ acc[0].computeUnits = 0
    BY <2>1, Costs DEF Prepared, NoInputs
  <2> QED BY <2>1, <2>2, Costs
<1>2. ASSUME NEW k \in 0..(InputBytes - 1), k \in S PROVE k + 1 \in S
  <2> DEFINE c == Rounds(x)[k + 1]
  <2>1. /\ k + 1 \in 1..InputBytes /\ k + 1 \in 1..(InputBytes + 1) /\ (k + 1) - 1 = k
        /\ k + 1 \in 0..InputBytes /\ k \in Nat /\ k + 1 # 0
    BY Costs
  <2>2. acc[k + 1] = Pack(acc[k], c)
    BY <2>1 DEF PackRow
  <2>3. c \in Nat /\ c <= AddMixedCost
    <3>1. ~(k + 1 > InputBytes)
      BY <2>1, Costs
    <3> QED BY <2>1, <3>1, RoundsType
  <2> HIDE DEF c
  <2>4. Prepared(acc[k]) /\ acc[k].txCount = 1 /\ acc[k].computeUnits <= k * AddMixedCost
    BY <1>2
  <2>5. (k + 1) * AddMixedCost = k * AddMixedCost + AddMixedCost /\ k * AddMixedCost \in Nat
    BY <2>1, Costs
  <2>6. (k + 1) * AddMixedCost <= InputBytes * AddMixedCost
    BY <2>1, Costs
  <2>7. acc[k].computeUnits \in Nat /\ acc[k].computeUnits + c <= (k + 1) * AddMixedCost
    BY <2>3, <2>4, <2>5, Costs DEF Prepared
  <2>8. acc[k].computeUnits + c <= MaxCUs /\ c \in 0..MaxCUs
    BY <2>3, <2>5, <2>6, <2>7, Costs
  <2>9. /\ Prepared(acc[k + 1]) /\ acc[k + 1].txCount = 1
        /\ acc[k + 1].computeUnits = acc[k].computeUnits + c
    BY <2>2, <2>4, <2>8, PackType
  <2> QED BY <2>1, <2>7, <2>9 DEF c
<1>3. \A k \in 0..InputBytes : k \in S
  <2> HIDE DEF S
  <2> QED BY <1>1, <1>2, Costs, NumbersUpTo
<1>4. /\ Prepared(acc[InputBytes + 1]) /\ acc[InputBytes + 1].txCount = 1
      /\ acc[InputBytes + 1].computeUnits = acc[InputBytes].computeUnits + Rounds(x)[InputBytes + 1]
  <2> DEFINE c == Rounds(x)[InputBytes + 1]
             u == acc[InputBytes]
  <2>1. InputBytes + 1 \in 1..(InputBytes + 1) /\ (InputBytes + 1) - 1 = InputBytes
        /\ InputBytes \in 0..InputBytes
    BY Costs
  <2>2. acc[InputBytes + 1] = Pack(u, c)
    BY <2>1 DEF PackRow
  <2>3. c \in Nat /\ c <= AddCost
    BY <2>1, RoundsType, Costs
  <2>4. Prepared(u) /\ u.txCount = 1 /\ u.computeUnits <= InputBytes * AddMixedCost
    BY <1>3, <2>1
  <2> HIDE DEF c, u
  <2>5. u.computeUnits \in Nat /\ u.computeUnits + c <= MaxCUs /\ c \in 0..MaxCUs
    BY <2>3, <2>4, Costs DEF Prepared
  <2>6. /\ Prepared(Pack(u, c)) /\ Pack(u, c).txCount = u.txCount
        /\ Pack(u, c).computeUnits = u.computeUnits + c
    BY <2>4, <2>5, PackType
  <2> QED BY <2>2, <2>4, <2>6 DEF c, u
<1>5. ASSUME NEW k \in 0..(InputBytes + 1)
      PROVE  /\ Prepared(acc[k]) /\ acc[k].txCount = 1
             /\ k # 0 => acc[k].computeUnits = acc[k - 1].computeUnits + Rounds(x)[k]
  <2>1. CASE k \in 0..InputBytes
    BY <1>3, <2>1
  <2>2. CASE k = InputBytes + 1
    <3>1. (InputBytes + 1) - 1 = InputBytes
      BY Costs
    <3> QED BY <1>4, <2>2, <3>1
  <2> QED BY <2>1, <2>2, Costs
<1>6. \A k \in 1..(InputBytes + 1) : k \in 0..(InputBytes + 1) /\ k # 0
  BY Costs
<1> QED BY <1>5, <1>6

LEMMA RowAfter ==
    ASSUME NEW x, NEW alone, PackRow(alone, NoInputs, Rounds(x), InputBytes + 1),
           NEW start, Prepared(start), NEW acc, PackRow(acc, start, Rounds(x), InputBytes + 1),
           NEW last, last = InputBytes + 1
    PROVE  /\ Prepared(acc[last])
           /\ acc[last].txCount = start.txCount +
                  IF alone[last].computeUnits + start.computeUnits > MaxCUs THEN 1 ELSE 0
<1> DEFINE fits(k) == /\ acc[k].txCount = start.txCount
                      /\ acc[k].computeUnits = start.computeUnits + alone[k].computeUnits
           full(k) == /\ acc[k].txCount = start.txCount + 1
                      /\ start.computeUnits + alone[k].computeUnits > MaxCUs
                      /\ acc[k].computeUnits <= alone[k].computeUnits
           S == {k \in 0..last : Prepared(acc[k]) /\ (fits(k) \/ full(k))}
<1>0. last \in Nat /\ MaxCUs \in Nat
  BY Costs
<1>1. 0 \in S
  <2>1. acc[0] = start /\ alone[0] = NoInputs
    BY DEF PackRow
  <2> QED BY <1>0, <2>1 DEF NoInputs, Prepared
<1>2. ASSUME NEW k \in 0..(last - 1), k \in S PROVE k + 1 \in S
  <2> DEFINE c == Rounds(x)[k + 1]
             a == alone[k]
             b == alone[k + 1]
             p == acc[k]
             q == acc[k + 1]
  <2>1. k + 1 \in 1..(InputBytes + 1) /\ (k + 1) - 1 = k /\ k + 1 \in 0..last /\ k \in 0..(InputBytes + 1)
        /\ k + 1 \in 0..(InputBytes + 1)
    BY <1>0
  <2>2. q = Pack(p, c)
    BY <2>1 DEF PackRow
  <2>3. Prepared(a) /\ Prepared(b) /\ b.computeUnits = a.computeUnits + c /\ c \in Nat
    BY <2>1, RowAlone, RoundsType
  <2>4. Prepared(p) /\ (fits(k) \/ full(k))
    BY <1>2
  <2>5. c \in 0..MaxCUs
    <3> HIDE DEF a, b, c
    <3> QED BY <1>0, <2>3 DEF Prepared
  <2>6. /\ Prepared(q)
        /\ p.computeUnits + c > MaxCUs => q.txCount = p.txCount + 1 /\ q.computeUnits = c
        /\ p.computeUnits + c <= MaxCUs => q.txCount = p.txCount /\ q.computeUnits = p.computeUnits + c
    <3> HIDE DEF p, q, c
    <3> QED BY <2>2, <2>4, <2>5, PackType
  <2>7. /\ start.txCount \in Nat /\ start.computeUnits \in 0..MaxCUs /\ a.computeUnits \in 0..MaxCUs
        /\ b.computeUnits \in 0..MaxCUs /\ p.computeUnits \in 0..MaxCUs /\ p.txCount \in Nat
    <3> HIDE DEF a, b, p
    <3> QED BY <2>3, <2>4 DEF Prepared
  <2>8. CASE fits(k)
    <3>1. p.txCount = start.txCount /\ p.computeUnits = start.computeUnits + a.computeUnits
      BY <2>8
    <3>2. \/ /\ q.txCount = start.txCount
             /\ q.computeUnits = start.computeUnits + b.computeUnits
          \/ /\ q.txCount = start.txCount + 1
             /\ start.computeUnits + b.computeUnits > MaxCUs
             /\ q.computeUnits <= b.computeUnits
      <4> HIDE DEF a, b, c, p, q
      <4> QED BY <1>0, <2>3, <2>5, <2>6, <2>7, <3>1
    <3> QED BY <2>1, <2>6, <3>2
  <2>9. CASE full(k)
    <3>1. /\ p.txCount = start.txCount + 1 /\ start.computeUnits + a.computeUnits > MaxCUs
          /\ p.computeUnits <= a.computeUnits
      BY <2>9
    <3>2. /\ q.txCount = start.txCount + 1
          /\ start.computeUnits + b.computeUnits > MaxCUs
          /\ q.computeUnits <= b.computeUnits
      <4> HIDE DEF a, b, c, p, q
      <4> QED BY <1>0, <2>3, <2>5, <2>6, <2>7, <3>1
    <3> QED BY <2>1, <2>6, <3>2
  <2> QED BY <2>4, <2>8, <2>9
<1>3. \A k \in 0..last : k \in S
  <2> HIDE DEF S
  <2> QED BY <1>0, <1>1, <1>2, NumbersUpTo
<1>4. last \in S
  BY <1>0, <1>3
<1>5. Prepared(acc[last]) /\ acc[last].computeUnits \in 0..MaxCUs /\ acc[last].txCount \in Nat
  BY <1>4 DEF Prepared
<1>6. start.txCount \in Nat /\ start.computeUnits \in 0..MaxCUs /\ alone[last].computeUnits \in 0..MaxCUs
  <2>1. Prepared(alone[last])
    BY <1>0, RowAlone
  <2> QED BY <2>1 DEF Prepared
<1>7. fits(last) \/ full(last)
  BY <1>4
<1> QED BY <1>0, <1>5, <1>6, <1>7

LEMMA PrepareNoneRow ==
    ASSUME NEW x
    PROVE  \E alone : /\ PackRow(alone, NoInputs, Rounds(x), InputBytes + 1)
                      /\ InputPreparation(<<x>>) = alone[InputBytes + 1]
<1>1. <<>> \in Seq({x}) /\ x \in {x} /\ Append(<<>>, x) = <<x>>
  OBVIOUS
<1> QED BY <1>1, PrepareOneMore, PrepareNone

LEMMA PreparedAll ==
    ASSUME NEW T, NEW inputs \in Seq(T)
    PROVE  Prepared(InputPreparation(inputs))
<1> DEFINE S == {n \in Nat : \A s \in Seq(T) : Len(s) = n => Prepared(InputPreparation(s))}
<1>1. 0 \in S
  <2>1. Prepared(NoInputs)
    BY Costs DEF Prepared, NoInputs
  <2>2. \A s \in Seq(T) : Len(s) = 0 => s = <<>>
    OBVIOUS
  <2> QED BY <2>1, <2>2, PrepareNone
<1>2. ASSUME NEW n \in S PROVE n + 1 \in S
  <2> SUFFICES ASSUME NEW s \in Seq(T), Len(s) = n + 1 PROVE Prepared(InputPreparation(s))
    OBVIOUS
  <2>1. n \in Nat
    OBVIOUS
  <2>2. PICK r, x : r \in Seq(T) /\ x \in T /\ Len(r) = n /\ s = Append(r, x)
    <3> DEFINE r == SubSeq(s, 1, n)
    <3>1. r \in Seq(T) /\ Len(r) = n /\ s[n + 1] \in T
      BY <2>1
    <3>2. s = Append(r, s[n + 1])
      BY <2>1
    <3> HIDE DEF r
    <3> QED BY <3>1, <3>2
  <2>3. Prepared(InputPreparation(r))
    BY <2>2
  <2>4. PICK acc : /\ PackRow(acc, InputPreparation(r), Rounds(x), InputBytes + 1)
                   /\ InputPreparation(s) = acc[InputBytes + 1]
    BY <2>2, PrepareOneMore
  <2>5. PICK alone : PackRow(alone, NoInputs, Rounds(x), InputBytes + 1)
    BY PrepareNoneRow
  <2> HIDE DEF S
  <2> QED BY <2>3, <2>4, <2>5, RowAfter
<1>3. S \subseteq Nat
  OBVIOUS
<1> HIDE DEF S
<1>4. Len(inputs) \in S
  <2>1. Len(inputs) \in Nat
    OBVIOUS
  <2>2. \A n \in Nat : n \in S
    BY <1>1, <1>2, <1>3, AllNumbers
  <2> QED BY <2>1, <2>2
<1> QED BY <1>4 DEF S

(* What getTxCountForExtraInput tells of an input, without going through the *)
(* inputs before it, is exactly how many transactions it adds to theirs.     *)
LEMMA ExtraInputCounted ==
    ASSUME NEW T, NEW inputs \in Seq(T), NEW x \in T
    PROVE  /\ InputPreparation(Append(inputs, x)).txCount
                  = InputPreparation(inputs).txCount
                    + TxCountForExtraInput(x, InputPreparation(inputs).computeUnits)
           /\ TxCountForExtraInput(x, InputPreparation(inputs).computeUnits) \in {0, 1}
<1>1. PICK p : p = InputPreparation(inputs)
  OBVIOUS
<1>2. Prepared(p)
  BY <1>1, PreparedAll
<1>3. PICK acc : /\ PackRow(acc, p, Rounds(x), InputBytes + 1)
                 /\ InputPreparation(Append(inputs, x)) = acc[InputBytes + 1]
  BY <1>1, PrepareOneMore
<1>4. PICK alone : /\ PackRow(alone, NoInputs, Rounds(x), InputBytes + 1)
                   /\ InputPreparation(<<x>>) = alone[InputBytes + 1]
  BY PrepareNoneRow
<1>5. PICK last : last = InputBytes + 1 /\ last \in Nat
  BY Costs
<1>6. acc[last].txCount = p.txCount + IF alone[last].computeUnits + p.computeUnits > MaxCUs THEN 1 ELSE 0
  BY <1>2, <1>3, <1>4, <1>5, RowAfter
<1>7. alone[last].txCount = 1
  BY <1>4, <1>5, RowAlone
<1>8. TxCountForExtraInput(x, p.computeUnits)
          = IF alone[last].computeUnits + p.computeUnits > MaxCUs THEN 1 ELSE 0
  <2>1. TxCountForExtraInput(x, p.computeUnits) = alone[last].txCount - 1
            + (IF alone[last].computeUnits + p.computeUnits > MaxCUs THEN 1 ELSE 0)
    BY <1>4, <1>5 DEF TxCountForExtraInput
  <2> QED BY <1>7, <2>1
<1> QED BY <1>1, <1>3, <1>5, <1>6, <1>8

-----------------------------------------------------------------------------
(* Fees.                                                                     *)
LEMMA PowersOfTwo ==
    ASSUME NEW n \in Nat
    PROVE  2 ^ n \in Nat \ {0}
<1> DEFINE S == 1..n
           P == SUBSET S
<1>1. IsFiniteSet(S) /\ Cardinality(S) = n
  BY FS_Interval
<1>2. IsFiniteSet(P) /\ Cardinality(P) = 2 ^ Cardinality(S)
  <2> HIDE DEF S
  <2> QED BY <1>1, FS_SUBSET
<1>3. P # {}
  OBVIOUS
<1>4. Cardinality(P) \in Nat /\ Cardinality(P) # 0
  <2> HIDE DEF P
  <2> QED BY <1>2, <1>3, FS_CardinalityType, FS_EmptySet
<1> QED BY <1>1, <1>2, <1>4

GovernorData ==
    [lamportsPerTx : Nat, baseCommNetworkFee : Nat, proofNetworkFee : Nat, baseCommSubvention : Nat,
     proofSubvention : Nat, hashTxReward : Nat, proofReward : Nat, proofBaseTxCount : Nat,
     batchingRate : 0..(Len(BatchTxCounts) - 1)]

LEMMA Parts ==
    ASSUME NEW gov \in Governors
    PROVE  /\ gov.lamportsPerTx \in Nat /\ gov.baseCommNetworkFee \in Nat /\ gov.proofNetworkFee \in Nat
           /\ gov.baseCommSubvention \in Nat /\ gov.proofSubvention \in Nat
           /\ HashTxCompensation(gov) \in Nat /\ ProofTxCompensation(gov) \in Nat
           /\ CommitmentHashFee(gov) \in Nat /\ FixedCosts(gov) \in Nat
           /\ \A amount \in Nat : SendPrivacyFee(gov, amount) \in Nat
           /\ \A amount \in Nat : StoreTotalFee(gov, amount) \in Int
<1>1. gov \in GovernorData
  BY DataAssumption DEF GovernorData
<1>2. /\ gov.lamportsPerTx \in Nat /\ gov.baseCommNetworkFee \in Nat /\ gov.proofNetworkFee \in Nat
      /\ gov.baseCommSubvention \in Nat /\ gov.proofSubvention \in Nat /\ gov.hashTxReward \in Nat
      /\ gov.proofReward \in Nat /\ gov.proofBaseTxCount \in Nat
      /\ gov.batchingRate \in 0..(Len(BatchTxCounts) - 1)
  BY <1>1 DEF GovernorData
<1>3. HashTxCompensation(gov) \in Nat /\ ProofTxCompensation(gov) \in Nat
  <2>1. gov.lamportsPerTx \in Nat /\ gov.hashTxReward \in Nat /\ gov.proofReward \in Nat
    BY <1>2
  <2> QED BY <2>1 DEF HashTxCompensation, ProofTxCompensation
<1>4. CommitmentHashFee(gov) \in Nat
  <2> DEFINE a == BatchTxCounts[gov.batchingRate + 1]
             b == 2 ^ gov.batchingRate
             h == HashTxCompensation(gov)
  <2>1. a \in Nat
    <3>1. BatchTxCounts \in Seq(Nat)
      BY DataAssumption
    <3>2. Len(BatchTxCounts) \in Nat /\ gov.batchingRate \in 0..(Len(BatchTxCounts) - 1)
      BY <1>2, <3>1
    <3>3. gov.batchingRate + 1 \in 1..Len(BatchTxCounts)
      BY <3>2
    <3> QED BY <3>1, <3>3
  <2>2. b \in Nat \ {0} /\ h \in Nat
    <3>1. gov.batchingRate \in Nat
      BY <1>2
    <3> QED BY <1>3, <3>1, PowersOfTwo
  <2>3. CommitmentHashFee(gov) = CeilDiv(a * h, b)
    BY DEF CommitmentHashFee
  <2> HIDE DEF a, b, h
  <2>4. a * h \in Int /\ a * h >= 0
    BY <2>1, <2>2, Products
  <2>5. CeilDiv(a * h, b) \in Int /\ CeilDiv(a * h, b) >= 0
    BY <2>2, <2>4, Ceiling
  <2> QED BY <2>3, <2>5
<1>5. FixedCosts(gov) \in Nat
  <2>1. gov.proofBaseTxCount * ProofTxCompensation(gov) \in Int
        /\ gov.proofBaseTxCount * ProofTxCompensation(gov) >= 0
    BY <1>2, <1>3, Products
  <2> QED BY <1>2, <1>4, <2>1 DEF FixedCosts
<1>6. ASSUME NEW amount \in Nat
      PROVE  SendPrivacyFee(gov, amount) \in Nat /\ StoreTotalFee(gov, amount) \in Int
  <2>1. /\ gov.proofNetworkFee * amount \in Nat /\ gov.baseCommNetworkFee * amount \in Nat
        /\ BaseTxPerHash \in Nat /\ BaseTxPerHash * HashTxCompensation(gov) \in Nat
    <3>1. BaseTxPerHash \in Nat
      BY FeeAssumption
    <3>2. PICK a \in Nat, b \in Nat, h \in Nat :
              a = gov.proofNetworkFee /\ b = gov.baseCommNetworkFee /\ h = HashTxCompensation(gov)
      BY <1>2, <1>3
    <3>3. a * amount \in Nat /\ b * amount \in Nat /\ BaseTxPerHash * h \in Nat
      BY <3>1
    <3> QED BY <3>1, <3>2, <3>3
  <2>2. (gov.proofNetworkFee * amount) \div 10000 \in Nat /\ (gov.baseCommNetworkFee * amount) \div 10000 \in Nat
    BY <2>1
  <2>3. SendPrivacyFee(gov, amount) \in Nat
    BY <2>2 DEF SendPrivacyFee
  <2> DEFINE a == BaseTxPerHash * HashTxCompensation(gov)
             b == (gov.baseCommNetworkFee * amount) \div 10000
  <2>4. a \in Nat /\ b \in Nat
    BY <2>1, <2>2
  <2>5. StoreTotalFee(gov, amount) = a + b + CommitmentHashFee(gov) + gov.lamportsPerTx - gov.baseCommSubvention
    BY DEF StoreTotalFee
  <2> HIDE DEF a, b
  <2>6. StoreTotalFee(gov, amount) \in Int
    BY <1>2, <1>4, <2>4, <2>5
  <2> QED BY <2>3, <2>6
<1> QED BY <1>2, <1>3, <1>4, <1>5, <1>6

LEMMA ExtraAtMostOne ==
    ASSUME NEW x, NEW u
    PROVE  TxCountForExtraInput(x, u) \in {0, 1}
<1>1. PICK alone : /\ PackRow(alone, NoInputs, Rounds(x), InputBytes + 1)
                   /\ InputPreparation(<<x>>) = alone[InputBytes + 1]
  BY PrepareNoneRow
<1>2. InputPreparation(<<x>>).txCount = 1
  BY <1>1, RowAlone, Costs
<1> QED BY <1>2 DEF TxCountForExtraInput

(* FeeCalculator tries no more than MaxExtraTx transactions, and one is      *)
(* always enough.                                                            *)
LEMMA TriesOne == MaxExtraTx \in Nat \ {0}
<1> DEFINE c == (InputBytes - 1) * AddMixedCost
<1>1. InputBytes - 1 \in Nat /\ AddMixedCost \in Nat
  BY Costs
<1>2. c \in Nat
  BY <1>1
<1>3. MaxExtraTx = CeilDiv(c + AddCost, MaxCUs)
  BY DEF MaxExtraTx
<1> HIDE DEF c
<1>4. c + AddCost \in Int /\ c + AddCost > 0 /\ MaxCUs \in Nat \ {0}
  BY <1>2, Costs
<1> QED BY <1>3, <1>4, Ceiling

(* What a send costs beside the transactions that prepare its inputs.        *)
Beside(gov, amount) == amount + FixedCosts(gov) + SendPrivacyFee(gov, amount) - gov.proofSubvention

(* With the fee, the amount is what pays for the preparation of the other    *)
(* inputs and for as many transactions as it adds itself.                    *)
LEMMA SendTotal ==
    ASSUME SubventionBelowCosts, NEW gov \in Governors, NEW amount \in Nat,
           NEW T, NEW pubInputs \in Seq(T)
    PROVE  \E extra \in Nat, sum \in Nat :
               /\ extra <= 1
               /\ sum = Beside(gov, amount)
                        + (InputPreparation(pubInputs).txCount + extra) * ProofTxCompensation(gov)
               /\ SendTotalFee(gov, pubInputs, amount) = sum - amount
               /\ TxCountForExtraInput(sum, InputPreparation(pubInputs).computeUnits) <= extra
<1>1. PICK p, n, u, w, fixed, privacy, subvention :
          /\ p = InputPreparation(pubInputs) /\ n = p.txCount /\ u = p.computeUnits
          /\ w = ProofTxCompensation(gov) /\ fixed = FixedCosts(gov)
          /\ privacy = SendPrivacyFee(gov, amount) /\ subvention = gov.proofSubvention
  OBVIOUS
<1>2. /\ n \in Nat /\ w \in Nat /\ fixed \in Nat /\ privacy \in Nat /\ subvention \in Nat
      /\ subvention < fixed /\ n * w \in Nat
  <2>1. n \in Nat
    BY <1>1, PreparedAll DEF Prepared
  <2>2. w \in Nat /\ fixed \in Nat /\ privacy \in Nat /\ subvention \in Nat /\ subvention < fixed
    BY <1>1, Parts DEF SubventionBelowCosts
  <2> QED BY <2>1, <2>2
<1>3. PICK base : base = amount + fixed + privacy + n * w /\ base \in Nat /\ base > subvention
  BY <1>2
<1> DEFINE total(i) == (IF base > subvention THEN base - subvention ELSE 0) + i * w
           I == {i \in 0..MaxExtraTx : TxCountForExtraInput(total(i), u) <= i}
<1>4. I \subseteq Nat /\ I # {} /\ 1 \in I
  <2>1. MaxExtraTx \in 0..MaxExtraTx /\ MaxExtraTx >= 1
    BY TriesOne
  <2>2. TxCountForExtraInput(total(1), u) \in {0, 1}
    BY ExtraAtMostOne
  <2>3. 1 \in I
    <3> HIDE DEF total
    <3> QED BY <2>1, <2>2, TriesOne
  <2> QED BY <2>3, TriesOne
<1>5. PICK extra : extra = Min(I) /\ extra \in I /\ extra <= 1
  <2> HIDE DEF I
  <2>1. \E i \in I : \A j \in I : i <= j
    BY <1>4, Least
  <2>2. Min(I) \in I /\ \A j \in I : Min(I) <= j
    BY <2>1 DEF Min
  <2> QED BY <1>4, <2>2
<1>6. SendTotalFee(gov, pubInputs, amount)
          = total(extra) - amount - (IF base > subvention THEN 0 ELSE subvention)
  BY <1>1, <1>3, <1>5 DEF SendTotalFee
<1>7. extra \in Nat /\ TxCountForExtraInput(total(extra), u) <= extra
  <2> HIDE DEF total
  <2> QED BY <1>4, <1>5
<1>8. PICK sum : sum = total(extra)
  OBVIOUS
<1>9. sum = base - subvention + extra * w /\ extra * w \in Nat
  BY <1>2, <1>3, <1>7, <1>8
<1>10. (n + extra) * w = n * w + extra * w
  BY <1>2, <1>7
<1>11. /\ sum \in Nat
       /\ sum = (amount + fixed + privacy - subvention) + (n + extra) * w
  BY <1>2, <1>3, <1>9, <1>10
<1>12. SendTotalFee(gov, pubInputs, amount) = sum - amount
  <2>1. SendTotalFee(gov, pubInputs, amount) = sum - amount - 0
    <3> HIDE DEF total
    <3> QED BY <1>3, <1>6, <1>8
  <2> QED BY <1>11, <2>1
<1>13. TxCountForExtraInput(sum, u) <= extra
  <2> HIDE DEF total
  <2> QED BY <1>7, <1>8
<1>14. Beside(gov, amount) = amount + fixed + privacy - subvention
  BY <1>1 DEF Beside
<1> HIDE DEF total, I
<1>15. /\ sum = Beside(gov, amount) + (InputPreparation(pubInputs).txCount + extra) * ProofTxCompensation(gov)
       /\ TxCountForExtraInput(sum, InputPreparation(pubInputs).computeUnits) <= extra
  BY <1>1, <1>11, <1>13, <1>14
<1> QED BY <1>5, <1>7, <1>11, <1>12, <1>15

Inputs(inputs) == inputs \in RealInputs \/ inputs = DummyInputs

LEMMA PublicSeq ==
    ASSUME NEW inputs, Inputs(inputs), NEW recentCommIndex
    PROVE  \E T : PublicInputs(inputs, recentCommIndex) \in Seq(T)
<1> DEFINE half == Base ^ (InputBytes \div 2) - 1
           T == Nat \cup {AllOnes, half, recentCommIndex, Base - 1}
<1>1. /\ inputs.nHashes \in Seq(T) /\ inputs.roots \in Seq(T)
      /\ inputs.feeVersion \in T /\ inputs.tokenId \in T
  <2>1. CASE inputs \in RealInputs
    <3>1. /\ inputs.nHashes \in Seq(Nat) /\ inputs.roots \in Seq(Nat)
          /\ inputs.feeVersion \in Nat /\ inputs.tokenId \in Nat
      BY <2>1, DataAssumption
    <3>2. Nat \subseteq T
      OBVIOUS
    <3> HIDE DEF T
    <3> QED BY <3>1, <3>2, SeqMonotonic
  <2>2. CASE inputs = DummyInputs
    <3>1. PICK row : row = [n \in 1..SendArity |-> half]
      OBVIOUS
    <3>2. inputs = [nHashes |-> row, roots |-> row, feeVersion |-> Base - 1, tokenId |-> Base - 1]
      BY <2>2, <3>1 DEF DummyInputs
    <3>3. row \in [1..SendArity -> T] /\ SendArity \in Nat
      BY <3>1, FeeAssumption
    <3>4. row \in Seq(T) /\ Base - 1 \in T
      <4>1. Base - 1 \in T
        OBVIOUS
      <4> HIDE DEF T
      <4> QED BY <3>3, <4>1
    <3> HIDE DEF T
    <3> QED BY <3>2, <3>4
  <2> QED BY <2>1, <2>2 DEF Inputs
<1>2. PICK rest : rest = <<inputs.feeVersion, inputs.tokenId, AllOnes, AllOnes, recentCommIndex>>
  OBVIOUS
<1>3. rest \in Seq(T)
  <2>1. AllOnes \in T /\ recentCommIndex \in T
    OBVIOUS
  <2> HIDE DEF T
  <2> QED BY <1>1, <1>2, <2>1
<1>4. PublicInputs(inputs, recentCommIndex) = inputs.nHashes \o inputs.roots \o rest
  BY <1>2 DEF PublicInputs
<1> HIDE DEF T
<1>5. inputs.nHashes \o inputs.roots \o rest \in Seq(T)
  BY <1>1, <1>3, ConcatProperties
<1> QED BY <1>4, <1>5

(* The fee of a send pays for its transactions, those it adds itself among   *)
(* them.                                                                     *)
LEMMA SendPays ==
    ASSUME SubventionBelowCosts, NEW gov \in Governors, NEW amount \in Nat,
           NEW inputs, Inputs(inputs), NEW recentCommIndex, NEW recipientExists \in BOOLEAN,
           NEW fee, fee = SendFee(gov, inputs, amount, recentCommIndex, recipientExists),
           NEW pub, pub = PublicInputs(inputs, recentCommIndex)
    PROVE  /\ fee.txFee \in Nat \ {0} /\ fee.privacyFee \in Nat
           /\ fee.tokenAccRent = IF recipientExists THEN 0 ELSE Rent
           /\ fee.txFee + gov.proofSubvention
                  >= FixedCosts(gov)
                     + InputPreparation(Append(pub, amount + fee.txFee + fee.privacyFee)).txCount
                       * ProofTxCompensation(gov)
<1>1. PICK T : pub \in Seq(T)
  BY PublicSeq
<1>2. PICK extra \in Nat, sum \in Nat :
          /\ sum = Beside(gov, amount)
                   + (InputPreparation(pub).txCount + extra) * ProofTxCompensation(gov)
          /\ SendTotalFee(gov, pub, amount) = sum - amount
          /\ TxCountForExtraInput(sum, InputPreparation(pub).computeUnits) <= extra
  BY <1>1, SendTotal
<1>3. PICK w, fixed, privacy, subvention, n, m, total :
          /\ w = ProofTxCompensation(gov) /\ fixed = FixedCosts(gov)
          /\ privacy = SendPrivacyFee(gov, amount) /\ subvention = gov.proofSubvention
          /\ n = InputPreparation(pub).txCount /\ m = InputPreparation(Append(pub, sum)).txCount
          /\ total = SendTotalFee(gov, pub, amount)
  OBVIOUS
<1>4. w \in Nat /\ fixed \in Nat /\ privacy \in Nat /\ subvention \in Nat /\ subvention < fixed
  BY <1>3, Parts DEF SubventionBelowCosts
<1>5. fee = [txFee |-> total - privacy, privacyFee |-> privacy,
             tokenAccRent |-> IF recipientExists THEN 0 ELSE Rent]
  BY <1>3 DEF SendFee, LamportFee
<1>6. m \in Nat /\ n \in Nat /\ m <= n + extra
  <2>1. pub \in Seq(T \cup {sum})
    BY <1>1, SeqMonotonic
  <2>2. /\ m = n + TxCountForExtraInput(sum, InputPreparation(pub).computeUnits)
        /\ TxCountForExtraInput(sum, InputPreparation(pub).computeUnits) \in {0, 1}
    BY <1>3, <2>1, ExtraInputCounted
  <2>3. n \in Nat
    BY <1>1, <1>3, PreparedAll DEF Prepared
  <2> QED BY <1>2, <2>2, <2>3
<1>7. total = sum - amount /\ sum = amount + fixed + privacy - subvention + (n + extra) * w
  BY <1>2, <1>3 DEF Beside
<1>8. (n + extra) * w \in Nat /\ m * w \in Nat /\ m * w <= (n + extra) * w
  BY <1>4, <1>6
<1>9. total \in Int
  BY <1>7
<1>10. total - privacy = fixed - subvention + (n + extra) * w
  BY <1>4, <1>7, <1>8, <1>9
<1>11. fee.txFee = total - privacy /\ fee.privacyFee = privacy
       /\ fee.tokenAccRent = IF recipientExists THEN 0 ELSE Rent
  BY <1>5
<1>12. fee.txFee \in Nat \ {0} /\ amount + fee.txFee + fee.privacyFee = sum
  BY <1>4, <1>7, <1>8, <1>9, <1>10, <1>11
<1>13. fee.txFee + subvention >= fixed + m * w
  BY <1>4, <1>8, <1>10, <1>11
<1> QED BY <1>3, <1>4, <1>11, <1>12, <1>13

(* In tokens a part is not less than its exact value, rounded up.            *)
InToken(lamports, k, lamportsPerToken) == CeilDiv(lamports * k, 100 * lamportsPerToken)

LEMMA PartInTokens ==
    ASSUME NEW lamports \in Nat, NEW k \in Nat, k >= 100, NEW lamportsPerToken \in Nat \ {0}
    PROVE  /\ InToken(lamports, k, lamportsPerToken) \in Nat
           /\ lamports > 0 => InToken(lamports, k, lamportsPerToken) > 0
           /\ CeilDiv(lamports, lamportsPerToken) \in Nat
           /\ CeilDiv(lamports, lamportsPerToken) <= InToken(lamports, k, lamportsPerToken)
<1> DEFINE a == lamports * k
           b == 100 * lamportsPerToken
           q == CeilDiv(a, b)
<1>1. a \in Nat /\ a >= 100 * lamports /\ (lamports > 0 => a > 0)
  BY SMT
<1>2. b \in Nat \ {0}
  OBVIOUS
<1>3. q \in Int /\ b * q >= a /\ q >= 0 /\ (a > 0 => q > 0)
  <2> HIDE DEF a, b
  <2> QED BY <1>1, <1>2, Ceiling
<1>4. b * q = 100 * (lamportsPerToken * q) /\ lamportsPerToken * q \in Int
  <2> HIDE DEF q
  <2> QED BY <1>3
<1>5. lamportsPerToken * q >= lamports
  <2> HIDE DEF a, b, q
  <2> QED BY <1>1, <1>3, <1>4
<1>6. /\ CeilDiv(lamports, lamportsPerToken) <= q
      /\ CeilDiv(lamports, lamportsPerToken) \in Int /\ CeilDiv(lamports, lamportsPerToken) >= 0
  <2> HIDE DEF q
  <2> QED BY <1>3, <1>5, Ceiling
<1> HIDE DEF a, b, q
<1> QED BY <1>1, <1>3, <1>6 DEF a, b, q, InToken

LEMMA InTokens ==
    ASSUME NEW fee, fee.txFee \in Nat, fee.privacyFee \in Nat, fee.tokenAccRent \in Nat,
           NEW token, NEW lamportsPerToken \in Nat \ {0}, NEW extraFee \in Nat,
           NEW f, f = TokenFee(fee, token, lamportsPerToken, extraFee)
    PROVE  /\ f.txFee \in Nat /\ f.privacyFee \in Nat /\ f.tokenAccRent \in Nat /\ f.extraFee = extraFee
           /\ DOMAIN f = {"txFee", "privacyFee", "tokenAccRent", "extraFee"}
           /\ fee.txFee > 0 => f.txFee > 0
           /\ CeilDiv(fee.tokenAccRent, lamportsPerToken) \in Nat
           /\ CeilDiv(fee.tokenAccRent, lamportsPerToken) <= f.tokenAccRent
           /\ ComputationFeeTotal(f) = f.privacyFee + f.txFee /\ ComputationFeeTotal(f) \in Nat
           /\ TotalFeeAmount(f) = ComputationFeeTotal(f) + f.tokenAccRent + extraFee
           /\ TotalFeeAmount(f) \in Nat
<1>1. PICK k \in Nat : k >= 100 /\ k = IF token = LAMPORTS THEN 100 ELSE 102
  OBVIOUS
<1>2. f = [txFee |-> InToken(fee.txFee, k, lamportsPerToken),
           privacyFee |-> InToken(fee.privacyFee, k, lamportsPerToken),
           tokenAccRent |-> InToken(fee.tokenAccRent, k, lamportsPerToken), extraFee |-> extraFee]
  BY <1>1 DEF TokenFee, InToken
<1>3. /\ f.txFee = InToken(fee.txFee, k, lamportsPerToken)
      /\ f.privacyFee = InToken(fee.privacyFee, k, lamportsPerToken)
      /\ f.tokenAccRent = InToken(fee.tokenAccRent, k, lamportsPerToken) /\ f.extraFee = extraFee
      /\ DOMAIN f = {"txFee", "privacyFee", "tokenAccRent", "extraFee"}
  BY <1>2
<1>4. /\ f.txFee \in Nat /\ f.privacyFee \in Nat /\ f.tokenAccRent \in Nat
      /\ fee.txFee > 0 => f.txFee > 0
      /\ CeilDiv(fee.tokenAccRent, lamportsPerToken) \in Nat
      /\ CeilDiv(fee.tokenAccRent, lamportsPerToken) <= f.tokenAccRent
  <2>1. PICK a \in Nat, b \in Nat, c \in Nat : a = fee.txFee /\ b = fee.privacyFee /\ c = fee.tokenAccRent
    OBVIOUS
  <2>2. InToken(a, k, lamportsPerToken) \in Nat /\ (a > 0 => InToken(a, k, lamportsPerToken) > 0)
    BY <1>1, PartInTokens, Zenon
  <2>3. InToken(b, k, lamportsPerToken) \in Nat
    BY <1>1, PartInTokens, Zenon
  <2>4. /\ InToken(c, k, lamportsPerToken) \in Nat /\ CeilDiv(c, lamportsPerToken) \in Nat
        /\ CeilDiv(c, lamportsPerToken) <= InToken(c, k, lamportsPerToken)
    BY <1>1, PartInTokens, Zenon
  <2> QED BY <1>3, <2>1, <2>2, <2>3, <2>4
<1> QED BY <1>3, <1>4 DEF ComputationFeeTotal, TotalFeeAmount

-----------------------------------------------------------------------------
(* The invariant: what the variables hold, and what an operation has taken   *)
(* with it.                                                                  *)
TypeInv ==
    /\ governor \in Governors /\ price \in Nat \ {0} /\ exists \in BOOLEAN /\ balance \in Nat
    /\ cached \in SUBSET Governors
    /\ op.pc \in {"estimate", "build"} => op.extraFee \in Nat /\ op.balance \in Nat
    /\ op.pc = "build" => op.withdrawFee \in Int

FeesInv == TypeInv /\ PaysForItself /\ WithdrawsAll

LEMMA Known ==
    ASSUME TypeInv, NEW token
    PROVE  /\ Calculator \in Governors /\ LamportsPerToken(token) \in Nat \ {0}
           /\ Caching \in SUBSET Governors /\ RecipientExists(token) \in BOOLEAN
<1>1. Calculator \in Governors
  <2>1. CASE cached = {}
    BY <2>1 DEF TypeInv, Calculator
  <2>2. CASE cached # {}
    <3>1. \E gov \in cached : TRUE
      BY <2>2
    <3> QED BY <2>2, <3>1 DEF TypeInv, Calculator
  <2> QED BY <2>1, <2>2
<1>2. LamportsPerToken(token) \in Nat \ {0}
  BY DEF TypeInv, LamportsPerToken
<1>3. RecipientExists(token) \in BOOLEAN
  BY DEF TypeInv, RecipientExists
<1> QED BY <1>1, <1>2, <1>3 DEF Caching

LEMMA FeesInit == Init => FeesInv
<1> SUFFICES ASSUME Init PROVE FeesInv
  OBVIOUS
<1>1. op.pc = "idle"
  BY DEF Init
<1>2. governor \in Governors /\ price \in Nat \ {0} /\ exists \in BOOLEAN /\ balance \in Nat /\ cached = {}
  BY FeeAssumption DEF Init
<1> QED BY <1>1, <1>2 DEF FeesInv, TypeInv, PaysForItself, WithdrawsAll

(* What leaves the operation alone keeps what is known of it.                *)
LEMMA ChangeKeeps ==
    ASSUME FeesInv, UNCHANGED op, governor' \in Governors, price' \in Nat \ {0}, exists' \in BOOLEAN,
           balance' \in Nat, cached' \in SUBSET Governors
    PROVE  FeesInv'
<1>1. TypeInv'
  BY DEF FeesInv, TypeInv
<1>2. PaysForItself' /\ WithdrawsAll'
  BY DEF FeesInv, PaysForItself, WithdrawsAll
<1> QED BY <1>1, <1>2 DEF FeesInv

(* An operation that is neither estimated, nor built, has nothing to keep.   *)
LEMMA OtherKeeps ==
    ASSUME TypeInv, UNCHANGED <<governor, price, exists, balance>>, cached' \in SUBSET Governors,
           op'.pc \notin {"estimate", "build", "built"}
    PROVE  FeesInv'
BY DEF FeesInv, TypeInv, PaysForItself, WithdrawsAll

LEMMA WithdrawKeeps ==
    ASSUME FeesInv, NEW token \in Tokens, NEW extraFee \in ExtraFees, Withdraw(token, extraFee)
    PROVE  FeesInv'
<1>1. /\ op' = [pc |-> "estimate", token |-> token, extraFee |-> extraFee, balance |-> balance]
      /\ UNCHANGED <<governor, price, exists, balance, cached>>
  BY DEF Withdraw
<1>2. op'.pc = "estimate" /\ op'.extraFee = extraFee /\ op'.balance = balance
  BY <1>1
<1>3. extraFee \in Nat
  BY FeeAssumption
<1> QED BY <1>1, <1>2, <1>3 DEF FeesInv, TypeInv, PaysForItself, WithdrawsAll

LEMMA EstimateKeeps ==
    ASSUME SubventionBelowCosts, FeesInv, EstimateWithdraw
    PROVE  FeesInv'
<1>1. PICK lamportFee :
          lamportFee = EstimateSendFee(Calculator, op.balance, RecipientExists(op.token))
  OBVIOUS
<1>2. PICK fee : fee = EstimateSend(Calculator, op.token, op.balance, RecipientExists(op.token))
  OBVIOUS
<1>3. TypeInv /\ op.pc = "estimate" /\ op.balance \in Nat /\ op.extraFee \in Nat
  BY DEF FeesInv, TypeInv, EstimateWithdraw
<1>4. /\ cached' = Caching /\ UNCHANGED <<governor, price, exists, balance>>
      /\ op' = IF 100 * op.balance <= WithBuffer(fee)
               THEN [pc |-> "refused", why |-> "insufficient funds"]
               ELSE [pc |-> "build", token |-> op.token, extraFee |-> op.extraFee, balance |-> op.balance,
                     withdrawFee |-> WithBuffer(fee),
                     asOf |-> [governor |-> Calculator, price |-> price, exists |-> exists]]
  BY <1>2 DEF EstimateWithdraw
<1>5. /\ lamportFee.txFee \in Nat \ {0} /\ lamportFee.privacyFee \in Nat
      /\ lamportFee.tokenAccRent \in Nat
  <2>1. Inputs(DummyInputs) /\ Rent \in Nat
    BY FeeAssumption DEF Inputs
  <2>2. lamportFee = SendFee(Calculator, DummyInputs, op.balance, MaxCommIndex, RecipientExists(op.token))
    BY <1>1 DEF EstimateSendFee
  <2> QED BY <1>3, <2>1, <2>2, Known, SendPays
<1>6. fee = TokenFee(lamportFee, op.token, LamportsPerToken(op.token), 0)
  BY <1>1, <1>2 DEF EstimateSend
<1>7. TotalFeeAmount(fee) \in Nat
  <2>1. 0 \in Nat /\ LamportsPerToken(op.token) \in Nat \ {0}
    BY <1>3, Known
  <2> QED BY <1>5, <1>6, <2>1, InTokens
<1>8. WithBuffer(fee) \in Int
  BY <1>7 DEF WithBuffer
<1>9. cached' \in SUBSET Governors
  BY <1>3, <1>4, Known
<1>10. CASE 100 * op.balance <= WithBuffer(fee)
  <2>1. op'.pc = "refused"
    BY <1>4, <1>10
  <2> QED BY <1>3, <1>4, <1>9, <2>1, OtherKeeps
<1>11. CASE ~(100 * op.balance <= WithBuffer(fee))
  <2>1. /\ op'.pc = "build" /\ op'.extraFee = op.extraFee /\ op'.balance = op.balance
        /\ op'.withdrawFee = WithBuffer(fee)
    BY <1>4, <1>11
  <2> QED BY <1>3, <1>4, <1>8, <1>9, <2>1 DEF FeesInv, TypeInv, PaysForItself, WithdrawsAll
<1> QED BY <1>10, <1>11

(* The amount of a withdrawal is what its fee leaves; the parts of the fee   *)
(* add up to no more than what was kept for it.                              *)
LEMMA Remainder ==
    ASSUME NEW all \in Int, NEW kept \in Int, NEW amount, amount = (100 * all - kept) \div 100,
           NEW rent \in Nat, NEW fullRent \in Nat, rent <= fullRent, NEW extraFee \in Nat,
           NEW computation \in Nat, 100 * (computation + fullRent + extraFee) <= kept,
           NEW have \in Int, NEW left, left = have - (amount + rent + extraFee) - computation
    PROVE  have - all <= left /\ 100 * (left - (have - all)) <= kept + 99
<1>1. /\ amount \in Int /\ 100 * amount <= 100 * all - kept
      /\ 100 * all - kept < 100 * amount + 100
  BY DivBounds
<1> QED BY <1>1

LEMMA BuildKeeps ==
    ASSUME SubventionBelowCosts, FeesInv, NEW inputs \in RealInputs, NEW recentCommIndex,
           BuildWithdraw(inputs, recentCommIndex)
    PROVE  FeesInv'
<1> DEFINE lamportsPerToken == LamportsPerToken(op.token)
           amount == (100 * op.balance - op.withdrawFee) \div 100
           recipient == RecipientExists(op.token)
           rent == IF recipient THEN 0 ELSE CeilDiv(Rent, lamportsPerToken)
           realAmount == amount + rent + op.extraFee
           lamportFee == SendFee(governor, inputs, realAmount, recentCommIndex, recipient)
           fee == GenerateSendFee(lamportFee, op.token, op.extraFee)
           left == balance - realAmount - ComputationFeeTotal(fee)
           pub == PublicInputs(inputs, recentCommIndex)
<1>1. /\ lamportsPerToken = LamportsPerToken(op.token)
      /\ amount = (100 * op.balance - op.withdrawFee) \div 100
      /\ recipient = RecipientExists(op.token)
      /\ rent = IF recipient THEN 0 ELSE CeilDiv(Rent, lamportsPerToken)
      /\ realAmount = amount + rent + op.extraFee
      /\ lamportFee = SendFee(governor, inputs, realAmount, recentCommIndex, recipient)
      /\ fee = GenerateSendFee(lamportFee, op.token, op.extraFee)
      /\ left = balance - realAmount - ComputationFeeTotal(fee)
      /\ pub = PublicInputs(inputs, recentCommIndex)
  OBVIOUS
<1>2. op.pc = "build" /\ UNCHANGED <<governor, price, exists, balance, cached>>
  BY DEF BuildWithdraw
<1>3. /\ TypeInv /\ op.extraFee \in Nat /\ op.balance \in Nat /\ op.withdrawFee \in Int
      /\ governor \in Governors /\ balance \in Nat /\ cached' \in SUBSET Governors
      /\ recipient \in BOOLEAN /\ lamportsPerToken \in Nat \ {0}
  <2>1. TypeInv
    BY DEF FeesInv
  <2> QED BY <1>1, <1>2, <2>1, Known DEF TypeInv
<1>4. \/ op'.pc = "refused"
      \/ /\ IsGreaterThanMinAmount(amount, op.token)
         /\ ~(100 * TotalFeeAmount(fee) > op.withdrawFee)
         /\ op' = [pc |-> "built", token |-> op.token, amount |-> realAmount, fee |-> lamportFee,
                   left |-> left, pubInputs |-> pub, governor |-> governor, balance |-> op.balance,
                   withdrawFee |-> op.withdrawFee, arrived |-> balance - op.balance]
  <2> DEFINE changed == op.asOf # Context
             refuse(why) == op' = [pc |-> "refused", why |-> why, changed |-> changed, extraFee |-> op.extraFee]
             build == op' = [pc |-> "built", token |-> op.token, amount |-> realAmount, fee |-> lamportFee,
                             left |-> left, pubInputs |-> pub, governor |-> governor, balance |-> op.balance,
                             withdrawFee |-> op.withdrawFee, arrived |-> balance - op.balance]
             enough == IsGreaterThanMinAmount(amount, op.token)
             overdraws == left < 0
             dearer == 100 * TotalFeeAmount(fee) > op.withdrawFee
  <2>1. IF ~enough THEN refuse("below minimum")
        ELSE IF overdraws THEN refuse("overdraws")
        ELSE IF dearer THEN refuse("insufficient fee")
        ELSE build
    BY DEF BuildWithdraw
  <2> HIDE DEF changed
  <2>2. \A why : refuse(why) => op'.pc = "refused"
    OBVIOUS
  <2>4. /\ refuse("below minimum") => op'.pc = "refused"
        /\ refuse("overdraws") => op'.pc = "refused"
        /\ refuse("insufficient fee") => op'.pc = "refused"
    BY <2>2
  <2> HIDE DEF refuse, build, enough, overdraws, dearer
  <2>3. op'.pc = "refused" \/ (enough /\ ~dearer /\ build)
    BY <2>1, <2>4
  <2> QED BY <2>3 DEF build, enough, dearer
<1> HIDE DEF lamportsPerToken, amount, recipient, rent, realAmount, lamportFee, fee, left, pub
<1>5. CASE op'.pc = "refused"
  BY <1>2, <1>3, <1>5, OtherKeeps
<1>6. CASE /\ IsGreaterThanMinAmount(amount, op.token)
           /\ ~(100 * TotalFeeAmount(fee) > op.withdrawFee)
           /\ op' = [pc |-> "built", token |-> op.token, amount |-> realAmount, fee |-> lamportFee,
                     left |-> left, pubInputs |-> pub, governor |-> governor, balance |-> op.balance,
                     withdrawFee |-> op.withdrawFee, arrived |-> balance - op.balance]
  <2>1. /\ op'.pc = "built" /\ op'.amount = realAmount /\ op'.fee = lamportFee /\ op'.left = left
        /\ op'.pubInputs = pub /\ op'.governor = governor /\ op'.withdrawFee = op.withdrawFee
        /\ op'.arrived = balance - op.balance
    BY <1>6
  <2>2. amount \in Nat
    <3>1. 100 * op.balance - op.withdrawFee \in Int
      BY <1>3
    <3>2. amount \in Int
      BY <1>1, <3>1, DivBounds
    <3>3. amount > MinAmount /\ MinAmount \in Nat
      BY <1>6, FeeAssumption DEF IsGreaterThanMinAmount
    <3> QED BY <3>2, <3>3
  <2>3. Rent \in Nat /\ CeilDiv(Rent, lamportsPerToken) \in Nat
    <3>1. Rent \in Nat
      BY FeeAssumption
    <3> QED BY <1>3, <3>1, PartInTokens
  <2>4. rent \in Nat /\ realAmount \in Nat
    BY <1>1, <1>3, <2>2, <2>3
  <2>5. /\ lamportFee.txFee \in Nat \ {0} /\ lamportFee.privacyFee \in Nat
        /\ lamportFee.tokenAccRent = IF recipient THEN 0 ELSE Rent
        /\ lamportFee.txFee + governor.proofSubvention
              >= FixedCosts(governor)
                 + InputPreparation(Append(pub, realAmount + lamportFee.txFee + lamportFee.privacyFee)).txCount
                   * ProofTxCompensation(governor)
    <3>1. Inputs(inputs)
      BY DEF Inputs
    <3> QED BY <1>1, <1>3, <2>4, <3>1, SendPays
  <2>6. PaysForItself'
    BY <2>1, <2>5 DEF PaysForItself
  <2>7. /\ fee.tokenAccRent \in Nat /\ ComputationFeeTotal(fee) \in Nat
        /\ rent <= fee.tokenAccRent
        /\ TotalFeeAmount(fee) = ComputationFeeTotal(fee) + fee.tokenAccRent + op.extraFee
    <3>1. fee = TokenFee(lamportFee, op.token, lamportsPerToken, op.extraFee)
      BY <1>1 DEF GenerateSendFee
    <3>2. lamportFee.txFee \in Nat /\ lamportFee.tokenAccRent \in Nat
      BY <2>3, <2>5
    <3>3. /\ fee.tokenAccRent \in Nat /\ ComputationFeeTotal(fee) \in Nat
          /\ TotalFeeAmount(fee) = ComputationFeeTotal(fee) + fee.tokenAccRent + op.extraFee
          /\ CeilDiv(lamportFee.tokenAccRent, lamportsPerToken) <= fee.tokenAccRent
      BY <1>3, <2>5, <3>1, <3>2, InTokens
    <3>4. rent <= fee.tokenAccRent
      BY <1>1, <2>3, <2>5, <3>3
    <3> QED BY <3>3, <3>4
  <2>8. balance - op.balance <= left /\ 100 * (left - (balance - op.balance)) <= op.withdrawFee + 99
    <3>1. 100 * (ComputationFeeTotal(fee) + fee.tokenAccRent + op.extraFee) <= op.withdrawFee
      BY <1>3, <1>6, <2>7
    <3>2. left = balance - (amount + rent + op.extraFee) - ComputationFeeTotal(fee)
      BY <1>1
    <3>3. op.balance \in Int /\ balance \in Int
      BY <1>3
    <3>4. amount = (100 * op.balance - op.withdrawFee) \div 100
      BY <1>1
    <3>5. /\ op.withdrawFee \in Int /\ rent \in Nat /\ fee.tokenAccRent \in Nat /\ rent <= fee.tokenAccRent
          /\ op.extraFee \in Nat /\ ComputationFeeTotal(fee) \in Nat
      BY <1>3, <2>4, <2>7
    <3> QED BY <3>1, <3>2, <3>3, <3>4, <3>5, Remainder, SMTT(30)
  <2>9. WithdrawsAll'
    BY <2>1, <2>8 DEF WithdrawsAll
  <2>10. TypeInv'
    BY <1>2, <1>3, <2>1 DEF TypeInv
  <2> QED BY <2>6, <2>9, <2>10 DEF FeesInv
<1> QED BY <1>4, <1>5, <1>6

LEMMA FeesNext ==
    ASSUME SubventionBelowCosts, FeesInv, [Next]_vars
    PROVE  FeesInv'
<1>1. /\ governor \in Governors /\ price \in Nat \ {0} /\ exists \in BOOLEAN /\ balance \in Nat
      /\ cached \in SUBSET Governors /\ TypeInv
  BY DEF FeesInv, TypeInv
<1>2. ASSUME NEW gov \in Governors, ChangeGovernor(gov) PROVE FeesInv'
  <2>1. governor' = gov /\ UNCHANGED <<price, exists, balance, cached, op>>
    BY <1>2 DEF ChangeGovernor
  <2> QED BY <1>1, <2>1, ChangeKeeps
<1>3. ASSUME NEW p \in Prices, MovePrice(p) PROVE FeesInv'
  <2>1. price' = p /\ UNCHANGED <<governor, exists, balance, cached, op>>
    BY <1>3 DEF MovePrice
  <2>2. p \in Nat \ {0}
    BY FeeAssumption
  <2> QED BY <1>1, <2>1, <2>2, ChangeKeeps
<1>4. ASSUME OpenOrCloseAccount PROVE FeesInv'
  <2>1. exists' = ~exists /\ UNCHANGED <<governor, price, balance, cached, op>>
    BY <1>4 DEF OpenOrCloseAccount
  <2>2. exists' \in BOOLEAN
    BY <1>1, <2>1
  <2> QED BY <1>1, <2>1, <2>2, ChangeKeeps
<1>5. ASSUME NEW amount \in TopUps, TopUpArrives(amount) PROVE FeesInv'
  <2>1. balance' = balance + amount /\ UNCHANGED <<governor, price, exists, cached, op>>
    BY <1>5 DEF TopUpArrives
  <2>2. balance' \in Nat
    BY <1>1, <2>1, FeeAssumption
  <2> QED BY <1>1, <2>1, <2>2, ChangeKeeps
<1>6. ASSUME NEW batch, NEW amount, EstimateTopupFeesBatch(batch, amount) PROVE FeesInv'
  <2>1. op'.pc = "estimated" /\ cached' = Caching /\ UNCHANGED <<governor, price, exists, balance>>
    BY <1>6 DEF EstimateTopupFeesBatch
  <2>2. cached' \in SUBSET Governors
    BY <1>1, <2>1, Known
  <2> QED BY <1>1, <2>1, <2>2, OtherKeeps
<1>7. CASE UNCHANGED vars
  BY <1>1, <1>7, ChangeKeeps DEF vars
<1> QED BY <1>2, <1>3, <1>4, <1>5, <1>6, <1>7, WithdrawKeeps, EstimateKeeps, BuildKeeps DEF Next

(* THE FEE OF A SEND pays for every transaction that prepares its inputs,    *)
(* the amount with this fee among them, for every fee data whose subvention  *)
(* does not pay for the send, and whatever changes around the withdrawal.    *)
THEOREM FeePaysForItself ==
    ASSUME SubventionBelowCosts
    PROVE  Spec => []PaysForItself
<1>1. Init => FeesInv
  BY FeesInit
<1>2. FeesInv /\ [Next]_vars => FeesInv'
  BY FeesNext
<1>3. FeesInv => PaysForItself
  BY DEF FeesInv
<1> QED BY <1>1, <1>2, <1>3, PTL DEF Spec

(* A WITHDRAWAL, however the fees, the price, the token account and the      *)
(* balance change between its estimate and its build, does not overdraw, and *)
(* leaves only what has arrived and no more than was kept for the fee.       *)
THEOREM WithdrawalLeavesRest ==
    ASSUME SubventionBelowCosts
    PROVE  Spec => []WithdrawsAll
<1>1. Init => FeesInv
  BY FeesInit
<1>2. FeesInv /\ [Next]_vars => FeesInv'
  BY FeesNext
<1>3. FeesInv => WithdrawsAll
  BY DEF FeesInv
<1> QED BY <1>1, <1>2, <1>3, PTL DEF Spec

-----------------------------------------------------------------------------
(* Rounding up two parts is not less than rounding up what they add up to.   *)
LEMMA CeilingMore ==
    ASSUME NEW a \in Int, NEW b \in Int, NEW c \in Nat \ {0}
    PROVE  /\ CeilDiv(a + b, c) <= CeilDiv(a, c) + CeilDiv(b, c)
           /\ a <= b => CeilDiv(a, c) <= CeilDiv(b, c)
<1>1. PICK q \in Int, r \in Int : q = CeilDiv(a, c) /\ r = CeilDiv(b, c) /\ c * q >= a /\ c * r >= b
  BY Ceiling
<1>2. c * q \in Int /\ c * r \in Int /\ c * (q + r) = c * q + c * r
  BY <1>1
<1>3. c * (q + r) >= a + b /\ q + r \in Int /\ a + b \in Int
  BY <1>1, <1>2
<1>4. CeilDiv(a + b, c) <= q + r
  BY <1>3, Ceiling
<1>5. ASSUME a <= b PROVE CeilDiv(a, c) <= r
  <2>1. c * r >= a
    BY <1>1, <1>2, <1>5
  <2> QED BY <1>1, <2>1, Ceiling
<1> QED BY <1>1, <1>4, <1>5

LEMMA InTokenMore ==
    ASSUME NEW x \in Int, NEW y \in Int, NEW k \in Nat, NEW lamportsPerToken \in Nat \ {0}
    PROVE  /\ InToken(x, k, lamportsPerToken) \in Int /\ InToken(y, k, lamportsPerToken) \in Int
           /\ InToken(x + y, k, lamportsPerToken) \in Int
           /\ InToken(x + y, k, lamportsPerToken)
                  <= InToken(x, k, lamportsPerToken) + InToken(y, k, lamportsPerToken)
           /\ x <= y => InToken(x, k, lamportsPerToken) <= InToken(y, k, lamportsPerToken)
<1>1. PICK a \in Int, b \in Int, c \in Nat \ {0} : a = x * k /\ b = y * k /\ c = 100 * lamportsPerToken
  OBVIOUS
<1>2. (x + y) * k = a + b
  BY <1>1
<1>3. x <= y => a <= b
  <2>1. x < y => k * x + k <= k * y
    BY Products
  <2>2. k * x = a /\ k * y = b
    BY <1>1
  <2> QED BY <1>1, <2>1, <2>2
<1>4. /\ CeilDiv(a + b, c) <= CeilDiv(a, c) + CeilDiv(b, c)
      /\ a <= b => CeilDiv(a, c) <= CeilDiv(b, c)
  BY <1>1, CeilingMore
<1>5. CeilDiv(a, c) \in Int /\ CeilDiv(b, c) \in Int /\ CeilDiv(a + b, c) \in Int
  <2>1. a + b \in Int
    BY <1>1
  <2> QED BY <1>1, <2>1, Ceiling
<1>6. /\ InToken(x, k, lamportsPerToken) = CeilDiv(a, c)
      /\ InToken(y, k, lamportsPerToken) = CeilDiv(b, c)
      /\ InToken(x + y, k, lamportsPerToken) = CeilDiv(a + b, c)
  BY <1>1, <1>2 DEF InToken
<1> QED BY <1>3, <1>4, <1>5, <1>6

(* The share of the amount grows with it.                                    *)
LEMMA PrivacyGrows ==
    ASSUME NEW gov \in Governors, NEW a \in Nat, NEW b \in Nat, a <= b
    PROVE  SendPrivacyFee(gov, a) <= SendPrivacyFee(gov, b)
<1>1. PICK n \in Nat : n = gov.proofNetworkFee
  BY Parts
<1>2. PICK x \in Nat, y \in Nat : x = n * a /\ y = n * b
  OBVIOUS
<1>3. x <= y
  <2>1. a < b => n * a + n <= n * b
    BY Products
  <2> QED BY <1>2, <2>1
<1>4. x \div 10000 <= y \div 10000
  BY <1>3
<1> QED BY <1>1, <1>2, <1>4 DEF SendPrivacyFee

(* The parts of the fee of a send.                                           *)
LEMMA SendParts ==
    ASSUME SubventionBelowCosts, NEW gov \in Governors, NEW amount \in Nat,
           NEW inputs, Inputs(inputs), NEW recentCommIndex, NEW recipientExists \in BOOLEAN,
           NEW fee, fee = SendFee(gov, inputs, amount, recentCommIndex, recipientExists)
    PROVE  /\ fee.privacyFee = SendPrivacyFee(gov, amount)
           /\ fee.tokenAccRent = IF recipientExists THEN 0 ELSE Rent
           /\ InputPreparation(PublicInputs(inputs, recentCommIndex)).txCount \in Nat
           /\ \E extra \in {0, 1} :
                  fee.txFee = FixedCosts(gov) - gov.proofSubvention
                              + (InputPreparation(PublicInputs(inputs, recentCommIndex)).txCount + extra)
                                * ProofTxCompensation(gov)
<1>0. PICK pub : pub = PublicInputs(inputs, recentCommIndex)
  OBVIOUS
<1>1. PICK T : pub \in Seq(T)
  BY <1>0, PublicSeq
<1>2. PICK extra \in Nat, sum \in Nat :
          /\ extra <= 1
          /\ sum = Beside(gov, amount)
                   + (InputPreparation(pub).txCount + extra) * ProofTxCompensation(gov)
          /\ SendTotalFee(gov, pub, amount) = sum - amount
  BY <1>1, SendTotal
<1>3. PICK w, fixed, privacy, subvention, n, total :
          /\ w = ProofTxCompensation(gov) /\ fixed = FixedCosts(gov)
          /\ privacy = SendPrivacyFee(gov, amount) /\ subvention = gov.proofSubvention
          /\ n = InputPreparation(pub).txCount
          /\ total = SendTotalFee(gov, pub, amount)
  OBVIOUS
<1>4. w \in Nat /\ fixed \in Nat /\ privacy \in Nat /\ subvention \in Nat
  BY <1>3, Parts
<1>5. fee = [txFee |-> total - privacy, privacyFee |-> privacy,
             tokenAccRent |-> IF recipientExists THEN 0 ELSE Rent]
  BY <1>0, <1>3 DEF SendFee, LamportFee
<1>6. fee.txFee = total - privacy /\ fee.privacyFee = privacy
      /\ fee.tokenAccRent = IF recipientExists THEN 0 ELSE Rent
  BY <1>5
<1>7. n \in Nat
  BY <1>1, <1>3, PreparedAll DEF Prepared
<1>8. total = sum - amount /\ sum = amount + fixed + privacy - subvention + (n + extra) * w
  BY <1>2, <1>3 DEF Beside
<1>9. PICK e \in Nat : e = (n + extra) * w
  BY <1>4, <1>7
<1>10. total - privacy = fixed - subvention + e
  BY <1>4, <1>8, <1>9
<1>11. extra \in {0, 1} /\ fee.txFee = fixed - subvention + (n + extra) * w
  BY <1>2, <1>6, <1>9, <1>10
<1> QED BY <1>0, <1>3, <1>6, <1>7, <1>11

(* The fee of a send is at most by the buffer higher than its estimate, if   *)
(* nothing else has changed and the amount is no larger.                     *)
LEMMA EstimateSuffices ==
    ASSUME SubventionBelowCosts, BufferCovers, NEW gov \in Governors, NEW inputs \in RealInputs,
           NEW recentCommIndex \in {0, MaxCommIndex}, NEW token \in Tokens, NEW p \in Prices,
           NEW all \in Nat, NEW amount \in Nat, amount <= all, NEW recipientExists \in BOOLEAN,
           NEW lamportsPerToken, lamportsPerToken = IF token = LAMPORTS THEN 1 ELSE p,
           NEW estimated, estimated = SendFee(gov, DummyInputs, all, MaxCommIndex, recipientExists),
           NEW real, real = SendFee(gov, inputs, amount, recentCommIndex, recipientExists)
    PROVE  100 * TotalFeeAmount(TokenFee(real, token, lamportsPerToken, 0))
               <= WithBuffer(TokenFee(estimated, token, lamportsPerToken, 0))
<1>1. PICK k \in Nat : k = IF token = LAMPORTS THEN 100 ELSE 102
  OBVIOUS
<1>2. lamportsPerToken \in Nat \ {0} /\ Rent \in Nat /\ Inputs(inputs) /\ Inputs(DummyInputs)
  BY FeeAssumption DEF Inputs
<1>3. PICK w, least, n, d :
          /\ w = ProofTxCompensation(gov) /\ least = FixedCosts(gov) - gov.proofSubvention
          /\ n = InputPreparation(PublicInputs(inputs, recentCommIndex)).txCount
          /\ d = InputPreparation(PublicInputs(DummyInputs, MaxCommIndex)).txCount
  OBVIOUS
<1>4. /\ real.privacyFee = SendPrivacyFee(gov, amount)
      /\ real.tokenAccRent = IF recipientExists THEN 0 ELSE Rent
      /\ n \in Nat
      /\ \E extra \in {0, 1} : real.txFee = least + (n + extra) * w
  BY <1>2, <1>3, SendParts
<1>5. /\ estimated.privacyFee = SendPrivacyFee(gov, all)
      /\ estimated.tokenAccRent = IF recipientExists THEN 0 ELSE Rent
      /\ d \in Nat
      /\ \E extra \in {0, 1} : estimated.txFee = least + (d + extra) * w
  BY <1>2, <1>3, SendParts
<1>6. w \in Nat /\ least \in Nat /\ least > 0
  <2>1. w \in Nat /\ FixedCosts(gov) \in Nat /\ gov.proofSubvention \in Nat
    BY <1>3, Parts
  <2>2. gov.proofSubvention < FixedCosts(gov)
    BY DEF SubventionBelowCosts
  <2> QED BY <1>3, <2>1, <2>2
<1>7. PICK more \in Int, base \in Nat : more = (n + 1 - d) * w /\ base = least + d * w
  BY <1>4, <1>5, <1>6
<1>8. PICK t \in Int, u \in Int : /\ t = estimated.txFee /\ u = real.txFee
                                  /\ base <= t /\ u <= base + more /\ 0 < u
  <2>1. PICK x \in {0, 1}, y \in {0, 1} : /\ real.txFee = least + (n + x) * w
                                          /\ estimated.txFee = least + (d + y) * w
    BY <1>4, <1>5
  <2>2. PICK a \in Nat, b \in Nat : a = n * w /\ b = d * w
    BY <1>4, <1>5, <1>6
  <2>3. /\ (n + x) * w = a + x * w /\ (d + y) * w = b + y * w /\ (n + 1 - d) * w = a + w - b
        /\ x * w \in {0, w} /\ y * w \in {0, w}
    BY <1>4, <1>5, <1>6, <2>2
  <2>4. /\ real.txFee = least + a + x * w /\ estimated.txFee = least + b + y * w
        /\ more = a + w - b /\ base = least + b
    BY <1>6, <1>7, <2>1, <2>2, <2>3
  <2> QED BY <1>6, <2>2, <2>3, <2>4
<1>9. PICK v, r, s : v = SendPrivacyFee(gov, amount) /\ r = SendPrivacyFee(gov, all)
                     /\ s = IF recipientExists THEN 0 ELSE Rent
  OBVIOUS
<1>10. v \in Nat /\ r \in Nat /\ v <= r /\ s \in Nat
  BY <1>2, <1>9, Parts, PrivacyGrows
<1>11. PICK inReal, inPrivacy, inRent, inEstimated, inAll, inMore, inBase :
           /\ inReal = InToken(u, k, lamportsPerToken) /\ inPrivacy = InToken(v, k, lamportsPerToken)
           /\ inRent = InToken(s, k, lamportsPerToken) /\ inEstimated = InToken(t, k, lamportsPerToken)
           /\ inAll = InToken(r, k, lamportsPerToken)
           /\ inMore = InToken(more, k, lamportsPerToken) /\ inBase = InToken(base, k, lamportsPerToken)
  OBVIOUS
<1>12. TotalFeeAmount(TokenFee(real, token, lamportsPerToken, 0)) = inPrivacy + inReal + inRent + 0
  <2>1. TokenFee(real, token, lamportsPerToken, 0)
            = [txFee |-> inReal, privacyFee |-> inPrivacy, tokenAccRent |-> inRent, extraFee |-> 0]
    BY <1>1, <1>4, <1>8, <1>9, <1>11 DEF TokenFee, InToken
  <2> QED BY <2>1 DEF TotalFeeAmount, ComputationFeeTotal
<1>13. TotalFeeAmount(TokenFee(estimated, token, lamportsPerToken, 0)) = inAll + inEstimated + inRent + 0
  <2>1. TokenFee(estimated, token, lamportsPerToken, 0)
            = [txFee |-> inEstimated, privacyFee |-> inAll, tokenAccRent |-> inRent, extraFee |-> 0]
    BY <1>1, <1>5, <1>8, <1>9, <1>11 DEF TokenFee, InToken
  <2> QED BY <2>1 DEF TotalFeeAmount, ComputationFeeTotal
<1>14. 20 * inMore <= inBase
  <2>1. more = MoreThanEstimated(gov, inputs, recentCommIndex) /\ base = LeastEstimated(gov)
    BY <1>3, <1>7 DEF MoreThanEstimated, LeastEstimated
  <2>2. 20 * TxFeeInToken(more, token, p) <= TxFeeInToken(base, token, p)
    BY <2>1 DEF BufferCovers
  <2>3. TxFeeInToken(more, token, p) = inMore /\ TxFeeInToken(base, token, p) = inBase
    BY <1>1, <1>11 DEF TxFeeInToken, TokenFee, LamportFee, InToken
  <2> QED BY <2>2, <2>3
<1>15. inBase \in Int /\ inEstimated \in Int /\ inBase <= inEstimated
  <2>1. base \in Int /\ t \in Int /\ base <= t
    BY <1>8
  <2> QED BY <1>2, <1>11, <2>1, InTokenMore
<1>16. inMore \in Int /\ inReal \in Int /\ inReal <= inBase + inMore
  <2>1. PICK b \in Int : b = base
    OBVIOUS
  <2>2. PICK c \in Int : c = b + more
    OBVIOUS
  <2>3. /\ InToken(more, k, lamportsPerToken) \in Int
        /\ InToken(b + more, k, lamportsPerToken)
               <= InToken(b, k, lamportsPerToken) + InToken(more, k, lamportsPerToken)
    BY <1>2, InTokenMore
  <2>4. inMore \in Int /\ InToken(c, k, lamportsPerToken) <= inBase + inMore
    BY <1>11, <2>1, <2>2, <2>3
  <2>5. u <= c
    BY <1>8, <2>1, <2>2
  <2>6. /\ InToken(c, k, lamportsPerToken) \in Int /\ inReal \in Int
        /\ inReal <= InToken(c, k, lamportsPerToken)
    BY <1>2, <1>11, <2>5, InTokenMore
  <2> QED BY <1>15, <2>4, <2>6
<1>17. inPrivacy \in Int /\ inAll \in Int /\ inPrivacy <= inAll
  <2>1. v \in Int /\ r \in Int
    BY <1>10
  <2> QED BY <1>2, <1>10, <1>11, <2>1, InTokenMore
<1>18. inAll >= 0 /\ inRent \in Nat
  BY <1>1, <1>2, <1>10, <1>11, PartInTokens
<1>19. 100 * (inPrivacy + inReal + inRent + 0) <= 105 * (inAll + inEstimated + inRent + 0)
  BY <1>14, <1>15, <1>16, <1>17, <1>18
<1> QED BY <1>12, <1>13, <1>19 DEF WithBuffer

-----------------------------------------------------------------------------
(* The estimate of a withdrawal with what held at the time, which the fee    *)
(* that is kept has been made of; the balance has only grown since.          *)
EstimateAt(asOf, token, amount) ==
    TokenFee(EstimateSendFee(asOf.governor, amount, token = LAMPORTS \/ asOf.exists), token,
             IF token = LAMPORTS THEN 1 ELSE asOf.price, 0)

KeptInv ==
    /\ price \in Prices
    /\ op.pc \in {"estimate", "build"} => op.token \in Tokens /\ op.balance <= balance
    /\ op.pc = "build" => op.withdrawFee = WithBuffer(EstimateAt(op.asOf, op.token, op.balance))

DearerInv == KeptInv /\ RefusedOnlyIfChanged

LEMMA DearerInit == Init => DearerInv
BY DEF Init, DearerInv, KeptInv, RefusedOnlyIfChanged

(* What leaves the operation alone keeps this, as the balance does not fall. *)
LEMMA ChangeKeepsDearer ==
    ASSUME DearerInv, UNCHANGED op, price' \in Prices, balance \in Nat, balance' \in Nat, balance <= balance',
           op.pc \in {"estimate", "build"} => op.balance \in Nat
    PROVE  DearerInv'
<1>1. KeptInv'
  BY DEF DearerInv, KeptInv
<1>2. RefusedOnlyIfChanged'
  BY DEF DearerInv, RefusedOnlyIfChanged
<1> QED BY <1>1, <1>2 DEF DearerInv

LEMMA EstimateKeepsDearer ==
    ASSUME DearerInv, EstimateWithdraw
    PROVE  DearerInv'
<1>1. PICK fee : fee = EstimateSend(Calculator, op.token, op.balance, RecipientExists(op.token))
  OBVIOUS
<1>2. PICK asOf : asOf = [governor |-> Calculator, price |-> price, exists |-> exists]
  OBVIOUS
<1>3. /\ op.pc = "estimate" /\ UNCHANGED <<balance, price>>
      /\ op' = IF 100 * op.balance <= WithBuffer(fee)
               THEN [pc |-> "refused", why |-> "insufficient funds"]
               ELSE [pc |-> "build", token |-> op.token, extraFee |-> op.extraFee, balance |-> op.balance,
                     withdrawFee |-> WithBuffer(fee), asOf |-> asOf]
  BY <1>1, <1>2 DEF EstimateWithdraw
<1>4. price \in Prices /\ op.token \in Tokens /\ op.balance <= balance
  BY <1>3 DEF DearerInv, KeptInv
<1>5. CASE 100 * op.balance <= WithBuffer(fee)
  <2>1. op'.pc = "refused" /\ op'.why = "insufficient funds"
    BY <1>3, <1>5
  <2> QED BY <1>3, <1>4, <2>1 DEF DearerInv, KeptInv, RefusedOnlyIfChanged
<1>6. CASE ~(100 * op.balance <= WithBuffer(fee))
  <2>1. /\ op'.pc = "build" /\ op'.token = op.token /\ op'.balance = op.balance
        /\ op'.withdrawFee = WithBuffer(fee) /\ op'.asOf = asOf
    BY <1>3, <1>6
  <2>2. fee = EstimateAt(asOf, op.token, op.balance)
    BY <1>1, <1>2 DEF EstimateSend, EstimateAt, LamportsPerToken, RecipientExists
  <2>3. KeptInv'
    BY <1>3, <1>4, <2>1, <2>2 DEF KeptInv
  <2>4. RefusedOnlyIfChanged'
    BY <2>1 DEF RefusedOnlyIfChanged
  <2> QED BY <2>3, <2>4 DEF DearerInv
<1> QED BY <1>5, <1>6

(* Where the fee fits into what was kept for it, so does the amount into the *)
(* balance.                                                                  *)
LEMMA BuildKeepsDearer ==
    ASSUME SubventionBelowCosts, BufferCovers, TypeInv, DearerInv, NEW inputs \in RealInputs,
           NEW recentCommIndex \in {0, MaxCommIndex}, BuildWithdraw(inputs, recentCommIndex)
    PROVE  DearerInv'
<1> DEFINE lamportsPerToken == LamportsPerToken(op.token)
           amount == (100 * op.balance - op.withdrawFee) \div 100
           recipient == RecipientExists(op.token)
           rent == IF recipient THEN 0 ELSE CeilDiv(Rent, lamportsPerToken)
           realAmount == amount + rent + op.extraFee
           lamportFee == SendFee(governor, inputs, realAmount, recentCommIndex, recipient)
           fee == GenerateSendFee(lamportFee, op.token, op.extraFee)
           left == balance - realAmount - ComputationFeeTotal(fee)
           pub == PublicInputs(inputs, recentCommIndex)
<1>1. /\ lamportsPerToken = LamportsPerToken(op.token)
      /\ amount = (100 * op.balance - op.withdrawFee) \div 100
      /\ recipient = RecipientExists(op.token)
      /\ rent = IF recipient THEN 0 ELSE CeilDiv(Rent, lamportsPerToken)
      /\ realAmount = amount + rent + op.extraFee
      /\ lamportFee = SendFee(governor, inputs, realAmount, recentCommIndex, recipient)
      /\ fee = GenerateSendFee(lamportFee, op.token, op.extraFee)
      /\ left = balance - realAmount - ComputationFeeTotal(fee)
  OBVIOUS
<1>2. op.pc = "build" /\ UNCHANGED <<governor, price, exists, balance, cached>>
  BY DEF BuildWithdraw
<1>3. /\ op.extraFee \in Nat /\ op.balance \in Nat /\ op.withdrawFee \in Int
      /\ governor \in Governors /\ balance \in Nat /\ price \in Prices
      /\ recipient \in BOOLEAN /\ lamportsPerToken \in Nat \ {0}
      /\ op.token \in Tokens /\ op.balance <= balance
      /\ op.withdrawFee = WithBuffer(EstimateAt(op.asOf, op.token, op.balance))
  BY <1>1, <1>2, Known DEF TypeInv, DearerInv, KeptInv
<1>4. \/ op'.pc = "built"
      \/ op'.pc = "refused" /\ op'.why = "below minimum"
      \/ /\ op'.pc = "refused" /\ op'.changed = (op.asOf # Context) /\ op'.extraFee = op.extraFee
         /\ IsGreaterThanMinAmount(amount, op.token)
         /\ left < 0 \/ 100 * TotalFeeAmount(fee) > op.withdrawFee
  <2> DEFINE changed == op.asOf # Context
             refuse(why) == op' = [pc |-> "refused", why |-> why, changed |-> changed, extraFee |-> op.extraFee]
             build == op' = [pc |-> "built", token |-> op.token, amount |-> realAmount, fee |-> lamportFee,
                             left |-> left, pubInputs |-> pub, governor |-> governor, balance |-> op.balance,
                             withdrawFee |-> op.withdrawFee, arrived |-> balance - op.balance]
             enough == IsGreaterThanMinAmount(amount, op.token)
             overdraws == left < 0
             dearer == 100 * TotalFeeAmount(fee) > op.withdrawFee
  <2>1. IF ~enough THEN refuse("below minimum")
        ELSE IF overdraws THEN refuse("overdraws")
        ELSE IF dearer THEN refuse("insufficient fee")
        ELSE build
    BY DEF BuildWithdraw
  <2> HIDE DEF changed
  <2>2. \A why : refuse(why) => /\ op'.pc = "refused" /\ op'.why = why /\ op'.changed = changed
                                /\ op'.extraFee = op.extraFee
    OBVIOUS
  <2>3. build => op'.pc = "built"
    OBVIOUS
  <2> HIDE DEF refuse, build, enough, overdraws, dearer
  <2>4. \/ op'.pc = "built"
        \/ op'.pc = "refused" /\ op'.why = "below minimum"
        \/ /\ op'.pc = "refused" /\ op'.changed = changed /\ op'.extraFee = op.extraFee
           /\ enough /\ (overdraws \/ dearer)
    BY <2>1, <2>2, <2>3
  <2> QED BY <2>4 DEF changed, enough, overdraws, dearer
<1> HIDE DEF lamportsPerToken, amount, recipient, rent, realAmount, lamportFee, fee, left, pub
<1>5. ASSUME op'.pc = "refused", op'.changed = (op.asOf # Context), op'.extraFee = op.extraFee,
             IsGreaterThanMinAmount(amount, op.token),
             left < 0 \/ 100 * TotalFeeAmount(fee) > op.withdrawFee
      PROVE  op'.changed \/ op'.extraFee > 0
  <2>1. op.asOf # Context => op'.changed
    BY <1>5, Zenon
  <2>2. op.extraFee # 0 => op'.extraFee > 0
    BY <1>3, <1>5
  <2> SUFFICES ASSUME op.asOf = Context, op.extraFee = 0 PROVE FALSE
    BY <2>1, <2>2, Zenon
  <2>3. PICK estimated : estimated = EstimateSendFee(governor, op.balance, recipient)
    OBVIOUS
  <2>4. PICK kept : kept = TokenFee(estimated, op.token, lamportsPerToken, 0)
    OBVIOUS
  <2>5. op.withdrawFee = WithBuffer(kept)
    BY <1>1, <1>3, <2>3, <2>4 DEF Context, EstimateAt, RecipientExists, LamportsPerToken
  <2>6. Inputs(DummyInputs) /\ Inputs(inputs) /\ Rent \in Nat /\ MinAmount \in Nat
    BY FeeAssumption DEF Inputs
  <2>7. /\ estimated = SendFee(governor, DummyInputs, op.balance, MaxCommIndex, recipient)
        /\ estimated.txFee \in Nat \ {0} /\ estimated.privacyFee \in Nat
        /\ estimated.tokenAccRent = IF recipient THEN 0 ELSE Rent
    <3>1. estimated = SendFee(governor, DummyInputs, op.balance, MaxCommIndex, recipient)
      BY <2>3 DEF EstimateSendFee
    <3> QED BY <1>3, <2>6, <3>1, SendPays
  <2>8. /\ rent \in Nat /\ kept.tokenAccRent \in Nat /\ rent <= kept.tokenAccRent
        /\ ComputationFeeTotal(kept) \in Nat
        /\ TotalFeeAmount(kept) = ComputationFeeTotal(kept) + kept.tokenAccRent + 0
    <3>1. estimated.txFee \in Nat /\ estimated.tokenAccRent \in Nat /\ 0 \in Nat
      BY <2>6, <2>7
    <3>2. /\ kept.tokenAccRent \in Nat
          /\ CeilDiv(estimated.tokenAccRent, lamportsPerToken) \in Nat
          /\ CeilDiv(estimated.tokenAccRent, lamportsPerToken) <= kept.tokenAccRent
          /\ ComputationFeeTotal(kept) \in Nat
          /\ TotalFeeAmount(kept) = ComputationFeeTotal(kept) + kept.tokenAccRent + 0
      BY <1>3, <2>4, <2>7, <3>1, InTokens
    <3> QED BY <1>1, <2>7, <3>2
  <2>9. PICK all \in Nat : all = TotalFeeAmount(kept) /\ rent <= all
    BY <2>8
  <2>10. op.withdrawFee = 105 * all
    BY <2>5, <2>9 DEF WithBuffer
  <2>11. amount \in Nat /\ realAmount \in Nat /\ realAmount <= op.balance
    <3>1. 100 * op.balance - op.withdrawFee \in Int
      BY <1>3
    <3>2. amount \in Int /\ 100 * amount <= 100 * op.balance - op.withdrawFee
      BY <1>1, <3>1, DivBounds
    <3>3. amount > MinAmount
      BY <1>5 DEF IsGreaterThanMinAmount
    <3>4. realAmount = amount + rent
      BY <1>1, <2>8, <3>2
    <3> QED BY <1>3, <2>6, <2>8, <2>9, <2>10, <3>2, <3>3, <3>4
  <2>12. fee = TokenFee(lamportFee, op.token, lamportsPerToken, 0)
    BY <1>1 DEF GenerateSendFee
  <2>13. 100 * TotalFeeAmount(fee) <= op.withdrawFee
    <3>1. lamportsPerToken = IF op.token = LAMPORTS THEN 1 ELSE price
      BY <1>1 DEF LamportsPerToken
    <3> QED BY <1>1, <1>3, <2>4, <2>5, <2>7, <2>11, <2>12, <3>1, EstimateSuffices
  <2>14. /\ fee.tokenAccRent \in Nat /\ ComputationFeeTotal(fee) \in Nat /\ rent <= fee.tokenAccRent
         /\ TotalFeeAmount(fee) = ComputationFeeTotal(fee) + fee.tokenAccRent + 0
    <3>1. /\ lamportFee.txFee \in Nat /\ lamportFee.privacyFee \in Nat
          /\ lamportFee.tokenAccRent = IF recipient THEN 0 ELSE Rent
      BY <1>1, <1>3, <2>6, <2>11, SendPays
    <3>2. lamportFee.tokenAccRent \in Nat /\ 0 \in Nat
      BY <2>6, <3>1
    <3>3. /\ fee.tokenAccRent \in Nat
          /\ CeilDiv(lamportFee.tokenAccRent, lamportsPerToken) \in Nat
          /\ CeilDiv(lamportFee.tokenAccRent, lamportsPerToken) <= fee.tokenAccRent
          /\ ComputationFeeTotal(fee) \in Nat
          /\ TotalFeeAmount(fee) = ComputationFeeTotal(fee) + fee.tokenAccRent + 0
      BY <1>3, <2>12, <3>1, <3>2, InTokens
    <3> QED BY <1>1, <3>1, <3>3
  <2>15. balance - op.balance <= left
    <3>1. 100 * (ComputationFeeTotal(fee) + fee.tokenAccRent + op.extraFee) <= op.withdrawFee
      BY <2>13, <2>14
    <3>2. left = balance - (amount + rent + op.extraFee) - ComputationFeeTotal(fee)
      BY <1>1
    <3>3. op.balance \in Int /\ balance \in Int
      BY <1>3
    <3>4. amount = (100 * op.balance - op.withdrawFee) \div 100
      BY <1>1
    <3>5. /\ op.withdrawFee \in Int /\ rent \in Nat /\ fee.tokenAccRent \in Nat /\ rent <= fee.tokenAccRent
          /\ op.extraFee \in Nat /\ ComputationFeeTotal(fee) \in Nat
      BY <1>3, <2>8, <2>14
    <3> QED BY <3>1, <3>2, <3>3, <3>4, <3>5, Remainder, SMTT(30)
  <2>16. left \in Int
    BY <1>1, <1>3, <2>11, <2>14
  <2> QED BY <1>3, <1>5, <2>13, <2>15, <2>16, <2>14
<1>6. op'.pc \in {"built", "refused"}
  BY <1>4
<1>7. KeptInv'
  BY <1>2, <1>3, <1>6 DEF KeptInv
<1>8. RefusedOnlyIfChanged'
  BY <1>4, <1>5 DEF RefusedOnlyIfChanged
<1> QED BY <1>7, <1>8 DEF DearerInv

LEMMA DearerNext ==
    ASSUME SubventionBelowCosts, BufferCovers, TypeInv, DearerInv, [Next]_vars
    PROVE  DearerInv'
<1>1. /\ balance \in Nat /\ price \in Prices
      /\ op.pc \in {"estimate", "build"} => op.balance \in Nat
  BY DEF TypeInv, DearerInv, KeptInv
<1>2. ASSUME NEW gov \in Governors, ChangeGovernor(gov) PROVE DearerInv'
  <2>1. UNCHANGED <<price, balance, op>>
    BY <1>2 DEF ChangeGovernor
  <2> QED BY <1>1, <2>1, ChangeKeepsDearer
<1>3. ASSUME NEW p \in Prices, MovePrice(p) PROVE DearerInv'
  <2>1. price' = p /\ UNCHANGED <<balance, op>>
    BY <1>3 DEF MovePrice
  <2> QED BY <1>1, <2>1, ChangeKeepsDearer
<1>4. ASSUME OpenOrCloseAccount PROVE DearerInv'
  <2>1. UNCHANGED <<price, balance, op>>
    BY <1>4 DEF OpenOrCloseAccount
  <2> QED BY <1>1, <2>1, ChangeKeepsDearer
<1>5. ASSUME NEW amount \in TopUps, TopUpArrives(amount) PROVE DearerInv'
  <2>1. balance' = balance + amount /\ UNCHANGED <<price, op>>
    BY <1>5 DEF TopUpArrives
  <2>2. amount \in Nat
    BY FeeAssumption
  <2>3. balance' \in Nat /\ balance <= balance'
    BY <1>1, <2>1, <2>2
  <2> QED BY <1>1, <2>1, <2>3, ChangeKeepsDearer
<1>6. ASSUME NEW token \in Tokens, NEW extraFee \in ExtraFees, Withdraw(token, extraFee) PROVE DearerInv'
  <2>1. /\ op' = [pc |-> "estimate", token |-> token, extraFee |-> extraFee, balance |-> balance]
        /\ UNCHANGED <<price, balance>>
    BY <1>6 DEF Withdraw
  <2>2. op'.pc = "estimate" /\ op'.token = token /\ op'.balance = balance
    BY <2>1
  <2>3. KeptInv'
    BY <1>1, <2>1, <2>2 DEF KeptInv
  <2>4. RefusedOnlyIfChanged'
    BY <2>2 DEF RefusedOnlyIfChanged
  <2> QED BY <2>3, <2>4 DEF DearerInv
<1>7. ASSUME NEW batch, NEW amount, EstimateTopupFeesBatch(batch, amount) PROVE DearerInv'
  <2>1. op'.pc = "estimated" /\ UNCHANGED <<price, balance>>
    BY <1>7 DEF EstimateTopupFeesBatch
  <2> QED BY <1>1, <2>1 DEF DearerInv, KeptInv, RefusedOnlyIfChanged
<1>8. CASE UNCHANGED vars
  BY <1>1, <1>8, ChangeKeepsDearer DEF vars
<1> QED BY <1>2, <1>3, <1>4, <1>5, <1>6, <1>7, <1>8, EstimateKeepsDearer, BuildKeepsDearer DEF Next

(* A WITHDRAWAL FAILS FOR WANT OF A FEE only if something has changed since  *)
(* its estimate or a third party collects a fee: otherwise the buffer covers *)
(* what the real inputs cost more, for every amount, and amount and fee are  *)
(* within the balance.                                                       *)
THEOREM EstimateIsEnough ==
    ASSUME SubventionBelowCosts, BufferCovers
    PROVE  Spec => []RefusedOnlyIfChanged
<1>1. Init => FeesInv /\ DearerInv
  BY FeesInit, DearerInit
<1>2. FeesInv /\ DearerInv /\ [Next]_vars => (FeesInv /\ DearerInv)'
  <2>1. FeesInv => TypeInv
    BY DEF FeesInv
  <2> QED BY <2>1, FeesNext, DearerNext
<1>3. DearerInv => RefusedOnlyIfChanged
  BY DEF DearerInv
<1> QED BY <1>1, <1>2, <1>3, PTL DEF Spec

=============================================================================
