----------------------- MODULE CommitmentAwaitProofs -----------------------
(* Proofs about CommitmentAwait, for every delay, timeout and number of      *)
(* checks.                                                                   *)
EXTENDS CommitmentAwait, FiniteSetTheorems, TLAPS

(* The inductive invariant. Every check that was started is under way or     *)
(* counted, so attempts, when a check is counted, is at most started.        *)
Counted ==
    /\ IsFiniteSet(checks)
    /\ \A c \in checks : c.number < started
    /\ attempts + Cardinality(checks) = started + 1

(* What a check knows of the tree at its start stays true.                   *)
ChecksSound == \A c \in checks : c.inTree => inTree

AwaitInv == TypeOK /\ Counted /\ ChecksSound /\ StopsOnlyWhenFound /\ RejectedAfterTimeout

-----------------------------------------------------------------------------
LEMMA TimesMonotone ==
    ASSUME NEW a \in Nat, NEW b \in Nat, NEW d \in Nat, a <= b
    PROVE  a * d <= b * d
<1> DEFINE k == b - a
<1>1. k \in Nat /\ b = a + k
  OBVIOUS
<1> HIDE DEF k
<1>2. (a + k) * d = a * d + k * d
  BY <1>1, SMT
<1>3. k * d \in Nat /\ a * d \in Nat
  BY <1>1, SMT
<1>4. QED
  BY <1>1, <1>2, <1>3, SMT

LEMMA SettleType ==
    ASSUME TypeOK, NEW found \in BOOLEAN
    PROVE  Settle(found) \in {"pending", "resolved", "rejected"}
BY DEF TypeOK, Settle

LEMMA InitHolds ==
    Init => AwaitInv
<1> SUFFICES ASSUME Init PROVE AwaitInv
  OBVIOUS
<1> USE AwaitAssumption DEF Init
<1>1. TypeOK
  BY DEF TypeOK
<1>2. Counted
  BY FS_EmptySet DEF Counted
<1>3. QED
  BY <1>1, <1>2 DEF AwaitInv, ChecksSound, StopsOnlyWhenFound, RejectedAfterTimeout

LEMMA InsertPreserves ==
    AwaitInv /\ Insert => AwaitInv'
BY DEF AwaitInv, Insert, TypeOK, Counted, ChecksSound, StopsOnlyWhenFound, RejectedAfterTimeout

LEMMA TickPreserves ==
    AwaitInv /\ Tick => AwaitInv'
<1> SUFFICES ASSUME AwaitInv, Tick PROVE AwaitInv'
  OBVIOUS
<1> DEFINE new == [number |-> started, inTree |-> inTree]
<1>0. new \in Check /\ new.number = started /\ new.inTree = inTree
  BY AwaitAssumption DEF AwaitInv, TypeOK, Check
<1>1. new \notin checks
  BY <1>0, AwaitAssumption DEF AwaitInv, TypeOK, Counted
<1>2. checks' = checks \cup {new} /\ started' = started + 1
  BY DEF Tick
<1> HIDE DEF new
<1>3. TypeOK'
  BY <1>0, <1>2, AwaitAssumption DEF AwaitInv, TypeOK, Tick
<1>4. Counted'
  <2>1. IsFiniteSet(checks') /\ Cardinality(checks') = Cardinality(checks) + 1
    BY <1>1, <1>2, FS_AddElement DEF AwaitInv, Counted
  <2>2. Cardinality(checks) \in Nat
    BY FS_CardinalityType DEF AwaitInv, Counted
  <2>3. attempts' + Cardinality(checks') = started' + 1
    BY <1>2, <2>1, <2>2, AwaitAssumption DEF AwaitInv, TypeOK, Counted, Tick
  <2>4. \A c \in checks' : c.number < started'
    BY <1>0, <1>2, AwaitAssumption DEF AwaitInv, TypeOK, Counted, Check
  <2>5. QED
    BY <2>1, <2>3, <2>4 DEF Counted
<1>5. ChecksSound'
  BY <1>0, <1>2 DEF AwaitInv, ChecksSound, Tick
<1>6. StopsOnlyWhenFound'
  BY DEF AwaitInv, StopsOnlyWhenFound, Tick
<1>7. RejectedAfterTimeout'
  <2> DEFINE ran == started * Delay
             runs == started' * Delay
  <2>1. started \in Nat /\ started' \in Nat /\ started <= started' /\ Delay \in Nat
    BY <1>2, AwaitAssumption DEF AwaitInv, TypeOK
  <2>2. ran <= runs
    BY <2>1, TimesMonotone, Zenon
  <2>3. ran \in Int /\ runs \in Int
    BY <2>1
  <2>4. (promise = "rejected" => ran >= Timeout) /\ Timeout \in Int
    BY AwaitAssumption DEF AwaitInv, RejectedAfterTimeout
  <2>5. RejectedAfterTimeout' <=> (promise' = "rejected" => runs >= Timeout)
    BY DEF RejectedAfterTimeout
  <2>6. promise' = promise
    BY DEF Tick
  <2> HIDE DEF ran, runs
  <2>7. QED
    BY <2>2, <2>4, <2>5, <2>6, <2>3
<1>8. QED
  BY <1>3, <1>4, <1>5, <1>6, <1>7 DEF AwaitInv

LEMMA CheckReturnsPreserves ==
    ASSUME AwaitInv, NEW c \in checks, CheckReturns(c)
    PROVE  AwaitInv'
<1>1. PICK found \in Answers(c) : interval' = (interval /\ ~found) /\ promise' = Settle(found)
  BY DEF CheckReturns
<1>2. found \in BOOLEAN /\ (found => inTree)
  BY <1>1 DEF Answers
<1>3. checks' = checks \ {c} /\ attempts' = attempts + 1 /\ inTree' = inTree /\ started' = started
  BY DEF CheckReturns
<1>4. TypeOK'
  BY <1>1, <1>2, <1>3, SettleType, AwaitAssumption DEF AwaitInv, TypeOK
<1>5. IsFiniteSet(checks') /\ Cardinality(checks') = Cardinality(checks) - 1
  BY <1>3, FS_RemoveElement DEF AwaitInv, Counted
<1>6. Cardinality(checks') \in Nat /\ Cardinality(checks) \in Nat
  BY <1>5, FS_CardinalityType DEF AwaitInv, Counted
<1>7. Counted'
  BY <1>3, <1>5, <1>6, AwaitAssumption DEF AwaitInv, TypeOK, Counted
<1>8. ChecksSound'
  BY <1>3 DEF AwaitInv, ChecksSound
<1>9. StopsOnlyWhenFound'
  BY <1>1, <1>2, <1>3 DEF AwaitInv, TypeOK, StopsOnlyWhenFound, Settle
<1>10. RejectedAfterTimeout'
  <2>1. attempts \in Nat /\ started \in Nat /\ Delay \in Nat /\ Timeout \in Nat
    BY AwaitAssumption DEF AwaitInv, TypeOK
  <2>2. attempts <= started
    BY <1>5, <1>6, <2>1 DEF AwaitInv, Counted
  <2>3. attempts * Delay <= started * Delay
    BY <2>1, <2>2, TimesMonotone
  <2>4. attempts * Delay \in Int /\ started * Delay \in Int
    BY <2>1
  <2>5. attempts * Delay >= Timeout => started * Delay >= Timeout
    BY <2>1, <2>3, <2>4
  <2>6. promise' = "rejected" => promise = "rejected" \/ attempts * Delay >= Timeout
    BY <1>1, <1>2 DEF Settle
  <2>7. QED
    BY <1>3, <2>5, <2>6 DEF AwaitInv, RejectedAfterTimeout
<1>11. QED
  BY <1>4, <1>7, <1>8, <1>9, <1>10 DEF AwaitInv

LEMMA NextPreserves ==
    AwaitInv /\ [Next]_vars => AwaitInv'
<1> SUFFICES ASSUME AwaitInv, [Next]_vars PROVE AwaitInv'
  OBVIOUS
<1>1. CASE Insert
  BY <1>1, InsertPreserves
<1>2. CASE Tick
  BY <1>2, TickPreserves
<1>3. CASE \E c \in checks : CheckReturns(c)
  BY <1>3, CheckReturnsPreserves
<1>4. CASE UNCHANGED vars
  BY <1>4 DEF vars, AwaitInv, TypeOK, Counted, ChecksSound, StopsOnlyWhenFound, RejectedAfterTimeout
<1>5. QED
  BY <1>1, <1>2, <1>3, <1>4 DEF Next

THEOREM AwaitInvariant ==
    Spec => []AwaitInv
BY InitHolds, NextPreserves, PTL DEF Spec

-----------------------------------------------------------------------------
(* awaitCommitmentInsertion always has values of the right kind.             *)
THEOREM TypeCorrect ==
    Spec => []TypeOK
<1>1. AwaitInv => TypeOK
  BY DEF AwaitInv
<1>2. QED
  BY <1>1, AwaitInvariant, PTL

(* It does not give up before its timer has run for the timeout, although    *)
(* checks are counted when they come back and not when they start.           *)
THEOREM GivesUpOnlyLate ==
    Spec => []RejectedAfterTimeout
<1>1. AwaitInv => RejectedAfterTimeout
  BY DEF AwaitInv
<1>2. QED
  BY <1>1, AwaitInvariant, PTL

(* Its timer never stops with the promise still open.                        *)
THEOREM NeverStopsOpen ==
    Spec => []StopsOnlyWhenFound
<1>1. AwaitInv => StopsOnlyWhenFound
  BY DEF AwaitInv
<1>2. QED
  BY <1>1, AwaitInvariant, PTL

(* It implements Awaited: the promise settles once, and resolves only when   *)
(* the commitment is in the tree.                                            *)
THEOREM ImplementsAwaited ==
    Spec => KeepsPromise
<1>1. Init => Promise!Init
  BY DEF Init, Promise!Init
<1>2. TypeOK /\ [Next]_vars => [Promise!Insert \/ Promise!Resolve \/ Promise!Reject]_<<inTree, promise>>
  <2> SUFFICES ASSUME TypeOK, [Next]_vars
               PROVE  [Promise!Insert \/ Promise!Resolve \/ Promise!Reject]_<<inTree, promise>>
    OBVIOUS
  <2>1. CASE Insert
    BY <2>1 DEF Insert, Promise!Insert
  <2>2. CASE Tick
    BY <2>2 DEF Tick
  <2>3. ASSUME NEW c \in checks, CheckReturns(c)
        PROVE  [Promise!Insert \/ Promise!Resolve \/ Promise!Reject]_<<inTree, promise>>
    <3>1. PICK found \in Answers(c) : promise' = Settle(found)
      BY <2>3 DEF CheckReturns
    <3>2. found \in BOOLEAN /\ (found => inTree) /\ inTree' = inTree
      BY <2>3, <3>1 DEF Answers, CheckReturns
    <3>3. QED
      BY <3>1, <3>2 DEF TypeOK, Settle, Promise!Resolve, Promise!Reject
  <2>4. CASE UNCHANGED vars
    BY <2>4 DEF vars
  <2>5. QED
    BY <2>1, <2>2, <2>3, <2>4 DEF Next
<1>3. QED
  BY <1>1, <1>2, TypeCorrect, PTL DEF Spec, KeepsPromise, Promise!Spec
=============================================================================
