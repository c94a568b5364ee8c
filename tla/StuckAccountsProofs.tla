------------------------ MODULE StuckAccountsProofs ------------------------
(***************************************************************************)
(* Proofs about StuckAccounts, for any rows and nonces of an account.      *)
(***************************************************************************)
EXTENDS StuckAccounts, FiniteSetTheorems, TLAPS
LOCAL INSTANCE FiniteSetsExt

(* A bounded set of numbers has a greatest one: the intervals from its     *)
(* members up to the bound have a smallest, by inclusion.                  *)
LEMMA MaxIsGreatest ==
  ASSUME NEW N \in Nat, NEW S, S \subseteq 0 .. N, S # {}
  PROVE  /\ Max(S) \in S
         /\ \A y \in S : y <= Max(S)
<1> DEFINE U == 0 .. N
           T == {x .. N : x \in S}
           R == StrictSubsetOrdering(U)
<1>1. IsWellFoundedOn(R, FiniteSubsetsOf(U))
  BY FS_StrictSubsetOrderingWellFounded
<1>2. IsFiniteSet(U)
  BY FS_Interval
<1>3. FiniteSubsetsOf(U) = SUBSET U
  BY <1>2, FS_FiniteSubsetsOfFinite
<1>4. T \subseteq FiniteSubsetsOf(U) /\ T # {}
  <2>1. ASSUME NEW x \in S PROVE (x .. N) \in SUBSET U
    OBVIOUS
  <2> HIDE DEF U
  <2>2. T \subseteq SUBSET U /\ T # {}
    BY <2>1
  <2> QED
    BY <1>3, <2>2
<1> HIDE DEF T, R
<1>5. PICK I \in T : \A J \in T : ~(<<J, I>> \in R)
  BY <1>1, <1>4, WFMin
<1>6. PICK x \in S : I = x .. N
  BY DEF T
<1>7. ASSUME NEW y \in S PROVE y <= x
  <2> SUFFICES ASSUME y > x PROVE FALSE
    OBVIOUS
  <2>1. y .. N \in T
    BY DEF T
  <2>2. (y .. N) \in SUBSET U /\ I \in SUBSET U
    BY <1>6
  <2>3. (y .. N) \subseteq I /\ x \in I /\ x \notin y .. N
    BY <1>6
  <2>4. <<y .. N, I>> \in R
    BY <2>2, <2>3 DEF R, StrictSubsetOrdering
  <2> QED
    BY <1>5, <2>1, <2>4
<1>8. \E m \in S : \A y \in S : m >= y
  BY <1>7
<1>9. Max(S) \in S /\ \A y \in S : Max(S) >= y
  BY <1>8 DEF Max
<1> QED
  BY <1>9

LEMMA StuckInitInv == StuckInit => StuckInv
BY TopNonceAssumption DEF StuckInit, StuckInv, StuckTypeOK

LEMMA StuckStep == StuckInv /\ [StuckNext]_stuckVars => StuckInv'
<1> SUFFICES ASSUME StuckInv, [StuckNext]_stuckVars PROVE StuckInv'
  OBVIOUS
<1> USE TopNonceAssumption DEF StuckInv, StuckTypeOK
<1>1. CASE SpendNonce
  BY <1>1 DEF SpendNonce
<1>2. ASSUME NEW t \in AccountTx, NEW n \in 0 .. TopNonce, RecordRow(t, n) PROVE StuckInv'
  BY <1>2 DEF RecordRow
<1>3. ASSUME NEW before, NEW S \in SUBSET RowsToSave(before),
             NEW r \in [S -> {"0", "1", "2"}], SaveRows(S, r)
      PROVE  StuckInv'
  BY <1>3 DEF SaveRows, RowsToSave
<1>4. ASSUME NEW t \in AccountTx, CancelRow(t) PROVE StuckInv'
  BY <1>4 DEF CancelRow
<1>5. CASE UNCHANGED stuckVars
  BY <1>5 DEF stuckVars
<1> QED
  BY <1>1, <1>2, <1>3, <1>4, <1>5 DEF StuckNext

THEOREM StuckInvariance == StuckSpec => []StuckInv
BY StuckInitInv, StuckStep, PTL DEF StuckSpec

(* What the query's maximum says of the rows it ranges over. *)
LEMMA MaxNonceOfRows ==
  ASSUME StuckInv, NEW s \in {"1", "2"}
  PROVE  /\ MaxNonce(s) \in 0 .. TopNonce
         /\ \A t \in AccountTx \ rowCanceled : rowStatus[t] = s => rowNonce[t] <= MaxNonce(s)
         /\ \/ MaxNonce(s) = 0
            \/ \E t \in AccountTx \ rowCanceled : rowStatus[t] = s /\ rowNonce[t] = MaxNonce(s)
<1> DEFINE rows == {u \in AccountTx \ rowCanceled : rowStatus[u] = s}
           S == {0} \cup {rowNonce[t] : t \in rows}
<1>1. S \subseteq 0 .. TopNonce /\ S # {}
  BY TopNonceAssumption DEF StuckInv, StuckTypeOK
<1>2. Max(S) \in S /\ \A n \in S : n <= Max(S)
  BY <1>1, TopNonceAssumption, MaxIsGreatest
<1>3. MaxNonce(s) = Max(S)
  BY DEF MaxNonce
<1>4. \A t \in rows : rowNonce[t] \in S
  OBVIOUS
<1> QED
  BY <1>1, <1>2, <1>3, <1>4

(* The comparison of isStuckAccounts, without its second maximum. *)
LEMMA StuckComparison ==
  ASSUME StuckInv
  PROVE  IsStuck <=> MaxNonce("1") + 1 < MaxNonce("2")
<1> DEFINE c == MaxNonce("1")
           S == {MaxNonce("2"), c}
<1>1. c \in 0 .. TopNonce /\ MaxNonce("2") \in 0 .. TopNonce
  BY MaxNonceOfRows
<1>2. Max(S) \in S /\ \A n \in S : n <= Max(S)
  BY <1>1, TopNonceAssumption, MaxIsGreatest
<1>3. IsStuck <=> c + 1 < Max(S)
  BY DEF IsStuck, maxCompletedNonce, maxStuckNonce, maxPendingNonce
<1> HIDE DEF c
<1> QED
  BY <1>1, <1>2, <1>3, TopNonceAssumption DEF c

(* Whoever counts as free has hardly anything for the cleaner above what   *)
(* succeeded last.                                                         *)
THEOREM UnnoticedFew == StuckSpec => []FewUnnoticed
<1>1. ASSUME StuckInv, ~IsStuck PROVE FewUnnoticed
  <2> DEFINE above == {rowNonce[t] : t \in {s \in StuckRows :
                                       \A u \in ConfirmedRows : rowNonce[u] < rowNonce[s]}}
             c == MaxNonce("1")
  <2>1. c \in 0 .. TopNonce /\ MaxNonce("2") \in 0 .. TopNonce /\ MaxNonce("2") <= c + 1
    BY <1>1, StuckComparison, MaxNonceOfRows, TopNonceAssumption
  <2>2. ASSUME NEW t \in StuckRows PROVE rowNonce[t] \in 0 .. c + 1
    <3>1. t \in AccountTx \ rowCanceled /\ rowStatus[t] = "2"
      BY DEF StuckRows
    <3>2. rowNonce[t] <= MaxNonce("2") /\ rowNonce[t] \in 0 .. TopNonce
      BY <1>1, <3>1, MaxNonceOfRows DEF StuckInv, StuckTypeOK
    <3> HIDE DEF c
    <3> QED
      BY <2>1, <3>2, TopNonceAssumption
  <2>3. CASE ConfirmedRows = {}
    <3>1. c = 0
      <4>1. ~ \E t \in AccountTx \ rowCanceled : rowStatus[t] = "1"
        BY <2>3 DEF ConfirmedRows
      <4> QED
        BY <1>1, <4>1, MaxNonceOfRows
    <3>2. above \in SUBSET Nat /\ \A n \in above : n <= 1
      BY <2>2, <3>1
    <3> HIDE DEF above
    <3>3. 1 \in Nat
      OBVIOUS
    <3>4. Cardinality(above) <= 1 + 1
      BY ONLY <3>2, <3>3, FS_BoundedSetOfNaturals
    <3>5. Cardinality(above) \in Nat
      BY ONLY <3>2, <3>3, FS_BoundedSetOfNaturals, FS_CardinalityType
    <3>6. Cardinality(above) <= 2
      BY <3>4, <3>5
    <3> QED
      BY <2>3, <3>6 DEF FewUnnoticed, above
  <2>4. CASE ConfirmedRows # {}
    <3>1. ASSUME NEW t \in StuckRows, \A u \in ConfirmedRows : rowNonce[u] < rowNonce[t]
          PROVE  rowNonce[t] = c + 1
      <4>1. c < rowNonce[t]
        <5>1. CASE c = 0
          <6>1. PICK u \in ConfirmedRows : rowNonce[u] \in Nat
            BY <1>1, <2>4, TopNonceAssumption DEF ConfirmedRows, StuckInv, StuckTypeOK
          <6>2. rowNonce[u] < rowNonce[t]
            BY <3>1
          <6> HIDE DEF c
          <6> QED
            BY <2>1, <2>2, <5>1, <6>1, <6>2, TopNonceAssumption
        <5>2. CASE c # 0
          <6>1. PICK u \in AccountTx \ rowCanceled : rowStatus[u] = "1" /\ rowNonce[u] = c
            BY <1>1, <5>2, MaxNonceOfRows
          <6>2. u \in ConfirmedRows
            BY <6>1 DEF ConfirmedRows
          <6> QED
            BY <3>1, <6>1, <6>2
        <5> QED
          BY <5>1, <5>2
      <4>2. rowNonce[t] \in 0 .. c + 1
        BY <2>2
      <4> HIDE DEF c
      <4> QED
        BY <2>1, <4>1, <4>2, TopNonceAssumption
    <3>2. above \subseteq {c + 1}
      BY <3>1
    <3>3. IsFiniteSet({c + 1}) /\ Cardinality({c + 1}) = 1
      BY FS_Singleton
    <3>4. Cardinality(above) <= 1
      BY <3>2, <3>3, FS_Subset
    <3> QED
      BY <2>4, <3>4 DEF FewUnnoticed
  <2> QED
    BY <2>3, <2>4
<1>2. StuckInv => FewUnnoticed
  BY <1>1 DEF FewUnnoticed
<1> QED
  BY <1>2, StuckInvariance, PTL
=============================================================================
