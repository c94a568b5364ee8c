-------------------------- MODULE FeeLadderProofs --------------------------
(***************************************************************************)
(* Proofs about FeeLadder, for any fees in the table and of the network.   *)
(***************************************************************************)
EXTENDS FeeLadder, TLAPS

(* The ladder of a round is bounded, and its last step doubles the base.   *)
Rung(b, n) ==
  /\ BidAfter(b, n + 1) \in Nat
  /\ Raise(BidAfter(b, n), n) = BidAfter(b, n + 1)
  /\ 10000 * BidAfter(b, n + 1) <= 24024 * b
  /\ b <= BidAfter(b, n + 1)
  /\ b >= 11 /\ n = 4 => /\ 100 * BidAfter(b, n + 1) > 220 * b - 100
                         /\ BidAfter(b, n + 1) > 2 * b

LEMMA Ladder ==
  ASSUME NEW b \in Nat, NEW n \in 0 .. 4
  PROVE  Rung(b, n)
<1> DEFINE b2 == Raise(b, 1)
           b3 == Raise(b2, 2)
           b4 == Raise(b3, 3)
           b5 == Raise(b4, 4)
<1>1. /\ BidAfter(b, 0) = b /\ BidAfter(b, 1) = b /\ BidAfter(b, 2) = b2
      /\ BidAfter(b, 3) = b3 /\ BidAfter(b, 4) = b4 /\ BidAfter(b, 5) = b5
  BY DEF BidAfter
<1>2. /\ Raise(b, 1) = b2 /\ Raise(b2, 2) = b3 /\ Raise(b3, 3) = b4 /\ Raise(b4, 4) = b5
  OBVIOUS
<1>3. /\ Raise(b, 0) = b
      /\ b2 = (b * 110) \div 100 /\ b3 = (b2 * 120) \div 100
      /\ b4 = (b3 * 130) \div 100 /\ b5 = (b4 * 140) \div 100
  BY DEF Raise
<1> HIDE DEF b2, b3, b4, b5
<1>4. b2 \in Nat /\ 100 * b2 <= b * 110 /\ b * 110 < 100 * b2 + 100
  BY <1>3
<1>5. b3 \in Nat /\ 100 * b3 <= b2 * 120 /\ b2 * 120 < 100 * b3 + 100
  BY <1>3, <1>4
<1>6. b4 \in Nat /\ 100 * b4 <= b3 * 130 /\ b3 * 130 < 100 * b4 + 100
  BY <1>3, <1>5
<1>7. b5 \in Nat /\ 100 * b5 <= b4 * 140 /\ b4 * 140 < 100 * b5 + 100
  BY <1>3, <1>6
<1>8. b <= b2 /\ b2 <= b3 /\ b3 <= b4 /\ b4 <= b5
  BY <1>4, <1>5, <1>6, <1>7
<1>9. 10000 * b5 <= 24024 * b
  BY <1>4, <1>5, <1>6, <1>7
<1>10. b >= 11 => 100 * b5 > 220 * b - 100 /\ b5 > 2 * b
  BY <1>4, <1>5, <1>6, <1>7
<1>11. n = 0 \/ n = 1 \/ n = 2 \/ n = 3 \/ n = 4
  OBVIOUS
<1> QED
  BY <1>1, <1>2, <1>3, <1>4, <1>5, <1>6, <1>7, <1>8, <1>9, <1>10, <1>11 DEF Rung

LEMMA StartFees ==
  ASSUME FeeTypeOK, NEW p \in Part
  PROVE  /\ rowFee[p] \in Nat /\ rowFee[p] >= 10 /\ market[p] \in Nat
         /\ (rowFee[p] * 110) \div 100 >= 11
         /\ (rowFee[p] * 110) \div 100 > rowFee[p]
         /\ StartFee(p) \in Nat
         /\ StartFee(p) >= (rowFee[p] * 110) \div 100
<1>1. rowFee[p] \in Nat /\ rowFee[p] >= 10 /\ market[p] \in Nat
  BY RowFeeAssumption, MarketFeeAssumption DEF FeeTypeOK
<1> DEFINE f == rowFee[p]
           g == (f * 110) \div 100
<1>2. g \in Nat /\ 100 * g <= f * 110 /\ f * 110 < 100 * g + 100
  BY <1>1
<1>3. g >= 11 /\ g > f
  BY <1>1, <1>2
<1> HIDE DEF g
<1> QED
  BY <1>1, <1>2, <1>3 DEF StartFee, Higher, g

(* What a round bids next, from the invariant. *)
LEMMA NextBid ==
  ASSUME FeeInv, try \in 0 .. Attempts - 1, NEW p \in Part
  PROVE  /\ base[p] \in Nat /\ base[p] >= 11 /\ peak[p] \in Nat /\ pool[p] \in Nat
         /\ base[p] >= (rowFee[p] * 110) \div 100
         /\ base[p] <= peak[p]
         /\ Raised[p] \in Nat
         /\ Raised[p] = BidAfter(base[p], try + 1)
         /\ base[p] <= Raised[p]
         /\ 10000 * Raised[p] <= 24024 * peak[p]
         /\ try = 4 => 100 * Raised[p] > 220 * base[p] - 100 /\ Raised[p] > 2 * base[p]
<1>1. try \in 0 .. 4 /\ try # -1
  BY DEF Attempts
<1>2. base[p] \in Nat /\ peak[p] \in Nat /\ pool[p] \in Nat
  BY DEF FeeInv, FeeTypeOK, Fees
<1>3. /\ base[p] >= (rowFee[p] * 110) \div 100 /\ base[p] <= peak[p]
      /\ bid[p] = BidAfter(base[p], try)
  BY <1>1 DEF FeeInv
<1>4. (rowFee[p] * 110) \div 100 \in Int /\ (rowFee[p] * 110) \div 100 >= 11
  BY StartFees DEF FeeInv
<1>5. base[p] >= 11
  BY <1>2, <1>3, <1>4
<1>6. Raised[p] = Raise(BidAfter(base[p], try), try)
  BY <1>3 DEF Raised
<1>7. Rung(base[p], try)
  BY <1>1, <1>2, Ladder
<1> QED
  BY <1>2, <1>3, <1>5, <1>6, <1>7 DEF Rung

LEMMA FeeInitInv == FeeInit => FeeInv
<1> SUFFICES ASSUME FeeInit PROVE FeeInv
  OBVIOUS
<1>1. rowFee \in Fees /\ Zero \in Fees
  BY RowFeeAssumption DEF FeeInit, Fees, Zero
<1>2. FeeTypeOK
  <2>1. pool \in Fees
    BY <1>1, MarketFeeAssumption DEF FeeInit, Fees
  <2> QED
    BY <1>1, <2>1 DEF FeeInit, FeeTypeOK, Attempts
<1>3. FeesBounded
  BY DEF FeeInit, FeesBounded
<1> QED
  BY <1>2, <1>3 DEF FeeInit, FeeInv

LEMMA FeeStep ==
  ASSUME FeeInv, [FeeNext]_feeVars
  PROVE  FeeInv'
<1> USE DEF FeeInv, FeeTypeOK
<1>0. Zero \in Fees /\ \A p \in Part : Zero[p] = 0
  BY DEF Zero, Fees
<1>1. CASE StartRound
  <2> DEFINE s == [p \in Part |-> StartFee(p)]
             k == [p \in Part |-> Higher(peak[p], StartFee(p))]
  <2>1. base' = s /\ bid' = s /\ try' = 0 /\ peak' = k
        /\ UNCHANGED <<rowFee, market, holds, pool>>
    BY <1>1 DEF StartRound
  <2>2. \A p \in Part : /\ s[p] = StartFee(p) /\ StartFee(p) \in Nat
                        /\ (rowFee[p] * 110) \div 100 <= s[p]
                        /\ (rowFee[p] * 110) \div 100 \in Int
                        /\ rowFee[p] \in Nat
    BY StartFees
  <2>3. \A p \in Part : /\ peak[p] \in Nat /\ pool[p] \in Nat
                        /\ k[p] \in Nat /\ k[p] >= peak[p] /\ k[p] >= s[p]
    BY <2>2 DEF Fees, Higher
  <2> HIDE DEF s, k
  <2>4. s \in Fees /\ k \in Fees
    <3>1. \A p \in Part : s[p] \in Nat /\ k[p] \in Nat
      BY <2>2, <2>3
    <3> QED
      BY <3>1 DEF s, k, Fees
  <2>5. FeeTypeOK'
    BY <2>1, <2>4 DEF Attempts
  <2>6. FeesBounded'
    <3> SUFFICES ASSUME holds = "cancellation", NEW p \in Part
                 PROVE  10000 * pool[p] <= 24024 * k[p]
      BY <2>1 DEF FeesBounded
    <3>1. 10000 * pool[p] <= 24024 * peak[p]
      BY DEF FeesBounded
    <3> QED
      BY <3>1, <2>3
  <2>7. \A p \in Part : BidAfter(s[p], 0) = s[p]
    BY DEF BidAfter
  <2> QED
    BY <2>1, <2>2, <2>3, <2>5, <2>6, <2>7
<1>2. CASE AttemptAccepted
  <2>1. \A p \in Part : /\ Raised[p] \in Nat /\ peak[p] \in Nat
                        /\ 10000 * Raised[p] <= 24024 * peak[p]
    BY <1>2, NextBid DEF AttemptAccepted
  <2>2. Raised \in Fees
    BY <2>1 DEF Raised, Fees
  <2>3. FeesBounded'
    BY <1>2, <2>1 DEF AttemptAccepted, FeesBounded
  <2>4. /\ holds' = "cancellation" /\ try' = -1 /\ pool' = Raised
        /\ base' = Zero /\ bid' = Zero /\ UNCHANGED <<rowFee, market, peak>>
    BY <1>2 DEF AttemptAccepted, EndRound
  <2>5. FeeTypeOK'
    BY <1>0, <2>2, <2>4 DEF Attempts
  <2> QED
    BY <2>3, <2>4, <2>5
<1>3. CASE AttemptUnderpriced
  <2>1. \A p \in Part : Raised[p] \in Nat /\ Raised[p] = BidAfter(base[p], try + 1)
    BY <1>3, NextBid DEF AttemptUnderpriced
  <2>2. Raised \in Fees
    BY <2>1 DEF Raised, Fees
  <2>3. try' \in 1 .. 5 /\ try' = try + 1 /\ bid' = Raised
    BY <1>3 DEF AttemptUnderpriced, Attempts
  <2>4. FeeTypeOK'
    BY <1>3, <2>2, <2>3 DEF AttemptUnderpriced, Attempts
  <2>5. FeesBounded'
    BY <1>3 DEF AttemptUnderpriced, FeesBounded
  <2>6. try # -1
    BY <1>3 DEF AttemptUnderpriced, Attempts
  <2>7. UNCHANGED <<rowFee, market, base, holds, pool, peak>>
    BY <1>3 DEF AttemptUnderpriced
  <2>8. \A p \in Part : /\ (rowFee[p] * 110) \div 100 <= base[p]
                        /\ base[p] <= peak[p]
    BY <2>6
  <2>9. \A p \in Part : bid'[p] = BidAfter(base'[p], try')
    BY <2>1, <2>3, <2>7
  <2> QED
    BY <2>4, <2>5, <2>7, <2>8, <2>9
<1>4. CASE RoundFails
  <2>1. /\ try' = -1 /\ base' = Zero /\ bid' = Zero
        /\ UNCHANGED <<rowFee, market, holds, pool, peak>>
    BY <1>4 DEF RoundFails, EndRound
  <2>2. FeeTypeOK'
    BY <1>0, <2>1 DEF Attempts
  <2>3. FeesBounded'
    BY <2>1 DEF FeesBounded
  <2> QED
    BY <2>1, <2>2, <2>3
<1>5. CASE MarketMoves
  BY <1>5 DEF MarketMoves, FeesBounded
<1>6. CASE PoolForgets
  BY <1>0, <1>6 DEF PoolForgets, FeesBounded
<1>7. CASE OriginalReturns
  <2>1. rowFee \in Fees
    BY RowFeeAssumption DEF Fees
  <2> QED
    BY <1>7, <2>1 DEF OriginalReturns, FeesBounded
<1>8. CASE \E f \in [Part -> OtherFee] : OtherArrives(f)
  <2>1. PICK f \in [Part -> OtherFee] : OtherArrives(f)
    BY <1>8
  <2>2. f \in Fees
    BY MarketFeeAssumption DEF Fees
  <2> QED
    BY <2>1, <2>2 DEF OtherArrives, FeesBounded
<1>9. CASE UNCHANGED feeVars
  BY <1>9 DEF feeVars, FeesBounded
<1> QED
  BY <1>1, <1>2, <1>3, <1>4, <1>5, <1>6, <1>7, <1>8, <1>9 DEF FeeNext

LEMMA FeeInvariant == FeeSpec => []FeeInv
<1> QED
  BY FeeInitInv, FeeStep, PTL DEF FeeSpec

(* The ladder's variables hold what their code says, whatever the fees     *)
(* (cron.service.ts 133-161).                                              *)
THEOREM FeeTypeCorrect == FeeSpec => []FeeTypeOK
<1>1. FeeInv => FeeTypeOK
  BY DEF FeeInv
<1> QED
  BY <1>1, FeeInvariant, PTL

(* No bid exceeds 2.4024 times the highest fees a round started from, for  *)
(* any number of rounds (cron.service.ts 134-143).                         *)
THEOREM FeesStayBounded == FeeSpec => []FeesBounded
<1>1. FeeInv => FeesBounded
  BY DEF FeeInv
<1> QED
  BY <1>1, FeeInvariant, PTL

(* Every bid of a round outbids the original, for all fees of ten wei or   *)
(* more: only what has taken its place refuses one (cron.service.ts        *)
(* 134-145).                                                               *)
THEOREM FirstBidOutbids == FeeSpec => OriginalOutbidAtOnce
<1>1. FeeInv /\ AttemptUnderpriced => holds \in {"cancellation", "another"}
  <2> SUFFICES ASSUME FeeInv, AttemptUnderpriced, holds = "original" PROVE FALSE
    BY DEF FeeInv, FeeTypeOK, AttemptUnderpriced, Accepts
  <2>1. pool = rowFee
    BY DEF FeeInv
  <2>2. try \in 0 .. Attempts - 1
    BY DEF AttemptUnderpriced
  <2>3. \A p \in Part : Raised[p] > pool[p] /\ Raised[p] >= (pool[p] * 110) \div 100
    <3> SUFFICES ASSUME NEW p \in Part
                 PROVE  Raised[p] > pool[p] /\ Raised[p] >= (pool[p] * 110) \div 100
      OBVIOUS
    <3>1. /\ base[p] \in Nat /\ Raised[p] \in Nat /\ base[p] <= Raised[p]
          /\ base[p] >= (rowFee[p] * 110) \div 100
      BY <2>2, NextBid
    <3>2. rowFee[p] \in Nat /\ (rowFee[p] * 110) \div 100 > rowFee[p]
          /\ (rowFee[p] * 110) \div 100 \in Int
      BY StartFees DEF FeeInv
    <3> QED
      BY <2>1, <3>1, <3>2
  <2> QED
    BY <2>3 DEF AttemptUnderpriced, Accepts, Outbids
<1>2. FeeInv => [AttemptUnderpriced => holds \in {"cancellation", "another"}]_feeVars
  BY <1>1
<1> QED
  BY <1>2, FeeInvariant, PTL DEF OriginalOutbidAtOnce

(* A round that gives up met a transaction that pays more than twice what  *)
(* the round started from, for any fees of any transactions in the pool    *)
(* (cron.service.ts 140-160).                                              *)
THEOREM OnlyDearerBlocks == FeeSpec => BlockedOnlyByDearer
<1>1. FeeInv /\ AttemptUnderpriced /\ try' = Attempts => \E p \in Part : pool[p] > 2 * base[p]
  <2> SUFFICES ASSUME FeeInv, AttemptUnderpriced, try' = Attempts,
                      \A p \in Part : ~(pool[p] > 2 * base[p])
               PROVE  FALSE
    OBVIOUS
  <2>1. try = 4 /\ try \in 0 .. Attempts - 1
    BY DEF AttemptUnderpriced, Attempts
  <2>2. \A p \in Part : Raised[p] > pool[p] /\ Raised[p] >= (pool[p] * 110) \div 100
    <3> SUFFICES ASSUME NEW p \in Part
                 PROVE  Raised[p] > pool[p] /\ Raised[p] >= (pool[p] * 110) \div 100
      OBVIOUS
    <3>1. /\ base[p] \in Nat /\ base[p] >= 11 /\ pool[p] \in Nat /\ Raised[p] \in Nat
          /\ 100 * Raised[p] > 220 * base[p] - 100 /\ Raised[p] > 2 * base[p]
      BY <2>1, NextBid
    <3>2. pool[p] <= 2 * base[p]
      BY <3>1
    <3>3. (pool[p] * 110) \div 100 \in Int /\ 100 * ((pool[p] * 110) \div 100) <= pool[p] * 110
      BY <3>1
    <3> QED
      BY <3>1, <3>2, <3>3
  <2> QED
    BY <2>2 DEF AttemptUnderpriced, Accepts, Outbids
<1>2. FeeInv => [AttemptUnderpriced /\ try' = Attempts =>
                   \E p \in Part : pool[p] > 2 * base[p]]_feeVars
  BY <1>1
<1> QED
  BY <1>2, FeeInvariant, PTL DEF BlockedOnlyByDearer
=============================================================================
