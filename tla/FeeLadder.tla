----------------------------- MODULE FeeLadder -----------------------------
(***************************************************************************)
(* sendCancellationTransaction of CronService: the fees with which rounds  *)
(* of the cleaner try to replace one stuck transaction.  A round starts    *)
(* from the fees in the table, or those of the network if they are higher, *)
(* and raises them at most five times while the node answers               *)
(* REPLACEMENT_UNDERPRICED.  The pool may hold with the nonce in question  *)
(* the original, the cancellation of an earlier round (not mined within    *)
(* its 25 seconds), nothing, or another transaction of the sender: sends   *)
(* take no lock and reuse a nonce the pool forgot, and two rows of one     *)
(* nonce are canceled by two replacements.  TxLifecycle has those, and     *)
(* leaves the fees out.                                                    *)
(***************************************************************************)
EXTENDS Integers

CONSTANTS
  RowFee,     \* fees transactions of the table were signed with
  MarketFee,  \* fees getFeeData answers; 0 stands for null as well
  OtherFee    \* fees of the sender's other transactions with the nonce

(* The original's fees are ten wei at least: ten percent of less is        *)
(* nothing, and no attempt would ever outbid it.                           *)
ASSUME RowFeeAssumption == RowFee \subseteq {f \in Nat : f >= 10}
ASSUME MarketFeeAssumption == MarketFee \subseteq Nat /\ OtherFee \subseteq Nat

(* maxFeePerGas and maxPriorityFeePerGas *)
Part == {"max", "tip"}
Fees == [Part -> Nat]
Attempts == 5

VARIABLES
  rowFee,   \* the fees in the row of the stuck transaction
  market,   \* what the node answers to getFeeData
  base,     \* the fees this round started from; zero between rounds
  bid,      \* the fees of its last attempt
  try,      \* its next attempt; Attempts when it has none left, else -1
  holds,    \* what the pool holds with the nonce in question
  pool,     \* ... and its fees
  peak      \* history: the highest base of the rounds so far, by part

feeVars == <<rowFee, market, base, bid, try, holds, pool, peak>>

FeeTypeOK ==
  /\ rowFee \in [Part -> RowFee]
  /\ market \in [Part -> MarketFee]
  /\ base \in Fees
  /\ bid \in Fees
  /\ try \in -1 .. Attempts
  /\ holds \in {"original", "cancellation", "another", "nothing"}
  /\ pool \in Fees
  /\ peak \in Fees

Zero == [p \in Part |-> 0]

FeeInit ==
  /\ rowFee \in [Part -> RowFee]
  /\ market \in [Part -> MarketFee]
  /\ base = Zero
  /\ bid = Zero
  /\ try = -1
  /\ \/ holds = "original" /\ pool = rowFee
     \/ holds = "another" /\ pool \in [Part -> OtherFee]
     \/ holds = "nothing" /\ pool = Zero
  /\ peak = Zero

----------------------------------------------------------------------------

Higher(a, b) == IF a > b THEN a ELSE b

(* Fault: the multiplier of the original's fees is 105. *)
StartFeeTooLow(p) == Higher(market[p], (rowFee[p] * 105) \div 100)

(* 134-138, in the integers of BigInt. *)
StartFee(p) == Higher(market[p], (rowFee[p] * 110) \div 100)

StartRound ==
  /\ try = -1
  /\ base' = [p \in Part |-> StartFee(p)]
  /\ bid' = base'
  /\ try' = 0
  /\ peak' = [p \in Part |-> Higher(peak[p], StartFee(p))]
  /\ UNCHANGED <<rowFee, market, holds, pool>>

(* Faults: every attempt raises by ten percent; by the square. *)
RaiseFlat(f, i) == (f * (IF i = 0 THEN 100 ELSE 110)) \div 100
RaiseSteeply(f, i) == (f * (100 + i * i * 10)) \div 100

(* 142-143: attempt i multiplies what attempt i - 1 bid by 100 + 10 i. *)
Raise(f, i) == (f * (100 + i * 10)) \div 100
Raised == [p \in Part |-> Raise(bid[p], try)]

(* The node's rule: both fees are higher, and by ten percent. *)
Outbids(f, g) == \A p \in Part : f[p] > g[p] /\ f[p] >= (g[p] * 110) \div 100

Accepts(f) == holds = "nothing" \/ Outbids(f, pool)

EndRound ==
  /\ try' = -1
  /\ base' = Zero
  /\ bid' = Zero

AttemptAccepted ==
  /\ try \in 0 .. Attempts - 1
  /\ Accepts(Raised)
  /\ holds' = "cancellation"
  /\ pool' = Raised
  /\ EndRound
  /\ UNCHANGED <<rowFee, market, peak>>

(* Fault: one attempt too many. *)
AttemptUnderpricedAgain ==
  /\ try \in 0 .. Attempts
  /\ ~Accepts(Raised)
  /\ bid' = Raised
  /\ try' = try + 1
  /\ UNCHANGED <<rowFee, market, base, holds, pool, peak>>

AttemptUnderpriced ==
  /\ try \in 0 .. Attempts - 1
  /\ ~Accepts(Raised)
  /\ bid' = Raised
  /\ try' = try + 1
  /\ UNCHANGED <<rowFee, market, base, holds, pool, peak>>

(* The last error after five attempts, or any other error at once. *)
RoundFails ==
  /\ try # -1
  /\ EndRound
  /\ UNCHANGED <<rowFee, market, holds, pool, peak>>

(* The network's fees move, also between getFeeData and the attempts. *)
MarketMoves ==
  /\ market' \in [Part -> MarketFee]
  /\ UNCHANGED <<rowFee, base, bid, try, holds, pool, peak>>

PoolForgets ==
  /\ holds' = "nothing"
  /\ pool' = Zero
  /\ UNCHANGED <<rowFee, market, base, bid, try, peak>>

(* A peer brings the original back. *)
OriginalReturns ==
  /\ holds # "original"
  /\ Accepts(rowFee)
  /\ holds' = "original"
  /\ pool' = rowFee
  /\ UNCHANGED <<rowFee, market, base, bid, try, peak>>

(* Another request of the sender was given the nonce, or another row with  *)
(* it is being canceled.                                                   *)
OtherArrives(f) ==
  /\ Accepts(f)
  /\ holds' = "another"
  /\ pool' = f
  /\ UNCHANGED <<rowFee, market, base, bid, try, peak>>

FeeNext ==
  \/ StartRound
  \/ AttemptAccepted
  \/ AttemptUnderpriced
  \/ RoundFails
  \/ MarketMoves
  \/ PoolForgets
  \/ OriginalReturns
  \/ \E f \in [Part -> OtherFee] : OtherArrives(f)

FeeSpec == FeeInit /\ [][FeeNext]_feeVars

----------------------------------------------------------------------------
(* Properties *)

(* Every bid of a round outbids the original, the first included: what     *)
(* refuses an attempt is a transaction that has taken the original's place *)
(* (cron.service.ts 134-145).                                              *)
OriginalOutbidAtOnce ==
  [][AttemptUnderpriced => holds \in {"cancellation", "another"}]_feeVars

(* Five attempts reach more than twice the fees a round started from: a    *)
(* round gives up only on a transaction that pays more than twice of one   *)
(* of them, whoever sent it (cron.service.ts 140-160).                     *)
BlockedOnlyByDearer ==
  [][AttemptUnderpriced /\ try' = Attempts =>
       \E p \in Part : pool[p] > 2 * base[p]]_feeVars

(* Rounds do not drive each other up: each starts from the table again, so *)
(* no cancellation pays more than 2.4024 times the highest fees a round    *)
(* started from, whatever else it had to outbid (cron.service.ts 134-143). *)
FeesBounded ==
  holds = "cancellation" => \A p \in Part : 10000 * pool[p] <= 24024 * peak[p]

(* The inductive invariant of the three: a round's last bid is what its    *)
(* base and its attempts make it.                                          *)
BidAfter(b, n) ==
  LET b2 == Raise(b, 1)
      b3 == Raise(b2, 2)
      b4 == Raise(b3, 3)
  IN  IF n <= 1 THEN b
      ELSE IF n = 2 THEN b2
      ELSE IF n = 3 THEN b3
      ELSE IF n = 4 THEN b4
      ELSE Raise(b4, 4)

FeeInv ==
  /\ FeeTypeOK
  /\ FeesBounded
  /\ holds = "original" => pool = rowFee
  /\ \A p \in Part : try # -1 =>
       /\ (rowFee[p] * 110) \div 100 <= base[p]
       /\ base[p] <= peak[p]
       /\ bid[p] = BidAfter(base[p], try)
=============================================================================
