----------------------------- MODULE Activities -----------------------------
(***************************************************************************)
(* The tasks RUN ACTIVITIES and RUN SLOW ACTIVITIES: a round calls the     *)
(* handlers whose action is below its hourly rate, each handler makes a    *)
(* random number of requests, and the round ends when all are settled.     *)
(* Handlers that spend the faucet's coins ask first how many of its        *)
(* transactions went wrong.                                                *)
(***************************************************************************)
EXTENDS Integers

CONSTANTS
  Range,        \* Range[a]: actions.randomRange
  MaxPerHour,   \* MaxPerHour[a]: actions.maxPerHour
  FaucetLimit,  \* 5 in the code
  MaxRows,      \* bound: the faucet's rows that are not settled well
  MaxHour,      \* bound: refills, and transfers, of an hour
  MaxLeft       \* bound: transfers nobody waits for

RunActivities == {"CreateAccount", "SendCoti", "OnboardAccount", "SendCotiFromFaucet"}
RunSlowActivities == {"MintPrivateToken", "MintToken", "TransferPrivateToken", "TransferToken",
                      "CreateToken", "CreatePrivateToken"}
Task == {RunActivities, RunSlowActivities}
Action == RunActivities \cup RunSlowActivities
CreateTokenAction == {"CreateToken", "CreatePrivateToken"}
FaucetAction == {"CreateAccount", "SendCotiFromFaucet"} \cup CreateTokenAction

ASSUME RangeAssumption == Range \in [Action -> Nat]
ASSUME RateAssumption == MaxPerHour \in [Action -> Nat]
ASSUME BoundAssumption == FaucetLimit \in Nat /\ MaxRows \in Nat /\ MaxHour \in Nat /\ MaxLeft \in Nat

VARIABLES
  hpc,       \* hpc[a]: "idle", "check" the faucet, "plan" the requests, "work"
  plan,      \* plan[a]: requests of a loop that are not yet begun
  refill,    \* refill[a]: sendCotiFromFaucet calls in progress
  wait,      \* wait[a]: refills whose block is awaited
  call,      \* call[a]: requests in progress that record an activity a
  left,      \* transfers of a handler that returned without awaiting them
  hour,      \* hour[a]: activities a of the last hour, not canceled
  open,      \* the faucet's rows without a status
  stuck,     \* ... with status 2, not canceled
  reverted,  \* ... with status 0
  late       \* history: late[a]: refills of a since the faucet had too many of these

workVars == <<hpc, plan, refill, wait, call, left>>
rowVars == <<open, stuck, reverted>>
vars == <<workVars, hour, rowVars, late>>

TypeOK ==
  /\ hpc \in [Action -> {"idle", "check", "plan", "work"}]
  /\ plan \in [Action -> Nat]
  /\ refill \in [Action -> Nat]
  /\ wait \in [Action -> Nat]
  /\ call \in [Action -> Nat]
  /\ left \in 0 .. MaxLeft
  /\ hour \in [Action -> Nat]
  /\ open \in Nat /\ stuck \in Nat /\ reverted \in Nat
  /\ late \in [Action -> Nat]

Nothing == [a \in Action |-> 0]

Init ==
  /\ hpc = [a \in Action |-> "idle"]
  /\ plan = Nothing /\ refill = Nothing /\ wait = Nothing /\ call = Nothing
  /\ left = 0
  /\ hour = Nothing
  /\ open = 0 /\ stuck = 0 /\ reverted = 0
  /\ late = Nothing

----------------------------------------------------------------------------
(* The faucet protection *)

(* Fault: reverted transactions are not counted. *)
StuckOnly(s, v) == s >= FaucetLimit

(* isFaucetPendingTransactionTooBig: status 0 or 2 and not canceled. *)
TooBig(s, v) == s + v >= FaucetLimit

FaucetSendsTooMuch == TooBig(stuck, reverted)

(* late is counted from the moment there are too many. *)
Rows(o, s, v) ==
  /\ open' = o /\ stuck' = s /\ reverted' = v
  /\ late' = IF FaucetSendsTooMuch /\ TooBig(s, v) THEN late ELSE Nothing

----------------------------------------------------------------------------
(* Rounds *)

(* Fault: an action at its rate is called once more. *)
BelowRateOrAt(a) == Range[a] > 0 /\ hour[a] <= MaxPerHour[a]

BelowRate(a) == Range[a] > 0 /\ hour[a] < MaxPerHour[a]

(* isNetworkActive is a promise and so never stops a round.  The next      *)
(* round starts when all handlers of the last one are settled.             *)
StartRound(T) ==
  /\ \A a \in T : hpc[a] = "idle"
  /\ \E a \in T : BelowRate(a)
  /\ hpc' = [a \in Action |-> IF a \notin T \/ ~BelowRate(a) THEN hpc[a]
                              ELSE IF a \in FaucetAction THEN "check" ELSE "plan"]
  /\ UNCHANGED <<plan, refill, wait, call, left, hour, rowVars, late>>

(* Fault: one handler does not mind the answer. *)
CheckUnminded(a) ==
  /\ hpc[a] = "check"
  /\ hpc' = [hpc EXCEPT ![a] = IF FaucetSendsTooMuch /\ a # "CreateAccount" THEN "idle" ELSE "plan"]
  /\ UNCHANGED <<plan, refill, wait, call, left, hour, rowVars, late>>

Check(a) ==
  /\ hpc[a] = "check"
  /\ hpc' = [hpc EXCEPT ![a] = IF FaucetSendsTooMuch THEN "idle" ELSE "plan"]
  /\ UNCHANGED <<plan, refill, wait, call, left, hour, rowVars, late>>

(* The handler draws its count, drops stuck accounts, and begins what is   *)
(* left, accounts one after the other, all else at once.                   *)
Plan(a, c) ==
  /\ hpc[a] = "plan"
  /\ c <= Range[a]
  /\ hpc' = [hpc EXCEPT ![a] = "work"]
  /\ IF a = "CreateAccount" THEN plan' = [plan EXCEPT ![a] = c] /\ UNCHANGED <<refill, call>>
     ELSE IF a \in FaucetAction THEN refill' = [refill EXCEPT ![a] = c] /\ UNCHANGED <<plan, call>>
     ELSE call' = [call EXCEPT ![a] = c] /\ UNCHANGED <<plan, refill>>
  /\ UNCHANGED <<wait, left, hour, rowVars, late>>

(* handleSendCoti returns at an account whose balance is too small to send *)
(* a tenth of; the transfers it has begun go on.                           *)
EarlyReturn(c) ==
  /\ hpc["SendCoti"] = "plan"
  /\ c < Range["SendCoti"]
  /\ left + c <= MaxLeft
  /\ left' = left + c
  /\ hpc' = [hpc EXCEPT !["SendCoti"] = "idle"]
  /\ UNCHANGED <<plan, refill, wait, call, hour, rowVars, late>>

Settle(a) ==
  /\ hpc[a] = "work"
  /\ plan[a] = 0 /\ refill[a] = 0 /\ wait[a] = 0 /\ call[a] = 0
  /\ hpc' = [hpc EXCEPT ![a] = "idle"]
  /\ UNCHANGED <<plan, refill, wait, call, left, hour, rowVars, late>>

----------------------------------------------------------------------------
(* Requests *)

Recorded(a) == hour' = [hour EXCEPT ![a] = @ + 1]

(* Fault: an exception does not end the loop, whose count runs on. *)
NextAccountUnguarded ==
  /\ call["CreateAccount"] = 0 /\ refill["CreateAccount"] = 0
  /\ hpc["CreateAccount"] = "work"
  /\ plan' = [plan EXCEPT !["CreateAccount"] = @ - 1]
  /\ call' = [call EXCEPT !["CreateAccount"] = 1]
  /\ UNCHANGED <<hpc, refill, wait, left, hour, rowVars, late>>

(* The loop of handleCreateAccount awaits each createAccount. *)
NextAccount ==
  /\ plan["CreateAccount"] > 0
  /\ call["CreateAccount"] = 0 /\ refill["CreateAccount"] = 0
  /\ plan' = [plan EXCEPT !["CreateAccount"] = @ - 1]
  /\ call' = [call EXCEPT !["CreateAccount"] = 1]
  /\ UNCHANGED <<hpc, refill, wait, left, hour, rowVars, late>>

(* The request commits its activity; createAccount refills the account. *)
CallDone(a) ==
  /\ call[a] > 0
  /\ call' = [call EXCEPT ![a] = @ - 1]
  /\ Recorded(a)
  /\ refill' = IF a = "CreateAccount" THEN [refill EXCEPT ![a] = @ + 1] ELSE refill
  /\ UNCHANGED <<hpc, plan, wait, left, rowVars, late>>

(* Fault: a failed request is begun again. *)
CallFailsRetried(a) ==
  /\ call[a] > 0
  /\ IF a = "CreateAccount" THEN /\ call' = [call EXCEPT ![a] = @ - 1]
                                 /\ plan' = [plan EXCEPT ![a] = @ + 1]
     ELSE UNCHANGED <<call, plan>>
  /\ UNCHANGED <<hpc, refill, wait, left, hour, rowVars, late>>

(* An exception ends the loop of handleCreateAccount. *)
CallFails(a) ==
  /\ call[a] > 0
  /\ call' = [call EXCEPT ![a] = @ - 1]
  /\ plan' = [plan EXCEPT ![a] = 0]
  /\ UNCHANGED <<hpc, refill, wait, left, hour, rowVars, late>>

(* The refill is sent and recorded, in the name of SendCotiFromFaucet;     *)
(* createTokenWrapper then waits for its block.                            *)
RefillDone(a) ==
  /\ refill[a] > 0
  /\ open + stuck + reverted < MaxRows
  /\ hour["SendCotiFromFaucet"] < MaxHour
  /\ refill' = [refill EXCEPT ![a] = @ - 1]
  /\ wait' = IF a \in CreateTokenAction THEN [wait EXCEPT ![a] = @ + 1] ELSE wait
  /\ Recorded("SendCotiFromFaucet")
  /\ open' = open + 1
  /\ late' = IF FaucetSendsTooMuch THEN [late EXCEPT ![a] = @ + 1] ELSE late
  /\ UNCHANGED <<hpc, plan, call, left, stuck, reverted>>

RefillFails(a) ==
  /\ refill[a] > 0
  /\ refill' = [refill EXCEPT ![a] = @ - 1]
  /\ plan' = [plan EXCEPT ![a] = 0]
  /\ UNCHANGED <<hpc, wait, call, left, hour, rowVars, late>>

(* Fault: there is no timeout; only a block ends the wait. *)
WaitEndsMined(a) ==
  /\ wait[a] > 0
  /\ open = 0
  /\ wait' = [wait EXCEPT ![a] = @ - 1]
  /\ call' = [call EXCEPT ![a] = @ + 1]
  /\ UNCHANGED <<hpc, plan, refill, left, hour, rowVars, late>>

(* The block, or the timeout after 25 seconds: then no token is created. *)
WaitEnds(a) ==
  /\ wait[a] > 0
  /\ wait' = [wait EXCEPT ![a] = @ - 1]
  /\ call' \in {call, [call EXCEPT ![a] = @ + 1]}
  /\ UNCHANGED <<hpc, plan, refill, left, hour, rowVars, late>>

LeftDone ==
  /\ left > 0
  /\ hour["SendCoti"] < MaxHour
  /\ left' = left - 1
  /\ Recorded("SendCoti")
  /\ UNCHANGED <<hpc, plan, refill, wait, call, rowVars, late>>

----------------------------------------------------------------------------
(* The faucet's rows, by the checker and the cleaner; see TxLifecycle *)

Included ==
  /\ open > 0
  /\ \/ Rows(open - 1, stuck, reverted)
     \/ Rows(open - 1, stuck, reverted + 1)
  /\ UNCHANGED <<workVars, hour>>

TenMinutes ==
  /\ open > 0
  /\ Rows(open - 1, stuck + 1, reverted)
  /\ UNCHANGED <<workVars, hour>>

(* A late receipt, a cancellation because the nonce is spent, or one by a  *)
(* replacement, whose row is the faucet's as well.                         *)
Cleaned ==
  /\ stuck > 0
  /\ \/ Rows(open, stuck - 1, reverted)
     \/ Rows(open, stuck - 1, reverted + 1)
     \/ Rows(open + 1, stuck - 1, reverted)
  /\ UNCHANGED <<workVars, hour>>

(* An activity is an hour old, or canceled. *)
Forgotten(a) ==
  /\ hour[a] > 0
  /\ hour' = [hour EXCEPT ![a] = @ - 1]
  /\ UNCHANGED <<workVars, rowVars, late>>

(* The process ends and starts again. *)
Restart ==
  /\ hpc' = [a \in Action |-> "idle"]
  /\ plan' = Nothing /\ refill' = Nothing /\ wait' = Nothing /\ call' = Nothing
  /\ left' = 0
  /\ UNCHANGED <<hour, rowVars, late>>

(* It also ends when a transfer nobody waits for is rejected. *)
LeftRejected == left > 0 /\ Restart

----------------------------------------------------------------------------

Step(a) ==
  /\ hpc[a] # "idle"
  /\ \/ Check(a)
     \/ \E c \in 0 .. Range[a] : Plan(a, c) \/ (a = "SendCoti" /\ EarlyReturn(c))
     \/ a = "CreateAccount" /\ NextAccount
     \/ CallDone(a) \/ CallFails(a)
     \/ RefillDone(a) \/ RefillFails(a)
     \/ WaitEnds(a)
     \/ Settle(a)

Next ==
  \/ \E T \in Task : StartRound(T)
  \/ \E a \in Action : Step(a) \/ Forgotten(a)
  \/ LeftDone \/ LeftRejected
  \/ Included \/ TenMinutes \/ Cleaned
  \/ Restart

Spec == Init /\ [][Next]_vars

(* The promises the handlers of a round wait for settle, and they go on;   *)
(* a handler takes finitely many steps, so none has to be named.  Not so   *)
(* an onboarding: it waits for its block without a timeout, and meanwhile  *)
(* holds one of the connections all the others need (see Onboarding).      *)
(* Nothing is assumed of any handler while an onboarding is in progress.   *)
Onboarding == call["OnboardAccount"] > 0
Fairness == \A T \in Task : SF_vars(~Onboarding /\ \E a \in T : Step(a))

FairSpec == Spec /\ Fairness

----------------------------------------------------------------------------
(* Properties *)

(* Requests whose activity is still to be recorded. *)
Due(a) ==
  IF a = "CreateAccount" THEN plan[a] + call[a]
  ELSE IF a \in CreateTokenAction THEN refill[a] + wait[a] + call[a]
  ELSE call[a]

(* The rate is compared once, before a batch of random size: an hour has   *)
(* at most a batch more than the rate allows.  Not so for refills, which   *)
(* other handlers record, and for transfers, which an early return leaves  *)
(* to the next rounds (cron.service.ts 220, 260).                          *)
HourlyBound ==
  \A a \in Action \ {"SendCoti", "SendCotiFromFaucet"} :
    hour[a] + Due(a) > 0 => hour[a] + Due(a) < MaxPerHour[a] + Range[a]

(* Refills a handler will still send without asking again. *)
Promised(a) ==
  IF hpc[a] = "plan" THEN Range[a]
  ELSE IF a = "CreateAccount" THEN plan[a] + call[a] + refill[a]
  ELSE refill[a]

(* The protection is asked once, before a batch: when the faucet has too   *)
(* many bad transactions, each handler sends at most its range more, in    *)
(* however many rounds (cron.service.ts 294, 410, 448).                    *)
ProtectionBounded ==
  FaucetSendsTooMuch => \A a \in FaucetAction : late[a] + Promised(a) <= Range[a]

(* Every round ends, whether the node mines or not: the wait for the block *)
(* of a refill has a timeout, and only an onboarding that is never         *)
(* answered keeps a round, its own or another, from ending                 *)
(* (cron.service.ts 399-402, 436-442, 489).                                *)
Busy(T) == \E a \in T : hpc[a] # "idle"
RoundsEnd == \A T \in Task : []<>~Busy(T) \/ <>[]Onboarding

(* The steps a handler has left in its round at most: a new account takes  *)
(* a turn of the loop, its request and its refill, a new token a refill, a *)
(* wait and its request.                                                   *)
Effort(a) ==
  CASE hpc[a] = "idle"  -> 0
    [] hpc[a] = "check" -> 3 * Range[a] + 3
    [] hpc[a] = "plan"  -> 3 * Range[a] + 2
    [] hpc[a] = "work"  ->
         IF a = "CreateAccount" THEN 1 + 3 * plan[a] + 2 * call[a] + refill[a]
         ELSE 1 + 3 * refill[a] + 2 * wait[a] + call[a]
WorkOf(a) == <<hpc[a], plan[a], refill[a], wait[a], call[a]>>

(* A round is short: whatever changes a handler's work brings the handler  *)
(* closer to its end, and it starts at most three steps a request away,    *)
(* whoever else records or fails meanwhile (cron.service.ts 203-508).      *)
RoundsShrink ==
  [][ \A a \in Action :
        \/ WorkOf(a)' = WorkOf(a)
        \/ Effort(a)' < Effort(a)
        \/ hpc[a] = "idle" /\ Effort(a)' <= 3 * Range[a] + 3 ]_vars

(* Reverted refills are counted forever: once there are too many, there is *)
(* a time after which the tasks never refill again, unless an onboarding   *)
(* that is never answered holds them up (transactions.entity.ts 106-112).  *)
ProtectionLasts ==
  \/ <>[](reverted >= FaucetLimit => \A a \in Action : refill[a] = 0)
  \/ <>[]Onboarding

(* The inductive invariant: what a handler does in which position. *)
WorkInv ==
  \A a \in Action :
    /\ hpc[a] # "work" => plan[a] = 0 /\ refill[a] = 0 /\ wait[a] = 0 /\ call[a] = 0
    /\ a \notin FaucetAction => hpc[a] # "check" /\ refill[a] = 0
    /\ a \notin CreateTokenAction => wait[a] = 0
    /\ a # "CreateAccount" => plan[a] = 0
    /\ hpc[a] \in {"check", "plan"} => Range[a] > 0

RateInv ==
  \A a \in Action \ {"SendCoti", "SendCotiFromFaucet"} :
    hpc[a] \in {"check", "plan"} => hour[a] < MaxPerHour[a]

LateInv ==
  /\ ~FaucetSendsTooMuch => late = Nothing
  /\ \A a \in FaucetAction : late[a] + Promised(a) <= Range[a]

IInv == TypeOK /\ WorkInv /\ RateInv /\ HourlyBound /\ LateInv
=============================================================================
