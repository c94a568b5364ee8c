-------------------------- MODULE ActivitiesProofs --------------------------
(***************************************************************************)
(* Proofs about Activities, for any ranges, rates and limits.              *)
(***************************************************************************)
EXTENDS Activities, TLAPS

LEMMA ActionFacts ==
  /\ RunActivities \subseteq Action /\ RunSlowActivities \subseteq Action
  /\ \A T \in Task : T \subseteq Action
  /\ {"CreateAccount", "SendCoti", "SendCotiFromFaucet", "CreateToken", "CreatePrivateToken"} \subseteq Action
  /\ FaucetAction \subseteq Action
  /\ CreateTokenAction = {"CreateToken", "CreatePrivateToken"}
  /\ FaucetAction = {"CreateAccount", "SendCotiFromFaucet", "CreateToken", "CreatePrivateToken"}
BY DEF RunActivities, RunSlowActivities, Task, Action, FaucetAction, CreateTokenAction

LEMMA InitInv == Init => IInv
<1> SUFFICES ASSUME Init PROVE IInv
  OBVIOUS
<1>1. \A a \in Action : hpc[a] = "idle" /\ plan[a] = 0 /\ refill[a] = 0 /\ wait[a] = 0
                        /\ call[a] = 0 /\ hour[a] = 0 /\ late[a] = 0
  BY DEF Init, Nothing
<1>2. TypeOK
  BY BoundAssumption DEF Init, TypeOK, Nothing
<1>3. WorkInv /\ RateInv
  BY <1>1 DEF WorkInv, RateInv
<1>4. HourlyBound
  BY <1>1 DEF HourlyBound, Due
<1>5. LateInv
  <2>1. \A a \in FaucetAction : late[a] = 0 /\ Promised(a) = 0 /\ Range[a] \in Nat
    BY <1>1, ActionFacts, RangeAssumption DEF Promised
  <2>2. late = Nothing
    BY DEF Init
  <2> QED
    BY <2>1, <2>2 DEF LateInv
<1> QED
  BY <1>2, <1>3, <1>4, <1>5 DEF IInv

(* Every variable keeps its type: nothing is counted below zero.           *)
LEMMA TypeStep ==
  ASSUME IInv, [Next]_vars
  PROVE  TypeOK'
<1> USE ActionFacts, RangeAssumption, BoundAssumption
    DEF IInv, TypeOK, Nothing, Recorded
<1>1. ASSUME NEW T \in Task, StartRound(T) PROVE TypeOK'
  BY <1>1 DEF StartRound, rowVars, BelowRate
<1>2. ASSUME NEW a \in Action, Check(a) PROVE TypeOK'
  BY <1>2 DEF Check, rowVars
<1>3. ASSUME NEW a \in Action, NEW c \in 0 .. Range[a], Plan(a, c) PROVE TypeOK'
  BY <1>3 DEF Plan, rowVars
<1>4. ASSUME NEW c \in 0 .. Range["SendCoti"], EarlyReturn(c) PROVE TypeOK'
  BY <1>4 DEF EarlyReturn, rowVars
<1>5. ASSUME NEW a \in Action, Settle(a) PROVE TypeOK'
  BY <1>5 DEF Settle, rowVars
<1>6. ASSUME NextAccount PROVE TypeOK'
  BY <1>6 DEF NextAccount, rowVars
<1>7. ASSUME NEW a \in Action, CallDone(a) PROVE TypeOK'
  BY <1>7 DEF CallDone, rowVars
<1>8. ASSUME NEW a \in Action, CallFails(a) PROVE TypeOK'
  BY <1>8 DEF CallFails, rowVars
<1>9. ASSUME NEW a \in Action, RefillDone(a) PROVE TypeOK'
  BY <1>9 DEF RefillDone, rowVars
<1>10. ASSUME NEW a \in Action, RefillFails(a) PROVE TypeOK'
  BY <1>10 DEF RefillFails, rowVars
<1>11. ASSUME NEW a \in Action, WaitEnds(a) PROVE TypeOK'
  BY <1>11 DEF WaitEnds, rowVars
<1>12. ASSUME LeftDone PROVE TypeOK'
  BY <1>12 DEF LeftDone, rowVars
<1>13. ASSUME Included PROVE TypeOK'
  BY <1>13 DEF Included, Rows, workVars
<1>14. ASSUME TenMinutes PROVE TypeOK'
  BY <1>14 DEF TenMinutes, Rows, workVars
<1>15. ASSUME Cleaned PROVE TypeOK'
  BY <1>15 DEF Cleaned, Rows, workVars
<1>16. ASSUME NEW a \in Action, Forgotten(a) PROVE TypeOK'
  BY <1>16 DEF Forgotten, workVars, rowVars
<1>17. ASSUME Restart PROVE TypeOK'
  BY <1>17 DEF Restart, rowVars
<1>18. CASE UNCHANGED vars
  BY <1>18 DEF vars, workVars, rowVars
<1> QED
  BY <1>1, <1>2, <1>3, <1>4, <1>5, <1>6, <1>7, <1>8, <1>9, <1>10, <1>11, <1>12,
     <1>13, <1>14, <1>15, <1>16, <1>17, <1>18, ActionFacts
  DEF Next, Step, LeftRejected

(* Only a handler at work has requests, and only of its kind.              *)
LEMMA WorkStep ==
  ASSUME IInv, [Next]_vars
  PROVE  WorkInv'
<1> USE ActionFacts, RangeAssumption
    DEF IInv, TypeOK, WorkInv, Nothing, Recorded
<1>1. ASSUME NEW T \in Task, StartRound(T) PROVE WorkInv'
  BY <1>1 DEF StartRound, rowVars, BelowRate
<1>2. ASSUME NEW a \in Action, Check(a) PROVE WorkInv'
  BY <1>2 DEF Check, rowVars
<1>3. ASSUME NEW a \in Action, NEW c \in 0 .. Range[a], Plan(a, c) PROVE WorkInv'
  BY <1>3 DEF Plan, rowVars
<1>4. ASSUME NEW c \in 0 .. Range["SendCoti"], EarlyReturn(c) PROVE WorkInv'
  BY <1>4 DEF EarlyReturn, rowVars
<1>5. ASSUME NEW a \in Action, Settle(a) PROVE WorkInv'
  BY <1>5 DEF Settle, rowVars
<1>6. ASSUME NextAccount PROVE WorkInv'
  BY <1>6 DEF NextAccount, rowVars
<1>7. ASSUME NEW a \in Action, CallDone(a) PROVE WorkInv'
  BY <1>7 DEF CallDone, rowVars
<1>8. ASSUME NEW a \in Action, CallFails(a) PROVE WorkInv'
  BY <1>8 DEF CallFails, rowVars
<1>9. ASSUME NEW a \in Action, RefillDone(a) PROVE WorkInv'
  BY <1>9 DEF RefillDone, rowVars
<1>10. ASSUME NEW a \in Action, RefillFails(a) PROVE WorkInv'
  BY <1>10 DEF RefillFails, rowVars
<1>11. ASSUME NEW a \in Action, WaitEnds(a) PROVE WorkInv'
  BY <1>11 DEF WaitEnds, rowVars
<1>12. ASSUME LeftDone PROVE WorkInv'
  BY <1>12 DEF LeftDone, rowVars
<1>13. ASSUME Included PROVE WorkInv'
  BY <1>13 DEF Included, Rows, workVars
<1>14. ASSUME TenMinutes PROVE WorkInv'
  BY <1>14 DEF TenMinutes, Rows, workVars
<1>15. ASSUME Cleaned PROVE WorkInv'
  BY <1>15 DEF Cleaned, Rows, workVars
<1>16. ASSUME NEW a \in Action, Forgotten(a) PROVE WorkInv'
  BY <1>16 DEF Forgotten, workVars, rowVars
<1>17. ASSUME Restart PROVE WorkInv'
  BY <1>17 DEF Restart, rowVars
<1>18. CASE UNCHANGED vars
  BY <1>18 DEF vars, workVars, rowVars
<1> QED
  BY <1>1, <1>2, <1>3, <1>4, <1>5, <1>6, <1>7, <1>8, <1>9, <1>10, <1>11, <1>12,
     <1>13, <1>14, <1>15, <1>16, <1>17, <1>18, ActionFacts
  DEF Next, Step, LeftRejected

(* No activity is recorded between the comparison and the batch.           *)
LEMMA RateStep ==
  ASSUME IInv, [Next]_vars
  PROVE  RateInv'
<1> USE ActionFacts, RateAssumption
    DEF IInv, TypeOK, WorkInv, RateInv, Nothing, Recorded
<1>1. ASSUME NEW T \in Task, StartRound(T) PROVE RateInv'
  BY <1>1 DEF StartRound, rowVars, BelowRate
<1>2. ASSUME NEW a \in Action, Check(a) PROVE RateInv'
  BY <1>2 DEF Check, rowVars
<1>3. ASSUME NEW a \in Action, NEW c \in 0 .. Range[a], Plan(a, c) PROVE RateInv'
  BY <1>3 DEF Plan, rowVars
<1>4. ASSUME NEW c \in 0 .. Range["SendCoti"], EarlyReturn(c) PROVE RateInv'
  BY <1>4 DEF EarlyReturn, rowVars
<1>5. ASSUME NEW a \in Action, Settle(a) PROVE RateInv'
  BY <1>5 DEF Settle, rowVars
<1>6. ASSUME NextAccount PROVE RateInv'
  BY <1>6 DEF NextAccount, rowVars
<1>7. ASSUME NEW a \in Action, CallDone(a) PROVE RateInv'
  BY <1>7 DEF CallDone, rowVars
<1>8. ASSUME NEW a \in Action, CallFails(a) PROVE RateInv'
  BY <1>8 DEF CallFails, rowVars
<1>9. ASSUME NEW a \in Action, RefillDone(a) PROVE RateInv'
  BY <1>9 DEF RefillDone, rowVars
<1>10. ASSUME NEW a \in Action, RefillFails(a) PROVE RateInv'
  BY <1>10 DEF RefillFails, rowVars
<1>11. ASSUME NEW a \in Action, WaitEnds(a) PROVE RateInv'
  BY <1>11 DEF WaitEnds, rowVars
<1>12. ASSUME LeftDone PROVE RateInv'
  BY <1>12 DEF LeftDone, rowVars
<1>13. ASSUME Included PROVE RateInv'
  BY <1>13 DEF Included, Rows, workVars
<1>14. ASSUME TenMinutes PROVE RateInv'
  BY <1>14 DEF TenMinutes, Rows, workVars
<1>15. ASSUME Cleaned PROVE RateInv'
  BY <1>15 DEF Cleaned, Rows, workVars
<1>16. ASSUME NEW a \in Action, Forgotten(a) PROVE RateInv'
  BY <1>16 DEF Forgotten, workVars, rowVars
<1>17. ASSUME Restart PROVE RateInv'
  BY <1>17 DEF Restart, rowVars
<1>18. CASE UNCHANGED vars
  BY <1>18 DEF vars, workVars, rowVars
<1> QED
  BY <1>1, <1>2, <1>3, <1>4, <1>5, <1>6, <1>7, <1>8, <1>9, <1>10, <1>11, <1>12,
     <1>13, <1>14, <1>15, <1>16, <1>17, <1>18, ActionFacts
  DEF Next, Step, LeftRejected

(* Requests that are still due are as good as recorded. *)
LEMMA DueType ==
  ASSUME TypeOK, NEW a \in Action
  PROVE  Due(a) \in Nat /\ hour[a] \in Nat
BY ActionFacts DEF TypeOK, Due

(* What is recorded was due, and what becomes due fits in the bound.       *)
LEMMA HourlyStep ==
  ASSUME IInv, [Next]_vars
  PROVE  HourlyBound'
<1> USE ActionFacts, RateAssumption, RangeAssumption
    DEF IInv, TypeOK, WorkInv, RateInv, HourlyBound, Due, Nothing, Recorded
<1>1. ASSUME NEW T \in Task, StartRound(T) PROVE HourlyBound'
  BY <1>1 DEF StartRound, rowVars, BelowRate
<1>2. ASSUME NEW a \in Action, Check(a) PROVE HourlyBound'
  BY <1>2 DEF Check, rowVars
<1>3. ASSUME NEW a \in Action, NEW c \in 0 .. Range[a], Plan(a, c) PROVE HourlyBound'
  <2> SUFFICES ASSUME NEW b \in Action \ {"SendCoti", "SendCotiFromFaucet"},
                      hour'[b] + Due(b)' > 0
               PROVE  hour'[b] + Due(b)' < MaxPerHour[b] + Range[b]
    BY Zenon DEF HourlyBound
  <2>1. CASE b # a
    BY <1>3, <2>1 DEF Plan, rowVars
  <2>2. CASE b = a
    <3>1. Due(b)' <= Range[b] /\ Due(b)' \in Nat
      BY <1>3, <2>2 DEF Plan
    <3>2. hour'[b] = hour[b] /\ hour[b] < MaxPerHour[b]
      BY <1>3, <2>2 DEF Plan
    <3> QED
      BY <3>1, <3>2
  <2> QED
    BY <2>1, <2>2
<1>4. ASSUME NEW c \in 0 .. Range["SendCoti"], EarlyReturn(c) PROVE HourlyBound'
  BY <1>4 DEF EarlyReturn, rowVars
<1>5. ASSUME NEW a \in Action, Settle(a) PROVE HourlyBound'
  BY <1>5 DEF Settle, rowVars
<1>6. ASSUME NextAccount PROVE HourlyBound'
  BY <1>6 DEF NextAccount, rowVars
<1>7. ASSUME NEW a \in Action, CallDone(a) PROVE HourlyBound'
  BY <1>7 DEF CallDone, rowVars
<1>8. ASSUME NEW a \in Action, CallFails(a) PROVE HourlyBound'
  BY <1>8 DEF CallFails, rowVars
<1>9. ASSUME NEW a \in Action, RefillDone(a) PROVE HourlyBound'
  BY <1>9 DEF RefillDone, rowVars
<1>10. ASSUME NEW a \in Action, RefillFails(a) PROVE HourlyBound'
  BY <1>10 DEF RefillFails, rowVars
<1>11. ASSUME NEW a \in Action, WaitEnds(a) PROVE HourlyBound'
  BY <1>11 DEF WaitEnds, rowVars
<1>12. ASSUME LeftDone PROVE HourlyBound'
  BY <1>12 DEF LeftDone, rowVars
<1>13. ASSUME Included PROVE HourlyBound'
  BY <1>13 DEF Included, Rows, workVars
<1>14. ASSUME TenMinutes PROVE HourlyBound'
  BY <1>14 DEF TenMinutes, Rows, workVars
<1>15. ASSUME Cleaned PROVE HourlyBound'
  BY <1>15 DEF Cleaned, Rows, workVars
<1>16. ASSUME NEW a \in Action, Forgotten(a) PROVE HourlyBound'
  BY <1>16 DEF Forgotten, workVars, rowVars
<1>17. ASSUME Restart PROVE HourlyBound'
  <2> SUFFICES ASSUME NEW b \in Action \ {"SendCoti", "SendCotiFromFaucet"},
                      hour'[b] + Due(b)' > 0
               PROVE  hour'[b] + Due(b)' < MaxPerHour[b] + Range[b]
    BY Zenon DEF HourlyBound
  <2>1. Due(b)' = 0 /\ hour'[b] = hour[b]
    BY <1>17 DEF Restart
  <2> QED
    BY <2>1, DueType
<1>18. CASE UNCHANGED vars
  BY <1>18 DEF vars, workVars, rowVars
<1> QED
  BY <1>1, <1>2, <1>3, <1>4, <1>5, <1>6, <1>7, <1>8, <1>9, <1>10, <1>11, <1>12,
     <1>13, <1>14, <1>15, <1>16, <1>17, <1>18, ActionFacts
  DEF Next, Step, LeftRejected

(* A refill that is sent late was promised before it was too late.         *)
LEMMA LateStep ==
  ASSUME IInv, [Next]_vars
  PROVE  LateInv'
<1> USE ActionFacts, BoundAssumption, RangeAssumption
    DEF IInv, TypeOK, WorkInv, LateInv, Promised, Nothing, Recorded, FaucetSendsTooMuch, TooBig
<1>1. ASSUME NEW T \in Task, StartRound(T) PROVE LateInv'
  BY <1>1 DEF StartRound, rowVars, BelowRate
<1>2. ASSUME NEW a \in Action, Check(a) PROVE LateInv'
  BY <1>2 DEF Check, rowVars
<1>3. ASSUME NEW a \in Action, NEW c \in 0 .. Range[a], Plan(a, c) PROVE LateInv'
  <2>1. FaucetSendsTooMuch' = FaucetSendsTooMuch /\ late' = late
    BY <1>3 DEF Plan, rowVars
  <2>2. ASSUME NEW b \in FaucetAction
        PROVE  late'[b] + Promised(b)' <= Range[b]
    <3>1. CASE b # a
      BY <1>3, <2>1, <3>1 DEF Plan
    <3>2. CASE b = a
      <4>1. Promised(b)' <= Promised(b) /\ Promised(b)' \in Nat
        BY <1>3, <3>2 DEF Plan
      <4> QED
        BY <2>1, <4>1
    <3> QED
      BY <3>1, <3>2
  <2> QED
    BY <2>1, <2>2
<1>4. ASSUME NEW c \in 0 .. Range["SendCoti"], EarlyReturn(c) PROVE LateInv'
  BY <1>4 DEF EarlyReturn, rowVars
<1>5. ASSUME NEW a \in Action, Settle(a) PROVE LateInv'
  BY <1>5 DEF Settle, rowVars
<1>6. ASSUME NextAccount PROVE LateInv'
  BY <1>6 DEF NextAccount, rowVars
<1>7. ASSUME NEW a \in Action, CallDone(a) PROVE LateInv'
  BY <1>7 DEF CallDone, rowVars
<1>8. ASSUME NEW a \in Action, CallFails(a) PROVE LateInv'
  BY <1>8 DEF CallFails, rowVars
<1>9. ASSUME NEW a \in Action, RefillDone(a) PROVE LateInv'
  <2>1. FaucetSendsTooMuch' = FaucetSendsTooMuch
    BY <1>9 DEF RefillDone
  <2>2. ~FaucetSendsTooMuch => late' = Nothing
    BY <1>9 DEF RefillDone
  <2>3. ASSUME NEW b \in FaucetAction
        PROVE  late'[b] + Promised(b)' <= Range[b]
    <3>1. CASE b # a
      BY <1>9, <3>1 DEF RefillDone
    <3>2. CASE b = a
      <4>1. Promised(b)' = Promised(b) - 1 /\ Promised(b) \in Nat
        BY <1>9, <3>2 DEF RefillDone
      <4>2. late'[b] <= late[b] + 1 /\ late'[b] \in Nat
        BY <1>9, <3>2 DEF RefillDone
      <4> QED
        BY <4>1, <4>2
    <3> QED
      BY <3>1, <3>2
  <2> QED
    BY <2>1, <2>2, <2>3
<1>10. ASSUME NEW a \in Action, RefillFails(a) PROVE LateInv'
  BY <1>10 DEF RefillFails, rowVars
<1>11. ASSUME NEW a \in Action, WaitEnds(a) PROVE LateInv'
  BY <1>11 DEF WaitEnds, rowVars
<1>12. ASSUME LeftDone PROVE LateInv'
  BY <1>12 DEF LeftDone, rowVars
<1>13. ASSUME Included PROVE LateInv'
  BY <1>13 DEF Included, Rows, workVars
<1>14. ASSUME TenMinutes PROVE LateInv'
  BY <1>14 DEF TenMinutes, Rows, workVars
<1>15. ASSUME Cleaned PROVE LateInv'
  BY <1>15 DEF Cleaned, Rows, workVars
<1>16. ASSUME NEW a \in Action, Forgotten(a) PROVE LateInv'
  BY <1>16 DEF Forgotten, workVars, rowVars
<1>17. ASSUME Restart PROVE LateInv'
  BY <1>17 DEF Restart, rowVars
<1>18. CASE UNCHANGED vars
  BY <1>18 DEF vars, workVars, rowVars
<1> QED
  BY <1>1, <1>2, <1>3, <1>4, <1>5, <1>6, <1>7, <1>8, <1>9, <1>10, <1>11, <1>12,
     <1>13, <1>14, <1>15, <1>16, <1>17, <1>18, ActionFacts
  DEF Next, Step, LeftRejected

----------------------------------------------------------------------------

THEOREM Inductive == Spec => []IInv
<1>1. IInv /\ [Next]_vars => IInv'
  BY TypeStep, WorkStep, RateStep, HourlyStep, LateStep DEF IInv
<1> QED
  BY InitInv, <1>1, PTL DEF Spec

(* The tasks' counters stay natural numbers for any ranges and rates: no   *)
(* request is settled twice (cron.service.ts 203-288).                     *)
THEOREM TypeCorrect == Spec => []TypeOK
<1>1. IInv => TypeOK
  BY DEF IInv
<1> QED
  BY Inductive, <1>1, PTL

(* For any rates and ranges, an hour has less than a batch more than the   *)
(* rate allows (cron.service.ts 220, 260).                                 *)
THEOREM HourlyBounded == Spec => []HourlyBound
<1>1. IInv => HourlyBound
  BY DEF IInv
<1> QED
  BY Inductive, <1>1, PTL

(* For any limit and ranges, a handler of a faucet with too many bad       *)
(* transactions sends at most its range more (cron.service.ts 294, 410,    *)
(* 448).                                                                   *)
THEOREM ProtectionStaysBounded == Spec => []ProtectionBounded
<1>1. IInv => ProtectionBounded
  BY DEF IInv, LateInv, ProtectionBounded
<1> QED
  BY Inductive, <1>1, PTL

(* A step changes the work of one handler at most, or of all at a start    *)
(* and at a restart, and none that is under way gets longer.               *)
LEMMA EffortStep ==
  ASSUME IInv, [Next]_vars
  PROVE  \A b \in Action :
           \/ WorkOf(b)' = WorkOf(b)
           \/ Effort(b)' < Effort(b)
           \/ hpc[b] = "idle" /\ Effort(b)' <= 3 * Range[b] + 3
<1> SUFFICES ASSUME NEW b \in Action
             PROVE  \/ WorkOf(b)' = WorkOf(b)
                    \/ Effort(b)' < Effort(b)
                    \/ hpc[b] = "idle" /\ Effort(b)' <= 3 * Range[b] + 3
  OBVIOUS
<1> DEFINE G == \/ WorkOf(b)' = WorkOf(b)
                \/ Effort(b)' < Effort(b)
                \/ hpc[b] = "idle" /\ Effort(b)' <= 3 * Range[b] + 3
<1> USE ActionFacts, RangeAssumption DEF IInv, TypeOK, WorkInv, WorkOf, Effort, Nothing
<1>1. ASSUME NEW T \in Task, StartRound(T) PROVE G
  BY <1>1 DEF StartRound, BelowRate
<1>2. ASSUME NEW a \in Action, Check(a) PROVE G
  BY <1>2 DEF Check
<1>3. ASSUME NEW a \in Action, NEW c \in 0 .. Range[a], Plan(a, c) PROVE G
  BY <1>3 DEF Plan
<1>4. ASSUME NEW c \in 0 .. Range["SendCoti"], EarlyReturn(c) PROVE G
  BY <1>4 DEF EarlyReturn
<1>5. ASSUME NEW a \in Action, Settle(a) PROVE G
  BY <1>5 DEF Settle
<1>6. ASSUME NextAccount PROVE G
  BY <1>6 DEF NextAccount
<1>7. ASSUME NEW a \in Action, CallDone(a) PROVE G
  BY <1>7 DEF CallDone
<1>8. ASSUME NEW a \in Action, CallFails(a) PROVE G
  BY <1>8 DEF CallFails
<1>9. ASSUME NEW a \in Action, RefillDone(a) PROVE G
  BY <1>9 DEF RefillDone
<1>10. ASSUME NEW a \in Action, RefillFails(a) PROVE G
  BY <1>10 DEF RefillFails
<1>11. ASSUME NEW a \in Action, WaitEnds(a) PROVE G
  BY <1>11 DEF WaitEnds
<1>12. ASSUME LeftDone PROVE G
  BY <1>12 DEF LeftDone
<1>13. ASSUME Included \/ TenMinutes \/ Cleaned PROVE G
  BY <1>13 DEF Included, TenMinutes, Cleaned, workVars
<1>14. ASSUME NEW a \in Action, Forgotten(a) PROVE G
  BY <1>14 DEF Forgotten, workVars
<1>15. ASSUME Restart PROVE G
  <2>1. Effort(b)' = 0
    BY <1>15 DEF Restart
  <2>2. CASE hpc[b] = "idle"
    <3>1. 0 <= 3 * Range[b] + 3
      OBVIOUS
    <3> HIDE DEF Effort
    <3> QED
      BY <2>1, <2>2, <3>1
  <2>3. CASE hpc[b] # "idle"
    <3>1. Effort(b) \in Nat /\ Effort(b) > 0
      BY <2>3
    <3> QED
      BY <2>1, <3>1
  <2> QED
    BY <2>2, <2>3
<1>16. ASSUME UNCHANGED vars PROVE G
  BY <1>16 DEF vars, workVars
<1> HIDE DEF IInv, TypeOK, WorkInv, WorkOf, Effort, Nothing
<1> QED
  BY <1>1, <1>2, <1>3, <1>4, <1>5, <1>6, <1>7, <1>8, <1>9, <1>10, <1>11, <1>12,
     <1>13, <1>14, <1>15, <1>16
  DEF Next, Step, LeftRejected

(* For any ranges, a handler is done after at most three steps a request   *)
(* and three more, however the other handlers and the node move            *)
(* (cron.service.ts 203-508).                                              *)
THEOREM RoundsGetShorter == Spec => RoundsShrink
<1>1. IInv /\ [Next]_vars =>
        [ \A a \in Action :
            \/ WorkOf(a)' = WorkOf(a)
            \/ Effort(a)' < Effort(a)
            \/ hpc[a] = "idle" /\ Effort(a)' <= 3 * Range[a] + 3 ]_vars
  BY EffortStep
<1> QED
  BY <1>1, Inductive, PTL DEF Spec, RoundsShrink
=============================================================================
