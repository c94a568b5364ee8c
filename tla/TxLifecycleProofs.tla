------------------------- MODULE TxLifecycleProofs -------------------------
(***************************************************************************)
(* Proofs about TxLifecycle for every number of transactions, every set of *)
(* accounts and faucets and every batch size.                              *)
(***************************************************************************)
EXTENDS TxLifecycle, TLAPS

(* A transaction and its cancellation are different hashes, and every hash *)
(* is one or the other.                                                    *)
LEMMA HashFacts ==
  /\ Tx \subseteq Hash
  /\ Cancellation \subseteq Hash
  /\ Cancellation \cap Tx = {}
  /\ \A h \in Hash : h \in Tx \/ h \in Cancellation
  /\ \A t \in Tx : Cancel(t) \in Cancellation /\ Cancel(t) \in Hash /\ Cancel(t) # t
  /\ \A t, u \in Tx : Cancel(t) = Cancel(u) => t = u
  /\ \A h \in Cancellation : Cancel(h) \in Tx /\ Cancel(Cancel(h)) = h
BY NumTxAssumption DEF Tx, Hash, Cancellation, Cancel

LEMMA InitType == Init => TypeOK
<1> SUFFICES ASSUME Init PROVE TypeOK
  OBVIOUS
<1>1. ChainTypeOK
  BY FaucetAssumption DEF Init, ChainTypeOK, Addr, NetState
<1>2. chk \in [Hash -> CheckStage] /\ cln \in [Hash -> CleanStage]
  BY DEF Init, CheckStage, CleanStage
<1> QED
  BY <1>1, <1>2, FaucetAssumption DEF Init, TypeOK, Stage, RowStatus

LEMMA TypeStep == TypeOK /\ [Next]_vars => TypeOK'
<1> SUFFICES ASSUME TypeOK, [Next]_vars PROVE TypeOK'
  OBVIOUS
<1> USE HashFacts, FaucetAssumption
<1>1. ASSUME NEW t \in Tx, NEW a \in Addr, NEW n \in 0 .. NumTx, BeginSend(t, a, n)
      PROVE  TypeOK'
  BY <1>1, NumTxAssumption DEF BeginSend, Sign, TypeOK, ChainTypeOK, Stage, dbVars
<1>2. ASSUME NEW t \in Tx, BeginHandover(t) PROVE TypeOK'
  BY <1>2 DEF BeginHandover, Sign, TypeOK, ChainTypeOK, Stage, Addr, dbVars
<1>3. ASSUME NEW t \in Tx, Broadcast(t) PROVE TypeOK'
  BY <1>3 DEF Broadcast, Pool, TypeOK, ChainTypeOK, Stage, NetState, dbVars
<1>4. ASSUME NEW t \in Tx, SaveTransaction(t) PROVE TypeOK'
  BY <1>4 DEF SaveTransaction, TypeOK, ChainTypeOK, Stage, chainVars
<1>5. ASSUME NEW t \in Tx, CommitHandover(t) PROVE TypeOK'
  BY <1>5 DEF CommitHandover, TypeOK, ChainTypeOK, Stage, chainVars, dbVars
<1>6. ASSUME NEW T \in SUBSET Tx, Discard(T), UNCHANGED calm,
             chk' \in [Hash -> CheckStage], cln' \in [Hash -> CleanStage]
      PROVE  TypeOK'
  BY <1>6 DEF Discard, TypeOK, ChainTypeOK, Stage, Addr, dbVars
<1>7. ASSUME NEW t \in Tx, Abort(t) PROVE TypeOK'
  BY <1>6, <1>7 DEF Abort, TypeOK
<1>8. CASE Crash
  BY <1>6, <1>8 DEF Crash, CheckStage, CleanStage
<1>9. ASSUME NEW h \in Hash, TenMinutesPass(h) PROVE TypeOK'
  BY <1>9 DEF TenMinutesPass, TypeOK, ChainTypeOK, chainVars, sendVars
<1>10. ASSUME UNCHANGED <<chainVars, sendVars, dbVars, calm>>,
              chk' \in [Hash -> CheckStage], cln' \in [Hash -> CleanStage]
       PROVE  TypeOK'
  BY <1>10 DEF TypeOK, ChainTypeOK, chainVars, sendVars, dbVars
<1>11. ASSUME NEW S \in SUBSET Hash, CheckFetch(S) \/ CleanFetch(S) PROVE TypeOK'
  BY <1>10, <1>11 DEF CheckFetch, CleanFetch, TypeOK, CheckStage, CleanStage
<1>12. ASSUME NEW h \in Hash,
              CheckReceipt(h) \/ CheckReceiptError(h) \/ CleanReceipt(h) \/ CleanReceiptError(h)
       PROVE  TypeOK'
  BY <1>10, <1>12 DEF CheckReceipt, CheckReceiptError, CleanReceipt, CleanReceiptError,
     Receipt, Mined, TypeOK, ChainTypeOK, CheckStage, CleanStage, Answer
<1>13. CASE CheckAbort \/ CleanAbort
  BY <1>10, <1>13 DEF CheckAbort, CleanAbort, TypeOK, CheckStage, CleanStage
<1>14. CASE CheckSave
  BY <1>14 DEF CheckSave, CheckedStatus, TypeOK, ChainTypeOK, chainVars, sendVars,
     RowStatus, Outcome, CheckStage
<1>15. ASSUME NEW feeData \in BOOLEAN, CleanSave(feeData) PROVE TypeOK'
  BY <1>15 DEF CleanSave, Receipted, TypeOK, ChainTypeOK, chainVars, sendVars,
     RowStatus, Outcome, CheckStage, CleanStage, CancelStage
<1>16. ASSUME NEW h \in Hash, CancelNonce(h) \/ CancelKey(h) \/ CancelWaited(h) \/ CancelError(h)
       PROVE  TypeOK'
  BY <1>10, <1>16 DEF CancelNonce, CancelKey, CancelWaited, CancelError, TypeOK, CheckStage,
     CleanStage, CancelStage
<1>17. ASSUME NEW h \in Hash, CancelSend(h) PROVE TypeOK'
  BY <1>17 DEF CancelSend, Pool, TypeOK, ChainTypeOK, sendVars, dbVars, NetState,
     CleanStage, CancelStage
<1>18. ASSUME NEW h \in Hash, CancelRecord(h) PROVE TypeOK'
  BY <1>18 DEF CancelRecord, TypeOK, ChainTypeOK, chainVars, sendVars, CleanStage, CancelStage
<1>19. ASSUME NEW h \in Hash, CancelMark(h) PROVE TypeOK'
  BY <1>19 DEF CancelMark, TypeOK, ChainTypeOK, chainVars, sendVars, RowStatus, CheckStage,
     CleanStage
<1>20. ASSUME NEW h \in Hash, NodeMine(h) PROVE TypeOK'
  BY <1>20 DEF NodeMine, Mine, nonChain, TypeOK, ChainTypeOK, sendVars, dbVars, NetState, Outcome
<1>21. ASSUME NEW h \in Hash, NodeDrop(h) \/ NodeRegossip(h) PROVE TypeOK'
  BY <1>21 DEF NodeDrop, NodeRegossip, Drop, Regossip, Pool, nonChain, TypeOK, ChainTypeOK,
     sendVars, dbVars, NetState
<1>22. CASE BecomeCalm
  BY <1>22 DEF BecomeCalm, TypeOK, ChainTypeOK, chainVars, sendVars, dbVars
<1>23. CASE UNCHANGED vars
  BY <1>23 DEF vars, TypeOK, ChainTypeOK, chainVars, sendVars, dbVars
<1> QED
  BY <1>1, <1>2, <1>3, <1>4, <1>5, <1>7, <1>8, <1>9, <1>11, <1>12, <1>13, <1>14, <1>15,
     <1>16, <1>17, <1>18, <1>19, <1>20, <1>21, <1>22, <1>23
  DEF Next, Request, Checker, Cleaner, CancelStep, Environment

----------------------------------------------------------------------------

(* The chain only goes forward: what was sent stays sent, by the same      *)
(* sender with the same nonce, what is included stays included, what lost  *)
(* its nonce never is, and confirmed nonces do not decrease.               *)
Monotone ==
  /\ \A h \in Hash : net[h] # "unsent" =>
       net'[h] # "unsent" /\ from'[h] = from[h] /\ nonce'[h] = nonce[h]
  /\ \A h \in Hash : Mined(h) => net'[h] = net[h]
  /\ \A h \in Hash : net[h] # "unsent" /\ ~Mined(h) /\ NonceSpent(h) => ~Mined(h)'
  /\ \A a \in Addr : latest'[a] >= latest[a]

LEMMA ChainForward ==
  ASSUME IInv, [Next]_vars
  PROVE  Monotone
<1> USE HashFacts DEF IInv, TypeOK, ChainTypeOK
<1>1. ASSUME UNCHANGED chainVars PROVE Monotone
  BY <1>1 DEF Monotone, chainVars, Mined
<1>2. ASSUME NEW t \in Tx, NEW a \in Addr, NEW n \in 0 .. NumTx, NEW stage \in Stage,
             Sign(t, a, n, stage)
      PROVE  Monotone
  BY <1>2 DEF Sign, NextUnused, Unused, Monotone, Mined
<1>3. ASSUME NEW t \in Tx, BeginHandover(t) PROVE Monotone
  BY <1>3 DEF BeginHandover, Sign, NextUnused, Unused, Monotone, Mined
<1>4. ASSUME NEW T \in SUBSET Tx, Discard(T) PROVE Monotone
  BY <1>4 DEF Discard, Monotone, Mined
<1>5. ASSUME NEW t \in Tx, Broadcast(t) PROVE Monotone
  BY <1>5 DEF Broadcast, Pool, RequestInv, Mined, Outcome, Live, NonceSpent, Monotone
<1>6. ASSUME NEW h \in Hash, CancelSend(h) PROVE Monotone
  <2>1. h \in Tx
    BY <1>6 DEF CancelSend, TaskInv, CancelsOnlyOriginals
  <2>2. ~Mined(Cancel(h))
    BY <1>6, <2>1 DEF CancelSend, Pool, NonceInv, NonceSpent, Mined, Outcome
  <2> QED
    BY <1>6, <2>1, <2>2 DEF CancelSend, Pool, NonceInv, Mined, Outcome, Live, NonceSpent, Monotone
<1>7. ASSUME NEW h \in Hash, NodeMine(h) PROVE Monotone
  BY <1>7 DEF NodeMine, Mine, Live, Mined, Outcome, NonceSpent,
     Monotone
<1>8. ASSUME NEW h \in Hash, NodeDrop(h) \/ NodeRegossip(h) PROVE Monotone
  BY <1>8 DEF NodeDrop, Drop, NodeRegossip, Regossip, Pool, Live, Mined, Outcome, NonceSpent,
     Monotone
<1> QED
  <2>1. ASSUME NEW t \in Tx, NEW a \in Addr, NEW n \in 0 .. NumTx, BeginSend(t, a, n)
        PROVE  Monotone
    BY <1>2, <2>1 DEF BeginSend, Stage
  <2>2. ASSUME NEW t \in Tx, Abort(t) PROVE Monotone
    BY <1>4, <2>2 DEF Abort
  <2>3. CASE Crash
    BY <1>4, <2>3 DEF Crash
  <2>4. CASE UNCHANGED vars
    BY <1>1, <2>4 DEF vars
  <2>5. CASE BecomeCalm
    BY <1>1, <2>5 DEF BecomeCalm
  <2>6. ASSUME NEW t \in Tx, SaveTransaction(t) \/ CommitHandover(t) PROVE Monotone
    BY <1>1, <2>6 DEF SaveTransaction, CommitHandover
  <2>7. CASE Checker
    BY <1>1, <2>7 DEF Checker, CheckFetch, CheckReceipt, CheckReceiptError, CheckSave, CheckAbort
  <2>8. CASE Cleaner
    BY <1>1, <1>6, <2>8 DEF Cleaner, CleanFetch, CleanReceipt, CleanReceiptError, CleanSave,
       CleanAbort, CancelStep, CancelNonce, CancelKey, CancelWaited, CancelRecord, CancelMark,
       CancelError
  <2>9. ASSUME NEW h \in Hash, TenMinutesPass(h) PROVE Monotone
    BY <1>1, <2>9 DEF TenMinutesPass
  <2> QED
    BY <1>3, <1>5, <1>7, <1>8, <2>1, <2>2, <2>3, <2>4, <2>5, <2>6, <2>7, <2>8, <2>9
    DEF Next, Request, Environment

(* Requests hold what they signed, one at a time with the faucet's key. *)
LEMMA RequestStep ==
  ASSUME IInv, [Next]_vars
  PROVE  RequestInv'
<1> USE HashFacts, FaucetAssumption DEF IInv, TypeOK, ChainTypeOK
<1>1. ASSUME UNCHANGED <<net, from, sendVars>> PROVE RequestInv'
  BY <1>1 DEF RequestInv, InFlight, sendVars
<1>2. ASSUME NEW t \in Tx, NEW a \in Addr, NEW n \in 0 .. NumTx, BeginSend(t, a, n)
      PROVE  RequestInv'
  BY <1>2 DEF BeginSend, Sign, NextUnused, Unused, FaucetUnlocked, RequestInv, InFlight
<1>3. ASSUME NEW t \in Tx, BeginHandover(t) PROVE RequestInv'
  BY <1>3 DEF BeginHandover, Sign, NextUnused, Unused, FaucetUnlocked, RequestInv, InFlight
<1>4. ASSUME NEW t \in Tx, Broadcast(t) PROVE RequestInv'
  BY <1>4 DEF Broadcast, Pool, RequestInv, InFlight, Live
<1>5. ASSUME NEW t \in Tx, SaveTransaction(t) PROVE RequestInv'
  BY <1>5 DEF SaveTransaction, chainVars, RequestInv, InFlight
<1>6. ASSUME NEW t \in Tx, CommitHandover(t) PROVE RequestInv'
  BY <1>6 DEF CommitHandover, chainVars, RequestInv, InFlight
<1>7. ASSUME NEW T \in SUBSET Tx, Discard(T) PROVE RequestInv'
  BY <1>7 DEF Discard, RequestInv, InFlight
<1>8. ASSUME NEW h \in Hash, CancelSend(h) PROVE RequestInv'
  <2>1. h \in Tx
    BY <1>8 DEF CancelSend, TaskInv, CancelsOnlyOriginals
  <2> QED
    BY <1>8, <2>1 DEF CancelSend, Pool, Live, sendVars, RequestInv, InFlight
<1>9. ASSUME NEW h \in Hash, NodeMine(h) \/ NodeDrop(h) \/ NodeRegossip(h) PROVE RequestInv'
  BY <1>9 DEF NodeMine, Mine, NodeDrop, Drop, NodeRegossip, Regossip, Pool, Live, Outcome,
     nonChain, sendVars, RequestInv, InFlight
<1> QED
  <2>1. ASSUME NEW t \in Tx, Abort(t) PROVE RequestInv'
    BY <1>7, <2>1 DEF Abort
  <2>2. CASE Crash
    BY <1>7, <2>2 DEF Crash
  <2>3. CASE Checker
    BY <1>1, <2>3 DEF Checker, CheckFetch, CheckReceipt, CheckReceiptError, CheckSave, CheckAbort,
       chainVars
  <2>4. CASE Cleaner
    BY <1>1, <1>8, <2>4 DEF Cleaner, CleanFetch, CleanReceipt, CleanReceiptError, CleanSave,
       CleanAbort, CancelStep, CancelNonce, CancelKey, CancelWaited, CancelRecord, CancelMark,
       CancelError,
       chainVars
  <2>5. ASSUME NEW h \in Hash, TenMinutesPass(h) PROVE RequestInv'
    BY <1>1, <2>5 DEF TenMinutesPass, chainVars
  <2>6. CASE BecomeCalm \/ UNCHANGED vars
    BY <1>1, <2>6 DEF BecomeCalm, vars, chainVars
  <2> QED
    BY <1>2, <1>3, <1>4, <1>5, <1>6, <1>9, <2>1, <2>2, <2>3, <2>4, <2>5, <2>6
    DEF Next, Request, Environment

(* Nonces are spent once. *)
LEMMA NonceStep ==
  ASSUME IInv, [Next]_vars
  PROVE  NonceInv'
<1> USE HashFacts, FaucetAssumption DEF IInv, TypeOK, ChainTypeOK
<1>1. ASSUME UNCHANGED chainVars PROVE NonceInv'
  BY <1>1 DEF chainVars, NonceInv, Mined, NonceSpent
<1>2. ASSUME NEW t \in Tx, net[t] = "unsent", UNCHANGED <<net, latest>>,
             \A h \in Hash : h # t => from'[h] = from[h] /\ nonce'[h] = nonce[h]
      PROVE  NonceInv'
  BY <1>2 DEF NonceInv, Mined, NonceSpent, Outcome
<1>3. ASSUME NEW t \in Tx, BeginHandover(t) PROVE NonceInv'
  BY <1>2, <1>3 DEF BeginHandover, Sign, NextUnused, Unused
<1>4. ASSUME NEW T \in SUBSET Tx, Discard(T) PROVE NonceInv'
  BY <1>4 DEF Discard, NonceInv, Mined, NonceSpent, Outcome
<1>5. ASSUME NEW t \in Tx, Broadcast(t) PROVE NonceInv'
  BY <1>5 DEF Broadcast, Pool, RequestInv, NonceInv, Mined, Live, NonceSpent, Outcome
<1>6. ASSUME NEW h \in Hash, CancelSend(h) PROVE NonceInv'
  <2>1. h \in Tx /\ net[h] # "unsent"
    BY <1>6 DEF CancelSend, TaskInv, RowInv, CancelsOnlyOriginals
  <2> QED
    BY <1>6, <2>1 DEF CancelSend, Pool, NonceInv, Mined, Live, NonceSpent, Outcome
<1>7. ASSUME NEW h \in Hash, NodeMine(h) PROVE NonceInv'
  BY <1>7 DEF NodeMine, Mine, NonceInv, Mined, Live, NonceSpent, Outcome
<1>8. ASSUME NEW h \in Hash, NodeDrop(h) \/ NodeRegossip(h) PROVE NonceInv'
  BY <1>8 DEF NodeDrop, Drop, NodeRegossip, Regossip, Pool, NonceInv, Mined, Live, NonceSpent,
     Outcome
<1> QED
  <2>1. ASSUME NEW t \in Tx, NEW a \in Addr, NEW n \in 0 .. NumTx, BeginSend(t, a, n)
        PROVE  NonceInv'
    BY <1>2, <2>1 DEF BeginSend, Sign, NextUnused, Unused
  <2>2. ASSUME NEW t \in Tx, Abort(t) PROVE NonceInv'
    BY <1>4, <2>2 DEF Abort
  <2>3. CASE Crash
    BY <1>4, <2>3 DEF Crash
  <2>4. CASE Checker
    BY <1>1, <2>4 DEF Checker, CheckFetch, CheckReceipt, CheckReceiptError, CheckSave, CheckAbort
  <2>5. CASE Cleaner
    BY <1>1, <1>6, <2>5 DEF Cleaner, CleanFetch, CleanReceipt, CleanReceiptError, CleanSave,
       CleanAbort, CancelStep, CancelNonce, CancelKey, CancelWaited, CancelRecord, CancelMark,
       CancelError
  <2>6. ASSUME NEW t \in Tx, SaveTransaction(t) \/ CommitHandover(t) PROVE NonceInv'
    BY <1>1, <2>6 DEF SaveTransaction, CommitHandover
  <2>7. ASSUME NEW h \in Hash, TenMinutesPass(h) PROVE NonceInv'
    BY <1>1, <2>7 DEF TenMinutesPass
  <2>8. CASE BecomeCalm \/ UNCHANGED vars
    BY <1>1, <2>8 DEF BecomeCalm, vars
  <2> QED
    BY <1>3, <1>5, <1>7, <1>8, <2>1, <2>2, <2>3, <2>4, <2>5, <2>6, <2>7, <2>8
    DEF Next, Request, Environment

(* The rows tell the truth about the chain. *)
LEMMA RowStep ==
  ASSUME IInv, [Next]_vars
  PROVE  RowInv'
<1>1. Monotone
  BY ChainForward
<1>2. NonceInv'
  BY NonceStep
<1> USE <1>1, <1>2, HashFacts DEF IInv, TypeOK, ChainTypeOK
<1>3. \A h \in Hash : net[h] # "unsent" /\ NonceSpent(h) => NonceSpent(h)'
  BY TypeStep DEF Monotone, NonceSpent
<1>4. ASSUME UNCHANGED <<recorded, status, canceled>> PROVE RowInv'
  <2>1. \A h \in recorded' : net'[h] # "unsent" /\ (status'[h] \in Outcome => net'[h] = status'[h])
    BY <1>4 DEF Monotone, RowInv, ConfirmedIsMined, Mined
  <2>2. \A h \in canceled' : h \in recorded' /\ status'[h] = "2" /\ NonceSpent(h)'
    BY <1>3, <1>4 DEF RowInv
  <2>3. CancellationReplaces'
    BY <1>4 DEF Monotone, RowInv, NonceInv, CancellationReplaces, Mined, Outcome
  <2> QED
    BY <1>4, <2>1, <2>2, <2>3 DEF RowInv, ConfirmedIsMined
<1>5. ASSUME NEW t \in Tx, SaveTransaction(t) PROVE RowInv'
  BY <1>5 DEF SaveTransaction, chainVars, RequestInv, RowInv, ConfirmedIsMined, Mined,
     NonceSpent, CancellationReplaces, Outcome
<1>6. CASE CheckSave
  <2>1. \A h \in Hash : status'[h] # status[h] =>
          /\ h \in recorded /\ status[h] = "NULL"
          /\ status'[h] \in Outcome => net[h] = status'[h]
    BY <1>6 DEF CheckSave, CheckedStatus, TaskInv, Outcome
  <2> QED
    BY <1>6, <2>1 DEF CheckSave, chainVars, RowInv, ConfirmedIsMined, CancellationReplaces,
       Mined, NonceSpent, Outcome
<1>7. ASSUME NEW feeData \in BOOLEAN, CleanSave(feeData) PROVE RowInv'
  <2>1. \A h \in Hash : status'[h] # status[h] =>
          /\ h \in recorded /\ h \notin canceled
          /\ status'[h] \in Outcome /\ net[h] = status'[h]
    BY <1>7 DEF CleanSave, Receipted, TaskInv, Outcome
  <2> QED
    BY <1>7, <2>1 DEF CleanSave, chainVars, RowInv, ConfirmedIsMined, CancellationReplaces,
       Mined, NonceSpent, Outcome
<1>8. ASSUME NEW h \in Hash, CancelRecord(h) PROVE RowInv'
  <2>1. /\ h \in Tx /\ net[Cancel(h)] = "1" /\ h \in recorded /\ status[h] = "2"
    BY <1>8 DEF CancelRecord, TaskInv, CancelsOnlyOriginals
  <2>2. ~Mined(h)
    BY <2>1 DEF NonceInv, Mined, Outcome
  <2> QED
    BY <1>8, <2>1, <2>2 DEF CancelRecord, chainVars, RowInv, ConfirmedIsMined,
       CancellationReplaces, Mined, NonceSpent, Outcome
<1>9. ASSUME NEW h \in Hash, CancelMark(h) PROVE RowInv'
  BY <1>9 DEF CancelMark, chainVars, TaskInv, RowInv, ConfirmedIsMined, CancellationReplaces,
     Mined, NonceSpent, Outcome
<1> QED
  <2>1. ASSUME NEW t \in Tx,
               \/ \E a \in Addr, n \in 0 .. NumTx : BeginSend(t, a, n)
               \/ BeginHandover(t) \/ Broadcast(t) \/ CommitHandover(t) \/ Abort(t)
        PROVE  RowInv'
    BY <1>4, <2>1 DEF BeginSend, BeginHandover, Sign, Broadcast, CommitHandover, Abort, Discard,
       dbVars
  <2>2. CASE Checker
    BY <1>4, <1>6, <2>2 DEF Checker, CheckFetch, CheckReceipt, CheckReceiptError, CheckAbort, dbVars
  <2>3. CASE Cleaner
    BY <1>4, <1>7, <1>8, <1>9, <2>3 DEF Cleaner, CleanFetch, CleanReceipt, CleanReceiptError,
       CleanAbort, CancelStep, CancelNonce, CancelKey, CancelSend, CancelWaited, CancelError,
       dbVars
  <2>4. CASE Environment
    BY <1>4, <2>4 DEF Environment, NodeMine, NodeDrop, NodeRegossip, TenMinutesPass, Crash,
       Discard, BecomeCalm, nonChain, dbVars
  <2>5. CASE UNCHANGED vars
    BY <1>4, <2>5 DEF vars, dbVars
  <2> QED
    BY <1>5, <2>1, <2>2, <2>3, <2>4, <2>5 DEF Next, Request

(* What the tasks know of their rows stays so while they hold them. *)
LEMMA TaskStep ==
  ASSUME IInv, [Next]_vars
  PROVE  TaskInv'
<1>1. Monotone
  BY ChainForward
<1> USE <1>1, HashFacts DEF IInv, TypeOK, ChainTypeOK
<1>2. \A h \in Hash : net[h] # "unsent" /\ NonceSpent(h) => NonceSpent(h)'
  BY TypeStep DEF Monotone, NonceSpent
<1>3. \A h \in Hash : Cancel(h) \in Hash
  BY DEF Cancel, Cancellation
<1>4. ASSUME recorded \subseteq recorded', UNCHANGED <<status, canceled, chk, cln>>
      PROVE  TaskInv'
  BY <1>2, <1>3, <1>4 DEF TaskInv, CancelsOnlyOriginals, RowInv, Monotone, Mined, Outcome
<1>5. ASSUME UNCHANGED <<chainVars, recorded, status, canceled, cln>>,
             \A h \in Hash : chk'[h] # "out" => h \in recorded /\ status[h] = "NULL",
             \A h \in Hash : chk'[h] \in Outcome => net[h] = chk'[h]
      PROVE  TaskInv'
  BY <1>5 DEF TaskInv, CancelsOnlyOriginals, chainVars, NonceSpent
<1>6. ASSUME UNCHANGED <<chainVars, sendVars, dbVars, calm>>,
             \A h \in Hash : chk'[h] = chk[h] \/ chk'[h] = "out",
             \A h \in Hash : cln'[h] = cln[h] \/ cln'[h] = "out"
      PROVE  TaskInv'
  BY <1>6 DEF TaskInv, CancelsOnlyOriginals, chainVars, dbVars, NonceSpent, Outcome
<1>7. ASSUME NEW S \in SUBSET Hash, CheckFetch(S) PROVE TaskInv'
  BY <1>5, <1>7 DEF CheckFetch, NoStatus, dbVars, Outcome
<1>8. ASSUME NEW h \in Hash, CheckReceipt(h) \/ CheckReceiptError(h) PROVE TaskInv'
  BY <1>5, <1>8 DEF CheckReceipt, CheckReceiptError, Receipt, Mined, dbVars, TaskInv, Outcome
<1>9. CASE CheckSave
  BY <1>9 DEF CheckSave, CheckedStatus, TaskInv, CancelsOnlyOriginals, chainVars, NonceSpent,
     Outcome
<1>10. ASSUME NEW S \in SUBSET Hash, CleanFetch(S) PROVE TaskInv'
  BY <1>10 DEF CleanFetch, Stuck, chainVars, dbVars, TaskInv, CancelsOnlyOriginals, Outcome
<1>11. ASSUME NEW h \in Hash, CleanReceipt(h) \/ CleanReceiptError(h) PROVE TaskInv'
  BY <1>11 DEF CleanReceipt, CleanReceiptError, Receipt, Mined, chainVars, dbVars, TaskInv,
     CancelsOnlyOriginals, NonceSpent, Outcome
<1>12. ASSUME NEW feeData \in BOOLEAN, CleanSave(feeData) PROVE TaskInv'
  BY <1>12 DEF CleanSave, Receipted, AllReceiptsIn, Answer, chainVars, TaskInv,
     CancelsOnlyOriginals, NonceSpent, Outcome
<1>13. ASSUME NEW h \in Hash, CancelNonce(h) PROVE TaskInv'
  <2>1. h \in recorded /\ (h \in Cancellation => NonceSpent(h))
    BY <1>13 DEF CancelNonce, TaskInv, RowInv, CancellationReplaces, NonceInv, Mined, Outcome
  <2> QED
    BY <1>13, <2>1 DEF CancelNonce, chainVars, dbVars, TaskInv, CancelsOnlyOriginals, NonceSpent,
       Outcome
<1>14. ASSUME NEW h \in Hash, CancelSend(h) PROVE TaskInv'
  <2>1. h \in Tx /\ net'[Cancel(h)] # "unsent"
    BY <1>14 DEF CancelSend, Pool, TaskInv, CancelsOnlyOriginals
  <2> QED
    BY <1>2, <1>3, <1>14, <2>1 DEF CancelSend, dbVars, TaskInv, CancelsOnlyOriginals, RowInv,
       Monotone, Mined, Outcome
<1>15. ASSUME NEW h \in Hash, CancelWaited(h) PROVE TaskInv'
  BY <1>15 DEF CancelWaited, chainVars, dbVars, TaskInv, CancelsOnlyOriginals, NonceInv,
     NonceSpent, Mined, Outcome
<1>16. ASSUME NEW h \in Hash, CancelRecord(h) PROVE TaskInv'
  <2>1. NonceSpent(h)
    BY <1>16 DEF CancelRecord, TaskInv, CancelsOnlyOriginals, NonceInv, NonceSpent, Mined, Outcome
  <2> QED
    BY <1>16, <2>1 DEF CancelRecord, chainVars, TaskInv, CancelsOnlyOriginals, NonceSpent, Outcome
<1>17. ASSUME NEW h \in Hash, CancelMark(h) PROVE TaskInv'
  BY <1>17 DEF CancelMark, chainVars, TaskInv, CancelsOnlyOriginals, NonceSpent, Outcome
<1>18. ASSUME NEW h \in Hash, CancelKey(h) PROVE TaskInv'
  BY <1>18 DEF CancelKey, chainVars, dbVars, TaskInv, CancelsOnlyOriginals, NonceSpent, Outcome
<1> QED
  <2>1. CASE Request
    BY <1>4, <2>1 DEF Request, BeginSend, BeginHandover, Sign, Broadcast, SaveTransaction,
       CommitHandover, Abort, Discard, dbVars
  <2>2. CASE Checker
    BY <1>6, <1>7, <1>8, <1>9, <2>2 DEF Checker, CheckAbort
  <2>3. CASE Cleaner
    BY <1>6, <1>10, <1>11, <1>12, <1>13, <1>14, <1>15, <1>16, <1>17, <1>18, <2>3
    DEF Cleaner, CleanAbort, CancelStep, CancelError
  <2>4. CASE Crash
    BY <2>4 DEF Crash, Discard, TaskInv, CancelsOnlyOriginals, Outcome
  <2>5. CASE Environment /\ ~Crash
    BY <1>4, <2>5 DEF Environment, NodeMine, NodeDrop, NodeRegossip, TenMinutesPass,
       BecomeCalm, nonChain, dbVars
  <2>6. CASE UNCHANGED vars
    BY <1>4, <2>6 DEF vars, dbVars
  <2> QED
    BY <2>1, <2>2, <2>3, <2>4, <2>5, <2>6 DEF Next

LEMMA InitInv == Init => IInv
BY InitType, HashFacts
DEF Init, IInv, RequestInv, NonceInv, RowInv, TaskInv, ConfirmedIsMined, CancellationReplaces,
    CancelsOnlyOriginals, InFlight, Mined, Outcome

LEMMA StepInv == IInv /\ [Next]_vars => IInv'
BY TypeStep, RequestStep, NonceStep, RowStep, TaskStep DEF IInv

(* The invariant every theorem below rests on. *)
THEOREM Invariance == Spec => []IInv
<1> QED
  BY InitInv, StepInv, PTL DEF Spec

(* Every variable keeps its type. *)
THEOREM TypeCorrect == Spec => []TypeOK
<1>1. IInv => TypeOK
  BY DEF IInv
<1> QED
  BY <1>1, Invariance, PTL

(* A row never reports an outcome the chain does not hold. *)
THEOREM ReceiptsAreTrue == Spec => []ConfirmedIsMined
<1>1. IInv => ConfirmedIsMined
  BY DEF IInv, RowInv
<1> QED
  BY <1>1, Invariance, PTL

(* A row is canceled only with its nonce spent. *)
THEOREM CanceledForGood == Spec => []CanceledNonceSpent
<1>1. IInv => CanceledNonceSpent
  BY DEF IInv, RowInv, CanceledNonceSpent
<1> QED
  BY <1>1, Invariance, PTL

(* The checker and the cleaner never hold the same row. *)
THEOREM TasksNeverShare == Spec => []TasksApart
<1>1. IInv => TasksApart
  BY DEF IInv, TaskInv, TasksApart
<1> QED
  BY <1>1, Invariance, PTL

(* A recorded cancellation took the place of its transaction. *)
THEOREM CancellationsReplace == Spec => []CancellationReplaces
<1>1. IInv => CancellationReplaces
  BY DEF IInv, RowInv
<1> QED
  BY <1>1, Invariance, PTL

(* No cancellation is ever sent for a cancellation. *)
THEOREM NoCancelOfCancel == Spec => []CancelsOnlyOriginals
<1>1. IInv => CancelsOnlyOriginals
  BY DEF IInv, TaskInv
<1> QED
  BY <1>1, Invariance, PTL

----------------------------------------------------------------------------

(* Rows are added, never taken away; a status only moves forward; only a   *)
(* row with status 2 is canceled, and then it is final.                    *)
TableStep ==
  /\ recorded \subseteq recorded'
  /\ canceled \subseteq canceled'
  /\ \A h \in Hash : status'[h] # status[h] =>
       /\ <<status[h], status'[h]>> \in StatusMove
       /\ h \in recorded \ canceled
  /\ \A h \in canceled' \ canceled : h \in recorded /\ status[h] = "2"
  /\ \A h \in canceled' : status'[h] = "2"

LEMMA TableForward ==
  ASSUME IInv, [Next]_vars
  PROVE  TableStep
<1>1. \A h \in canceled' : status'[h] = "2"
  BY RowStep DEF RowInv
<1> USE DEF IInv, TypeOK
<1>2. ASSUME recorded \subseteq recorded', UNCHANGED <<status, canceled>> PROVE TableStep
  BY <1>1, <1>2 DEF TableStep
<1>3. CASE CheckSave
  BY <1>1, <1>3 DEF CheckSave, CheckedStatus, TaskInv, RowInv, TableStep, StatusMove, Outcome
<1>4. ASSUME NEW feeData \in BOOLEAN, CleanSave(feeData) PROVE TableStep
  BY <1>1, <1>4 DEF CleanSave, Receipted, TaskInv, TableStep, StatusMove, Outcome
<1>5. ASSUME NEW h \in Hash, CancelMark(h) PROVE TableStep
  BY <1>1, <1>5 DEF CancelMark, TaskInv, TableStep
<1> QED
  <2>1. CASE Request
    BY <1>2, <2>1 DEF Request, BeginSend, BeginHandover, Sign, Broadcast, SaveTransaction,
       CommitHandover, Abort, Discard, dbVars
  <2>2. CASE Checker
    BY <1>2, <1>3, <2>2 DEF Checker, CheckFetch, CheckReceipt, CheckReceiptError, CheckAbort, dbVars
  <2>3. CASE Cleaner
    BY <1>2, <1>4, <1>5, <2>3 DEF Cleaner, CleanFetch, CleanReceipt, CleanReceiptError,
       CleanAbort, CancelStep, CancelNonce, CancelKey, CancelSend, CancelWaited, CancelRecord,
       CancelError,
       dbVars
  <2>4. CASE Environment
    BY <1>2, <2>4 DEF Environment, NodeMine, NodeDrop, NodeRegossip, TenMinutesPass, Crash,
       Discard, BecomeCalm, nonChain, dbVars
  <2>5. CASE UNCHANGED vars
    BY <1>2, <2>5 DEF vars, dbVars
  <2> QED
    BY <2>1, <2>2, <2>3, <2>4, <2>5 DEF Next

(* Statuses only move forward and a canceled row is final. *)
THEOREM StatusOnlyForward == Spec => StatusForward
<1> DEFINE Forward ==
      /\ canceled \subseteq canceled'
      /\ \A h \in Hash : status'[h] # status[h] =>
           /\ <<status[h], status'[h]>> \in StatusMove
           /\ h \notin canceled
      /\ \A h \in canceled' : status'[h] = "2"
<1>1. IInv /\ [Next]_vars => [Forward]_vars
  BY TableForward DEF TableStep
<1> QED
  BY <1>1, Invariance, PTL DEF Spec, StatusForward

----------------------------------------------------------------------------
(* The table as TxLedger sees it *)

row == [h \in Hash |-> RowOf(h)]
fate == [h \in Hash |-> FateOf(h)]

(* No step moves both the chain and the table. *)
LEMMA OneSide ==
  ASSUME [Next]_vars
  PROVE  UNCHANGED chainVars \/ UNCHANGED <<recorded, status, canceled>>
<1>1. CASE Request
  BY <1>1 DEF Request, BeginSend, BeginHandover, Sign, Broadcast, SaveTransaction,
     CommitHandover, Abort, Discard, dbVars
<1>2. CASE Checker
  BY <1>2 DEF Checker, CheckFetch, CheckReceipt, CheckReceiptError, CheckSave, CheckAbort, dbVars
<1>3. CASE Cleaner
  BY <1>3 DEF Cleaner, CleanFetch, CleanReceipt, CleanReceiptError, CleanSave, CleanAbort,
     CancelStep, CancelNonce, CancelKey, CancelSend, CancelWaited, CancelRecord, CancelMark,
     CancelError, dbVars
<1>4. CASE Environment
  BY <1>4 DEF Environment, NodeMine, NodeDrop, NodeRegossip, TenMinutesPass, Crash, Discard,
     BecomeCalm, nonChain, dbVars
<1>5. CASE UNCHANGED vars
  BY <1>5 DEF vars
<1> QED
  BY <1>1, <1>2, <1>3, <1>4, <1>5 DEF Next

(* The chain's steps are decisions: what is decided stays decided. *)
LEMMA FateStep ==
  ASSUME IInv, [Next]_vars
  PROVE  /\ fate' \in [Hash -> Ledger!Fate]
         /\ \A h \in Hash : fate'[h] # fate[h] => fate[h] = "open"
<1>1. fate' \in [Hash -> Ledger!Fate]
  BY DEF fate, FateOf, Mined, Outcome, Ledger!Fate, Ledger!Included
<1>2. SUFFICES ASSUME NEW h \in Hash, FateOf(h) # "open" PROVE FateOf(h)' = FateOf(h)
  BY <1>1 DEF fate
<1>3. net[h] # "unsent" /\ (Mined(h) \/ NonceSpent(h))
  BY <1>2 DEF FateOf, Mined, Outcome
<1> USE DEF IInv, TypeOK, ChainTypeOK
<1>4. Monotone
  BY ChainForward
<1>5. CASE Mined(h)
  BY <1>4, <1>5 DEF Monotone, Mined, FateOf
<1>6. CASE ~Mined(h)
  <2>1. NonceSpent(h)' /\ ~Mined(h)' /\ net'[h] # "unsent"
    BY <1>3, <1>4, <1>6, TypeStep DEF Monotone, NonceSpent
  <2> QED
    BY <1>3, <1>6, <2>1 DEF FateOf
<1> QED
  BY <1>5, <1>6

(* Every row the tasks write makes a legal move. *)
LEMMA RowMove ==
  ASSUME IInv, [Next]_vars, UNCHANGED chainVars
  PROVE  /\ row' \in [Hash -> Ledger!Row]
         /\ \A h \in Hash : row'[h] # row[h] => Ledger!LegalMove(h)
<1>1. TypeOK' /\ RowInv' /\ TableStep
  BY TypeStep, RowStep, TableForward DEF IInv
<1>2. row' \in [Hash -> Ledger!Row]
  BY <1>1 DEF TypeOK, row, RowOf, RowStatus, Outcome, Ledger!Row, Ledger!Included
<1>3. ASSUME NEW h \in Hash, RowOf(h)' # RowOf(h)
      PROVE  \/ RowOf(h) = "absent" /\ RowOf(h)' = "pending"
             \/ RowOf(h) = "pending" /\ RowOf(h)' = "stuck"
             \/ RowOf(h) \in {"pending", "stuck"} /\ RowOf(h)' \in Outcome /\ RowOf(h)' = FateOf(h)
             \/ RowOf(h) = "stuck" /\ RowOf(h)' = "canceled" /\ FateOf(h) # "open"
  <2>1. CASE h \notin recorded
    BY <1>1, <1>3, <2>1 DEF IInv, RowInv, TableStep, RowOf
  <2>2. CASE h \in recorded /\ h \in canceled
    BY <1>1, <1>3, <2>2 DEF TableStep, RowOf
  <2>3. CASE h \in recorded /\ h \notin canceled /\ h \in canceled'
    <3>1. FateOf(h) # "open"
      BY <1>1, <2>3 DEF RowInv, chainVars, NonceSpent, FateOf, Mined, Outcome
    <3> QED
      BY <1>1, <2>3, <3>1 DEF TableStep, RowOf
  <2>4. CASE h \in recorded /\ h \notin canceled /\ h \notin canceled'
    <3>1. h \in recorded' /\ <<status[h], status'[h]>> \in StatusMove
      BY <1>1, <1>3, <2>4 DEF TableStep, RowOf
    <3>2. status'[h] \in Outcome => FateOf(h) = status'[h]
      BY <1>1, <3>1 DEF RowInv, ConfirmedIsMined, chainVars, FateOf, Mined
    <3> QED
      BY <2>4, <3>1, <3>2 DEF StatusMove, Outcome, RowOf
  <2> QED
    BY <2>1, <2>2, <2>3, <2>4
<1> QED
  BY <1>2, <1>3 DEF row, fate, Ledger!LegalMove, Ledger!Included, Outcome

(* The service implements TxLedger: it finishes a row only with what the   *)
(* chain has decided, and never changes a finished row.                    *)
THEOREM Refinement == Spec => LedgerSpec
<1>1. Init => Ledger!Init
  BY DEF Init, Ledger!Init, RowOf, FateOf, Mined, Outcome
<1>2. IInv /\ [Next]_vars => [Ledger!Next]_(Ledger!vars)
  <2> SUFFICES ASSUME IInv, [Next]_vars PROVE Ledger!Next \/ UNCHANGED Ledger!vars
    BY DEF Ledger!vars
  <2>1. CASE UNCHANGED <<recorded, status, canceled>>
    <3>1. UNCHANGED row
      BY <2>1 DEF row, RowOf
    <3> QED
      BY <3>1, FateStep DEF Ledger!Next, Ledger!Decide, row, fate
  <2>2. CASE UNCHANGED chainVars
    <3>1. UNCHANGED fate
      BY <2>2 DEF fate, FateOf, chainVars, Mined, NonceSpent
    <3> QED
      BY <2>2, <3>1, RowMove DEF Ledger!Next, Ledger!Write, row, fate
  <2> QED
    BY <2>1, <2>2, OneSide
<1> QED
  BY <1>1, <1>2, Invariance, PTL DEF Spec, Ledger!Spec, LedgerSpec
=============================================================================
