------------------------- MODULE AccountViewProofs -------------------------
(***************************************************************************)
(* TxLifecycle implements StuckAccounts, for every account.                *)
(***************************************************************************)
EXTENDS AccountView, TxLifecycleProofs, FiniteSetTheorems

(* The steps that move the table, by what they do to it. *)
LEMMA TableKinds ==
  ASSUME IInv, [Next]_vars
  PROVE  \/ UNCHANGED <<recorded, status, canceled>>
         \/ /\ \E h \in Hash : recorded' = recorded \cup {h} /\ net[h] # "unsent"
            /\ UNCHANGED <<chainVars, status, canceled>>
         \/ CheckSave
         \/ \E feeData \in BOOLEAN : CleanSave(feeData)
         \/ \E h \in Hash : CancelMark(h)
<1> USE HashFacts
<1>1. ASSUME NEW t \in Tx, SaveTransaction(t)
      PROVE  /\ recorded' = recorded \cup {t} /\ net[t] # "unsent"
             /\ UNCHANGED <<chainVars, status, canceled>>
  BY <1>1 DEF SaveTransaction, IInv, RequestInv
<1>2. ASSUME NEW h \in Hash, CancelRecord(h)
      PROVE  /\ recorded' = recorded \cup {Cancel(h)} /\ net[Cancel(h)] # "unsent"
             /\ UNCHANGED <<chainVars, status, canceled>> /\ Cancel(h) \in Hash
  BY <1>2 DEF CancelRecord, IInv, TaskInv
<1>3. CASE Request /\ \A t \in Tx : ~SaveTransaction(t)
  BY <1>3 DEF Request, BeginSend, BeginHandover, Sign, Broadcast, CommitHandover, Abort, Discard,
     dbVars
<1>4. CASE Checker /\ ~CheckSave
  BY <1>4 DEF Checker, CheckFetch, CheckReceipt, CheckReceiptError, CheckAbort, dbVars
<1>5. CASE /\ Cleaner
           /\ \A feeData \in BOOLEAN : ~CleanSave(feeData)
           /\ \A h \in Hash : ~CancelRecord(h) /\ ~CancelMark(h)
  BY <1>5 DEF Cleaner, CleanFetch, CleanReceipt, CleanReceiptError, CleanAbort, CancelStep,
     CancelNonce, CancelKey, CancelSend, CancelWaited, CancelError, dbVars
<1>6. CASE Environment
  BY <1>6 DEF Environment, NodeMine, NodeDrop, NodeRegossip, TenMinutesPass, Crash, Discard,
     BecomeCalm, nonChain, dbVars
<1>7. CASE UNCHANGED vars
  BY <1>7 DEF vars, dbVars
<1> QED
  BY <1>1, <1>2, <1>3, <1>4, <1>5, <1>6, <1>7 DEF Next

(* Only a block moves a confirmed nonce. *)
LEMMA LatestKinds ==
  ASSUME [Next]_vars
  PROVE  UNCHANGED latest \/ \E h \in Hash : NodeMine(h)
<1>1. CASE Request
  BY <1>1 DEF Request, BeginSend, BeginHandover, Sign, Broadcast, SaveTransaction,
     CommitHandover, Abort, Discard, chainVars
<1>2. CASE Checker
  BY <1>2 DEF Checker, CheckFetch, CheckReceipt, CheckReceiptError, CheckSave, CheckAbort, chainVars
<1>3. CASE Cleaner
  BY <1>3 DEF Cleaner, CleanFetch, CleanReceipt, CleanReceiptError, CleanSave, CleanAbort,
     CancelStep, CancelNonce, CancelKey, CancelSend, CancelWaited, CancelRecord, CancelMark,
     CancelError,
     chainVars
<1>4. CASE Environment
  BY <1>4 DEF Environment, NodeDrop, Drop, NodeRegossip, Regossip, TenMinutesPass, Crash, Discard,
     BecomeCalm, chainVars
<1>5. CASE UNCHANGED vars
  BY <1>5 DEF vars, chainVars
<1> QED
  BY <1>1, <1>2, <1>3, <1>4, <1>5 DEF Next

(* No address has spent more nonces than there are transactions: each was  *)
(* spent by a transaction or its cancellation, which share it.             *)
LEMMA SpentBound ==
  ASSUME IInv, SpentInv, NEW a \in Addr
  PROVE  latest[a] <= NumTx
<1> DEFINE N == 0 .. (latest[a] - 1)
           By(t, n) == \E h \in {t, Cancel(t)} : Mined(h) /\ from[h] = a /\ nonce[h] = n
           f == [n \in N |-> CHOOSE t \in Tx : By(t, n)]
<1>1. latest[a] \in Nat
  BY DEF IInv, TypeOK, ChainTypeOK
<1>2. \A n \in N : \E t \in Tx : By(t, n)
  BY HashFacts DEF SpentInv
<1>3. \A n \in N : f[n] \in Tx /\ By(f[n], n)
  BY <1>2
<1>4. ASSUME NEW t \in Tx, NEW m \in N, NEW n \in N, By(t, m), By(t, n) PROVE m = n
  BY <1>4 DEF IInv, NonceInv, Mined, Outcome
<1> HIDE DEF By
<1>5. f \in Injection(N, Tx)
  <2>1. f \in [N -> Tx]
    BY <1>3
  <2> HIDE DEF f
  <2>2. \A m, n \in N : f[m] = f[n] => m = n
    BY <1>3, <1>4
  <2> QED
    BY <2>1, <2>2 DEF Injection, IsInjective
<1> HIDE DEF N, f
<1>6. IsFiniteSet(Tx) /\ Cardinality(Tx) = NumTx
  BY NumTxAssumption, FS_Interval DEF Tx
<1>7. Cardinality(N) <= Cardinality(Tx)
  BY <1>5, <1>6, FS_Injection
<1>8. Cardinality(N) = latest[a]
  BY <1>1, FS_Interval DEF N
<1> QED
  BY <1>6, <1>7, <1>8

(* Whoever signs takes a nonce within the bound, and a block that spends a *)
(* nonce holds the transaction that did.                                   *)
LEMMA SpentStep ==
  ASSUME ViewInv, [Next]_vars
  PROVE  SpentInv'
<1> USE HashFacts, FaucetAssumption, NumTxAssumption DEF ViewInv
<1>1. nonce' \in [Hash -> 0 .. NumTx]
  <2> USE DEF SpentInv
  <2>1. CASE UNCHANGED nonce
    BY <2>1
  <2>2. ASSUME NEW t \in Tx, NEW a \in Addr, NEW n \in 0 .. NumTx, NEW stage, Sign(t, a, n, stage)
        PROVE  nonce' \in [Hash -> 0 .. NumTx]
    BY <2>2 DEF Sign
  <2>3. ASSUME NEW t \in Tx, BeginHandover(t) PROVE nonce' \in [Hash -> 0 .. NumTx]
    <3>1. faucet \in Addr /\ latest[faucet] \in 0 .. NumTx
      BY SpentBound DEF IInv, TypeOK, ChainTypeOK, Addr
    <3> QED
      BY <2>2, <2>3, <3>1 DEF BeginHandover
  <2>4. ASSUME NEW T, Discard(T) PROVE nonce' \in [Hash -> 0 .. NumTx]
    BY <2>4 DEF Discard
  <2>5. ASSUME NEW h \in Hash, CancelSend(h) PROVE nonce' \in [Hash -> 0 .. NumTx]
    BY <2>5 DEF CancelSend
  <2>6. ASSUME NEW t \in Tx,
               \/ \E a \in Addr, n \in 0 .. NumTx : BeginSend(t, a, n)
               \/ Broadcast(t) \/ SaveTransaction(t) \/ CommitHandover(t) \/ Abort(t)
        PROVE  nonce' \in [Hash -> 0 .. NumTx]
    BY <2>1, <2>2, <2>4, <2>6 DEF BeginSend, Broadcast, SaveTransaction, CommitHandover, Abort,
       chainVars
  <2>7. CASE Checker
    BY <2>1, <2>7 DEF Checker, CheckFetch, CheckReceipt, CheckReceiptError, CheckSave, CheckAbort,
       chainVars
  <2>8. CASE Cleaner
    BY <2>1, <2>5, <2>8 DEF Cleaner, CleanFetch, CleanReceipt, CleanReceiptError, CleanSave,
       CleanAbort, CancelStep, CancelNonce, CancelKey, CancelWaited, CancelRecord, CancelMark,
       CancelError,
       chainVars
  <2>9. CASE Environment
    BY <2>1, <2>4, <2>9 DEF Environment, NodeMine, Mine, NodeDrop, Drop, NodeRegossip, Regossip,
       TenMinutesPass, Crash, BecomeCalm, chainVars
  <2>10. CASE UNCHANGED vars
    BY <2>1, <2>10 DEF vars, chainVars
  <2> QED
    BY <2>3, <2>6, <2>7, <2>8, <2>9, <2>10 DEF Next, Request
<1>2. ASSUME NEW a \in Addr, NEW n \in 0 .. (latest'[a] - 1)
      PROVE  \E h \in Hash : Mined(h)' /\ from'[h] = a /\ nonce'[h] = n
  <2>1. ASSUME NEW h \in Hash, Mined(h)
        PROVE  Mined(h)' /\ from'[h] = from[h] /\ nonce'[h] = nonce[h]
    BY <2>1, ChainForward DEF Monotone, Mined, Outcome
  <2>2. CASE n \in 0 .. (latest[a] - 1)
    BY <2>1, <2>2 DEF SpentInv
  <2>3. CASE n \notin 0 .. (latest[a] - 1)
    <3>1. PICK h \in Hash : NodeMine(h)
      BY <2>3, LatestKinds
    <3>2. from[h] = a /\ nonce[h] = n
      BY <2>3, <3>1 DEF NodeMine, Mine, IInv, TypeOK, ChainTypeOK
    <3>3. Mined(h)' /\ from' = from /\ nonce' = nonce
      BY <3>1 DEF NodeMine, Mine, Mined, Outcome, IInv, TypeOK, ChainTypeOK
    <3> QED
      BY <3>2, <3>3
  <2> QED
    BY <2>2, <2>3
<1> QED
  BY <1>1, <1>2 DEF SpentInv

THEOREM ViewInvariance == Spec => []ViewInv
<1>1. Init => ViewInv
  <2>1. Init => SpentInv
    BY NumTxAssumption DEF Init, SpentInv
  <2> QED
    BY <2>1, InitInv DEF ViewInv
<1>2. ViewInv /\ [Next]_vars => ViewInv'
  BY StepInv, SpentStep DEF ViewInv
<1> QED
  BY <1>1, <1>2, PTL DEF Spec
----------------------------------------------------------------------------
(* The rows *)

LEMMA RowFacts ==
  ASSUME NEW h \in Hash
  PROVE  /\ rowNonce[h] = IF IsOwnRow(h) THEN nonce[h] ELSE 0
         /\ rowStatus[h] = IF IsOwnRow(h) THEN status[h] ELSE "absent"
         /\ rowNonce'[h] = IF IsOwnRow(h)' THEN nonce'[h] ELSE 0
         /\ rowStatus'[h] = IF IsOwnRow(h)' THEN status'[h] ELSE "absent"
         /\ h \in rowCanceled <=> h \in canceled /\ from[h] = Owner
         /\ h \in rowCanceled' <=> h \in canceled' /\ from'[h] = Owner
BY DEF rowNonce, rowStatus, rowCanceled

(* Two descriptions of the rows that agree on every hash are equal. *)
LEMMA RowsEqual ==
  /\ (\A h \in Hash : rowNonce'[h] = rowNonce[h]) => rowNonce' = rowNonce
  /\ \A s \in [Hash -> {"absent", "NULL", "0", "1", "2"}] :
       (\A h \in Hash : rowStatus'[h] = s[h]) => rowStatus' = s
  /\ (\A h \in Hash : rowStatus'[h] = rowStatus[h]) => rowStatus' = rowStatus
BY DEF rowNonce, rowStatus

(* The rows keep their senders and nonces: they are known to the node.     *)
LEMMA RowsKept ==
  ASSUME ViewInv, [Next]_vars, NEW h \in recorded
  PROVE  h \in Hash /\ from'[h] = from[h] /\ nonce'[h] = nonce[h]
BY ChainForward DEF ViewInv, IInv, TypeOK, RowInv, Monotone

(* A step that leaves the table alone spends a nonce of the account, or    *)
(* does not concern it.                                                    *)
LEMMA ChainSide ==
  ASSUME ViewInv, [Next]_vars, UNCHANGED <<recorded, status, canceled>>
  PROVE  Rows!SpendNonce \/ UNCHANGED <<rowNonce, rowStatus, rowCanceled, spent>>
<1> USE DEF ViewInv
<1>1. \A h \in Hash : IsOwnRow(h)' <=> IsOwnRow(h)
  BY RowsKept DEF IsOwnRow
<1>2. rowNonce' = rowNonce
  <2>1. \A h \in Hash : rowNonce'[h] = rowNonce[h]
    BY <1>1, RowFacts, RowsKept DEF IsOwnRow
  <2> QED
    BY <2>1, RowsEqual
<1>3. rowStatus' = rowStatus
  BY <1>1, RowFacts, RowsEqual
<1>4. rowCanceled' = rowCanceled
  BY RowsKept DEF rowCanceled, IInv, RowInv
<1>5. CASE latest'[Owner] = latest[Owner]
  BY <1>2, <1>3, <1>4, <1>5 DEF spent
<1>6. CASE latest'[Owner] # latest[Owner]
  <2>1. PICK h \in Hash : NodeMine(h)
    BY <1>6, LatestKinds
  <2>2. latest'[Owner] = latest[Owner] + 1
    BY <1>6, <2>1, OwnerAssumption DEF NodeMine, Mine, IInv, TypeOK, ChainTypeOK
  <2>3. latest[Owner] <= NumTx
    BY SpentBound, OwnerAssumption
  <2> QED
    BY <1>2, <1>3, <1>4, <2>2, <2>3 DEF Rows!SpendNonce, spent
<1> QED
  BY <1>5, <1>6

(* A row that is added is new to the account, or another's. *)
LEMMA RecordSide ==
  ASSUME ViewInv, [Next]_vars, NEW h \in Hash, recorded' = recorded \cup {h}, net[h] # "unsent",
         UNCHANGED <<chainVars, status, canceled>>
  PROVE  \/ \E n \in 0 .. NumTx : Rows!RecordRow(h, n)
         \/ UNCHANGED <<rowNonce, rowStatus, rowCanceled, spent>>
<1> USE DEF ViewInv, chainVars
<1>1. UNCHANGED <<rowCanceled, spent>>
  BY DEF rowCanceled, spent
<1>2. \A g \in Hash : g # h \/ from[g] # Owner => (IsOwnRow(g)' <=> IsOwnRow(g))
  BY DEF IsOwnRow
<1>3. \A g \in Hash : g # h \/ from[g] # Owner =>
        rowNonce'[g] = rowNonce[g] /\ rowStatus'[g] = rowStatus[g]
  BY <1>2, RowFacts
<1>4. CASE from[h] # Owner \/ h \in recorded
  <2>1. \A g \in Hash : rowNonce'[g] = rowNonce[g] /\ rowStatus'[g] = rowStatus[g]
    BY <1>3, <1>4, RowFacts DEF IsOwnRow
  <2> QED
    BY <1>1, <2>1, RowsEqual
<1>5. CASE from[h] = Owner /\ h \notin recorded
  <2>1. rowStatus[h] = "absent" /\ rowStatus'[h] = "NULL" /\ rowNonce'[h] = nonce[h]
    BY <1>5, RowFacts DEF IsOwnRow, IInv, RowInv
  <2>2. rowNonce' = [rowNonce EXCEPT ![h] = nonce[h]]
    BY <1>3, <2>1 DEF rowNonce
  <2>3. rowStatus' = [rowStatus EXCEPT ![h] = "NULL"]
    BY <1>3, <2>1 DEF rowStatus
  <2>4. nonce[h] \in 0 .. NumTx
    BY DEF SpentInv
  <2> QED
    BY <1>1, <2>1, <2>2, <2>3, <2>4 DEF Rows!RecordRow
<1> QED
  BY <1>4, <1>5

(* What a round writes, into rows of one kind, it has from the chain.      *)
LEMMA SaveSide ==
  ASSUME ViewInv, [Next]_vars, NEW before \in {"NULL", "2"},
         UNCHANGED <<chainVars, recorded, canceled>>,
         \A h \in Hash : status'[h] # status[h] => status[h] = before
  PROVE  \E S \in SUBSET Rows!RowsToSave(before) :
           \E r \in [S -> {"0", "1", "2"}] : Rows!SaveRows(S, r)
<1> USE DEF ViewInv, chainVars
<1> DEFINE S == {h \in Hash : IsOwnRow(h) /\ status'[h] # status[h]}
           r == [h \in S |-> status'[h]]
<1>1. RowInv' /\ NonceInv' /\ TableStep
  BY RowStep, NonceStep, TableForward
<1>2. UNCHANGED <<rowNonce, rowCanceled, spent>>
  BY DEF rowNonce, rowCanceled, spent, IsOwnRow
<1>3. \A h \in Hash : IsOwnRow(h)' <=> IsOwnRow(h)
  BY DEF IsOwnRow
<1>4. ASSUME NEW h \in S
      PROVE  /\ rowStatus[h] = before /\ h \in Hash \ rowCanceled
             /\ r[h] \in {"0", "1", "2"}
  <2>1. h \in Hash /\ IsOwnRow(h) /\ status'[h] # status[h] /\ r[h] = status'[h]
    OBVIOUS
  <2>2. <<status[h], status'[h]>> \in StatusMove /\ h \in recorded \ canceled
    BY <1>1, <2>1 DEF TableStep
  <2>3. status'[h] \in {"0", "1", "2"}
    BY <2>2 DEF StatusMove, Outcome
  <2>4. rowStatus[h] = before
    BY <2>1, RowFacts
  <2>5. h \notin rowCanceled
    BY <2>2 DEF rowCanceled
  <2> QED
    BY <2>1, <2>3, <2>4, <2>5
<1>5. S \in SUBSET Rows!RowsToSave(before) /\ r \in [S -> {"0", "1", "2"}]
  BY <1>4 DEF Rows!RowsToSave
<1>6. rowStatus' = [h \in Hash |-> IF h \in S THEN r[h] ELSE rowStatus[h]]
  BY <1>3 DEF rowStatus
<1>7. ASSUME NEW h \in Hash, Rows!HasReceipt(h)'
      PROVE  IsOwnRow(h) /\ Mined(h)
  BY <1>1, <1>3, <1>7, RowFacts DEF Rows!HasReceipt, RowInv, ConfirmedIsMined, IsOwnRow, Mined,
     Outcome
<1>8. \A h \in S : Rows!HasReceipt(h)' => rowNonce[h] < spent
  BY <1>7, RowFacts DEF IInv, TypeOK, ChainTypeOK, NonceInv, NonceSpent, IsOwnRow, spent
<1>9. \A g, h \in Hash :
        Rows!HasReceipt(g)' /\ Rows!HasReceipt(h)' /\ rowNonce[g] = rowNonce[h] => g = h
  BY <1>7, RowFacts DEF IInv, NonceInv, IsOwnRow
<1> HIDE DEF S, r
<1>10. Rows!SaveRows(S, r)
  BY <1>2, <1>6, <1>8, <1>9 DEF Rows!SaveRows
<1> QED
  BY <1>5, <1>10

(* The cleaner cancels a row with status 2 whose nonce is spent.           *)
LEMMA CancelSide ==
  ASSUME ViewInv, [Next]_vars, NEW h \in Hash, CancelMark(h)
  PROVE  Rows!CancelRow(h) \/ UNCHANGED <<rowNonce, rowStatus, rowCanceled, spent>>
<1> USE DEF ViewInv
<1>1. h \in recorded /\ status[h] = "2" /\ h \notin canceled /\ NonceSpent(h)
  BY DEF CancelMark, IInv, TaskInv
<1>2. UNCHANGED <<chainVars, recorded, status>> /\ canceled' = canceled \cup {h}
  BY <1>1 DEF CancelMark, IInv, TypeOK
<1>3. UNCHANGED <<rowNonce, rowStatus, spent>>
  BY <1>2 DEF rowNonce, rowStatus, spent, IsOwnRow, chainVars
<1>4. CASE from[h] = Owner
  <2>1. rowStatus[h] = "2" /\ rowNonce[h] < spent /\ h \notin rowCanceled
    BY <1>1, <1>4, RowFacts DEF IsOwnRow, NonceSpent, spent, IInv, TypeOK, ChainTypeOK
  <2>2. rowCanceled' = rowCanceled \cup {h}
    BY <1>2, <1>4 DEF rowCanceled, chainVars
  <2> QED
    BY <1>3, <2>1, <2>2 DEF Rows!CancelRow
<1>5. CASE from[h] # Owner
  BY <1>2, <1>3, <1>5 DEF rowCanceled, chainVars
<1> QED
  BY <1>4, <1>5

(* For every account, the service's table moves as StuckAccounts says.     *)
THEOREM RowsImplemented == Spec => RowsSpec
<1>1. Init => Rows!StuckInit
  BY OwnerAssumption
  DEF Init, Rows!StuckInit, rowNonce, rowStatus, rowCanceled, spent, IsOwnRow
<1>2. ViewInv /\ [Next]_vars => [Rows!StuckNext]_(Rows!stuckVars)
  <2> SUFFICES ASSUME ViewInv, [Next]_vars
               PROVE  Rows!StuckNext \/ UNCHANGED Rows!stuckVars
    OBVIOUS
  <2> USE DEF Rows!stuckVars, Rows!StuckNext
  <2>1. CASE UNCHANGED <<recorded, status, canceled>>
    BY <2>1, ChainSide
  <2>2. ASSUME NEW h \in Hash, recorded' = recorded \cup {h}, net[h] # "unsent",
               UNCHANGED <<chainVars, status, canceled>>
        PROVE  Rows!StuckNext \/ UNCHANGED Rows!stuckVars
    BY <2>2, RecordSide
  <2>3. CASE CheckSave
    <3>1. UNCHANGED <<chainVars, recorded, canceled>>
      BY <2>3 DEF CheckSave
    <3>2. \A h \in Hash : status'[h] # status[h] => status[h] = "NULL"
      BY <2>3 DEF CheckSave, CheckedStatus, ViewInv, IInv, TypeOK, TaskInv, Outcome
    <3> QED
      BY <3>1, <3>2, SaveSide
  <2>4. ASSUME NEW feeData \in BOOLEAN, CleanSave(feeData)
        PROVE  Rows!StuckNext \/ UNCHANGED Rows!stuckVars
    <3>1. UNCHANGED <<chainVars, recorded, canceled>>
      BY <2>4 DEF CleanSave
    <3>2. \A h \in Hash : status'[h] # status[h] => status[h] = "2"
      BY <2>4 DEF CleanSave, Receipted, ViewInv, IInv, TypeOK, TaskInv, Outcome
    <3> QED
      BY <3>1, <3>2, SaveSide
  <2>5. ASSUME NEW h \in Hash, CancelMark(h)
        PROVE  Rows!StuckNext \/ UNCHANGED Rows!stuckVars
    BY <2>5, CancelSide
  <2> QED
    BY <2>1, <2>2, <2>3, <2>4, <2>5, TableKinds DEF ViewInv
<1> QED
  BY <1>1, <1>2, ViewInvariance, PTL DEF Spec, RowsSpec, Rows!StuckSpec

(* So little of a stuck account is overlooked in the service as well. *)
Lemmas == INSTANCE StuckAccountsProofs WITH AccountTx <- Hash, TopNonce <- NumTx

THEOREM StuckOfService == Spec => []Lemmas!FewUnnoticed
<1>1. NumTx \in Nat
  BY NumTxAssumption
<1>2. Lemmas!StuckSpec => []Lemmas!FewUnnoticed
  BY <1>1, Lemmas!UnnoticedFew
<1>3. Rows!StuckInit <=> Lemmas!StuckInit
  BY DEF Rows!StuckInit, Lemmas!StuckInit
<1>4. [Rows!StuckNext]_(Rows!stuckVars) <=> [Lemmas!StuckNext]_(Lemmas!stuckVars)
  BY DEF Rows!StuckNext, Rows!stuckVars, Rows!SpendNonce, Rows!RecordRow, Rows!CancelRow,
     Rows!SaveRows, Rows!RowsToSave, Rows!HasReceipt, Lemmas!StuckNext, Lemmas!stuckVars,
     Lemmas!SpendNonce, Lemmas!RecordRow, Lemmas!CancelRow, Lemmas!SaveRows, Lemmas!RowsToSave,
     Lemmas!HasReceipt
<1>5. Rows!StuckSpec <=> Lemmas!StuckSpec
  BY <1>3, <1>4, PTL DEF Rows!StuckSpec, Lemmas!StuckSpec
<1> QED
  BY <1>2, <1>5, RowsImplemented, PTL DEF RowsSpec
=============================================================================
