---------------------------- MODULE TxLifecycle ----------------------------
(***************************************************************************)
(* The life of a transaction row: a request of AppService signs,           *)
(* broadcasts and records a transaction; the task CHECK TRANSACTIONS       *)
(* COMPLETE fills in its receipt or gives it status 2 after ten minutes;   *)
(* the task CLEAN STUCK TRANSACTIONS COMPLETE takes the rows with status 2 *)
(* and fills in a late receipt, marks them canceled once their nonce is    *)
(* spent, or sends a replacement with the same nonce.  The three run       *)
(* concurrently; every await is a place where the others, and the chain,   *)
(* may move.                                                               *)
(***************************************************************************)
EXTENDS ChainNode

CONSTANTS
  FirstFaucet,   \* the faucet address the service starts with
  CheckTake,     \* rows the checker takes at a time (20 in the code)
  CleanTake      \* most rows the cleaner takes at a time (20 in the code)

ASSUME FaucetAssumption == FirstFaucet \in Faucet /\ Account \cap Faucet = {}
ASSUME TakeAssumption == CheckTake \in Nat /\ CleanTake \in Nat

(* inflight[t]: the request that is sending t.  "signed"/"sent" belong to  *)
(* the operations that record their transaction, "hsigned"/"hsent" to      *)
(* replaceFaucetAddress, which does not.                                   *)
Stage == {"no", "signed", "sent", "hsigned", "hsent"}
RowStatus == {"NULL", "0", "1", "2"}
Answer == {"none"} \cup Outcome
CheckStage == {"out", "ask"} \cup Answer
CancelStage == {"nonce", "key", "send", "wait", "record", "mark"}
CleanStage == CheckStage \cup CancelStage

VARIABLES
  faucet,       \* the address FAUCET_ACCOUNT_INDEX stands for
  retired,      \* the faucet addresses before it
  inflight,     \* the requests in progress
  recorded,     \* hashes with a row in transactions
  status,       \* its status column
  canceled,     \* rows with isCanceled
  activity,     \* rows an activity refers to
  actCanceled,  \* rows whose activity has isCanceled
  old,          \* rows created more than ten minutes ago
  chk,          \* chk[h]: the checker's work on row h
  cln,          \* cln[h]: the cleaner's work on row h
  calm          \* the environment has stopped failing (see Fairness)

dbVars == <<recorded, status, canceled, activity, actCanceled, old>>
sendVars == <<faucet, retired, inflight>>
vars == <<chainVars, dbVars, sendVars, chk, cln, calm>>

TypeOK ==
  /\ ChainTypeOK
  /\ faucet \in Faucet
  /\ retired \subseteq Faucet
  /\ inflight \in [Tx -> Stage]
  /\ recorded \subseteq Hash
  /\ status \in [Hash -> RowStatus]
  /\ canceled \subseteq Hash
  /\ activity \subseteq Hash
  /\ actCanceled \subseteq Hash
  /\ old \subseteq Hash
  /\ chk \in [Hash -> CheckStage]
  /\ cln \in [Hash -> CleanStage]
  /\ calm \in BOOLEAN

Init ==
  /\ net = [h \in Hash |-> "unsent"]
  /\ from = [h \in Hash |-> FirstFaucet]
  /\ nonce = [h \in Hash |-> 0]
  /\ latest = [a \in Addr |-> 0]
  /\ faucet = FirstFaucet
  /\ retired = {}
  /\ inflight = [t \in Tx |-> "no"]
  /\ recorded = {}
  /\ status = [h \in Hash |-> "NULL"]
  /\ canceled = {}
  /\ activity = {}
  /\ actCanceled = {}
  /\ old = {}
  /\ chk = [h \in Hash |-> "out"]
  /\ cln = [h \in Hash |-> "out"]
  /\ calm = FALSE

----------------------------------------------------------------------------
(* Requests *)

InFlight(t) == inflight[t] # "no"
Unused(t) == net[t] = "unsent" /\ ~InFlight(t)
NextUnused(t) == Unused(t) /\ \A u \in 1 .. (t - 1) : ~Unused(u)

(* sendCotiFromFaucet and replaceFaucetAddress hold the row of            *)
(* FAUCET_ACCOUNT_INDEX from before they sign until they commit.           *)
FaucetUnlocked == \A t \in Tx : InFlight(t) => from[t] \notin Faucet

Sign(t, a, n, stage) ==
  /\ NextUnused(t)
  /\ inflight' = [inflight EXCEPT ![t] = stage]
  /\ from' = [from EXCEPT ![t] = a]
  /\ nonce' = [nonce EXCEPT ![t] = n]
  /\ UNCHANGED <<net, latest, faucet, retired, dbVars, chk, cln, calm>>

(* An account signs for a transfer, a mint, a deployment or its onboarding *)
(* without any lock; the faucet signs under its lock.                      *)
BeginSend(t, a, n) ==
  /\ a \in Account \/ (a = faucet /\ FaucetUnlocked)
  /\ IsPendingNonce(a, n)
  /\ Sign(t, a, n, "signed")

(* replaceFaucetAddress asks for the 'latest' nonce instead. *)
BeginHandover(t) ==
  /\ FaucetUnlocked
  /\ Faucet \ (retired \cup {faucet}) # {}
  /\ Sign(t, faucet, latest[faucet], "hsigned")

(* The node accepts what was signed. *)
Broadcast(t) ==
  /\ inflight[t] \in {"signed", "hsigned"}
  /\ Pool(t, from[t], nonce[t])
  /\ inflight' = [inflight EXCEPT ![t] = IF @ = "signed" THEN "sent" ELSE "hsent"]
  /\ UNCHANGED <<from, nonce, latest, faucet, retired, dbVars, chk, cln, calm>>

(* createTransactionEntity, createActivityEntity and the commit. *)
SaveTransaction(t) ==
  /\ inflight[t] = "sent"
  /\ inflight' = [inflight EXCEPT ![t] = "no"]
  /\ recorded' = recorded \cup {t}
  /\ activity' = activity \cup {t}
  /\ UNCHANGED <<chainVars, faucet, retired, status, canceled, actCanceled, old,
                 chk, cln, calm>>

(* The commit of replaceFaucetAddress: the next index, and no row for the  *)
(* transaction it sent.                                                    *)
CommitHandover(t) ==
  /\ inflight[t] = "hsent"
  /\ inflight' = [inflight EXCEPT ![t] = "no"]
  /\ faucet' \in Faucet \ (retired \cup {faucet})
  /\ retired' = retired \cup {faucet}
  /\ UNCHANGED <<chainVars, dbVars, chk, cln, calm>>

(* The requests in T end without a commit.  What the node was given stays  *)
(* with it.                                                                *)
Discard(T) ==
  LET unsent == {t \in T : net[t] = "unsent"}
  IN  /\ inflight' = [t \in Tx |-> IF t \in T THEN "no" ELSE inflight[t]]
      /\ from' = [h \in Hash |-> IF h \in unsent THEN FirstFaucet ELSE from[h]]
      /\ nonce' = [h \in Hash |-> IF h \in unsent THEN 0 ELSE nonce[h]]
      /\ UNCHANGED <<net, latest, faucet, retired, dbVars>>

(* The node refuses (a spent nonce, an underpriced replacement), the call  *)
(* to it fails, or the database does: the exception rolls back.            *)
Abort(t) ==
  /\ InFlight(t)
  /\ calm => net[t] = "unsent" /\ (nonce[t] < latest[from[t]] \/ SlotTaken(from[t], nonce[t]))
  /\ Discard({t})
  /\ UNCHANGED <<chk, cln, calm>>

----------------------------------------------------------------------------
(* checkTransactionsComplete, one database transaction *)

TenMinutesPass(h) ==
  /\ h \in recorded \ old
  /\ status[h] = "NULL"
  /\ old' = old \cup {h}
  /\ UNCHANGED <<chainVars, sendVars, recorded, status, canceled, activity,
                 actCanceled, chk, cln, calm>>

Idle(work) == \A h \in Hash : work[h] = "out"
NoStatus == {h \in recorded : status[h] = "NULL"}

CheckFetch(S) ==
  /\ Idle(chk)
  /\ S # {}
  /\ S \subseteq NoStatus
  /\ S = NoStatus \/ Cardinality(S) = CheckTake
  /\ Cardinality(S) <= CheckTake
  /\ chk' = [h \in Hash |-> IF h \in S THEN "ask" ELSE "out"]
  /\ UNCHANGED <<chainVars, sendVars, dbVars, cln, calm>>

CheckReceipt(h) ==
  /\ chk[h] = "ask"
  /\ chk' = [chk EXCEPT ![h] = Receipt(h)]
  /\ UNCHANGED <<chainVars, sendVars, dbVars, cln, calm>>

(* A rejected receipt promise sets nothing in the map: as good as null. *)
CheckReceiptError(h) ==
  /\ ~calm
  /\ chk[h] = "ask"
  /\ chk' = [chk EXCEPT ![h] = "none"]
  /\ UNCHANGED <<chainVars, sendVars, dbVars, cln, calm>>

Answered(work) == ~Idle(work) /\ \A h \in Hash : work[h] # "ask"

(* Fault: the ten minutes are forgotten. *)
CheckedStatusPatient(h) == IF chk[h] \in Outcome THEN chk[h] ELSE status[h]

CheckedStatus(h) ==
  IF chk[h] \in Outcome THEN chk[h]
  ELSE IF chk[h] = "none" /\ h \in old THEN "2"
  ELSE status[h]

CheckSave ==
  /\ Answered(chk)
  /\ status' = [h \in Hash |-> CheckedStatus(h)]
  /\ chk' = [h \in Hash |-> "out"]
  /\ UNCHANGED <<chainVars, sendVars, recorded, canceled, activity, actCanceled,
                 old, cln, calm>>

(* The database fails and the whole round is rolled back. *)
CheckAbort ==
  /\ ~calm
  /\ ~Idle(chk)
  /\ chk' = [h \in Hash |-> "out"]
  /\ UNCHANGED <<chainVars, sendVars, dbVars, cln, calm>>

----------------------------------------------------------------------------
(* cleanStuckAccounts and handleTransactionCancel *)

(* Faults: the status filter is forgotten; the isCanceled filter is. *)
StuckAnyStatus == {h \in recorded : status[h] \notin Outcome /\ h \notin canceled}
StuckEvenCanceled == {h \in recorded : status[h] = "2"}

Stuck == {h \in recorded : status[h] = "2" /\ h \notin canceled}

(* The row count is random, between 1 and CleanTake. *)
CleanFetch(S) ==
  /\ Idle(cln)
  /\ S # {}
  /\ S \subseteq Stuck
  /\ Cardinality(S) <= CleanTake
  /\ cln' = [h \in Hash |-> IF h \in S THEN "ask" ELSE "out"]
  /\ UNCHANGED <<chainVars, sendVars, dbVars, chk, calm>>

CleanReceipt(h) ==
  /\ cln[h] = "ask"
  /\ cln' = [cln EXCEPT ![h] = Receipt(h)]
  /\ UNCHANGED <<chainVars, sendVars, dbVars, chk, calm>>

CleanReceiptError(h) ==
  /\ ~calm
  /\ cln[h] = "ask"
  /\ cln' = [cln EXCEPT ![h] = "none"]
  /\ UNCHANGED <<chainVars, sendVars, dbVars, chk, calm>>

Receipted(h) == cln[h] \in Outcome
AllReceiptsIn == ~Idle(cln) /\ \A h \in Hash : cln[h] \in {"out"} \cup Answer

(* The rows with a receipt are saved together, then the fee data is read   *)
(* (if that fails the round is over) and the others go on to be canceled.  *)
CleanSave(feeData) ==
  /\ AllReceiptsIn
  /\ feeData \/ ~calm
  /\ status' = [h \in Hash |-> IF Receipted(h) THEN cln[h] ELSE status[h]]
  /\ cln' = [h \in Hash |-> IF feeData /\ cln[h] = "none" THEN "nonce" ELSE "out"]
  /\ UNCHANGED <<chainVars, sendVars, recorded, canceled, activity, actCanceled,
                 old, chk, calm>>

(* The save fails. *)
CleanAbort ==
  /\ ~calm
  /\ AllReceiptsIn
  /\ cln' = [h \in Hash |-> "out"]
  /\ UNCHANGED <<chainVars, sendVars, dbVars, chk, calm>>

NonceSpent(h) == latest[from[h]] > nonce[h]

(* Faults: >= for >; the comparison is forgotten. *)
CancelNonceOffByOne(h) ==
  /\ cln[h] = "nonce"
  /\ cln' = [cln EXCEPT ![h] = IF latest[from[h]] >= nonce[h] THEN "mark" ELSE "key"]
  /\ UNCHANGED <<chainVars, sendVars, dbVars, chk, calm>>
CancelNonceForgotten(h) ==
  /\ cln[h] = "nonce"
  /\ cln' = [cln EXCEPT ![h] = "key"]
  /\ UNCHANGED <<chainVars, sendVars, dbVars, chk, calm>>

CancelNonce(h) ==
  /\ cln[h] = "nonce"
  /\ cln' = [cln EXCEPT ![h] = IF NonceSpent(h) THEN "mark" ELSE "key"]
  /\ UNCHANGED <<chainVars, sendVars, dbVars, chk, calm>>

HasKey(a) == a \in Account \/ a = faucet

(* getAccountByAddress, else the present faucet's wallet.  The faucet's    *)
(* lock is not taken, here or when the wallet is used.                     *)
CancelKey(h) ==
  /\ cln[h] = "key"
  /\ HasKey(from[h])
  /\ cln' = [cln EXCEPT ![h] = "send"]
  /\ UNCHANGED <<chainVars, sendVars, dbVars, chk, calm>>

(* The attempt of sendCancellationTransaction that the node accepts.       *)
CancelSend(h) ==
  /\ cln[h] = "send"
  /\ Pool(Cancel(h), from[h], nonce[h])
  /\ from' = [from EXCEPT ![Cancel(h)] = from[h]]
  /\ nonce' = [nonce EXCEPT ![Cancel(h)] = nonce[h]]
  /\ cln' = [cln EXCEPT ![h] = "wait"]
  /\ UNCHANGED <<latest, sendVars, dbVars, chk, calm>>

(* Fault: the cancellation is not awaited. *)
CancelNotAwaited(h) ==
  /\ cln[h] = "wait"
  /\ cln' = [cln EXCEPT ![h] = "record"]
  /\ UNCHANGED <<chainVars, sendVars, dbVars, chk, calm>>

(* tx.wait() answers within the 25 seconds. *)
CancelWaited(h) ==
  /\ cln[h] = "wait"
  /\ Mined(Cancel(h))
  /\ cln' = [cln EXCEPT ![h] = "record"]
  /\ UNCHANGED <<chainVars, sendVars, dbVars, chk, calm>>

(* createTransactionEntity for the cancellation, a transaction of its own. *)
CancelRecord(h) ==
  /\ cln[h] = "record"
  /\ recorded' = recorded \cup {Cancel(h)}
  /\ cln' = [cln EXCEPT ![h] = "mark"]
  /\ UNCHANGED <<chainVars, sendVars, status, canceled, activity, actCanceled,
                 old, chk, calm>>

(* save([transaction, activity]): the row as the round read it, status 2,  *)
(* with the two flags.  A row no activity refers to throws before the save. *)
CancelMark(h) ==
  /\ cln[h] = "mark"
  /\ h \in activity
  /\ status' = [status EXCEPT ![h] = "2"]
  /\ canceled' = canceled \cup {h}
  /\ actCanceled' = actCanceled \cup {h}
  /\ cln' = [cln EXCEPT ![h] = "out"]
  /\ UNCHANGED <<chainVars, sendVars, recorded, activity, old, chk, calm>>

(* The handler cannot succeed: no activity to mark; no key; the nonce      *)
(* spent since it was read; the cancellation replaced, or held back by a   *)
(* missing lower nonce until the 25 seconds are over.                      *)
CannotCancel(h) ==
  \/ cln[h] = "mark" /\ h \notin activity
  \/ cln[h] = "key" /\ ~HasKey(from[h])
  \/ cln[h] = "send" /\ NonceSpent(h)
  \/ cln[h] = "wait" /\ ~Mined(Cancel(h))
                     /\ ~(Live(Cancel(h)) /\ latest[from[h]] = nonce[h])

(* Any rejection: allSettled drops it and the row waits for a later round. *)
CancelError(h) ==
  /\ cln[h] \in CancelStage
  /\ calm => CannotCancel(h)
  /\ cln' = [cln EXCEPT ![h] = "out"]
  /\ UNCHANGED <<chainVars, sendVars, dbVars, chk, calm>>

----------------------------------------------------------------------------
(* The environment *)

nonChain == <<dbVars, sendVars, chk, cln, calm>>

NodeMine(h) == Mine(h) /\ UNCHANGED nonChain
NodeDrop(h) == ~calm /\ Drop(h) /\ UNCHANGED nonChain
NodeRegossip(h) == ~calm /\ Regossip(h) /\ UNCHANGED nonChain

(* The process dies (an unhandled rejection of handleSendCoti's promises   *)
(* is enough) and starts again: open database transactions roll back and   *)
(* both tasks start from their fetch.                                      *)
Crash ==
  /\ ~calm
  /\ Discard(Tx)
  /\ chk' = [h \in Hash |-> "out"]
  /\ cln' = [h \in Hash |-> "out"]
  /\ UNCHANGED calm

(* From here on no crash, no failing call, no transaction lost. *)
BecomeCalm ==
  /\ ~calm
  /\ calm' = TRUE
  /\ UNCHANGED <<chainVars, dbVars, sendVars, chk, cln>>

Request ==
  \E t \in Tx :
    \/ \E a \in Addr, n \in 0 .. NumTx : BeginSend(t, a, n)
    \/ BeginHandover(t)
    \/ Broadcast(t)
    \/ SaveTransaction(t)
    \/ CommitHandover(t)
    \/ Abort(t)

Checker ==
  \/ \E S \in SUBSET Hash : CheckFetch(S)
  \/ \E h \in Hash : CheckReceipt(h) \/ CheckReceiptError(h)
  \/ CheckSave
  \/ CheckAbort

CancelStep(h) ==
  \/ CancelNonce(h)
  \/ CancelKey(h)
  \/ CancelSend(h)
  \/ CancelWaited(h)
  \/ CancelRecord(h)
  \/ CancelMark(h)
  \/ CancelError(h)

Cleaner ==
  \/ \E S \in SUBSET Hash : CleanFetch(S)
  \/ \E h \in Hash : CleanReceipt(h) \/ CleanReceiptError(h) \/ CancelStep(h)
  \/ \E feeData \in BOOLEAN : CleanSave(feeData)
  \/ CleanAbort

Environment ==
  \/ \E h \in Hash : NodeMine(h) \/ NodeDrop(h) \/ NodeRegossip(h) \/ TenMinutesPass(h)
  \/ Crash
  \/ BecomeCalm

Next == Request \/ Checker \/ Cleaner \/ Environment

Spec == Init /\ [][Next]_vars

----------------------------------------------------------------------------
(* Safety *)

(* A row says "reverted" or "succeeded" only of a transaction the chain    *)
(* holds with that outcome, whichever task wrote it and however long after *)
(* the receipt was read (cron.service.ts 183-199, 62-75).                  *)
ConfirmedIsMined ==
  \A h \in recorded : status[h] \in Outcome => net[h] = status[h]

(* A row is canceled only when its nonce is spent, so a canceled           *)
(* transaction that is not on the chain can never get there                *)
(* (cron.service.ts 101-106, 119-130).                                     *)
CanceledNonceSpent == \A h \in canceled : NonceSpent(h)

(* The two tasks are not synchronised, yet never hold the same row, so     *)
(* neither saves an image the other has made stale.                        *)
TasksApart == \A h \in Hash : chk[h] = "out" \/ cln[h] = "out"

(* A cancellation is recorded only once it is on the chain, and then the   *)
(* transaction it replaces is not, and its row has no receipt              *)
(* (cron.service.ts 119-130).                                              *)
CancellationReplaces ==
  \A t \in Tx : Cancel(t) \in recorded =>
    net[Cancel(t)] = "1" /\ ~Mined(t) /\ status[t] = "2"

(* The cleaner never sends a cancellation of a cancellation, whose row has *)
(* no activity to mark (cron.service.ts 100, 119).                         *)
CancelsOnlyOriginals ==
  \A h \in Hash : cln[h] \in {"key", "send", "wait", "record"} => h \in Tx

(* A row's status moves from none to a receipt or 2, from 2 to a receipt,  *)
(* and no other way; a canceled row is final.                              *)
StatusMove == ({"NULL"} \X {"0", "1", "2"}) \cup ({"2"} \X Outcome)
StatusForward ==
  [][ /\ canceled \subseteq canceled'
      /\ \A h \in Hash : status'[h] # status[h] =>
           /\ <<status[h], status'[h]>> \in StatusMove
           /\ h \notin canceled
      /\ \A h \in canceled' : status'[h] = "2" ]_vars

(* Each row is a faithful account of the chain's decision. *)
RowOf(h) ==
  IF h \notin recorded THEN "absent"
  ELSE IF h \in canceled THEN "canceled"
  ELSE IF status[h] = "NULL" THEN "pending"
  ELSE IF status[h] = "2" THEN "stuck"
  ELSE status[h]

FateOf(h) ==
  IF Mined(h) THEN net[h]
  ELSE IF net[h] # "unsent" /\ NonceSpent(h) THEN "void"
  ELSE "open"

Ledger == INSTANCE TxLedger WITH
  row <- [h \in Hash |-> RowOf(h)],
  fate <- [h \in Hash |-> FateOf(h)]

LedgerSpec == Ledger!Spec

----------------------------------------------------------------------------
(* The inductive invariant behind the safety properties *)

(* A request holds a transaction the node has not seen, or has; at most    *)
(* one request at a time uses the faucet, and it is the present one.       *)
RequestInv ==
  /\ \A t \in Tx : inflight[t] \in {"signed", "hsigned"} => net[t] = "unsent"
  /\ \A t \in Tx : inflight[t] \in {"sent", "hsent"} => net[t] # "unsent"
  /\ \A t \in Tx : InFlight(t) /\ from[t] \in Faucet => from[t] = faucet
  /\ \A t \in Tx : inflight[t] \in {"hsigned", "hsent"} => from[t] \in Faucet
  /\ \A t, u \in Tx :
       InFlight(t) /\ from[t] \in Faucet /\ InFlight(u) /\ from[u] \in Faucet => t = u

(* Included transactions have spent their nonces, each its own.            *)
NonceInv ==
  /\ \A h \in Hash : Mined(h) => NonceSpent(h)
  /\ \A g, h \in Hash :
       Mined(g) /\ Mined(h) /\ from[g] = from[h] /\ nonce[g] = nonce[h] => g = h
  /\ \A h \in Cancellation : net[h] # "0"
  /\ \A t \in Tx : net[Cancel(t)] # "unsent" =>
       /\ net[t] # "unsent"
       /\ from[Cancel(t)] = from[t]
       /\ nonce[Cancel(t)] = nonce[t]

(* A row is a transaction the node was handed; its status is the chain's.  *)
RowInv ==
  /\ \A h \in recorded : net[h] # "unsent"
  /\ \A h \in Hash \ recorded : status[h] = "NULL"
  /\ ConfirmedIsMined
  /\ \A h \in canceled : h \in recorded /\ status[h] = "2" /\ NonceSpent(h)
  /\ CancellationReplaces

(* What a task holds is a row of the kind it fetched, and what it has read *)
(* about the row is still so.                                              *)
TaskInv ==
  /\ \A h \in Hash : chk[h] # "out" => h \in recorded /\ status[h] = "NULL"
  /\ \A h \in Hash : chk[h] \in Outcome => net[h] = chk[h]
  /\ \A h \in Hash : cln[h] # "out" =>
       h \in recorded /\ status[h] = "2" /\ h \notin canceled
  /\ \A h \in Hash : cln[h] \in Outcome => net[h] = cln[h]
  /\ \A h \in Hash : cln[h] = "mark" => NonceSpent(h)
  /\ \A h \in Hash : cln[h] = "wait" => net[Cancel(h)] # "unsent"
  /\ \A h \in Hash : cln[h] = "record" => net[Cancel(h)] = "1"
  /\ CancelsOnlyOriginals

IInv == TypeOK /\ RequestInv /\ NonceInv /\ RowInv /\ TaskInv

----------------------------------------------------------------------------
(* What two comments of cron.service.ts say, and the code does not do *)

(* "try to find in the node, if exist save it with the right params" (54): *)
(* a transaction the node has is saved with its receipt, never canceled.   *)
CanceledNeverMined == \A h \in canceled : ~Mined(h)

(* "if succeed save the cancel transaction and mark the old transaction    *)
(* and the activity as canceled" (127): a transaction canceled by its      *)
(* cancellation has that cancellation in the table.                        *)
CancelSaved ==
  \A t \in Tx : t \in canceled /\ Mined(Cancel(t)) => Cancel(t) \in recorded

----------------------------------------------------------------------------
(* Liveness *)

FullTake(S) == S = Stuck \/ Cardinality(S) = CleanTake

(* Every task runs in an endless loop (runEveryXSeconds), every handler    *)
(* goes on when its promise settles.  Once the environment is calm calls   *)
(* are answered, and blocks include the transaction whose turn it is.  The *)
(* cleaner's random row count is the full one again and again; which rows  *)
(* it gets when there are more is the database's choice, as the query has  *)
(* no order.  So is the checker's.                                         *)
Fairness ==
  /\ WF_vars(BecomeCalm)
  /\ \A t \in Tx :
       /\ WF_vars(Broadcast(t))
       /\ WF_vars(SaveTransaction(t))
       /\ WF_vars(CommitHandover(t))
       /\ WF_vars(Abort(t))
  /\ \A h \in Hash :
       /\ WF_vars(NodeMine(h))
       /\ WF_vars(TenMinutesPass(h))
       /\ WF_vars(CheckReceipt(h))
       /\ WF_vars(CleanReceipt(h))
       /\ WF_vars(CancelStep(h))
  /\ WF_vars(\E S \in SUBSET Hash : CheckFetch(S))
  /\ WF_vars(CheckSave)
  /\ SF_vars(\E S \in SUBSET Hash : FullTake(S) /\ CleanFetch(S))
  /\ WF_vars(CleanSave(TRUE))

FairSpec == Spec /\ Fairness

(* A lower nonce of the sender is missing and nobody will supply it: it    *)
(* was spent on a transaction that was sent, never recorded, and lost.     *)
LostNonce(h) ==
  \E n \in latest[from[h]] .. (nonce[h] - 1) :
    \A g \in Hash :
      net[g] # "unsent" /\ from[g] = from[h] /\ nonce[g] = n =>
        ~Live(g) /\ g \notin recorded

Settled(h) == status[h] \in Outcome \/ h \in canceled

(* Stuck rows a round can do nothing about: no receipt, and no key or not  *)
(* the sender's next nonce.  If they are as many as the cleaner takes, it  *)
(* may never take another, and h starves: it, or a row of its sender that  *)
(* comes before it, could be settled and is not.                           *)
Hopeless(h) ==
  /\ ~Mined(h) /\ ~NonceSpent(h)
  /\ ~HasKey(from[h]) \/ nonce[h] # latest[from[h]]

Starves(h) ==
  /\ Cardinality({g \in Stuck : Hopeless(g)}) >= CleanTake
  /\ \E g \in Stuck : from[g] = from[h] /\ nonce[g] <= nonce[h] /\ ~Hopeless(g)

(* Every recorded transaction ends confirmed or canceled, unless its       *)
(* sender is a faucet since replaced or lacks a lower nonce for good, or   *)
(* hopeless rows fill the cleaner's rounds (cron.service.ts 43-132,        *)
(* 169-201).                                                               *)
Settles ==
  \A h \in Hash :
    h \in recorded ~>
      \/ Settled(h)
      \/ [](from[h] \in retired \/ LostNonce(h))
      \/ []Starves(h)
=============================================================================
