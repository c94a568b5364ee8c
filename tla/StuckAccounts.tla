--------------------------- MODULE StuckAccounts ---------------------------
(***************************************************************************)
(* How CronService finds out that an account is stuck: getAccountsNonce    *)
(* takes two maxima over the account's rows in transactions, and           *)
(* isStuckAccounts compares them.  Here are the rows of one account, as    *)
(* the checker and the cleaner of TxLifecycle change them, transactions    *)
(* and cancellations alike.                                                *)
(***************************************************************************)
EXTENDS Integers, FiniteSets
LOCAL INSTANCE FiniteSetsExt

CONSTANTS
  AccountTx,   \* bound: rows of the account
  TopNonce     \* bound: their highest nonce

ASSUME TopNonceAssumption == TopNonce \in Nat

VARIABLES
  rowNonce,      \* rowNonce[t]: the nonce of row t, 0 .. TopNonce
  rowStatus,     \* its status, "NULL", "0", "1" or "2"; "absent" before it is recorded
  rowCanceled,   \* rows with isCanceled
  spent          \* nonces the chain has used up: those below spent

stuckVars == <<rowNonce, rowStatus, rowCanceled, spent>>

StuckTypeOK ==
  /\ rowNonce \in [AccountTx -> 0 .. TopNonce]
  /\ rowStatus \in [AccountTx -> {"absent", "NULL", "0", "1", "2"}]
  /\ rowCanceled \subseteq AccountTx
  /\ spent \in 0 .. TopNonce + 1

StuckInit ==
  /\ rowNonce = [t \in AccountTx |-> 0]
  /\ rowStatus = [t \in AccountTx |-> "absent"]
  /\ rowCanceled = {}
  /\ spent = 0

----------------------------------------------------------------------------
(* The rows *)

(* A nonce may be left out, by a send that failed to record, or used for a *)
(* second row, by a cancellation or after the pool forgot the first.       *)
RecordRow(t, n) ==
  /\ rowStatus[t] = "absent"
  /\ rowNonce' = [rowNonce EXCEPT ![t] = n]
  /\ rowStatus' = [rowStatus EXCEPT ![t] = "NULL"]
  /\ UNCHANGED <<rowCanceled, spent>>

SpendNonce ==
  /\ spent <= TopNonce
  /\ spent' = spent + 1
  /\ UNCHANGED <<rowNonce, rowStatus, rowCanceled>>

(* A round saves the rows it has found something out about at once: the    *)
(* checker some without a status, the cleaner some with status 2.  The     *)
(* chain uses a nonce once, so one row at most has its receipt.            *)
RowsToSave(before) == {t \in AccountTx \ rowCanceled : rowStatus[t] = before}
HasReceipt(t) == rowStatus[t] \in {"0", "1"}
SaveRows(S, r) ==
  /\ rowStatus' = [t \in AccountTx |-> IF t \in S THEN r[t] ELSE rowStatus[t]]
  /\ \A t \in S : HasReceipt(t)' => rowNonce[t] < spent
  /\ \A t, u \in AccountTx :
       HasReceipt(t)' /\ HasReceipt(u)' /\ rowNonce[t] = rowNonce[u] => t = u
  /\ UNCHANGED <<rowNonce, rowCanceled, spent>>

(* The nonce was spent, by the cleaner's cancellation or another.          *)
CancelRow(t) ==
  /\ rowStatus[t] = "2" /\ t \notin rowCanceled
  /\ rowNonce[t] < spent
  /\ rowCanceled' = rowCanceled \cup {t}
  /\ UNCHANGED <<rowNonce, rowStatus, spent>>

----------------------------------------------------------------------------
(* isStuckAccounts *)

(* MAX(CASE WHEN status = s THEN nonce) where isCanceled is false; no row  *)
(* at all is NULL, and so is no nonce with that status: 0 for the caller.  *)
MaxNonce(s) ==
  Max({0} \cup {rowNonce[t] : t \in {u \in AccountTx \ rowCanceled : rowStatus[u] = s}})

maxStuckNonce == MaxNonce("2")
maxPendingNonce == MaxNonce("1")      \* what the query selects under this name
maxCompletedNonce == MaxNonce("1")

(* Fault: two are added to the completed nonce. *)
IsStuckLate == maxCompletedNonce + 2 < Max({maxStuckNonce, maxPendingNonce})

IsStuck == maxCompletedNonce + 1 < Max({maxStuckNonce, maxPendingNonce})

----------------------------------------------------------------------------

StuckNext ==
  \/ SpendNonce
  \/ \E t \in AccountTx :
       \/ \E n \in 0 .. TopNonce : RecordRow(t, n)
       \/ CancelRow(t)
  \/ \E before \in {"NULL", "2"} : \E S \in SUBSET RowsToSave(before) :
       \E r \in [S -> {"0", "1", "2"}] : SaveRows(S, r)

StuckSpec == StuckInit /\ [][StuckNext]_stuckVars

----------------------------------------------------------------------------
(* Properties *)

StuckRows == {t \in AccountTx \ rowCanceled : rowStatus[t] = "2"}
ConfirmedRows == {t \in AccountTx : rowStatus[t] = "1"}

(* An account that counts as free has at most one stuck nonce above those  *)
(* that succeeded, or two if none has: no nonce counts as nonce 0, and     *)
(* pending transactions do not count (cron.service.ts 315).                *)
FewUnnoticed ==
  LET above == {rowNonce[t] : t \in {s \in StuckRows :
                                       \A u \in ConfirmedRows : rowNonce[u] < rowNonce[s]}}
  IN  ~IsStuck => Cardinality(above) <= IF ConfirmedRows = {} THEN 2 ELSE 1

----------------------------------------------------------------------------
(* The inductive invariant *)

(* What is known to be settled is settled for good: the query leaves out   *)
(* no row that succeeded.                                                  *)
StuckInv ==
  /\ StuckTypeOK
  /\ \A t \in rowCanceled : rowStatus[t] = "2"
=============================================================================
