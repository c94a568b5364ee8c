---------------------------- MODULE AccountView ----------------------------
(***************************************************************************)
(* The table of TxLifecycle as getAccountsNonce reads it for one account:  *)
(* the rows whose sender it is.  StuckAccounts assumes how such rows come  *)
(* to be, are settled and are canceled; here the requests, the two tasks   *)
(* and the chain of TxLifecycle take the place of that assumption.         *)
(***************************************************************************)
EXTENDS TxLifecycle

CONSTANT Owner    \* the account of the query

ASSUME OwnerAssumption == Owner \in Addr

IsOwnRow(h) == h \in recorded /\ from[h] = Owner

(* What StuckAccounts has as variables. *)
rowNonce == [h \in Hash |-> IF IsOwnRow(h) THEN nonce[h] ELSE 0]
rowStatus == [h \in Hash |-> IF IsOwnRow(h) THEN status[h] ELSE "absent"]
rowCanceled == {h \in canceled : from[h] = Owner}
spent == latest[Owner]

Rows == INSTANCE StuckAccounts WITH AccountTx <- Hash, TopNonce <- NumTx

(* The rows of an account change only as StuckAccounts lets them, so what  *)
(* it says of stuck accounts holds of the service: rows of one round are   *)
(* saved together, a nonce has one receipt, a row is canceled only with    *)
(* its nonce spent (cron.service.ts 43-132, 169-201, accounts.entity.ts    *)
(* 77-122).                                                                *)
RowsSpec == Rows!StuckSpec

(* The inductive invariant: nonces are spent by transactions of their      *)
(* sender, and by no more than there are.                                  *)
SpentInv ==
  /\ nonce \in [Hash -> 0 .. NumTx]
  /\ \A a \in Addr : \A n \in 0 .. (latest[a] - 1) :
       \E h \in Hash : Mined(h) /\ from[h] = a /\ nonce[h] = n

ViewInv == IInv /\ SpentInv
=============================================================================
