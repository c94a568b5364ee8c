----------------------------- MODULE ChainNode -----------------------------
(***************************************************************************)
(* The EVM node behind EthersService, as far as the application can tell:  *)
(* the fate of every transaction it was ever handed and the confirmed      *)
(* nonce of every address.  The node is not part of the repository; it is  *)
(* modelled from the calls src/src/services/ethers.service.ts makes.       *)
(* One node answers every call, so a read returns its state at that time.  *)
(***************************************************************************)
EXTENDS Integers, FiniteSets

CONSTANTS
  NumTx,      \* bound: how many transactions the service signs in a behaviour
  Account,    \* addresses of the rows of the accounts table
  Faucet      \* addresses the faucet index runs through, in the order used

ASSUME NumTxAssumption == NumTx \in Nat

Addr == Account \cup Faucet

(* The transactions the service signs, numbered in the order in which the  *)
(* signing begins, and for each the replacement the cleaner may send in its *)
(* place: the negative numbers.  One number stands for all the replacements *)
(* of a transaction that successive rounds of the cleaner broadcast.        *)
Tx == 1 .. NumTx
Cancel(t) == - t
Cancellation == {Cancel(t) : t \in Tx}
Hash == Tx \cup Cancellation

Outcome == {"0", "1"}                 \* receipt.status: reverted, succeeded
NetState == {"unsent", "live", "dropped"} \cup Outcome

VARIABLES
  net,      \* net[h]: where the node has transaction h
  from,     \* from[h]: the sender of h
  nonce,    \* nonce[h]: the nonce h was signed with
  latest    \* latest[a]: getTransactionCount(a, 'latest')

chainVars == <<net, from, nonce, latest>>

ChainTypeOK ==
  /\ net \in [Hash -> NetState]
  /\ from \in [Hash -> Addr]
  /\ nonce \in [Hash -> Nat]
  /\ latest \in [Addr -> Nat]

Live(h) == net[h] = "live"
Mined(h) == net[h] \in Outcome
SlotTaken(a, n) == \E h \in Hash : Live(h) /\ from[h] = a /\ nonce[h] = n

(* Fault: a pooled transaction counts as succeeded. *)
ReceiptOptimistic(h) == IF Mined(h) \/ Live(h) THEN "1" ELSE "none"

(* getTransactionReceipt: the status of a mined transaction, else null. *)
Receipt(h) == IF Mined(h) THEN net[h] ELSE "none"

(* A wallet given no nonce asks for the 'pending' count: the first nonce   *)
(* from the confirmed one on that no pooled transaction occupies.          *)
IsPendingNonce(a, n) ==
  /\ n >= latest[a]
  /\ ~SlotTaken(a, n)
  /\ \A m \in latest[a] .. (n - 1) : SlotTaken(a, m)

(* The pool takes h, signed by a with nonce n; a transaction it replaces   *)
(* leaves the pool.                                                        *)
Pool(h, a, n) ==
  /\ n >= latest[a]
  /\ net' = [g \in Hash |->
               IF g = h THEN "live"
               ELSE IF Live(g) /\ from[g] = a /\ nonce[g] = n THEN "dropped"
               ELSE net[g]]

(* A block includes h.  A cancellation sends nothing to its own sender and *)
(* cannot revert.                                                          *)
Mine(h) ==
  /\ Live(h)
  /\ nonce[h] = latest[from[h]]
  /\ \E o \in (IF h \in Tx THEN Outcome ELSE {"1"}) : net' = [net EXCEPT ![h] = o]
  /\ latest' = [latest EXCEPT ![from[h]] = @ + 1]
  /\ UNCHANGED <<from, nonce>>

(* The pool forgets h. *)
Drop(h) ==
  /\ Live(h)
  /\ net' = [net EXCEPT ![h] = "dropped"]
  /\ UNCHANGED <<from, nonce, latest>>

(* A peer that still had h brings it back, unless its nonce is spent. *)
Regossip(h) ==
  /\ net[h] = "dropped"
  /\ ~SlotTaken(from[h], nonce[h])
  /\ Pool(h, from[h], nonce[h])
  /\ UNCHANGED <<from, nonce, latest>>
=============================================================================
