------------------------------ MODULE TxLedger ------------------------------
(***************************************************************************)
(* What the transactions table promises about the chain.  The chain        *)
(* decides each transaction once: it is included, or another one spends    *)
(* its nonce.  A row may be finished only with a decision already taken,   *)
(* and a finished row never changes.                                       *)
(***************************************************************************)
CONSTANT Hash

VARIABLES
  fate,   \* fate[h]: what the chain decided about h
  row     \* row[h]: what the table says of h

vars == <<fate, row>>

Included == {"0", "1"}
Fate == {"open", "void"} \cup Included
Row == {"absent", "pending", "stuck", "canceled"} \cup Included

Init ==
  /\ fate = [h \in Hash |-> "open"]
  /\ row = [h \in Hash |-> "absent"]

(* A block may decide several transactions: one is included, those that    *)
(* share its nonce are void.                                               *)
Decide ==
  /\ fate' \in [Hash -> Fate]
  /\ \A h \in Hash : fate'[h] # fate[h] => fate[h] = "open"
  /\ UNCHANGED row

LegalMove(h) ==
  \/ row[h] = "absent" /\ row'[h] = "pending"
  \/ row[h] = "pending" /\ row'[h] = "stuck"
  \/ row[h] \in {"pending", "stuck"} /\ row'[h] \in Included /\ row'[h] = fate[h]
  \/ row[h] = "stuck" /\ row'[h] = "canceled" /\ fate[h] # "open"

(* A task saves several rows at once; each makes a legal move of its own. *)
Write ==
  /\ row' \in [Hash -> Row]
  /\ \A h \in Hash : row'[h] # row[h] => LegalMove(h)
  /\ UNCHANGED fate

Next == Decide \/ Write

Spec == Init /\ [][Next]_vars
=============================================================================
