------------------------------ MODULE Counters ------------------------------
(***************************************************************************)
(* What the requests of AppService promise about app_states, accounts,     *)
(* tokens and tokens_to_generate: each takes effect in one step.  An       *)
(* account gets the index of the counter, a handover moves the faucet on   *)
(* by one, a token gets a name that no token has.                          *)
(***************************************************************************)
EXTENDS Integers

CONSTANTS Request, Name

VARIABLES accountIndex, accounts, faucetIndex, generated, tokens

vars == <<accountIndex, accounts, faucetIndex, generated, tokens>>

Init ==
  /\ accountIndex = 1
  /\ accounts = {}
  /\ faucetIndex = 0
  /\ generated = {}
  /\ tokens = {}

CreateAccount(r) ==
  /\ accounts' = accounts \cup {[index |-> accountIndex, by |-> r]}
  /\ accountIndex' = accountIndex + 1
  /\ UNCHANGED <<faucetIndex, generated, tokens>>

ReplaceFaucet ==
  /\ faucetIndex' = faucetIndex + 1
  /\ UNCHANGED <<accountIndex, accounts, generated, tokens>>

CreateToken(r, n) ==
  /\ n \notin generated
  /\ generated' = generated \cup {n}
  /\ tokens' = tokens \cup {[name |-> n, by |-> r]}
  /\ UNCHANGED <<accountIndex, accounts, faucetIndex>>

Next ==
  \/ ReplaceFaucet
  \/ \E r \in Request :
       CreateAccount(r) \/ \E n \in Name : CreateToken(r, n)

Spec == Init /\ [][Next]_vars
=============================================================================
