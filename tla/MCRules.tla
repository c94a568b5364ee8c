------------------------------ MODULE MCRules ------------------------------
(***************************************************************************)
(* Three small rules of CronService side by side: a behaviour picks one    *)
(* and runs it; the variables of the others stay where they are.           *)
(***************************************************************************)
EXTENDS FeeLadder, Batches, StuckAccounts

VARIABLE part

MCRowFee == {10, 11, 17}
MCMarketFee == {0, 13, 40}
MCOtherFee == {15, 60}

(* Where the variables of a part that does not run stay. *)
FeeAtRest ==
  FeeInit /\ rowFee = [p \in Part |-> 10] /\ market = Zero /\ holds = "nothing"
BatchAtRest == BatchInit /\ accounts = 0

RulesInit ==
  \/ part = "fees" /\ FeeInit /\ BatchAtRest /\ StuckInit
  \/ part = "batches" /\ FeeAtRest /\ BatchInit /\ StuckInit
  \/ part = "stuck" /\ FeeAtRest /\ BatchAtRest /\ StuckInit

RulesNext ==
  /\ UNCHANGED part
  /\ \/ part = "fees" /\ FeeNext /\ UNCHANGED <<batchVars, stuckVars>>
     \/ part = "batches" /\ BatchNext /\ UNCHANGED <<feeVars, stuckVars>>
     \/ part = "stuck" /\ StuckNext /\ UNCHANGED <<feeVars, batchVars>>

RulesSpec == RulesInit /\ [][RulesNext]_<<part, feeVars, batchVars, stuckVars>>
=============================================================================
