---------------------------- MODULE MCActivities ----------------------------
EXTENDS Activities

(* The actions that are at their rate in a whole behaviour, so that their  *)
(* handlers are not called: transfers share nothing with onboardings and   *)
(* tokens but the round.                                                   *)
VARIABLE full

(* The actions that are not named here are disabled, by a range of zero. *)
MCRange ==
  [a \in Action |-> IF a \in {"CreateAccount", "SendCoti"} THEN 2
                    ELSE IF a \in {"OnboardAccount", "CreateToken"} THEN 1 ELSE 0]
MCMaxPerHour == [a \in Action |-> 1]

(* Init, with the activities of an earlier hour in the table. *)
FullInit ==
  /\ full \in {{"SendCoti"}, {"OnboardAccount", "CreateToken"}}
  /\ hour = [a \in Action |-> IF a \in full THEN MaxPerHour[a] ELSE 0]
  /\ hpc = [a \in Action |-> "idle"]
  /\ plan = Nothing /\ refill = Nothing /\ wait = Nothing /\ call = Nothing
  /\ left = 0
  /\ open = 0 /\ stuck = 0 /\ reverted = 0
  /\ late = Nothing

FullNext == Next /\ UNCHANGED full /\ \A a \in full : hour'[a] = MaxPerHour[a]

FullSpec == FullInit /\ [][FullNext]_<<vars, full>> /\ Fairness
=============================================================================
