----------------------------- MODULE Onboarding -----------------------------
(***************************************************************************)
(* The AES key of an account: onboardAccount obtains it from the chain and *)
(* stores it in the row of the account, on a connection of its own; the    *)
(* handlers of CronService load whole rows, ask whether their accounts are *)
(* stuck, and save the rows they loaded.  All share one connection pool.   *)
(***************************************************************************)
EXTENDS Integers, FiniteSets

CONSTANTS
  Account,    \* the rows of accounts
  Request,    \* bound: how many onboardAccount calls run at a time
  PoolSize    \* the connections onboardings may use

ASSUME AccountAssumption == Account # {}
ASSUME PoolAssumption == PoolSize \in Nat

(* handleMintToken, handleCreateToken and sendTokenWrapper load and save   *)
(* alike: one handler stands for them.                                     *)
RunActivities == {"handleSendCoti", "handleOnboardAccount"}
RunSlowActivities == {"slow"}
Task == {RunActivities, RunSlowActivities}
Handler == RunActivities \cup RunSlowActivities

(* A handler is "called" by its round, "loaded" its rows, and waits for    *)
(* what it started ("settling").                                           *)
HandlerPc == {"idle", "called", "loaded", "settling"}
RequestPc == {"none", "onboard", "save", "record"}
Caller == {"http", "cron"}

VARIABLES
  hasKey,      \* accounts whose networkAesKey is not NULL
  onboarded,   \* accounts with an onboarding transaction on the chain
  recorded,    \* accounts with a recorded onboarding transaction
  hpc,         \* hpc[h]: where handler h is
  rows,        \* rows[h]: the accounts it loaded
  keyed,       \* keyed[h]: those that had a key when it did
  todo,        \* the round's onboardings that wait for their connection
  req,         \* req[r]: an onboardAccount call with its connection
  calm         \* no failure from here on (see Fairness)

dbVars == <<hasKey, onboarded, recorded>>
handlerVars == <<hpc, rows, keyed, todo>>
vars == <<dbVars, handlerVars, req, calm>>

RequestState == [pc : RequestPc, account : Account, by : Caller]

NoCall == [pc |-> "none", account |-> CHOOSE a \in Account : TRUE, by |-> "http"]

TypeOK ==
  /\ hasKey \subseteq Account
  /\ onboarded \subseteq Account
  /\ recorded \subseteq Account
  /\ hpc \in [Handler -> HandlerPc]
  /\ rows \in [Handler -> SUBSET Account]
  /\ keyed \in [Handler -> SUBSET Account]
  /\ todo \subseteq Account
  /\ req \in [Request -> RequestState]
  /\ calm \in BOOLEAN

Init ==
  /\ hasKey = {}
  /\ onboarded = {}
  /\ recorded = {}
  /\ hpc = [h \in Handler |-> "idle"]
  /\ rows = [h \in Handler |-> {}]
  /\ keyed = [h \in Handler |-> {}]
  /\ todo = {}
  /\ req = [r \in Request |-> NoCall]
  /\ calm = FALSE

----------------------------------------------------------------------------
(* The connection pool: a request holds a connection until it ends, any    *)
(* other query takes one for its own time.                                 *)

Active(r) == req[r].pc # "none"

Used == Cardinality({r \in Request : Active(r)})

ConnectionFree == Used < PoolSize

(* Each connection is held by a call that waits for another one.           *)
PoolExhausted == Cardinality({r \in Request : req[r].pc = "save"}) >= PoolSize

----------------------------------------------------------------------------
(* The rounds of the two tasks *)

(* Fault: a round does not wait for the promises of the last one. *)
StartRoundEarly(T, H) ==
  /\ \A h \in T : hpc[h] \in {"idle", "settling"}
  /\ hpc' = [h \in Handler |-> IF h \in T THEN IF h \in H THEN "called" ELSE "idle" ELSE hpc[h]]
  /\ UNCHANGED <<dbVars, rows, keyed, todo, req, calm>>

(* A round calls the handlers below their rate, once the last round's      *)
(* promises have all settled.                                              *)
StartRound(T, H) ==
  /\ \A h \in T : hpc[h] = "idle"
  /\ hpc' = [h \in Handler |-> IF h \in H THEN "called" ELSE hpc[h]]
  /\ UNCHANGED <<dbVars, rows, keyed, todo, req, calm>>

(* Fault: accounts that were onboarded once are not looked for. *)
KeylessOnce == Account \ (hasKey \cup onboarded)

Keyless == Account \ hasKey

(* getAccountsToOnboard, or the rows of random accounts. *)
Load(h, S) ==
  /\ hpc[h] = "called"
  /\ ConnectionFree
  /\ h = "handleOnboardAccount" => S \subseteq Keyless /\ (calm => S = Keyless)
  /\ hpc' = [hpc EXCEPT ![h] = "loaded"]
  /\ rows' = [rows EXCEPT ![h] = S]
  /\ keyed' = [keyed EXCEPT ![h] = S \cap hasKey]
  /\ UNCHANGED <<dbVars, todo, req, calm>>

(* The rows are saved as they were loaded, with the answers of             *)
(* isStuckAccounts, and onboardAccount is called for the others.           *)
Save(h, stuck) ==
  /\ hpc[h] = "loaded"
  /\ ConnectionFree
  /\ stuck \subseteq rows[h]
  /\ calm => stuck = {}
  /\ hasKey' = (hasKey \ rows[h]) \cup keyed[h]
  /\ todo' = IF h = "handleOnboardAccount" THEN rows[h] \ stuck ELSE todo
  /\ hpc' = [hpc EXCEPT ![h] = "settling"]
  /\ rows' = [rows EXCEPT ![h] = {}]
  /\ keyed' = [keyed EXCEPT ![h] = {}]
  /\ UNCHANGED <<onboarded, recorded, req, calm>>

(* Nothing to do, or the database fails. *)
Leave(h) ==
  /\ ~calm
  /\ hpc[h] \in {"called", "loaded"}
  /\ ConnectionFree
  /\ hpc' = [hpc EXCEPT ![h] = "idle"]
  /\ rows' = [rows EXCEPT ![h] = {}]
  /\ keyed' = [keyed EXCEPT ![h] = {}]
  /\ UNCHANGED <<dbVars, todo, req, calm>>

CronRequest(r) == Active(r) /\ req[r].by = "cron"

Settle(h) ==
  /\ hpc[h] = "settling"
  /\ h = "handleOnboardAccount" => todo = {} /\ \A r \in Request : ~CronRequest(r)
  /\ hpc' = [hpc EXCEPT ![h] = "idle"]
  /\ UNCHANGED <<dbVars, rows, keyed, todo, req, calm>>

----------------------------------------------------------------------------
(* onboardAccount *)

(* The transaction begins and reads the row; an onboarded account is       *)
(* refused, and so ends at once.                                           *)
Begin(r, a, by) ==
  /\ ~Active(r)
  /\ ConnectionFree
  /\ by = "cron" => a \in todo
  /\ todo' = IF by = "cron" THEN todo \ {a} ELSE todo
  /\ req' = [req EXCEPT ![r] = IF a \in hasKey THEN @ ELSE [pc |-> "onboard", account |-> a, by |-> by]]
  /\ UNCHANGED <<dbVars, hpc, rows, keyed, calm>>

Goto(r, pc) == req' = [req EXCEPT ![r].pc = pc]
End(r) == req' = [req EXCEPT ![r] = NoCall]

(* Fault: a failed onboarding goes on with the key it did not get. *)
OnboardUnchecked(r) ==
  /\ req[r].pc = "onboard"
  /\ onboarded' \in {onboarded, onboarded \cup {req[r].account}}
  /\ Goto(r, "save")
  /\ UNCHANGED <<hasKey, recorded, handlerVars, calm>>

(* The wallet sends its onboarding transaction and waits for the key. *)
Onboard(r) ==
  /\ req[r].pc = "onboard"
  /\ onboarded' = onboarded \cup {req[r].account}
  /\ Goto(r, "save")
  /\ UNCHANGED <<hasKey, recorded, handlerVars, calm>>

(* manager.save(account): not by the transaction's manager, hence on a     *)
(* second connection and at once durable.                                  *)
SaveKey(r) ==
  /\ req[r].pc = "save"
  /\ ConnectionFree
  /\ hasKey' = hasKey \cup {req[r].account}
  /\ Goto(r, "record")
  /\ UNCHANGED <<onboarded, recorded, handlerVars, calm>>

(* Fault: the connection is not released after the commit. *)
RecordUnreleased(r) ==
  /\ req[r].pc = "record"
  /\ recorded' = recorded \cup {req[r].account}
  /\ UNCHANGED <<hasKey, onboarded, handlerVars, req, calm>>

(* The transaction's row, its activity, and the commit. *)
Record(r) ==
  /\ req[r].pc = "record"
  /\ recorded' = recorded \cup {req[r].account}
  /\ End(r)
  /\ UNCHANGED <<hasKey, onboarded, handlerVars, calm>>

(* The chain or the database fails and the transaction rolls back.  A call *)
(* that waits for the pool does not fail: it has no timeout.               *)
Fail(r) ==
  /\ ~calm
  /\ Active(r)
  /\ req[r].pc = "save" => ConnectionFree
  /\ End(r)
  /\ UNCHANGED <<dbVars, handlerVars, calm>>

(* The process ends and starts again. *)
Crash ==
  /\ ~calm
  /\ hpc' = [h \in Handler |-> "idle"]
  /\ rows' = [h \in Handler |-> {}]
  /\ keyed' = [h \in Handler |-> {}]
  /\ todo' = {}
  /\ req' = [r \in Request |-> NoCall]
  /\ UNCHANGED <<dbVars, calm>>

(* From here on no crash, no failing call, no stuck account, and rounds    *)
(* that take every account they find.                                      *)
BecomeCalm ==
  /\ ~calm
  /\ calm' = TRUE
  /\ UNCHANGED <<dbVars, handlerVars, req>>

----------------------------------------------------------------------------

Cron ==
  \/ \E T \in Task : \E H \in (SUBSET T) \ {{}} : StartRound(T, H)
  \/ \E h \in Handler :
       \/ \E S \in SUBSET Account : Load(h, S) \/ Save(h, S)
       \/ Leave(h)
       \/ Settle(h)

Step(r) == Onboard(r) \/ SaveKey(r) \/ Record(r)

Next ==
  \/ Cron
  \/ \E r \in Request :
       \/ \E a \in Account, by \in Caller : Begin(r, a, by)
       \/ Step(r)
       \/ Fail(r)
  \/ Crash
  \/ BecomeCalm

Spec == Init /\ [][Next]_vars

----------------------------------------------------------------------------
(* Properties *)

(* A key in the table was obtained from the chain, whoever wrote the row   *)
(* last (app.service.ts 371-377, cron.service.ts 339, 396).                *)
KeysAreEarned ==
  /\ hasKey \subseteq onboarded
  /\ \A h \in Handler : keyed[h] \subseteq onboarded

(* The task never onboards an account twice at a time: each round loads    *)
(* accounts without a key and waits for all it started                     *)
(* (cron.service.ts 385, 399-402).                                         *)
CronOnboardsApart ==
  /\ \A r, s \in Request :
       CronRequest(r) /\ CronRequest(s) /\ req[r].account = req[s].account => r = s
  /\ \A r \in Request : CronRequest(r) => req[r].account \notin todo

(* "already onboarded" (app.service.ts:368): the key marks an account      *)
(* whose onboarding was recorded.                                          *)
OnboardedKeepsKey == recorded \subseteq hasKey

(* The inductive invariant: a call past its onboarding has one on the      *)
(* chain, and the task's calls belong to a round that waits for them.      *)
CallInv ==
  \A r \in Request : req[r].pc \in {"save", "record"} => req[r].account \in onboarded

RoundInv ==
  todo # {} \/ (\E r \in Request : CronRequest(r)) => hpc["handleOnboardAccount"] = "settling"

IInv == TypeOK /\ KeysAreEarned /\ CallInv /\ RoundInv /\ CronOnboardsApart

----------------------------------------------------------------------------
(* Liveness *)

(* Promises settle, the loops of runEveryXSeconds go on, a round calls     *)
(* handleOnboardAccount again and again, and a call gets its turn.  The    *)
(* pool serves first who asked first: whoever waits for a connection gets  *)
(* one if connections are free again and again.                            *)
Fairness ==
  /\ WF_vars(BecomeCalm)
  /\ SF_vars(StartRound(RunActivities, RunActivities))
  /\ \A h \in Handler :
       /\ SF_vars(\E S \in SUBSET Account : Load(h, S) \/ Save(h, S))
       /\ WF_vars(Settle(h))
  /\ \A a \in Account : SF_vars(\E r \in Request : Begin(r, a, "cron"))
  /\ \A r \in Request : SF_vars(Step(r))

FairSpec == Spec /\ Fairness

(* A call waits for its second connection with the first in its hands, and *)
(* still ends, whoever begins meanwhile, unless calls that wait like it    *)
(* hold every connection: as long as the process lives they wait forever,  *)
(* since no such wait has a timeout (app.service.ts 354, 377).             *)
OnboardingsEnd == \A r \in Request : Active(r) ~> (~Active(r) \/ (calm /\ PoolExhausted))

(* A key that was obtained and is not, or no longer, in the table is       *)
(* obtained again, unless the pool is exhausted (cron.service.ts 385-402). *)
KeysReturn ==
  \A a \in Account : a \in onboarded ~> (a \in hasKey \/ (calm /\ PoolExhausted))
=============================================================================
