----------------------------- MODULE AppService -----------------------------
(***************************************************************************)
(* The requests of AppService that read and write the shared counters of   *)
(* app_states: createAccount, sendCotiFromFaucet, replaceFaucetAddress and  *)
(* createNewToken.  Each runs in a database transaction of its own and     *)
(* awaits the database and the node at every step; row locks (SELECT ...   *)
(* FOR UPDATE) are all that keeps two requests apart.                      *)
(***************************************************************************)
EXTENDS Integers, FiniteSets

CONSTANTS
  Request,       \* bound: the requests of a behaviour
  NoOne,         \* the holder of a free lock
  Name,          \* the rows of tokens_to_generate
  MaxHandover    \* bound: how often the faucet is replaced

ASSUME NoOneAssumption == NoOne \notin Request
ASSUME HandoverAssumption == MaxHandover \in Nat

(* The rows that are locked: three of app_states and one of actions. *)
LockRow == {"ACCOUNT_INDEX", "FAUCET_ACCOUNT_INDEX", "CREATE_TOKEN_LOCK", "SendCotiFromFaucet"}

Kind == {"createAccount", "sendCotiFromFaucet", "replaceFaucetAddress", "createNewToken"}

(* What a request waits for, or does next.  "insert", "nonce", "send",     *)
(* "save", "name", "deploy" and "record" run under the locks taken before. *)
Pc == {"idle", "index", "insert", "action", "faucet", "nonce", "send", "save",
       "token", "name", "deploy", "record", "done", "failed"}
Ended == {"done", "failed"}

FaucetIndex == 0 .. MaxHandover

VARIABLES
  accountIndex,  \* the value of ACCOUNT_INDEX
  accounts,      \* the rows of accounts: [index, by], by the creating request
  faucetIndex,   \* the value of FAUCET_ACCOUNT_INDEX, counted from its first
  generated,     \* the rows of tokens_to_generate with isGenerated
  tokens,        \* the rows of tokens named from there: [name, by]
  lock,          \* lock[row]: the request that holds it
  req,           \* req[r]: the request's position and what it has read
  sent,          \* what the node accepted: [by, kind, from, nonce]
  latest,        \* latest[f]: the confirmed nonce of faucet f
  deployed       \* the contracts with a generated name: [name, by]

dbVars == <<accountIndex, accounts, faucetIndex, generated, tokens>>
vars == <<dbVars, lock, req, sent, latest, deployed>>

RequestState == [kind : Kind, pc : Pc, index : Nat, faucet : FaucetIndex, nonce : Nat,
                 name : SUBSET Name]

TypeOK ==
  /\ accountIndex \in Nat
  /\ accounts \subseteq [index : Nat, by : Request]
  /\ faucetIndex \in FaucetIndex
  /\ generated \subseteq Name
  /\ tokens \subseteq [name : Name, by : Request]
  /\ lock \in [LockRow -> Request \cup {NoOne}]
  /\ req \in [Request -> RequestState]
  /\ sent \subseteq [by : Request, kind : Kind, from : FaucetIndex, nonce : Nat]
  /\ latest \in [FaucetIndex -> Nat]
  /\ deployed \subseteq [name : Name, by : Request]

NewRequest == [kind |-> "createAccount", pc |-> "idle", index |-> 0, faucet |-> 0, nonce |-> 0,
               name |-> {}]

(* initAppStateOnDB gives ACCOUNT_INDEX the value 1. *)
Init ==
  /\ accountIndex = 1
  /\ accounts = {}
  /\ faucetIndex = 0
  /\ generated = {}
  /\ tokens = {}
  /\ lock = [row \in LockRow |-> NoOne]
  /\ req = [r \in Request |-> NewRequest]
  /\ sent = {}
  /\ latest = [f \in FaucetIndex |-> 0]
  /\ deployed = {}

----------------------------------------------------------------------------
(* Locks and positions *)

At(r, pc) == req[r].pc = pc
Goto(r, pc) == req' = [req EXCEPT ![r].pc = pc]

Lock(r, row) ==
  /\ lock[row] = NoOne
  /\ lock' = [lock EXCEPT ![row] = r]

(* A commit or a rollback. *)
Unlock(R) == lock' = [row \in LockRow |-> IF lock[row] \in R THEN NoOne ELSE lock[row]]

Begin(r) ==
  /\ At(r, "idle")
  /\ \/ req' = [req EXCEPT ![r].kind = "createAccount", ![r].pc = "index"]
     \/ \E i \in 1 .. Cardinality(Request) :
          req' = [req EXCEPT ![r].kind = "sendCotiFromFaucet", ![r].pc = "action", ![r].index = i]
     \/ req' = [req EXCEPT ![r].kind = "replaceFaucetAddress", ![r].pc = "faucet"]
     \/ req' = [req EXCEPT ![r].kind = "createNewToken", ![r].pc = "token"]
  /\ UNCHANGED <<dbVars, lock, sent, latest, deployed>>

(* Fault: createAccount catches what its refill throws. *)
FailCaught(r) ==
  /\ req[r].pc \notin Ended \cup {"idle"}
  /\ Unlock({r})
  /\ Goto(r, IF \E a \in accounts : a.by = r THEN "done" ELSE "failed")
  /\ UNCHANGED <<dbVars, sent, latest, deployed>>

(* An exception: the database or the node fails, a lock wait times out,    *)
(* the balance is too small, no name is left.                              *)
Fail(r) ==
  /\ req[r].pc \notin Ended \cup {"idle"}
  /\ Unlock({r})
  /\ Goto(r, "failed")
  /\ UNCHANGED <<dbVars, sent, latest, deployed>>

----------------------------------------------------------------------------
(* createAccount, first transaction *)

(* Fault: the lock argument is left out. *)
LockIndexForgotten(r) ==
  /\ At(r, "index")
  /\ req' = [req EXCEPT ![r].pc = "insert", ![r].index = accountIndex]
  /\ UNCHANGED <<dbVars, lock, sent, latest, deployed>>

LockIndex(r) ==
  /\ At(r, "index")
  /\ Lock(r, "ACCOUNT_INDEX")
  /\ req' = [req EXCEPT ![r].pc = "insert", ![r].index = accountIndex]
  /\ UNCHANGED <<dbVars, sent, latest, deployed>>

(* The account and the next index are committed; the first refill of the   *)
(* account is a second transaction, which may fail on its own.             *)
CommitAccount(r) ==
  /\ At(r, "insert")
  /\ accounts' = accounts \cup {[index |-> req[r].index, by |-> r]}
  /\ accountIndex' = req[r].index + 1
  /\ Unlock({r})
  /\ Goto(r, "action")
  /\ UNCHANGED <<faucetIndex, generated, tokens, sent, latest, deployed>>

----------------------------------------------------------------------------
(* sendCotiFromFaucet and replaceFaucetAddress *)

LockAction(r) ==
  /\ At(r, "action")
  /\ Lock(r, "SendCotiFromFaucet")
  /\ Goto(r, "faucet")
  /\ UNCHANGED <<dbVars, sent, latest, deployed>>

(* Fault: the lock argument is left out. *)
LockFaucetForgotten(r) ==
  /\ At(r, "faucet")
  /\ req' = [req EXCEPT ![r].pc = "nonce", ![r].faucet = faucetIndex]
  /\ UNCHANGED <<dbVars, lock, sent, latest, deployed>>

(* Fault: a handover locks the rows of a refill in the other order. *)
LockFaucetFirst(r) ==
  /\ At(r, "faucet")
  /\ Lock(r, "FAUCET_ACCOUNT_INDEX")
  /\ req' = [req EXCEPT ![r].pc = IF req[r].kind = "replaceFaucetAddress" THEN "action" ELSE "nonce",
                        ![r].faucet = faucetIndex]
  /\ UNCHANGED <<dbVars, sent, latest, deployed>>

(* getFaucetWallet reads the index under its lock. *)
LockFaucet(r) ==
  /\ At(r, "faucet")
  /\ Lock(r, "FAUCET_ACCOUNT_INDEX")
  /\ req' = [req EXCEPT ![r].pc = "nonce", ![r].faucet = faucetIndex]
  /\ UNCHANGED <<dbVars, sent, latest, deployed>>

IsHandover(r) == req[r].kind = "replaceFaucetAddress"
AccountExists(i) == \E a \in accounts : a.index = i
NoncesOf(f) == {s.nonce : s \in {s \in sent : s.from = f}}

(* The 'pending' count of the node: no transaction is lost here. *)
IsPendingNonce(f, n) ==
  /\ n >= latest[f]
  /\ n \notin NoncesOf(f)
  /\ \A m \in latest[f] .. (n - 1) : m \in NoncesOf(f)

SignWith(r, n) ==
  /\ req' = [req EXCEPT ![r].pc = "send", ![r].nonce = n]
  /\ UNCHANGED <<dbVars, lock, sent, latest, deployed>>

(* Fault: the lowest nonce no refill of the table uses. *)
NonceOfRefillByCount(r) ==
  /\ At(r, "nonce")
  /\ ~IsHandover(r)
  /\ AccountExists(req[r].index)
  /\ SignWith(r, Cardinality(sent))

(* Fault: the 'latest' count, as the handover uses. *)
NonceOfRefillLatest(r) ==
  /\ At(r, "nonce")
  /\ ~IsHandover(r)
  /\ AccountExists(req[r].index)
  /\ SignWith(r, latest[req[r].faucet])

(* A refill leaves the nonce to the wallet. *)
NonceOfRefill(r) ==
  /\ At(r, "nonce")
  /\ ~IsHandover(r)
  /\ AccountExists(req[r].index)
  /\ \E n \in 0 .. Cardinality(sent) : IsPendingNonce(req[r].faucet, n) /\ SignWith(r, n)

(* Fault: the handover reads its action under a lock, as a refill does.    *)
NonceOfHandoverLocksAction(r) ==
  /\ At(r, "nonce")
  /\ IsHandover(r)
  /\ req[r].faucet < MaxHandover
  /\ Lock(r, "SendCotiFromFaucet")
  /\ req' = [req EXCEPT ![r].pc = "send", ![r].nonce = latest[req[r].faucet]]
  /\ UNCHANGED <<dbVars, sent, latest, deployed>>

(* A handover asks getNextNonce, the 'latest' count. *)
NonceOfHandover(r) ==
  /\ At(r, "nonce")
  /\ IsHandover(r)
  /\ req[r].faucet < MaxHandover
  /\ SignWith(r, latest[req[r].faucet])

Sending(r) == [by |-> r, kind |-> req[r].kind, from |-> req[r].faucet, nonce |-> req[r].nonce]

Send(r) ==
  /\ At(r, "send")
  /\ req[r].nonce >= latest[req[r].faucet]
  /\ sent' = sent \cup {Sending(r)}
  /\ Goto(r, "save")
  /\ UNCHANGED <<dbVars, lock, latest, deployed>>

(* The refill's row and activity, which TxLifecycle follows from here on.  *)
CommitRefill(r) ==
  /\ At(r, "save")
  /\ req[r].kind \in {"createAccount", "sendCotiFromFaucet"}
  /\ Unlock({r})
  /\ Goto(r, "done")
  /\ UNCHANGED <<dbVars, sent, latest, deployed>>

CommitHandover(r) ==
  /\ At(r, "save")
  /\ IsHandover(r)
  /\ faucetIndex' = req[r].faucet + 1
  /\ Unlock({r})
  /\ Goto(r, "done")
  /\ UNCHANGED <<accountIndex, accounts, generated, tokens, sent, latest, deployed>>

----------------------------------------------------------------------------
(* createNewToken *)

(* Fault: the lock argument is left out. *)
LockTokenForgotten(r) ==
  /\ At(r, "token")
  /\ Goto(r, "name")
  /\ UNCHANGED <<dbVars, lock, sent, latest, deployed>>

LockToken(r) ==
  /\ At(r, "token")
  /\ Lock(r, "CREATE_TOKEN_LOCK")
  /\ Goto(r, "name")
  /\ UNCHANGED <<dbVars, sent, latest, deployed>>

(* getTokenToGenerate: some row not yet generated; a request that brings   *)
(* its own name and symbol takes none.                                     *)
PickName(r) ==
  /\ At(r, "name")
  /\ \E taken \in {{}} \cup {{n} : n \in Name \ generated} :
       req' = [req EXCEPT ![r].pc = "deploy", ![r].name = taken]
  /\ UNCHANGED <<dbVars, lock, sent, latest, deployed>>

Named(r) == {[name |-> n, by |-> r] : n \in req[r].name}

(* deployToken: an account signs it, and the node accepts it before any of *)
(* this is in the database.                                                *)
Deploy(r) ==
  /\ At(r, "deploy")
  /\ deployed' = deployed \cup Named(r)
  /\ Goto(r, "record")
  /\ UNCHANGED <<dbVars, lock, sent, latest>>

(* The name, the token, its transaction and activity are committed.        *)
CommitToken(r) ==
  /\ At(r, "record")
  /\ generated' = generated \cup req[r].name
  /\ tokens' = tokens \cup Named(r)
  /\ Unlock({r})
  /\ Goto(r, "done")
  /\ UNCHANGED <<accountIndex, accounts, faucetIndex, sent, latest, deployed>>

----------------------------------------------------------------------------
(* The node and the process *)

Mine(f) ==
  /\ latest[f] \in NoncesOf(f)
  /\ latest' = [latest EXCEPT ![f] = @ + 1]
  /\ UNCHANGED <<dbVars, lock, req, sent, deployed>>

Crash ==
  /\ Unlock(Request)
  /\ req' = [r \in Request |->
               IF At(r, "idle") \/ req[r].pc \in Ended THEN req[r]
               ELSE [req[r] EXCEPT !.pc = "failed"]]
  /\ UNCHANGED <<dbVars, sent, latest, deployed>>

(* Refused for certain: the account does not exist, the nonce was spent    *)
(* meanwhile, the bound on handovers is reached.                           *)
Refuse(r) ==
  /\ \/ At(r, "nonce") /\ ~IsHandover(r) /\ ~AccountExists(req[r].index)
     \/ At(r, "nonce") /\ IsHandover(r) /\ req[r].faucet = MaxHandover
     \/ At(r, "send") /\ req[r].nonce < latest[req[r].faucet]
  /\ Fail(r)

Step(r) ==
  \/ LockIndex(r)
  \/ CommitAccount(r)
  \/ LockAction(r)
  \/ LockFaucet(r)
  \/ NonceOfRefill(r)
  \/ NonceOfHandover(r)
  \/ Send(r)
  \/ CommitRefill(r)
  \/ CommitHandover(r)
  \/ LockToken(r)
  \/ PickName(r)
  \/ Deploy(r)
  \/ CommitToken(r)

Next ==
  \/ \E r \in Request : Begin(r) \/ Step(r) \/ Fail(r) \/ Refuse(r)
  \/ \E f \in FaucetIndex : Mine(f)
  \/ Crash

Spec == Init /\ [][Next]_vars

----------------------------------------------------------------------------
(* Properties *)

(* Account indexes, from which the keys are derived, are given out once    *)
(* and without a gap, whatever was rolled back (app.service.ts 62-101).    *)
IndexesDense ==
  /\ {a.index : a \in accounts} = 1 .. (accountIndex - 1)
  /\ \A a, b \in accounts : a.index = b.index => a = b

(* A generated name names one token, and is marked generated exactly when  *)
(* its token was committed (app.service.ts 115-133).                       *)
NamesOnce ==
  /\ \A s, t \in tokens : s.name = t.name => s = t
  /\ generated = {t.name : t \in tokens}

(* A failure after the deployment frees a name whose contract exists: a    *)
(* name has a second contract only if the request of one of them failed,   *)
(* and a token in the table is never without its contract (app.service.ts  *)
(* 115-175).                                                               *)
DeployedOnce ==
  /\ tokens \subseteq deployed
  /\ \A d, e \in deployed :
       d.name = e.name /\ d # e => At(d.by, "failed") \/ At(e.by, "failed")

(* The requests take effect one after the other, each in one step or not   *)
(* at all, although they run interleaved (app.service.ts 62-101, 110-190,  *)
(* 241-262).                                                               *)
Counters == INSTANCE Counters
CountersSpec == Counters!Spec

(* The faucet never signs two refills with one nonce: the lock is held     *)
(* from before the nonce is read until the transaction is saved, by the    *)
(* refill of a new account as by any other (app.service.ts 203-239).       *)
Refills == {s \in sent : s.kind # "replaceFaucetAddress"}
RefillNoncesDistinct ==
  \A s, t \in Refills : s.from = t.from /\ s.nonce = t.nonce => s = t

(* The faucet leaves no nonce out: a gap would hold back all its later     *)
(* transactions (app.service.ts 203-260).                                  *)
NoNonceGap ==
  \A f \in FaucetIndex : \A n \in NoncesOf(f) : 0 .. n \subseteq NoncesOf(f)

(* An account is committed before its first refill is tried, in a second   *)
(* transaction.  It is left without one only by a request that failed: who *)
(* is told of a new account has one that was sent coins, whatever failed,  *)
(* crashed or waited in between (app.service.ts 62-108, 203-239).          *)
RefilledUnlessFailed ==
  \A a \in accounts : At(a.by, "done") => \E s \in sent : s.by = a.by

(* Nothing is signed for a faucet that was already replaced.               *)
NoRefillFromOldFaucet ==
  \A r \in Request : At(r, "send") \/ At(r, "save") => req[r].faucet = faucetIndex

(* "Use 'latest' to get the next usable nonce" (ethers.service.ts:226):    *)
(* what a handover signs with, no pending transaction already uses.        *)
NextNonceUsable ==
  \A r \in Request :
    At(r, "send") /\ IsHandover(r) => req[r].nonce \notin NoncesOf(req[r].faucet)

(* Who waits for whom: r asked for a row that q has locked. *)
WaitsFor(r, row) ==
  \/ At(r, "index") /\ row = "ACCOUNT_INDEX"
  \/ At(r, "action") /\ row = "SendCotiFromFaucet"
  \/ At(r, "faucet") /\ row = "FAUCET_ACCOUNT_INDEX"
  \/ At(r, "token") /\ row = "CREATE_TOKEN_LOCK"
HeldUpBy(r, q) == \E row \in LockRow : lock[row] = q /\ WaitsFor(r, row)

Waiting == {r \in Request : \E row \in LockRow : WaitsFor(r, row)}

(* Among any waiting requests there is one that waits for none of them:    *)
(* there is no circle, however many refills, handovers and new accounts    *)
(* meet (app.service.ts 62-101, 203-262).                                  *)
NoCircularWait ==
  \A R \in (SUBSET Waiting) \ {{}} : \E r \in R : \A q \in R : ~HeldUpBy(r, q)

(* A refill is always given a nonce: the faucet's transactions leave one   *)
(* free among the first so many (app.service.ts 222).                      *)
NonceAvailable == \A f \in FaucetIndex : \E n \in 0 .. Cardinality(sent) : IsPendingNonce(f, n)

(* The steps a request has left at most, if nothing holds it up. *)
StepsLeft(r) ==
  CASE At(r, "idle") -> 8
    [] At(r, "index") -> 7
    [] At(r, "insert") -> 6
    [] At(r, "action") -> 5
    [] req[r].pc \in {"faucet", "token"} -> 4
    [] req[r].pc \in {"nonce", "name"} -> 3
    [] req[r].pc \in {"send", "deploy"} -> 2
    [] req[r].pc \in {"save", "record"} -> 1
    [] req[r].pc \in Ended -> 0

(* No request ever goes back, whoever moves (app.service.ts 62-262).       *)
RequestsAdvance ==
  [][ \A r \in Request : At(r, req'[r].pc) \/ StepsLeft(r)' < StepsLeft(r) ]_vars

(* A handler runs on as long as its promises settle; a free row lock is    *)
(* given to a waiting transaction.                                         *)
FairSpec == Spec /\ \A r \in Request : WF_vars(Step(r) \/ Refuse(r))

(* Every request ends: the locks are taken in one order and all released.  *)
RequestsEnd == \A r \in Request : ~At(r, "idle") ~> req[r].pc \in Ended

----------------------------------------------------------------------------
(* The inductive invariant *)

(* What a request does under a lock, it does holding it, and what it read  *)
(* there is still so.                                                      *)
LockInv ==
  \A r \in Request :
    /\ At(r, "insert") =>
         lock["ACCOUNT_INDEX"] = r /\ req[r].index = accountIndex
    /\ req[r].pc \in {"nonce", "send", "save"} =>
         lock["FAUCET_ACCOUNT_INDEX"] = r /\ req[r].faucet = faucetIndex
    /\ IsHandover(r) /\ req[r].pc \in {"send", "save"} => req[r].faucet < MaxHandover
    /\ req[r].pc \in {"name", "deploy", "record"} => lock["CREATE_TOKEN_LOCK"] = r
    /\ req[r].pc \in {"deploy", "record"} =>
         /\ req[r].name \cap generated = {}
         /\ \A m, n \in req[r].name : m = n

(* Who holds a lock is past it and will release it. *)
HolderInv ==
  /\ \A r \in Request :
       /\ lock["ACCOUNT_INDEX"] = r => At(r, "insert")
       /\ lock["SendCotiFromFaucet"] = r => req[r].pc \in {"faucet", "nonce", "send", "save"}
       /\ lock["FAUCET_ACCOUNT_INDEX"] = r => req[r].pc \in {"nonce", "send", "save"}
       /\ lock["CREATE_TOKEN_LOCK"] = r => req[r].pc \in {"name", "deploy", "record"}
  /\ IsFiniteSet(sent)

(* Where the request of a contract is, and where the contract of a request *)
(* that is about to record it.                                             *)
DeployInv ==
  /\ tokens \subseteq deployed
  /\ \A d \in deployed :
       \/ d \in tokens /\ At(d.by, "done")
       \/ d \notin tokens /\ At(d.by, "record") /\ d.name \in req[d.by].name
       \/ d \notin tokens /\ At(d.by, "failed")
  /\ \A r \in Request : At(r, "record") => Named(r) \subseteq deployed

(* Where the request of an account is: past its first transaction, and at  *)
(* the end of the second only with its refill sent.                        *)
RefillInv ==
  /\ \A a \in accounts :
       /\ req[a.by].kind = "createAccount"
       /\ req[a.by].pc \in {"action", "faucet", "nonce", "send", "save", "done", "failed"}
  /\ \A r \in Request : req[r].pc \in {"index", "insert"} => req[r].kind = "createAccount"
  /\ \A r \in Request : At(r, "save") => Sending(r) \in sent
  /\ RefilledUnlessFailed

(* The nonces used so far are an initial segment, and what is about to be  *)
(* sent extends or repeats it; only a handover may repeat.                 *)
NonceInv ==
  /\ \A f \in FaucetIndex : 0 .. (latest[f] - 1) \subseteq NoncesOf(f)
  /\ NoNonceGap
  /\ \A r \in Request : At(r, "send") =>
       /\ 0 .. (req[r].nonce - 1) \subseteq NoncesOf(req[r].faucet)
       /\ ~IsHandover(r) => req[r].nonce \notin NoncesOf(req[r].faucet)

IInv ==
  /\ TypeOK
  /\ accountIndex >= 1
  /\ LockInv
  /\ HolderInv
  /\ IndexesDense
  /\ NamesOnce
  /\ DeployInv
  /\ RefillInv
  /\ RefillNoncesDistinct
  /\ NonceInv
=============================================================================
