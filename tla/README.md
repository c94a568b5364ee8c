# coti-transaction-app: TLA+ models and proofs

The application is a NestJS service that generates traffic on the COTI chain. It
keeps a MySQL database (through TypeORM) and talks to one EVM node (through
ethers v6). HTTP requests and four endless background tasks create accounts,
send coins, deploy, mint and transfer tokens, and follow every transaction
until the chain has decided about it. This directory models the parts of the
service whose correctness depends on the order of things.

Paths below are relative to `src/src/` of the repository.

## The system

| Component | State | Operations |
|---|---|---|
| `app.service.ts` (AppService) | none of its own; reads and writes every table | `createAccount`, `sendCotiFromFaucet`, `replaceFaucetAddress`, `createNewToken`, `sendCotiFromAccountToAccount`, `onboardAccount`, `mintToken`, `transferToken`, the random picks, `getTokenBalance` |
| `services/cron.service.ts` (CronService) | none of its own | the four tasks `runActivities`, `runSlowActivities`, `checkTransactionsComplete`, `cleanStuckAccounts` and their handlers |
| `services/app-init.service.ts` | iteration counters | creates the counters of `app_states`, starts the four loops |
| `services/ethers.service.ts` | the provider | sends, receipts, nonces, balances, token calls |
| `entities/` | the tables `transactions`, `activities`, `accounts`, `tokens`, `tokens_to_generate`, `actions`, `app_states` | the queries |
| the node (external) | pool, chain, nonces | accepts, replaces, includes, forgets transactions |
| `app.controller.ts`, dtos, guard, filter, `main.ts`, wiring | none | each route is one call of AppService |
| `contracts/`, `typechain-types/` | on the chain | not executed by this service |

How they interact. A request and a task are `async` functions of one process:
each `await` is a point where any other may run. What separates them are row
locks (`SELECT ... FOR UPDATE` in `getAppStateByName` and `getActionByType`) and
database transactions, and both cover only part of what happens: the node is
called in the middle and does not roll back. The tasks share the tables
`transactions` and `activities` with the requests and take no lock there.

What is hard in this code:

- *Interleaving*: checker and cleaner load rows, await the node and save whole
  rows; requests of one account sign without a lock; the cleaner signs for the
  faucet without the lock refills take.
- *Stale reads*: receipts, nonces, the faucet index and entities are used long
  after they were read.
- *Partial failure and crashes*: a transaction that was broadcast stays so when
  the database transaction rolls back; a cancellation, its row and its two flags
  are three steps.
- *Timeouts*: a transaction without a receipt after ten minutes is "stuck"
  (status 2); a cancellation is awaited for 25 seconds and may succeed later.
- *Liveness*: rows nobody can cancel, nonces nobody can fill, locks, loops.

`PROJECT.json` lists each of these at its line under `hazards`, with the
properties that cover it.

### What makes each component correct

- *Lifecycle of a transaction row*: the table never says something false about
  the chain, no row goes back, a canceled transaction cannot reappear, and every
  row is settled in the end.
- *Requests on the counters*: account indexes and token names are given out
  once; refills of the faucet never share a nonce or leave one out; no request
  waits forever; only a failed request leaves a new account without coins; together
  they look as if each took effect in one step.
- *Onboarding*: a key in the table comes from the chain and one that is lost is obtained
  again; a call ends unless calls like it hold the whole connection pool.
- *Activities*: an hourly rate and the faucet protection are exceeded by one batch
  at most, and every round ends unless an onboarding in it never does.
- *Stuck accounts*: few stuck transactions of an account that counts as free.
- *Batches*: the picks are distinct, their loops end, no account is named twice in a
  batch, tokens are minted only for owners that were checked.
- *Fees of replacements*: a replacement outbids its original at once, and rounds of the
  cleaner do not drive the fees up.

## Modules

| Module | What it is |
|---|---|
| `ChainNode` | the node, as far as the service can tell (external) |
| `TxLifecycle` | a transaction from its signature to its settled row: requests, checker, cleaner, node, crashes |
| `TxLedger` | the abstract promise of the `transactions` table, which `TxLifecycle` implements |
| `TxLifecycleProofs` | theorems about `TxLifecycle` |
| `AccountView` | the tables of `TxLifecycle` as `getAccountsNonce` reads them for one account, a refinement of `StuckAccounts` |
| `AccountViewProofs` | that it is one, for every account |
| `AppService` | the four requests that use the counters, with their row locks |
| `Counters` | the abstract promise of the requests, which `AppService` implements |
| `AppServiceProofs` | theorems about `AppService` |
| `Onboarding` | the AES key of an account: `onboardAccount`, the handlers that save rows of accounts, the connection pool |
| `OnboardingProofs` | theorems about `Onboarding` |
| `Activities` | the rounds of the two activity tasks: rates, faucet protection, batches, waits |
| `ActivitiesProofs` | theorems about `Activities` |
| `Batches` | the random picks, and how a handler turns them into requests |
| `BatchesProofs` | theorems about `Batches` |
| `FeeLadder` | `sendCancellationTransaction` against the node's replacement rule |
| `FeeLadderProofs` | theorems about `FeeLadder` |
| `StuckAccounts` | `getAccountsNonce` and `isStuckAccounts` over the rows of one account |
| `StuckAccountsProofs` | theorems about `StuckAccounts` |
| `MCTxLifecycle`, `MCAppService`, `MCOnboarding`, `MCActivities` | the instances TLC checks |
| `MCRules` | `FeeLadder`, `Batches` and `StuckAccounts` in one instance, one of them a behaviour |

### ChainNode and TxLifecycle

Transactions are numbered `1 .. NumTx` in the order in which signing begins, and
the replacement the cleaner sends for `t` is `Cancel(t) = -t`. Rounds that repeat
a cancellation reuse that number: they differ in their fee only, and fees are
abstracted to the node's choice to accept a replacement or not. A cancellation
of a cancellation has no number; that the code never sends one is the invariant
`CancelsOnlyOriginals`, not an assumption: a row of a cancellation may become
stuck and go through the whole handler.

| Variables | Code |
|---|---|
| `net`, `from`, `nonce`, `latest` | the node: where each transaction is, its sender and nonce, `getTransactionCount(a, 'latest')` |
| `faucet`, `retired` | the address of `FAUCET_ACCOUNT_INDEX`, and those before it |
| `inflight` | the requests between signing and commit |
| `recorded`, `status`, `canceled`, `old` | the rows of `transactions`, their `status`, `isCanceled`, and whether `createTime` is ten minutes past |
| `activity`, `actCanceled` | the rows an activity refers to, and its `isCanceled` |
| `chk`, `cln` | how far the checker and the cleaner are with each row they loaded, and the answer they hold |
| `calm` | no failure from here on (liveness only) |

| Actions | Code |
|---|---|
| `BeginSend`, `Broadcast`, `SaveTransaction` | `sendCotiFromFaucet`, `sendCotiFromAccountToAccount`, `onboardAccount`, `mintToken`, `transferToken`, `createNewToken`: nonce chosen, transaction accepted, row and activity committed |
| `BeginHandover`, `Broadcast`, `CommitHandover` | `replaceFaucetAddress`, which records nothing |
| `Abort` | the exception of a request and its rollback |
| `CheckFetch`, `CheckReceipt`, `CheckReceiptError`, `CheckSave`, `CheckAbort` | `checkTransactionsComplete` |
| `CleanFetch`, `CleanReceipt`, `CleanReceiptError`, `CleanSave`, `CleanAbort` | `cleanStuckAccounts` |
| `CancelNonce`, `CancelKey`, `CancelSend`, `CancelWaited`, `CancelRecord`, `CancelMark`, `CancelError` | `handleTransactionCancel`, one for each row, all at once |
| `NodeMine`, `NodeDrop`, `NodeRegossip` | the node includes, forgets, or gets back a transaction |
| `TenMinutesPass`, `Crash`, `BecomeCalm` | time, the process, the assumption of the liveness property |

Receipts are answered one by one in any order, as `Promise.allSettled` allows; a
rejected promise leaves no entry in the receipt map, which the code treats as a
missing receipt, and so does `CheckReceiptError`. `CancelKey` is the search for the
sender's key; a handover may come between it and `CancelSend`, which still uses the key it
found. `CancelSend` is the one attempt of `sendCancellationTransaction` that the node
accepts: up to four refused ones come before it, change nothing but the fee, and are steps of
`FeeLadder`. `CancelSend` and `Broadcast` replace a pooled transaction of the same sender and nonce; the refusal of an
underpriced replacement is `CancelError` or `Abort`. Two sends of an account may
begin together and take the same nonce. The chain does not reorganise.

### TxLedger

Two variables: `fate[h]`, what the chain decided (included with a status, or
void because the nonce is spent), and `row[h]`, what the table says. Only moves
that tell the truth are legal: pending to stuck; pending or stuck to the status
the chain gave; stuck to canceled once the chain decided. `TxLifecycle` implements
it with `RowOf` and `FateOf` as the refinement mapping (`LedgerSpec`). Note what the
ledger allows: a row may be canceled although its transaction was included. The
code does that; see the first finding.

### AppService

Each of `Request` runs one of the four operations once. Its position `req[r].pc`
names what it awaits; `lock` holds the rows locked with `pessimistic_write`. A
commit or rollback releases all locks of its transaction. `createAccount` is two
transactions: `LockIndex`, `CommitAccount`, and then the steps of a refill, which may fail
with the account committed (`RefilledUnlessFailed`).
`sent` is what the node accepted from the faucets; a refill takes the wallet's
'pending' nonce, a handover the 'latest' one (`getNextNonce`), each read in a
step before the one that sends. `deployed` are the contracts with a generated name:
`Deploy` puts one on the chain before `CommitToken` records anything, so a rollback frees
the name of a contract that stays. Here no transaction is lost (`TxLifecycle` has that).
`Fail` is any exception, `Refuse` the exceptions that are certain.

`Counters` has the five database variables alone and three steps: an account, a
handover, a token. `AppService` implements it with the identity as refinement mapping
(`CountersSpec`): the commit of a request is its step, all else stutters, and the locks make what
a request read under them still true when it commits.

### Onboarding

`hasKey` are the accounts whose `networkAesKey` is not NULL. Each handler of the tasks
goes through `StartRound` (called by its round), `Load` (`rows`, and `keyed`: which of
them had a key), `Save` (the rows as they were loaded; TypeORM writes every column
that differs) and `Settle`; `handleOnboardAccount` also leaves its calls in `todo`. The
slow handlers do the same to their rows, so one stands for them. A call `req[r]` holds a
connection from `Begin` to its end and needs a second one in `SaveKey`, because
`manager.save(account)` is not sent through the transaction's manager; for the same
reason the key stays when the transaction fails. A call that waits for the pool has
no timeout. The transaction's first query fixes its snapshot, so `Begin` reads the
row as it takes the connection. The column `isStuck` is written and never read back,
so it is not kept; which accounts are stuck is arbitrary.

### Activities

Each action has a handler at a position `hpc[a]`: called by the round (`StartRound`, the
actions below their rate), `Check` (the faucet protection, in handlers that spend its
coins), `Plan` (the random count, less the accounts left out as stuck), at work, and
`Settle` when all its promises are. `plan`, `refill`, `wait` and `call` count what is not
begun, in a refill, waiting for a block, and in a request.

| Actions | Code |
|---|---|
| `NextAccount`, `CallDone`, `CallFails` | the loop of `handleCreateAccount`, and any request of a handler with the activity it records |
| `RefillDone`, `RefillFails`, `WaitEnds` | `sendCotiFromFaucet` by any handler; `createTokenWrapper` and its 25 seconds |
| `EarlyReturn`, `LeftDone`, `LeftRejected` | `handleSendCoti` returns at a balance of zero after rounding; its transfers go on unawaited, and a rejection ends the process |
| `Included`, `TenMinutes`, `Cleaned` | the faucet's rows as `TxLifecycle` moves them: `open` (no status), `stuck` (2), `reverted` (0) |
| `Forgotten`, `Restart` | an activity is an hour old or canceled; the process starts again |

`isThereVerifiedTransactionInTheLast5Min` is called without `await`, so the network never counts as
stuck (`StartRound` has no such guard). An onboarding waits for its block without a timeout
(`ethersService.onboard`) and for a second connection: its `CallDone` and `CallFails` may never
come (`Onboarding`, under Liveness). `late[a]` is a history variable: what a handler has
refilled since the faucet had too many bad rows. There is one faucet address here; a handover
starts the count of a new one.

### Batches, StuckAccounts, FeeLadder

`Batches` runs one handler at a time from its picks to its requests, while other requests may
create accounts. `Draw` takes what `Math.round(random * accountsCount)` can be, index 0
included. Account ids run ahead of indexes from `gap` on (one insert was rolled back; more
would only shift them further), because `getAccountsByIds` looks for ids in the column of
indexes. `sends` are the requests of the batch.

`StuckAccounts` has the rows of one account, of any nonces, as checker and cleaner change
them: a round saves at once what it found out about some rows of one status (`SaveRows`). That
the service's rows do change like this is the refinement `RowsSpec` of `AccountView`, whose `rowNonce`,
`rowStatus` and `rowCanceled` are the join of the query over the tables of `TxLifecycle`. `maxPendingNonce` is what the query selects under this name: the completed ones.

`FeeLadder` computes fees in integers as `BigInt` does, for one stuck transaction: a round starts
from the table or the market (`StartFee`), raises what its last attempt bid (`Raise`) at most
five times, and meets in the pool the original, nothing, the cancellation of an earlier
round, or another transaction of the sender with the nonce (`OtherArrives`): a send that took no
lock or a nonce the pool had forgotten, or the cancellation of another row. The node asks for ten percent more in both fees; rows with fees below ten wei, of
which ten percent is nothing, are excluded by an assumption. The two fees are
independent.

## Checks

| Run | Instance | What it shows |
|---|---|---|
| `lifecycle` | 2 transactions, 1 account, 2 faucets | all safety properties, the action property `StatusForward`, the refinements `LedgerSpec` and, for the rows of the account, `RowsSpec` |
| `lifecycle_live` | 2 transactions of 2 faucets, tasks that take one row at a time | `Settles` |
| `canceled_never_mined` | as `lifecycle` | finding 1 |
| `cancel_saved` | as `lifecycle` | finding 2 |
| `requests` | 4 requests, 2 names, 1 handover | all safety properties, among them `NoCircularWait` and `RefilledUnlessFailed`, and the refinement `CountersSpec` |
| `requests_live` | 3 requests, 1 name, 1 handover | `RequestsEnd` |
| `next_nonce` | 3 requests, 2 names, 1 handover | finding 3 |
| `onboarding` | 2 accounts, 2 calls, 3 connections | safety |
| `onboarding_live` | 1 account, 2 calls, 2 connections | `OnboardingsEnd`, `KeysReturn` |
| `onboarded_keeps_key` | as `onboarding` | finding 4 |
| `activities` | four handlers of both tasks, batches of 2, 2, 1 and 1 | `HourlyBound`, `ProtectionBounded`, the action property `RoundsShrink`, and the liveness properties `RoundsEnd` and `ProtectionLasts` |
| `rules`, fees | fees 10, 11, 17 of rows; 0, 13, 40 of the market; 15, 60 of others | `FeesBounded`, `OriginalOutbidAtOnce`, `BlockedOnlyByDearer` |
| `rules`, batches | up to 4 accounts, counts to 2 | `DrawPossible`, `OncePerAccount`, `ReceiverForEachMint`, `MintOwnerChecked` |
| `rules`, stuck | 4 rows, nonces 0 to 3 | `FewUnnoticed` |

Bounds. `NumTx = 2` gives two originals and two cancellations: the smallest number
with a pair of transactions in one nonce, one waiting behind another's nonce, a
handover between two refills, and a cancellation beside an unrelated
transaction. `Owner` is the account there (a faucet in the run without one). In the safety runs a task loads up to two rows at a time, any two
(`CheckTake`, `CleanTake`); in `lifecycle_live` they take one, so that one row can keep
another waiting as twenty do in the code. Nothing else is bounded: crashes, rounds, losses and retries
may happen any number of times. The proofs remove the bounds for safety. For
`AppService` four requests are two of one kind against two of another; a lock has
one holder, so a third waiter adds nothing new. Requests and names are symmetric
in the safety run; the liveness run uses no symmetry. `CHECK_DEADLOCK` is off in the
runs of these two because they stop when all transactions or requests are used
up. `Onboarding` has no end and checks deadlock. Its two accounts are a round with two
calls, its two calls the task against an HTTP client. For safety three connections let both
calls run beside a handler's query. For liveness there are two: one call waits for a
connection that the other, or a handler, has in use, and two calls that wait exhaust the
pool, for which a third connection would only need a third call.

`activities` has a handler that loops and refills (`CreateAccount`), one that returns early
(`SendCoti`), one that refills and waits (`CreateToken`) and one whose call may never end
(`OnboardAccount`); the other six make the same steps with fewer kinds. To keep the instance
small, `full` names the actions that are at their rate throughout a behaviour, so that their handlers
are not called: `SendCoti` in some behaviours, `OnboardAccount` and `CreateToken` in the others. A rate and a limit of 1 are reached and passed by a batch of 2, also across rounds.
`MaxRows`, `MaxHour` and `MaxLeft` keep the counters finite; a refill or transfer beyond them
fails. `rules` chooses fees at which ten percent is lost to rounding (11) and not (10), and
a market below, within and above the ladder, and others in the pool that the ladder reaches (15) or
not (60); four accounts are the least with two pairs, and four rows
are the least that tell the bound of `FewUnnoticed` (2) from a larger one beside a confirmed row.
It does not check deadlock: every row may be settled and all nonces spent.

Row locks. `SELECT ... FOR UPDATE` is taken to lock the row it names. The repository holds
no schema; without an index on `name` and `type` the database would lock more.

Each property has a mutant in `PROJECT.json`: a definition with a plausible bug,
kept in the module under a comment "Fault", with which TLC finds it violated.

### Liveness and fairness

`Settles`: a recorded transaction ends with a status 0 or 1 or canceled. It needs the
outside world to behave at some time, so `calm` becomes true eventually: no more
crashes, failing calls or lost transactions; before that everything
may fail without limit. After it, weak fairness of each step says that promises
settle, that blocks include the transaction whose nonce is next, and that the
loops of `runEveryXSeconds` start the next round (`app-init.service.ts` 129-150: the
loop catches every error). The cleaner's batch size is random in 1..20, so it takes a full
batch again and again (`FullTake`, strong fairness): all stuck rows if they fit, else
*some* twenty, since the query has no order. Nothing says that a given row is ever among them.
Three cases are excluded by name, because there the code does not settle the row: the
sender is a faucet since replaced, for which `handleTransactionCancel` has no key (line
115); a lower nonce of the sender was used by a transaction that was broadcast,
never recorded, and lost (`LostNonce`); and rows a round can do nothing about fill the
cleaner's places for good while a row that could be settled waits (`Starves`). TLC finds
`Settles` violated without any one of the three.

`RequestsEnd`: weak fairness of each request's own steps; a free lock is granted. It
is violated if the handover takes its locks in the other order (its mutant).

`OnboardingsEnd`: a call ends although it waits for a second connection with the first in
its hands, and others begin meanwhile. The pool serves first who asked first, hence strong
fairness of the steps that need a connection. The exception is a pool of which every connection
is held by a call that waits for another (`PoolExhausted`): nothing in the code prevents
it, since the batch of `handleOnboardAccount` is random up to a value in the table `actions` and
the pool has the driver's default size, and then only a restart helps. Without the exception
TLC finds the property violated by two calls on two connections. `KeysReturn`, with the same
exception: an account the chain onboarded has its key in the table again and again, also after
a stale row has removed it: the task looks for accounts without a key, and calls of the
task get their turn. As above, `calm` ends
failures; then no account is stuck and a batch takes every account it finds.

`RoundsEnd`: a round ends, or else an onboarding in progress never does. A handler takes finitely
many steps, so it is enough that some handler of the round goes on; strong fairness is asked of
the steps while no onboarding is under way (`Onboarding`), and nothing at all while one is, because
`onboard` waits for a block without a timeout and for the pool. Blocks need not come for any
other handler: the wait for a refill has a timeout. Other promises of the database and of the
node are assumed to settle, as above; there is no timeout around a round that would end one that
does not.
`ProtectionLasts`: reverted refills are counted forever, so with enough of them the tasks never
refill again. It needs the same fairness, for the refills already begun, and has the same
exception.

### Findings

1. `cron.service.ts:54` promises that a stuck transaction the node has is saved with its
   receipt. The receipt is read before the nonce; a transaction mined between the
   two is marked canceled, for good (`CanceledNeverMined`).
2. `cron.service.ts:127` promises that the cancel transaction is saved if it succeeds.
   One that is mined after the 25 seconds is not (`CancelSaved`).
3. `ethers.service.ts:226` calls the 'latest' count the next usable nonce. With a refill
   pending it is not, and a handover signs over the refill (`NextNonceUsable`).
4. `app.service.ts:367` takes the key for the mark of an onboarded account. The handlers of
   `cron.service.ts` save rows they loaded before, and remove a key stored meanwhile
   (`OnboardedKeepsKey`).

## Proofs

Checked by TLAPS for every value of the constants, from the named assumptions of
the modules (`NumTx`, `CheckTake`, `CleanTake`, `MaxHandover`, `PoolSize` are naturals, the first faucet is a
faucet, no account is a faucet, `Owner` is an account or a faucet, `NoOne` is no request, there is an account; ranges, rates and
limits are naturals; a row's fees are at least ten, those of the market and of others naturals). The inductive invariants were runs'
invariants before they were proved; the runs of the four larger components still check them (`ViewInv`, `IInv`).

*TxLifecycleProofs.* None of the safety properties is inductive alone. `IInv` adds, in
named parts: `RequestInv` (a request that has signed has a transaction the node has
not seen; at most one request uses the faucet, and it is the present one),
`NonceInv` (included transactions have spent their nonces, each its own; a
cancellation shares sender and nonce with its original), `RowInv` (every row is a
transaction the node was given, and tells the truth), `TaskInv` (the rows a task
holds still have the status they were fetched with, and the answers it holds are
still true). The last is why the unsynchronised tasks are safe: the checker holds
rows without status and only it gives them one; the cleaner holds rows with
status 2 and only it changes those; and the chain never takes an outcome or a
spent nonce back. `ChainForward` states the latter for every step; `TypeStep`,
`RequestStep`, `NonceStep`, `RowStep`, `TaskStep` prove the parts, one case an
action. From `Invariance` follow the invariants, `StatusOnlyForward` (by `TableForward`)
and `Refinement`: each step moves only fates (`FateStep`) or only rows (`RowMove`),
hence is a `Decide`, a `Write` or a stutter (`OneSide`).

*AppServiceProofs.* `IInv` has `LockInv` (what a request does under a lock it does holding
it, and what it read there is still so), `NonceInv` (the nonces used are an
initial segment; a refill about to be sent extends it), `DeployInv` (where the request of
each contract is) and `RefillInv` (where the request of each account is, and that one about to
commit a refill has sent it). `LockStep`, `IndexStep`, `NameStep`, `ReadyStep`, `NonceStep`,
`DeployStep` and `RefillStep` prove the parts. `CountersImplemented` takes each commit to a step of `Counters`, with
`LockInv` for what the request had read, and every other step to a stutter.

*OnboardingProofs.* `IInv` adds `CallInv` (a call past its onboarding has one on the
chain) and `RoundInv` (the task's calls, waiting or running, belong to a round that is
still settling, so the next round cannot load the same account).

*ActivitiesProofs.* `HourlyBound` and `ProtectionBounded` count what is still to come (`Due`,
`Promised`) with what has come; `IInv` adds `WorkInv` (a handler has work only in its position),
`RateInv` (an action that was called is below its rate until it plans) and `LateInv`.

*BatchesProofs.* `BatchInv` has the counts (`DrawInv`: as many indexes as asked, from a
table that only grows; `MintInv`: picks and mints together are what was drawn) and `SendInv` (an
account of a request is in no list any more). That a draw is possible follows by
cardinality: `0 .. known` has one index more than accounts. `MintOwnersChecked` rests on
`IdInjective`: ids differ from indexes, but two accounts never share one.

*FeeLadderProofs.* `FeeInv` says that a bid is `BidAfter` its base and attempts; `Ladder` bounds the
five rungs, roundings included, from both sides. Each round starts from the table, so the
bound does not grow with the number of rounds, and what another transaction in the pool
pays enters no bid.

*StuckAccountsProofs.* The query's maximum is a `Max` of the community modules, a `CHOOSE`:
`MaxIsGreatest` shows that a bounded, nonempty set of numbers has a greatest one, by the well-founded
order of finite sets instead of an induction over the set. With `MaxNonceOfRows` and `StuckInv` (a
canceled row has status 2, so the query sees every success) `UnnoticedFew` bounds the stuck nonces above a success by an interval.

*AccountViewProofs.* `RowsImplemented`: for every `Owner`, the tables and the chain of
`TxLifecycle` are a behaviour of `StuckAccounts`, so what that module assumes of its rows (rows are
saved a batch at a time, a nonce has one receipt, a row is canceled with its nonce spent) is
a fact about requests, tasks and node. `IInv` alone does not give it: the abstract chain has
`TopNonce + 1` nonces to spend, so `ViewInv` adds `SpentInv`: every spent nonce was spent by a
transaction of its sender, of which there are at most `NumTx` (`SpentBound`, by cardinality).
`TableKinds` and `LatestKinds` sort the steps by what they write, `ChainSide`, `RecordSide`, `SaveSide` and
`CancelSide` map each kind. `StuckOfService` carries the theorem of
`StuckAccountsProofs` over.

What the liveness properties rest on is proved as far as it is safety:

- `NoDeadlock`: in any set of requests, one waits for none of the others. `HolderInv` says who
  holds a lock is past it; the locks are taken in one order (`ACCOUNT_INDEX`, the action,
  the faucet's, and the lock of the names by itself), and no chain of waiting requests is
  longer than three.
- `NonceFound` and `RequestsGoOn`: a refill always has a nonce to send with, and every step of a
  request brings it nearer its end (`StepsLeft`, at most eight), also if it fails or the
  process crashes.
- `RoundsGetShorter`: whatever changes a handler's work lowers `Effort`, until it has settled.

With weak fairness of each request, and of each task's handlers, these are the argument for `RequestsEnd`
and `RoundsEnd`; the last step, from fairness to the end, stays with TLC.

Only model-checked: `Settles`, `RequestsEnd`, `OnboardingsEnd`, `KeysReturn`, `RoundsEnd` and
`ProtectionLasts` (liveness is out of the prover's reach), and the four violations. Every
invariant and action property of the passing runs is a theorem.

## Not modelled

All of the plan is written: lifecycle, requests, onboarding, stuck accounts, activities,
fees, picks, the abstract counters and the deployed names, with their proofs.

Left out for good:

- HTTP, validation, configuration, formatting and encryption, which keep no state the properties
  are about; `getTokenBalance` and `getFaucetAddress`, which only read; `networks`, which is unused.
- Amounts and balances. Which account of a pair is richer is arbitrary in `Batches`; a
  handover moves the new faucet's balance (`app.service.ts:255`), which no model sees.
- The contracts, and `typechain-types/`, which is generated from them.
- `configs/tokens-to-generate.ts`, a list of names; two instances of the service starting at once.
- In `Activities`, requests made over HTTP: they add to the hour's counts and refill
  without asking the protection, so its bounds are bounds for the tasks alone.
- What `maxPendingNonce` should have been. `IsStuck` is the query as it is (it selects the
  completed rows), and `FewUnnoticed` holds of it; with pending nonces it would hold as well.
- Two calls of `onboardAccount` for one account at a time when one comes over HTTP: the model has
  them, `CronOnboardsApart` is about the task's own, and the later key stays.

The bindings and the list of names are more than four fifths of the lines of `src/`: 8727 are
generated bindings and 4002 the list of names. Of the about 2850 lines that remain, half are
mapped: of `app.service.ts`, `cron.service.ts` and `app-init.service.ts`, which hold the service's
logic, three quarters. What is not mapped there is imports, logging, repeated
code of handlers that share a definition, and `getTokenBalance`; elsewhere it is the HTTP layer,
column declarations and configuration.
