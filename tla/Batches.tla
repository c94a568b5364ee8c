------------------------------ MODULE Batches ------------------------------
(***************************************************************************)
(* How a handler of CronService turns a random count into requests: it     *)
(* draws distinct random indexes, loads the accounts that have them, drops *)
(* the stuck ones, and makes a request of what is left.  One batch at a    *)
(* time, of one of four kinds: pairs (handleSendCoti), refills             *)
(* (handleSendCotiFromFaucet), mints (handleMintToken) and one transfer    *)
(* (sendTokenWrapper).                                                     *)
(***************************************************************************)
EXTENDS Integers, FiniteSets

CONSTANTS
  MaxAccounts,   \* bound: accounts in the table
  MaxCount       \* bound: randomRange, which activityCount does not exceed

ASSUME MaxAccountsAssumption == MaxAccounts \in Nat
ASSUME MaxCountAssumption == MaxCount \in Nat \ {0}

BatchKind == {"pairs", "refills", "mints", "transfer"}
BatchStage == {"idle", "draw", "load", "send"}
Faucet == -1    \* the sender of a refill

VARIABLES
  accounts,   \* the number of accounts; their indexes are 1 .. accounts
  gap,        \* the first account whose id is not its index (see Id)
  known,      \* the number of accounts the handler read
  kind,       \* the handler at work
  stage,      \* and how far it is
  count,      \* how many indexes it draws
  ban,        \* indexes it does not want: the sender of a transfer
  picked,     \* the indexes drawn so far
  owner,      \* mints: owner[t], the owner's index of each token found
  loaded,     \* the accounts loaded and not stuck
  sends       \* the requests made: [from, to, token]

batchVars == <<accounts, gap, known, kind, stage, count, ban, picked, owner, loaded, sends>>

MaxToken == MaxCount
Owners == UNION {[1 .. k -> 1 .. MaxAccounts] : k \in 0 .. MaxToken}
SendRecord == [from : {Faucet} \cup (1 .. MaxAccounts), to : 0 .. MaxAccounts, token : 0 .. MaxToken]

BatchTypeOK ==
  /\ accounts \in 0 .. MaxAccounts
  /\ gap \in 1 .. MaxAccounts + 1
  /\ known \in 0 .. accounts
  /\ kind \in BatchKind
  /\ stage \in BatchStage
  /\ count \in 0 .. 2 * MaxCount
  /\ ban \subseteq 1 .. accounts
  /\ picked \subseteq 0 .. known
  /\ owner \in Owners
  /\ loaded \subseteq 1 .. accounts
  /\ sends \subseteq SendRecord

BatchInit ==
  /\ accounts \in 0 .. MaxAccounts
  /\ gap \in 1 .. accounts + 1
  /\ known = 0
  /\ kind = "pairs"
  /\ stage = "idle"
  /\ count = 0
  /\ ban = {}
  /\ picked = {}
  /\ owner = <<>>
  /\ loaded = {}
  /\ sends = {}

(* An insert that was rolled back has used up an id, but no index.         *)
Id(i) == IF i < gap THEN i ELSE i + 1

(* createAccount, by a request or another handler, with the next index.    *)
CreateAccount ==
  /\ accounts < MaxAccounts
  /\ accounts' = accounts + 1
  /\ gap' \in IF gap = accounts + 1 THEN {gap, gap + 1} ELSE {gap}
  /\ UNCHANGED <<known, kind, stage, count, ban, picked, owner, loaded, sends>>

----------------------------------------------------------------------------
(* The picks *)

Start(k, c, B) ==
  /\ stage = "idle"
  /\ kind' = k
  /\ stage' = "draw"
  /\ known' = accounts
  /\ count' = c
  /\ ban' = B
  /\ picked' = {}
  /\ owner' = <<>>
  /\ loaded' = {}
  /\ sends' = {}
  /\ UNCHANGED <<accounts, gap>>

(* pickRandomAccountsToSendCoti refuses a count whose double exceeds the   *)
(* number of accounts, and draws the double.                               *)
StartPairs(c) == 2 * c <= accounts /\ Start("pairs", 2 * c, {})

(* pickRandomAccountsToRefill refuses a count above the number of          *)
(* accounts.  What it draws for mints are their receivers.                 *)
StartRefills(c) == c <= accounts /\ Start("refills", c, {})
StartMints(c) == c <= accounts /\ Start("mints", c, {})

(* The sender is an account that received the token; the activity of the   *)
(* token's creation gives no account, and then there is no transfer.       *)
StartTransfer(from) == from <= accounts /\ Start("transfer", 1, {from})

(* Fault: Math.ceil for Math.round. *)
DrawableFromOne == (1 .. known) \ (picked \cup ban)

(* Fault: Math.round(random * (accountsCount + 1)). *)
DrawableBeyond == (0 .. known + 1) \ (picked \cup ban)

(* Math.round(random * accountsCount) until the index is new. *)
Drawable == (0 .. known) \ (picked \cup ban)

Draw(i) ==
  /\ stage = "draw"
  /\ Cardinality(picked) < count
  /\ i \in Drawable
  /\ picked' = picked \cup {i}
  /\ UNCHANGED <<accounts, gap, known, kind, stage, count, ban, owner, loaded, sends>>

Drawn ==
  /\ stage = "draw"
  /\ Cardinality(picked) = count
  /\ kind # "mints"
  /\ stage' = IF kind = "refills" THEN "send" ELSE "load"
  /\ UNCHANGED <<accounts, gap, known, kind, count, ban, picked, owner, loaded, sends>>

(* Fault: the tokens found are not limited to the count. *)
FindAllTokens(tokens) ==
  /\ stage = "draw"
  /\ Cardinality(picked) = count
  /\ kind = "mints"
  /\ \A t \in DOMAIN tokens : tokens[t] <= accounts
  /\ owner' = tokens
  /\ stage' = "load"
  /\ UNCHANGED <<accounts, gap, known, kind, count, ban, picked, loaded, sends>>

(* getTokensCount and findTokens: at most as many tokens as receivers.     *)
FindTokens(tokens) ==
  /\ stage = "draw"
  /\ Cardinality(picked) = count
  /\ kind = "mints"
  /\ DOMAIN tokens \subseteq 1 .. count
  /\ \A t \in DOMAIN tokens : tokens[t] <= accounts
  /\ owner' = tokens
  /\ stage' = "load"
  /\ UNCHANGED <<accounts, gap, known, kind, count, ban, picked, loaded, sends>>

----------------------------------------------------------------------------
(* Loading and filtering *)

(* getAccountsByIndexes, and getAccountsByIds for the owners of tokens,    *)
(* which looks for their ids in the column of indexes.                     *)
WantedIndexes ==
  IF kind = "mints" THEN {Id(owner[t]) : t \in DOMAIN owner}
  ELSE IF kind = "transfer" THEN picked \cup ban
  ELSE picked

(* isStuckAccounts marks any of the loaded accounts; a transfer goes on    *)
(* with both unless its sender is stuck.                                   *)
Load(stuck) ==
  LET found == WantedIndexes \cap (1 .. accounts)
  IN  /\ stage = "load"
      /\ stuck \subseteq found
      /\ kind = "transfer" => stuck \cap ban = {}
      /\ loaded' = IF kind = "transfer" THEN found ELSE found \ stuck
      /\ stage' = "send"
      /\ UNCHANGED <<accounts, gap, known, kind, count, ban, picked, owner, sends>>

(* Fault: the owner's id is compared with the index, as it was looked up.  *)
KeptByIndex(t) == Id(owner[t]) \in loaded

(* accounts.find(a => a.id === t.ownerAccountId) *)
Kept(t) == \E i \in loaded : Id(i) = Id(owner[t])

----------------------------------------------------------------------------
(* Requests *)

Request(from, to, token) == sends' = sends \cup {[from |-> from, to |-> to, token |-> token]}

(* Fault: the second account of a pair stays in the list. *)
PairOfOnePop(from, to) ==
  /\ stage = "send"
  /\ kind = "pairs"
  /\ {from, to} \subseteq loaded
  /\ from # to
  /\ loaded' = loaded \ {from}
  /\ sends' \in {sends, sends \cup {[from |-> from, to |-> to, token |-> 0]}}
  /\ UNCHANGED <<accounts, gap, known, kind, stage, count, ban, picked, owner>>

(* The last two accounts of the list, in the order the database gave; the  *)
(* richer one sends, unless it has nothing.  An odd one is left over.      *)
Pair(from, to) ==
  /\ stage = "send"
  /\ kind = "pairs"
  /\ {from, to} \subseteq loaded
  /\ from # to
  /\ loaded' = loaded \ {from, to}
  /\ sends' \in {sends, sends \cup {[from |-> from, to |-> to, token |-> 0]}}
  /\ UNCHANGED <<accounts, gap, known, kind, stage, count, ban, picked, owner>>

(* One refill for each index, also for index 0, which has no account and   *)
(* is refused.                                                             *)
Refill(to) ==
  /\ stage = "send"
  /\ kind = "refills"
  /\ to \in picked
  /\ picked' = picked \ {to}
  /\ Request(Faucet, to, 0)
  /\ UNCHANGED <<accounts, gap, known, kind, stage, count, ban, owner, loaded>>

Minted == {s.token : s \in sends}

(* Each kept token is minted to the next index of the picks. *)
Mint(t, to) ==
  /\ stage = "send"
  /\ kind = "mints"
  /\ t \in DOMAIN owner
  /\ Kept(t)
  /\ t \notin Minted
  /\ to \in picked
  /\ picked' = picked \ {to}
  /\ Request(owner[t], to, t)
  /\ UNCHANGED <<accounts, gap, known, kind, stage, count, ban, owner, loaded>>

(* From the banned account to the picked one.  Index 0 has no account, and *)
(* then the handler fails.                                                 *)
Transfer(from, to) ==
  /\ stage = "send"
  /\ kind = "transfer"
  /\ sends = {}
  /\ from \in ban
  /\ to \in loaded \ ban
  /\ Request(from, to, 0)
  /\ UNCHANGED <<accounts, gap, known, kind, stage, count, ban, picked, owner, loaded>>

(* The batch is over: all requests are made, an amount is zero, or an      *)
(* exception ended the handler.                                            *)
End ==
  /\ stage # "idle"
  /\ stage' = "idle"
  /\ UNCHANGED <<accounts, gap, known, kind, count, ban, picked, owner, loaded, sends>>

BatchNext ==
  \/ CreateAccount
  \/ \E c \in 1 .. MaxCount : StartPairs(c) \/ StartRefills(c) \/ StartMints(c)
  \/ \E i \in 1 .. MaxAccounts : StartTransfer(i)
  \/ \E i \in 0 .. MaxAccounts : Draw(i)
  \/ Drawn
  \/ \E tokens \in Owners : FindTokens(tokens)
  \/ \E stuck \in SUBSET (1 .. MaxAccounts) : Load(stuck)
  \/ \E from, to \in 1 .. MaxAccounts : Pair(from, to) \/ Transfer(from, to)
  \/ \E to \in 0 .. MaxAccounts : Refill(to) \/ \E t \in 1 .. MaxToken : Mint(t, to)
  \/ End

BatchSpec == BatchInit /\ [][BatchNext]_batchVars

----------------------------------------------------------------------------
(* Properties *)

(* While indexes are missing there is one that can still be drawn: the     *)
(* loops of the picks end, however few accounts there are (app.service.ts  *)
(* 284-289, 304-309).                                                      *)
DrawPossible == stage = "draw" /\ Cardinality(picked) < count => Drawable # {}

(* A batch of pairs or refills names no account twice, so its requests do  *)
(* not compete for a nonce (cron.service.ts 346-373, 423-431).             *)
Parties(s) == {s.from, s.to} \ {Faucet}
OncePerAccount ==
  kind \in {"pairs", "refills"} =>
    \A s, t \in sends : s # t => Parties(s) \cap Parties(t) = {}

(* There is an index left for every mint, whatever was found and filtered  *)
(* (cron.service.ts 506-536).                                              *)
ReceiverForEachMint ==
  stage = "send" /\ kind = "mints" =>
    \A t \in DOMAIN owner : Kept(t) /\ t \notin Minted => picked # {}

(* Although the owners are looked up in the wrong column, no token is      *)
(* minted whose owner was not itself found free (cron.service.ts 520-532,  *)
(* accounts.entity.ts 46-48).                                              *)
MintOwnerChecked ==
  kind = "mints" => \A s \in sends : s.from \in loaded
(* The inductive invariant of the five: what is drawn and what is made of  *)
(* it, by handler.                                                         *)
DrawInv ==
  /\ Cardinality(picked) <= count
  /\ IF kind = "transfer" THEN \E i \in 1 .. known : ban = {i} /\ count = 1
     ELSE ban = {} /\ count <= known

SendInv ==
  /\ stage \in {"draw", "load"} => sends = {}
  /\ kind = "pairs" => \A s \in sends : Parties(s) \cap loaded = {}
  /\ kind = "refills" => \A s \in sends : Parties(s) \cap picked = {}

MintInv ==
  kind = "mints" =>
    /\ stage = "draw" => loaded = {} /\ owner = <<>>
    /\ stage = "load" => Cardinality(picked) = count
    /\ stage = "send" => Cardinality(picked) + Cardinality(Minted) = count
    /\ Minted \subseteq DOMAIN owner
    /\ DOMAIN owner \subseteq 1 .. count

BatchInv ==
  /\ BatchTypeOK
  /\ stage # "idle" => DrawInv
  /\ SendInv
  /\ OncePerAccount
  /\ MintInv
  /\ MintOwnerChecked
=============================================================================
