--------------------------- MODULE BatchesProofs ---------------------------
(***************************************************************************)
(* Proofs about Batches, for any number of accounts and any range.         *)
(***************************************************************************)
EXTENDS Batches, FiniteSetTheorems, TLAPS

LEMMA IdInjective ==
  ASSUME NEW i \in Nat, NEW j \in Nat, gap \in Nat, Id(i) = Id(j)
  PROVE  i = j
BY DEF Id

LEMMA PickedFinite ==
  ASSUME BatchTypeOK
  PROVE  IsFiniteSet(picked) /\ Cardinality(picked) \in Nat
<1>1. accounts \in Nat /\ known \in Nat
  BY MaxAccountsAssumption DEF BatchTypeOK
<1>2. IsFiniteSet(0 .. known)
  BY <1>1, FS_Interval
<1>3. picked \in SUBSET (0 .. known)
  BY DEF BatchTypeOK
<1>4. IsFiniteSet(picked)
  BY <1>2, <1>3, FS_Subset
<1> QED
  BY <1>4, FS_CardinalityType

LEMMA OwnersType ==
  ASSUME NEW f \in Owners
  PROVE  /\ DOMAIN f \subseteq 1 .. MaxToken
         /\ \A t \in DOMAIN f : f[t] \in 1 .. MaxAccounts
BY MaxCountAssumption DEF Owners, MaxToken

LEMMA BatchInitInv == BatchInit => BatchInv
<1> SUFFICES ASSUME BatchInit PROVE BatchInv
  OBVIOUS
<1>1. <<>> \in [1 .. 0 -> 1 .. MaxAccounts]
  OBVIOUS
<1>2. 0 \in 0 .. MaxToken
  BY MaxCountAssumption DEF MaxToken
<1>3. owner \in Owners
  BY <1>1, <1>2 DEF BatchInit, Owners
<1>4. gap \in 1 .. MaxAccounts + 1
  BY MaxAccountsAssumption DEF BatchInit
<1>5. BatchTypeOK
  BY <1>3, <1>4, MaxAccountsAssumption, MaxCountAssumption
  DEF BatchInit, BatchTypeOK, BatchKind, BatchStage
<1> QED
  BY <1>5 DEF BatchInit, BatchInv, SendInv, OncePerAccount, MintInv, MintOwnerChecked

(* Every handler begins with an empty batch that its account count allows. *)
LEMMA StartStep ==
  ASSUME BatchInv, NEW k \in BatchKind, NEW c \in 0 .. 2 * MaxCount, NEW B,
         Start(k, c, B),
         IF k = "transfer" THEN \E i \in 1 .. accounts : B = {i} /\ c = 1
         ELSE B = {} /\ c <= accounts
  PROVE  BatchInv'
<1>1. /\ kind' = k /\ stage' = "draw" /\ known' = accounts /\ count' = c /\ ban' = B
      /\ picked' = {} /\ owner' = <<>> /\ loaded' = {} /\ sends' = {}
      /\ accounts' = accounts /\ gap' = gap
  BY DEF Start
<1>2. <<>> \in [1 .. 0 -> 1 .. MaxAccounts] /\ 0 \in 0 .. MaxToken
  BY MaxCountAssumption DEF MaxToken
<1>3. owner' \in Owners
  BY <1>1, <1>2 DEF Owners
<1>4. accounts \in 0 .. MaxAccounts /\ accounts \in Nat
  BY MaxAccountsAssumption DEF BatchInv, BatchTypeOK
<1>5. B \subseteq 1 .. accounts
  OBVIOUS
<1>6. BatchTypeOK'
  BY <1>1, <1>3, <1>4, <1>5 DEF BatchInv, BatchTypeOK, BatchStage
<1>7. Cardinality({}) = 0
  BY FS_EmptySet
<1>8. DrawInv'
  BY <1>1, <1>4, <1>7, MaxCountAssumption DEF DrawInv
<1>9. SendInv' /\ OncePerAccount' /\ MintOwnerChecked'
  BY <1>1 DEF SendInv, OncePerAccount, MintOwnerChecked
<1>10. MintInv'
  BY <1>1 DEF MintInv, Minted
<1> QED
  BY <1>6, <1>8, <1>9, <1>10 DEF BatchInv

LEMMA PickStep ==
  ASSUME BatchInv,
         \/ CreateAccount \/ Drawn \/ End
         \/ \E i \in 0 .. MaxAccounts : Draw(i)
  PROVE  BatchInv'
<1> USE MaxAccountsAssumption, MaxCountAssumption DEF BatchInv
<1>0. /\ accounts \in Nat /\ known \in Nat /\ accounts \in 0 .. MaxAccounts
      /\ known \in 0 .. accounts /\ count \in Nat
  BY DEF BatchTypeOK
<1>1. CASE CreateAccount
  <2>1. /\ accounts' = accounts + 1 /\ accounts < MaxAccounts
        /\ gap' = gap \/ (gap = accounts + 1 /\ gap' = gap + 1)
        /\ UNCHANGED <<known, kind, stage, count, ban, picked, owner, loaded, sends>>
    BY <1>1 DEF CreateAccount
  <2>2. BatchTypeOK'
    <3>1. accounts' \in 0 .. MaxAccounts /\ gap' \in 1 .. MaxAccounts + 1 /\ known' \in 0 .. accounts'
      BY <1>0, <2>1 DEF BatchTypeOK
    <3>2. ban' \subseteq 1 .. accounts' /\ loaded' \subseteq 1 .. accounts'
      BY <1>0, <2>1 DEF BatchTypeOK
    <3> QED
      BY <2>1, <3>1, <3>2 DEF BatchTypeOK
  <2>3. Minted' = Minted
    BY <2>1 DEF Minted
  <2> QED
    BY <2>1, <2>2, <2>3 DEF DrawInv, SendInv, OncePerAccount, MintInv, MintOwnerChecked
<1>2. CASE Drawn
  <2>1. /\ kind # "mints" /\ stage = "draw" /\ stage' \in {"send", "load"}
        /\ UNCHANGED <<accounts, gap, known, kind, count, ban, picked, owner, loaded, sends>>
    BY <1>2 DEF Drawn
  <2>2. BatchTypeOK'
    BY <2>1 DEF BatchTypeOK, BatchStage
  <2> QED
    BY <2>1, <2>2 DEF DrawInv, SendInv, OncePerAccount, MintInv, MintOwnerChecked
<1>3. CASE End
  <2>1. /\ stage' = "idle"
        /\ UNCHANGED <<accounts, gap, known, kind, count, ban, picked, owner, loaded, sends>>
    BY <1>3 DEF End
  <2>2. BatchTypeOK'
    BY <2>1 DEF BatchTypeOK, BatchStage
  <2>3. Minted' = Minted
    BY <2>1 DEF Minted
  <2> QED
    BY <2>1, <2>2, <2>3 DEF SendInv, OncePerAccount, MintInv, MintOwnerChecked
<1>4. ASSUME NEW i \in 0 .. MaxAccounts, Draw(i) PROVE BatchInv'
  <2>1. /\ stage = "draw" /\ Cardinality(picked) < count /\ i \in 0 .. known
        /\ picked' = picked \cup {i}
        /\ UNCHANGED <<accounts, gap, known, kind, stage, count, ban, owner, loaded, sends>>
    BY <1>4 DEF Draw, Drawable
  <2>2. Cardinality(picked') <= count' /\ sends = {}
    <3>1. IsFiniteSet(picked) /\ Cardinality(picked) \in Nat
      BY PickedFinite
    <3>2. Cardinality(picked \cup {i}) <= Cardinality(picked) + 1
      BY <3>1, FS_AddElement
    <3>3. IsFiniteSet(picked \cup {i}) /\ Cardinality(picked \cup {i}) \in Nat
      BY <3>1, FS_AddElement, FS_CardinalityType
    <3> QED
      BY <1>0, <2>1, <3>1, <3>2, <3>3 DEF SendInv
  <2>3. BatchTypeOK'
    BY <2>1 DEF BatchTypeOK
  <2>4. DrawInv'
    BY <2>1, <2>2 DEF DrawInv
  <2>5. Minted' = Minted
    BY <2>1 DEF Minted
  <2> QED
    BY <2>1, <2>2, <2>3, <2>4, <2>5 DEF SendInv, OncePerAccount, MintInv, MintOwnerChecked
<1> QED
  BY <1>1, <1>2, <1>3, <1>4

LEMMA LoadStep ==
  ASSUME BatchInv,
         \/ \E tokens \in Owners : FindTokens(tokens)
         \/ \E stuck \in SUBSET (1 .. MaxAccounts) : Load(stuck)
  PROVE  BatchInv'
<1> USE MaxAccountsAssumption, MaxCountAssumption DEF BatchInv
<1>1. ASSUME NEW tokens \in Owners, FindTokens(tokens) PROVE BatchInv'
  <2>1. /\ stage = "draw" /\ kind = "mints" /\ Cardinality(picked) = count
        /\ DOMAIN tokens \subseteq 1 .. count /\ owner' = tokens /\ stage' = "load"
        /\ UNCHANGED <<accounts, gap, known, kind, count, ban, picked, loaded, sends>>
    BY <1>1 DEF FindTokens
  <2>2. sends = {} /\ Minted' = {}
    BY <2>1 DEF SendInv, Minted
  <2>3. BatchTypeOK'
    BY <2>1 DEF BatchTypeOK, BatchStage
  <2>4. DrawInv'
    BY <2>1 DEF DrawInv
  <2>5. MintInv'
    BY <2>1, <2>2 DEF MintInv
  <2> QED
    BY <2>1, <2>2, <2>3, <2>4, <2>5 DEF SendInv, OncePerAccount, MintOwnerChecked
<1>2. ASSUME NEW stuck \in SUBSET (1 .. MaxAccounts), Load(stuck) PROVE BatchInv'
  <2>1. /\ stage = "load" /\ stage' = "send" /\ loaded' \subseteq 1 .. accounts
        /\ UNCHANGED <<accounts, gap, known, kind, count, ban, picked, owner, sends>>
    BY <1>2 DEF Load
  <2>2. sends = {} /\ Minted' = {} /\ Minted = {}
    BY <2>1 DEF SendInv, Minted
  <2>3. BatchTypeOK'
    BY <2>1 DEF BatchTypeOK, BatchStage
  <2>4. DrawInv'
    BY <2>1 DEF DrawInv
  <2>5. MintInv'
    <3>1. Cardinality({}) = 0 /\ count \in Nat
      BY FS_EmptySet DEF BatchTypeOK
    <3> QED
      BY <2>1, <2>2, <3>1 DEF MintInv
  <2> QED
    BY <2>1, <2>2, <2>3, <2>4, <2>5 DEF SendInv, OncePerAccount, MintOwnerChecked
<1> QED
  BY <1>1, <1>2

LEMMA PairStep ==
  ASSUME BatchInv, NEW from \in 1 .. MaxAccounts, NEW to \in 1 .. MaxAccounts,
         Pair(from, to) \/ Transfer(from, to)
  PROVE  BatchInv'
<1> USE MaxAccountsAssumption, MaxCountAssumption DEF BatchInv
<1> DEFINE x == [from |-> from, to |-> to, token |-> 0]
<1>0. x \in SendRecord /\ x.from = from /\ x.to = to
  BY DEF SendRecord, MaxToken
<1> HIDE DEF x
<1>1. CASE Pair(from, to)
  <2>1. /\ stage = "send" /\ kind = "pairs" /\ {from, to} \subseteq loaded
        /\ loaded' = loaded \ {from, to} /\ sends' \in {sends, sends \cup {x}}
        /\ UNCHANGED <<accounts, gap, known, kind, stage, count, ban, picked, owner>>
    BY <1>1 DEF Pair, x
  <2>2. BatchTypeOK'
    BY <1>0, <2>1 DEF BatchTypeOK
  <2>3. Parties(x) \subseteq {from, to}
    BY <1>0 DEF Parties
  <2>4. \A s \in sends : Parties(s) \cap loaded = {}
    BY <2>1 DEF SendInv
  <2>5. \A s \in sends' : Parties(s) \cap loaded' = {}
    BY <2>1, <2>3, <2>4
  <2>6. \A s, t \in sends' : s # t => Parties(s) \cap Parties(t) = {}
    <3>1. \A s, t \in sends : s # t => Parties(s) \cap Parties(t) = {}
      BY <2>1 DEF OncePerAccount
    <3>2. \A s \in sends : Parties(s) \cap Parties(x) = {}
      BY <2>1, <2>3, <2>4
    <3> QED
      BY <2>1, <3>1, <3>2
  <2> QED
    BY <2>1, <2>2, <2>5, <2>6 DEF DrawInv, SendInv, OncePerAccount, MintInv, MintOwnerChecked
<1>2. CASE Transfer(from, to)
  <2>1. /\ stage = "send" /\ kind = "transfer" /\ sends' = sends \cup {x}
        /\ UNCHANGED <<accounts, gap, known, kind, stage, count, ban, picked, owner, loaded>>
    BY <1>2 DEF Transfer, Request, x
  <2>2. BatchTypeOK'
    BY <1>0, <2>1 DEF BatchTypeOK
  <2> QED
    BY <2>1, <2>2 DEF DrawInv, SendInv, OncePerAccount, MintInv, MintOwnerChecked
<1> QED
  BY <1>1, <1>2

LEMMA RefillStep ==
  ASSUME BatchInv, NEW to \in 0 .. MaxAccounts, Refill(to)
  PROVE  BatchInv'
<1> USE MaxAccountsAssumption, MaxCountAssumption DEF BatchInv
<1> DEFINE x == [from |-> Faucet, to |-> to, token |-> 0]
<1>0. x \in SendRecord /\ Parties(x) \subseteq {to}
  BY DEF SendRecord, MaxToken, Parties
<1>1. /\ stage = "send" /\ kind = "refills" /\ to \in picked
      /\ picked' = picked \ {to} /\ sends' = sends \cup {x}
      /\ UNCHANGED <<accounts, gap, known, kind, stage, count, ban, owner, loaded>>
  BY DEF Refill, Request
<1> HIDE DEF x
<1>2. BatchTypeOK'
  BY <1>0, <1>1 DEF BatchTypeOK
<1>3. DrawInv'
  <2>1. IsFiniteSet(picked) /\ Cardinality(picked) \in Nat
    BY PickedFinite
  <2>2. Cardinality(picked \ {to}) = Cardinality(picked) - 1
    BY <1>1, <2>1, FS_RemoveElement
  <2>3. Cardinality(picked) <= count /\ count \in Nat
    BY <1>1 DEF DrawInv, BatchTypeOK
  <2>4. Cardinality(picked') <= count'
    BY <1>1, <2>1, <2>2, <2>3
  <2> QED
    BY <1>1, <2>4 DEF DrawInv
<1>4. \A s \in sends : Parties(s) \cap picked = {}
  BY <1>1 DEF SendInv
<1>5. \A s \in sends' : Parties(s) \cap picked' = {}
  BY <1>0, <1>1, <1>4
<1>6. \A s, t \in sends' : s # t => Parties(s) \cap Parties(t) = {}
  <2>1. \A s, t \in sends : s # t => Parties(s) \cap Parties(t) = {}
    BY <1>1 DEF OncePerAccount
  <2>2. \A s \in sends : Parties(s) \cap Parties(x) = {}
    BY <1>0, <1>1, <1>4
  <2> QED
    BY <1>1, <2>1, <2>2
<1> QED
  BY <1>1, <1>2, <1>3, <1>5, <1>6 DEF SendInv, OncePerAccount, MintInv, MintOwnerChecked

LEMMA MintStep ==
  ASSUME BatchInv, NEW t \in 1 .. MaxToken, NEW to \in 0 .. MaxAccounts, Mint(t, to)
  PROVE  BatchInv'
<1> USE MaxAccountsAssumption, MaxCountAssumption DEF BatchInv
<1> DEFINE x == [from |-> owner[t], to |-> to, token |-> t]
<1>0. owner[t] \in 1 .. MaxAccounts
  BY OwnersType DEF BatchTypeOK, Mint
<1>1. x \in SendRecord /\ x.from = owner[t] /\ x.token = t
  BY <1>0 DEF SendRecord, MaxToken
<1>2. /\ stage = "send" /\ kind = "mints" /\ t \in DOMAIN owner /\ Kept(t) /\ t \notin Minted
      /\ to \in picked /\ picked' = picked \ {to} /\ sends' = sends \cup {x}
      /\ UNCHANGED <<accounts, gap, known, kind, stage, count, ban, owner, loaded>>
  BY DEF Mint, Request
<1> HIDE DEF x
<1>3. BatchTypeOK'
  BY <1>1, <1>2 DEF BatchTypeOK
<1>4. IsFiniteSet(picked) /\ Cardinality(picked) \in Nat
  BY PickedFinite
<1>5. Cardinality(picked \ {to}) = Cardinality(picked) - 1
  BY <1>2, <1>4, FS_RemoveElement
<1>6. Cardinality(picked) <= count /\ count \in Nat
  BY <1>2 DEF DrawInv, BatchTypeOK
<1>7. DrawInv'
  <2>1. Cardinality(picked') <= count'
    BY <1>2, <1>4, <1>5, <1>6
  <2> QED
    BY <1>2, <2>1 DEF DrawInv
<1>8. Minted' = Minted \cup {t}
  BY <1>1, <1>2 DEF Minted
<1>9. IsFiniteSet(Minted) /\ Cardinality(Minted) \in Nat
  <2>1. Minted \in SUBSET (1 .. count)
    BY <1>2 DEF MintInv
  <2>2. IsFiniteSet(1 .. count)
    BY <1>6, FS_Interval
  <2> QED
    BY <2>1, <2>2, FS_Subset, FS_CardinalityType
<1>10. Cardinality(Minted \cup {t}) = Cardinality(Minted) + 1
  BY <1>2, <1>9, FS_AddElement
<1>11. MintInv'
  <2>1. /\ Cardinality(picked) + Cardinality(Minted) = count
        /\ Minted \subseteq DOMAIN owner /\ DOMAIN owner \subseteq 1 .. count
    BY <1>2 DEF MintInv
  <2>2. Cardinality(picked') + Cardinality(Minted') = count
    BY <1>2, <1>4, <1>5, <1>6, <1>8, <1>9, <1>10, <2>1
  <2>3. Minted' \subseteq DOMAIN owner'
    BY <1>2, <1>8, <2>1
  <2> QED
    BY <1>2, <2>1, <2>2, <2>3 DEF MintInv
<1>12. owner[t] \in loaded
  <2>1. PICK i \in loaded : Id(i) = Id(owner[t])
    BY <1>2 DEF Kept
  <2>2. i \in Nat /\ owner[t] \in Nat /\ gap \in Nat
    BY <1>0 DEF BatchTypeOK
  <2> QED
    BY <2>1, <2>2, IdInjective
<1>13. MintOwnerChecked'
  BY <1>1, <1>2, <1>12 DEF MintOwnerChecked
<1> QED
  BY <1>2, <1>3, <1>7, <1>11, <1>13 DEF SendInv, OncePerAccount

LEMMA BatchStep ==
  ASSUME BatchInv, [BatchNext]_batchVars
  PROVE  BatchInv'
<1>0. accounts \in Nat
  BY MaxAccountsAssumption DEF BatchInv, BatchTypeOK
<1>1. ASSUME NEW c \in 1 .. MaxCount, StartPairs(c) \/ StartRefills(c) \/ StartMints(c)
      PROVE  BatchInv'
  <2>1. 2 * c \in 0 .. 2 * MaxCount /\ c \in 0 .. 2 * MaxCount
    BY MaxCountAssumption
  <2>2. /\ "pairs" \in BatchKind /\ "refills" \in BatchKind /\ "mints" \in BatchKind
    BY DEF BatchKind
  <2>3. CASE StartPairs(c)
    BY <2>1, <2>2, <2>3, StartStep DEF StartPairs
  <2>4. CASE StartRefills(c)
    BY <2>1, <2>2, <2>4, StartStep DEF StartRefills
  <2>5. CASE StartMints(c)
    BY <2>1, <2>2, <2>5, StartStep DEF StartMints
  <2> QED
    BY <1>1, <2>3, <2>4, <2>5
<1>2. ASSUME NEW i \in 1 .. MaxAccounts, StartTransfer(i) PROVE BatchInv'
  <2>1. 1 \in 0 .. 2 * MaxCount /\ "transfer" \in BatchKind
    BY MaxCountAssumption DEF BatchKind
  <2>2. i \in 1 .. accounts
    BY <1>0, <1>2 DEF StartTransfer
  <2> QED
    BY <1>2, <2>1, <2>2, StartStep DEF StartTransfer
<1>3. CASE UNCHANGED batchVars
  <2>1. Minted' = Minted
    BY <1>3 DEF batchVars, Minted
  <2> QED
    BY <1>3, <2>1 DEF batchVars, BatchInv, BatchTypeOK, DrawInv, SendInv, OncePerAccount, MintInv,
      MintOwnerChecked
<1> QED
  BY <1>1, <1>2, <1>3, PickStep, LoadStep, PairStep, RefillStep, MintStep DEF BatchNext

LEMMA BatchInvariant == BatchSpec => []BatchInv
<1> QED
  BY BatchInitInv, BatchStep, PTL DEF BatchSpec

(* Batches of any size keep their types (cron.service.ts 319-618).         *)
THEOREM BatchTypeCorrect == BatchSpec => []BatchTypeOK
<1>1. BatchInv => BatchTypeOK
  BY DEF BatchInv
<1> QED
  BY <1>1, BatchInvariant, PTL

(* The loops of the picks never run out of indexes, for any number of      *)
(* accounts (app.service.ts 271-311).                                      *)
THEOREM DrawAlwaysPossible == BatchSpec => []DrawPossible
<1>1. BatchInv => DrawPossible
  <2> SUFFICES ASSUME BatchInv, stage = "draw", Cardinality(picked) < count, Drawable = {}
               PROVE  FALSE
    BY DEF DrawPossible
  <2>1. /\ known \in Nat /\ count \in Nat
        /\ IsFiniteSet(0 .. known) /\ Cardinality(0 .. known) = known + 1
    <3>1. known \in Nat /\ count \in Nat
      BY MaxAccountsAssumption, MaxCountAssumption DEF BatchInv, BatchTypeOK
    <3> QED
      BY <3>1, FS_Interval
  <2>2. DrawInv /\ 0 .. known \subseteq picked \cup ban
    BY DEF BatchInv, Drawable
  <2>3. IsFiniteSet(picked) /\ Cardinality(picked) \in Nat
    BY PickedFinite DEF BatchInv
  <2>4. CASE kind = "transfer"
    <3>1. PICK i \in 1 .. known : ban = {i} /\ count = 1
      BY <2>2, <2>4 DEF DrawInv
    <3>2. picked = {}
      BY <2>3, <3>1, FS_EmptySet
    <3>3. 0 \in 0 .. known /\ 0 \notin picked \cup ban
      BY <2>1, <3>1, <3>2
    <3> QED
      BY <2>2, <3>3
  <2>5. CASE kind # "transfer"
    <3>1. ban = {} /\ count <= known
      BY <2>2, <2>5 DEF DrawInv
    <3>2. 0 .. known \in SUBSET picked
      BY <2>2, <3>1
    <3>3. Cardinality(0 .. known) <= Cardinality(picked)
      BY <2>3, <3>2, FS_Subset
    <3> QED
      BY <2>1, <2>3, <3>1, <3>3
  <2> QED
    BY <2>4, <2>5
<1> QED
  BY <1>1, BatchInvariant, PTL

(* No two requests of a batch of pairs or refills share an account         *)
(* (cron.service.ts 346-373, 423-431).                                     *)
THEOREM BatchesNameOnce == BatchSpec => []OncePerAccount
<1>1. BatchInv => OncePerAccount
  BY DEF BatchInv
<1> QED
  BY <1>1, BatchInvariant, PTL

(* A receiver is left for every token that is still to be minted           *)
(* (cron.service.ts 506-536).                                              *)
THEOREM ReceiversSuffice == BatchSpec => []ReceiverForEachMint
<1>1. BatchInv => ReceiverForEachMint
  <2> SUFFICES ASSUME BatchInv, stage = "send", kind = "mints",
                      NEW t \in DOMAIN owner, t \notin Minted, picked = {}
               PROVE  FALSE
    BY DEF ReceiverForEachMint
  <2>1. /\ Cardinality(picked) + Cardinality(Minted) = count
        /\ Minted \subseteq DOMAIN owner /\ DOMAIN owner \subseteq 1 .. count
    BY DEF BatchInv, MintInv
  <2>2. count \in Nat /\ IsFiniteSet(1 .. count) /\ Cardinality(1 .. count) = count
    <3>1. count \in Nat
      BY MaxCountAssumption DEF BatchInv, BatchTypeOK
    <3> QED
      BY <3>1, FS_Interval
  <2>3. Minted \in SUBSET (1 .. count) /\ t \in 1 .. count
    BY <2>1
  <2>4. Cardinality(Minted) = count
    <3>1. Cardinality({}) = 0
      BY FS_EmptySet
    <3>2. IsFiniteSet(Minted) /\ Cardinality(Minted) \in Nat
      BY <2>2, <2>3, FS_Subset, FS_CardinalityType
    <3> QED
      BY <2>1, <3>1, <3>2
  <2>5. Minted = 1 .. count
    BY <2>2, <2>3, <2>4, FS_Subset
  <2> QED
    BY <2>3, <2>5
<1> QED
  BY <1>1, BatchInvariant, PTL

(* The owner of every token that is minted was itself loaded and free      *)
(* (cron.service.ts 520-532).                                              *)
THEOREM MintOwnersChecked == BatchSpec => []MintOwnerChecked
<1>1. BatchInv => MintOwnerChecked
  BY DEF BatchInv
<1> QED
  BY <1>1, BatchInvariant, PTL
=============================================================================
