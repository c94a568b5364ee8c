-------------------------- MODULE AppServiceProofs --------------------------
(***************************************************************************)
(* Proofs about AppService for any requests, names and handovers.          *)
(***************************************************************************)
EXTENDS AppService, FiniteSetTheorems, TLAPS

LEMMA InitInv == Init => IInv
<1> SUFFICES ASSUME Init PROVE IInv
  OBVIOUS
<1>1. NewRequest \in RequestState
  BY HandoverAssumption DEF NewRequest, RequestState, Kind, Pc, FaucetIndex
<1>2. TypeOK
  BY <1>1, HandoverAssumption DEF Init, TypeOK, FaucetIndex
<1>3. LockInv /\ NonceInv
  BY DEF Init, NewRequest, LockInv, NonceInv, NoNonceGap, NoncesOf, At, FaucetIndex
<1>4. DeployInv
  BY DEF Init, NewRequest, DeployInv, At
<1>5. HolderInv
  BY NoOneAssumption, FS_EmptySet DEF Init, HolderInv, LockRow
<1>6. RefillInv
  BY DEF Init, NewRequest, RefillInv, RefilledUnlessFailed, At
<1> QED
  BY <1>2, <1>3, <1>4, <1>5, <1>6 DEF Init, IInv, IndexesDense, NamesOnce, RefillNoncesDistinct, Refills

LEMMA TypeStep ==
  ASSUME IInv, [Next]_vars
  PROVE  TypeOK'
<1> USE DEF IInv, TypeOK, RequestState, Kind, Pc, dbVars, Goto, At
<1>1. ASSUME NEW r \in Request, Begin(r) PROVE TypeOK'
  BY <1>1 DEF Begin
<1>2. ASSUME NEW r \in Request, Fail(r) \/ Refuse(r) PROVE TypeOK'
  BY <1>2 DEF Fail, Refuse, Unlock
<1>3. ASSUME NEW r \in Request, LockIndex(r) \/ LockAction(r) \/ LockFaucet(r) \/ LockToken(r)
      PROVE  TypeOK'
  <2>1. CASE LockIndex(r)
    <3> DEFINE x == [req[r] EXCEPT !.pc = "insert", !.index = accountIndex]
    <3>1. x \in RequestState
      <4>1. req[r] \in RequestState /\ accountIndex \in Nat /\ "insert" \in Pc
        OBVIOUS
      <4> QED
        BY ONLY <4>1 DEF RequestState
    <3>2. req' = [req EXCEPT ![r] = x]
      BY <2>1 DEF LockIndex
    <3> HIDE DEF x
    <3>3. req' \in [Request -> RequestState]
      BY <3>1, <3>2
    <3>4. lock' \in [LockRow -> Request \cup {NoOne}]
      BY <2>1 DEF LockIndex, Lock, LockRow
    <3> HIDE DEF RequestState
    <3> QED
      BY <2>1, <3>3, <3>4 DEF LockIndex
  <2>2. CASE LockAction(r) \/ LockToken(r)
    <3>1. PICK pc \in {"faucet", "name"} : req' = [req EXCEPT ![r].pc = pc]
      BY <2>2 DEF LockAction, LockToken
    <3> DEFINE x == [req[r] EXCEPT !.pc = pc]
    <3>2. x \in RequestState /\ req' = [req EXCEPT ![r] = x]
      BY <3>1
    <3> HIDE DEF x
    <3>3. lock' \in [LockRow -> Request \cup {NoOne}]
      BY <2>2 DEF LockAction, LockToken, Lock, LockRow
    <3> HIDE DEF RequestState
    <3>4. req' \in [Request -> RequestState]
      BY <3>2
    <3> QED
      BY <2>2, <3>3, <3>4 DEF LockAction, LockToken
  <2>3. CASE LockFaucet(r)
    <3> DEFINE x == [req[r] EXCEPT !.pc = "nonce", !.faucet = faucetIndex]
    <3>1. x \in RequestState /\ req' = [req EXCEPT ![r] = x]
      BY <2>3 DEF LockFaucet
    <3> HIDE DEF x
    <3>2. req' \in [Request -> RequestState]
      BY <3>1
    <3>3. lock' \in [LockRow -> Request \cup {NoOne}]
      BY <2>3 DEF LockFaucet, Lock, LockRow
    <3> HIDE DEF RequestState
    <3> QED
      BY <2>3, <3>2, <3>3 DEF LockFaucet
  <2> QED
    BY <1>3, <2>1, <2>2, <2>3
<1>4. ASSUME NEW r \in Request, CommitAccount(r) PROVE TypeOK'
  BY <1>4 DEF CommitAccount, Unlock
<1>5. ASSUME NEW r \in Request, NonceOfRefill(r) \/ NonceOfHandover(r) PROVE TypeOK'
  BY <1>5 DEF NonceOfRefill, NonceOfHandover, SignWith
<1>6. ASSUME NEW r \in Request, Send(r) PROVE TypeOK'
  BY <1>6 DEF Send, Sending
<1>7. ASSUME NEW r \in Request, CommitRefill(r) PROVE TypeOK'
  <2> DEFINE x == [req[r] EXCEPT !.pc = "done"]
  <2>1. x \in RequestState /\ req' = [req EXCEPT ![r] = x]
    BY <1>7 DEF CommitRefill
  <2> HIDE DEF x
  <2>2. req' \in [Request -> RequestState]
    BY <2>1
  <2>3. lock' \in [LockRow -> Request \cup {NoOne}]
    BY <1>7 DEF CommitRefill, Unlock
  <2> HIDE DEF RequestState
  <2> QED
    BY <1>7, <2>2, <2>3 DEF CommitRefill
<1>8. ASSUME NEW r \in Request, CommitHandover(r) PROVE TypeOK'
  <2>1. req[r].faucet \in FaucetIndex /\ req[r].faucet < MaxHandover
    BY <1>8 DEF CommitHandover, LockInv, IsHandover
  <2>2. faucetIndex' \in FaucetIndex
    BY <1>8, <2>1, HandoverAssumption DEF CommitHandover, FaucetIndex
  <2> QED
    BY <1>8, <2>2 DEF CommitHandover, Unlock
<1>9. ASSUME NEW r \in Request, PickName(r) PROVE TypeOK'
  <2>1. PICK taken \in {{}} \cup {{n} : n \in Name \ generated} :
          req' = [req EXCEPT ![r].pc = "deploy", ![r].name = taken]
    BY <1>9 DEF PickName
  <2>2. taken \in SUBSET Name /\ UNCHANGED <<dbVars, lock, sent, latest, deployed>>
    BY <1>9 DEF PickName
  <2> DEFINE x == [req[r] EXCEPT !.pc = "deploy", !.name = taken]
  <2>3. x \in RequestState
    <3>1. req[r] \in RequestState /\ "deploy" \in Pc
      OBVIOUS
    <3> QED
      BY <2>2, <3>1
  <2>4. req' = [req EXCEPT ![r] = x]
    BY <2>1
  <2> HIDE DEF x
  <2>5. req' \in [Request -> RequestState]
    BY <2>3, <2>4
  <2> HIDE DEF RequestState
  <2> QED
    BY <2>2, <2>5
<1>10. ASSUME NEW r \in Request, CommitToken(r) PROVE TypeOK'
  <2> DEFINE x == [req[r] EXCEPT !.pc = "done"]
  <2>1. x \in RequestState /\ req' = [req EXCEPT ![r] = x]
    BY <1>10 DEF CommitToken
  <2>2. Named(r) \subseteq [name : Name, by : Request] /\ req[r].name \subseteq Name
    BY DEF Named
  <2> HIDE DEF x
  <2>3. req' \in [Request -> RequestState]
    BY <2>1
  <2>4. lock' \in [LockRow -> Request \cup {NoOne}]
    BY <1>10 DEF CommitToken, Unlock
  <2> HIDE DEF RequestState
  <2> QED
    BY <1>10, <2>2, <2>3, <2>4 DEF CommitToken
<1>11. ASSUME NEW f \in FaucetIndex, Mine(f) PROVE TypeOK'
  BY <1>11 DEF Mine
<1>12. CASE Crash
  <2>1. lock' \in [LockRow -> Request \cup {NoOne}]
    BY <1>12 DEF Crash, Unlock
  <2>2. ASSUME NEW r \in Request PROVE [req[r] EXCEPT !.pc = "failed"] \in RequestState
    OBVIOUS
  <2> HIDE DEF RequestState
  <2>3. req' \in [Request -> RequestState]
    BY <1>12, <2>2 DEF Crash
  <2> QED
    BY <1>12, <2>1, <2>3 DEF Crash
<1>13. CASE UNCHANGED vars
  BY <1>13 DEF vars
<1>14. ASSUME NEW r \in Request, Deploy(r) PROVE TypeOK'
  BY <1>14 DEF Deploy, Named
<1> QED
  BY <1>1, <1>2, <1>3, <1>4, <1>5, <1>6, <1>7, <1>8, <1>9, <1>10, <1>11, <1>12, <1>13, <1>14
  DEF Next, Step

(* A lock keeps what was read under it true until it is released. *)
LEMMA LockStep ==
  ASSUME IInv, [Next]_vars
  PROVE  LockInv'
<1> USE NoOneAssumption, HandoverAssumption
    DEF IInv, TypeOK, RequestState, LockInv, dbVars, Goto, At, IsHandover, LockRow
<1>1. ASSUME NEW r \in Request, Begin(r) PROVE LockInv'
  BY <1>1 DEF Begin
<1>2. ASSUME NEW r \in Request, Fail(r) \/ Refuse(r) PROVE LockInv'
  BY <1>2 DEF Fail, Refuse, Unlock, Ended
<1>3. ASSUME NEW r \in Request, LockIndex(r) PROVE LockInv'
  BY <1>3 DEF LockIndex, Lock
<1>4. ASSUME NEW r \in Request, LockAction(r) PROVE LockInv'
  BY <1>4 DEF LockAction, Lock
<1>5. ASSUME NEW r \in Request, LockFaucet(r) PROVE LockInv'
  BY <1>5 DEF LockFaucet, Lock
<1>6. ASSUME NEW r \in Request, LockToken(r) PROVE LockInv'
  BY <1>6 DEF LockToken, Lock
<1>7. ASSUME NEW r \in Request, CommitAccount(r) PROVE LockInv'
  BY <1>7 DEF CommitAccount, Unlock
<1>8. ASSUME NEW r \in Request, NonceOfRefill(r) PROVE LockInv'
  BY <1>8 DEF NonceOfRefill, SignWith
<1>9. ASSUME NEW r \in Request, NonceOfHandover(r) PROVE LockInv'
  <2>1. req[r].faucet < MaxHandover /\ req[r].kind = "replaceFaucetAddress"
    BY <1>9 DEF NonceOfHandover
  <2>2. PICK n : req' = [req EXCEPT ![r].pc = "send", ![r].nonce = n]
    BY <1>9 DEF NonceOfHandover, SignWith
  <2>3. UNCHANGED <<dbVars, lock, sent, latest, deployed>> /\ req[r].pc = "nonce"
    BY <1>9 DEF NonceOfHandover, SignWith
  <2> QED
    BY <2>1, <2>2, <2>3
<1>10. ASSUME NEW r \in Request, Send(r) PROVE LockInv'
  BY <1>10 DEF Send
<1>11. ASSUME NEW r \in Request, CommitRefill(r) PROVE LockInv'
  BY <1>11 DEF CommitRefill, Unlock
<1>12. ASSUME NEW r \in Request, CommitHandover(r) PROVE LockInv'
  BY <1>12 DEF CommitHandover, Unlock
<1>13. ASSUME NEW r \in Request, PickName(r) PROVE LockInv'
  <2>1. PICK taken \in {{}} \cup {{n} : n \in Name \ generated} :
          req' = [req EXCEPT ![r].pc = "deploy", ![r].name = taken]
    BY <1>13 DEF PickName
  <2>2. taken \cap generated = {} /\ \A m, n \in taken : m = n
    OBVIOUS
  <2> QED
    BY <1>13, <2>1, <2>2 DEF PickName
<1>14. ASSUME NEW r \in Request, CommitToken(r) PROVE LockInv'
  BY <1>14 DEF CommitToken, Unlock
<1>15. ASSUME NEW f \in FaucetIndex, Mine(f) PROVE LockInv'
  BY <1>15 DEF Mine
<1>16. CASE Crash
  BY <1>16 DEF Crash, Unlock, Ended
<1>17. CASE UNCHANGED vars
  BY <1>17 DEF vars
<1>18. ASSUME NEW r \in Request, Deploy(r) PROVE LockInv'
  BY <1>18 DEF Deploy
<1> QED
  BY <1>1, <1>2, <1>3, <1>4, <1>5, <1>6, <1>7, <1>8, <1>9, <1>10, <1>11, <1>12, <1>13, <1>14,
     <1>15, <1>16, <1>17, <1>18
  DEF Next, Step

(* Which of the counters, the names and the node's sets a step may change. *)
LEMMA Frame ==
  ASSUME [Next]_vars
  PROVE  /\ \/ UNCHANGED <<accountIndex, accounts>>
            \/ \E r \in Request : CommitAccount(r)
         /\ \/ UNCHANGED <<generated, tokens>>
            \/ \E r \in Request : CommitToken(r)
         /\ \/ UNCHANGED sent
            \/ \E r \in Request : Send(r)
         /\ \/ UNCHANGED latest
            \/ \E f \in FaucetIndex : Mine(f)
         /\ \/ UNCHANGED faucetIndex
            \/ \E r \in Request : CommitHandover(r)
         /\ \/ UNCHANGED deployed
            \/ \E r \in Request : Deploy(r)
<1> USE DEF dbVars
<1>1. CASE \E r \in Request : Begin(r) \/ Fail(r) \/ Refuse(r) \/ LockIndex(r) \/ LockAction(r)
                               \/ LockFaucet(r) \/ LockToken(r) \/ PickName(r) \/ CommitRefill(r)
  BY <1>1 DEF Begin, Fail, Refuse, LockIndex, LockAction, LockFaucet, LockToken, PickName, CommitRefill
<1>2. CASE \E r \in Request : NonceOfRefill(r) \/ NonceOfHandover(r)
  BY <1>2 DEF NonceOfRefill, NonceOfHandover, SignWith
<1>3. CASE \E r \in Request : CommitAccount(r) \/ CommitHandover(r) \/ CommitToken(r)
  BY <1>3 DEF CommitAccount, CommitHandover, CommitToken
<1>4. CASE \E r \in Request : Send(r) \/ Deploy(r)
  BY <1>4 DEF Send, Deploy
<1>5. CASE (\E f \in FaucetIndex : Mine(f)) \/ Crash \/ UNCHANGED vars
  BY <1>5 DEF Mine, Crash, vars
<1> QED
  BY <1>1, <1>2, <1>3, <1>4, <1>5 DEF Next, Step

LEMMA IndexStep ==
  ASSUME IInv, [Next]_vars
  PROVE  accountIndex' >= 1 /\ IndexesDense'
<1> USE DEF IInv, TypeOK, IndexesDense
<1>1. CASE UNCHANGED <<accountIndex, accounts>>
  BY <1>1
<1>2. ASSUME NEW r \in Request, CommitAccount(r)
      PROVE  accountIndex' >= 1 /\ IndexesDense'
  <2>1. req[r].index = accountIndex
    BY <1>2 DEF CommitAccount, LockInv
  <2>2. /\ accounts' = accounts \cup {[index |-> accountIndex, by |-> r]}
        /\ accountIndex' = accountIndex + 1
    BY <1>2, <2>1 DEF CommitAccount
  <2>3. \A a \in accounts : a.index \in 1 .. (accountIndex - 1)
    OBVIOUS
  <2>4. {a.index : a \in accounts'} = 1 .. (accountIndex' - 1)
    <3> DEFINE new == [index |-> accountIndex, by |-> r]
    <3>1. new.index = accountIndex /\ accounts' = accounts \cup {new}
      BY <2>2
    <3> HIDE DEF new, IInv, TypeOK, IndexesDense
    <3>2. {a.index : a \in accounts'} = {a.index : a \in accounts} \cup {new.index}
      <4>1. \A i : i \in {a.index : a \in accounts'} <=> \E a \in accounts \cup {new} : a.index = i
        BY ONLY <3>1
      <4> QED
        BY ONLY <4>1
    <3>3. {a.index : a \in accounts} = 1 .. (accountIndex - 1)
      BY DEF IInv, IndexesDense
    <3>4. accountIndex \in Nat /\ accountIndex >= 1
      BY DEF IInv, TypeOK
    <3> QED
      BY ONLY <2>2, <3>1, <3>2, <3>3, <3>4
  <2>5. \A a, b \in accounts' : a.index = b.index => a = b
    BY <2>2, <2>3
  <2> QED
    BY <2>2, <2>4, <2>5
<1> QED
  BY <1>1, <1>2, Frame

LEMMA NameStep ==
  ASSUME IInv, [Next]_vars
  PROVE  NamesOnce'
<1> USE DEF IInv, TypeOK, NamesOnce
<1>1. CASE UNCHANGED <<generated, tokens>>
  BY <1>1
<1>2. ASSUME NEW r \in Request, CommitToken(r) PROVE NamesOnce'
  <2> DEFINE new == Named(r)
  <2>1. req[r].name \cap generated = {}
    BY <1>2 DEF CommitToken, LockInv, At
  <2>2. generated' = generated \cup req[r].name /\ tokens' = tokens \cup new
    BY <1>2 DEF CommitToken
  <2>3. \A t \in new : t.name \in req[r].name /\ t = [name |-> t.name, by |-> r]
    BY DEF Named
  <2>4. ASSUME NEW n \in req[r].name PROVE \E t \in new : t.name = n
    <3>1. [name |-> n, by |-> r] \in new
      BY DEF Named
    <3>2. [name |-> n, by |-> r].name = n
      OBVIOUS
    <3> QED
      BY <3>1, <3>2
  <2>5. \A t \in tokens : t.name \in generated
    OBVIOUS
  <2> HIDE DEF new
  <2>6. \A s, t \in tokens' : s.name = t.name => s = t
    BY <2>1, <2>2, <2>3, <2>5
  <2>7. generated' = {t.name : t \in tokens'}
    BY <2>2, <2>3, <2>4
  <2> QED
    BY <2>6, <2>7
<1> QED
  BY <1>1, <1>2, Frame

(* A nonce is used by a faucet when some transaction of it carries it. *)
LEMMA UsedNonce ==
  ASSUME NEW f, NEW n
  PROVE  n \in NoncesOf(f) <=> \E s \in sent : s.from = f /\ s.nonce = n
BY DEF NoncesOf

LEMMA SentGrows ==
  ASSUME TypeOK, NEW r \in Request, Send(r)
  PROVE  /\ Sending(r) \in sent'
         /\ \A f, n : n \in NoncesOf(f)' <=>
              n \in NoncesOf(f) \/ (f = req[r].faucet /\ n = req[r].nonce)
<1>1. sent' = sent \cup {Sending(r)}
  BY DEF Send
<1>2. Sending(r).from = req[r].faucet /\ Sending(r).nonce = req[r].nonce
  BY DEF Sending
<1> QED
  BY <1>1, <1>2 DEF NoncesOf

(* Only the two nonce steps bring a request to its send. *)
LEMMA PositionFrame ==
  ASSUME TypeOK, [Next]_vars, NEW r \in Request, At(r, "send")',
         ~NonceOfRefill(r), ~NonceOfHandover(r)
  PROVE  At(r, "send") /\ req'[r] = req[r]
<1> USE DEF TypeOK, At, Goto
<1>2. ASSUME NEW q \in Request,
             Fail(q) \/ Refuse(q) \/ CommitAccount(q) \/ LockAction(q) \/ Send(q)
               \/ CommitRefill(q) \/ CommitHandover(q) \/ LockToken(q) \/ CommitToken(q)
               \/ Deploy(q)
      PROVE  At(r, "send") /\ req'[r] = req[r]
  <2>1. PICK pc \in Pc \ {"send"} : req' = [req EXCEPT ![q].pc = pc]
    BY <1>2 DEF Fail, Refuse, CommitAccount, LockAction, Send, CommitRefill, CommitHandover,
       LockToken, CommitToken, Deploy, Pc
  <2> QED
    BY <2>1 DEF RequestState
<1>3. ASSUME NEW q \in Request, Begin(q) PROVE At(r, "send") /\ req'[r] = req[r]
  BY <1>3 DEF Begin, RequestState
<1>4. ASSUME NEW q \in Request, LockIndex(q) \/ LockFaucet(q)
      PROVE  At(r, "send") /\ req'[r] = req[r]
  BY <1>4 DEF LockIndex, LockFaucet, RequestState
<1>5. ASSUME NEW q \in Request, PickName(q) PROVE At(r, "send") /\ req'[r] = req[r]
  BY <1>5 DEF PickName, RequestState
<1>6. ASSUME NEW q \in Request, NonceOfRefill(q) \/ NonceOfHandover(q)
      PROVE  At(r, "send") /\ req'[r] = req[r]
  <2>1. q # r
    BY <1>6
  <2> QED
    BY <1>6, <2>1 DEF NonceOfRefill, NonceOfHandover, SignWith
<1>7. CASE Crash
  BY <1>7 DEF Crash, Ended
<1>8. CASE UNCHANGED vars \/ \E f \in FaucetIndex : Mine(f)
  BY <1>8 DEF vars, Mine
<1> QED
  BY <1>2, <1>3, <1>4, <1>5, <1>6, <1>7, <1>8 DEF Next, Step

(* The requests that are about to send have read what the lock protects. *)
Ready(r) ==
  /\ 0 .. (req[r].nonce - 1) \subseteq NoncesOf(req[r].faucet)
  /\ ~IsHandover(r) => req[r].nonce \notin NoncesOf(req[r].faucet)

LEMMA ReadyStep ==
  ASSUME IInv, [Next]_vars, NEW r \in Request, At(r, "send")'
  PROVE  Ready(r)'
<1> USE DEF IInv, TypeOK
<1>1. CASE At(r, "send") /\ UNCHANGED <<req, sent>>
  BY <1>1 DEF NonceInv, Ready, At, IsHandover, NoncesOf
<1>2. CASE At(r, "send") /\ req'[r] = req[r] /\ UNCHANGED sent
  BY <1>2 DEF NonceInv, Ready, At, IsHandover, NoncesOf
<1>3. CASE NonceOfRefill(r)
  <2>1. PICK n \in Nat : IsPendingNonce(req[r].faucet, n) /\ SignWith(r, n)
    BY <1>3 DEF NonceOfRefill
  <2>2. /\ req'[r].nonce = n /\ req'[r].faucet = req[r].faucet /\ req'[r].kind = req[r].kind
        /\ UNCHANGED sent
    BY <2>1 DEF SignWith, RequestState
  <2>3. 0 .. (latest[req[r].faucet] - 1) \subseteq NoncesOf(req[r].faucet)
    BY DEF NonceInv, RequestState
  <2>4. 0 .. (n - 1) \subseteq NoncesOf(req[r].faucet) /\ n \notin NoncesOf(req[r].faucet)
    <3>1. latest[req[r].faucet] \in Nat
      BY DEF RequestState
    <3> QED
      BY <2>1, <2>3, <3>1 DEF IsPendingNonce
  <2> QED
    BY <2>2, <2>4 DEF Ready, NoncesOf
<1>4. CASE NonceOfHandover(r)
  <2>1. /\ req'[r].nonce = latest[req[r].faucet] /\ req'[r].faucet = req[r].faucet
        /\ req'[r].kind = "replaceFaucetAddress" /\ UNCHANGED sent
    BY <1>4 DEF NonceOfHandover, SignWith, IsHandover, RequestState
  <2>2. 0 .. (latest[req[r].faucet] - 1) \subseteq NoncesOf(req[r].faucet)
    BY DEF NonceInv, RequestState
  <2> QED
    BY <2>1, <2>2 DEF Ready, NoncesOf, IsHandover
<1>5. ASSUME NEW q \in Request, Send(q) PROVE Ready(r)'
  <2>1. At(q, "send") /\ req' = [req EXCEPT ![q].pc = "save"]
    BY <1>5 DEF Send, Goto
  <2>2. q # r
    BY <2>1 DEF At
  <2>3. At(r, "send")
    BY <2>1, <2>2 DEF At
  <2>4. q = r
    BY <2>1, <2>3 DEF LockInv, At
  <2> QED
    BY <2>2, <2>4
<1>6. CASE UNCHANGED sent /\ ~NonceOfRefill(r) /\ ~NonceOfHandover(r)
  <2>1. At(r, "send") /\ req'[r] = req[r]
    BY <1>6, PositionFrame
  <2> QED
    BY <1>2, <1>6, <2>1
<1> QED
  BY <1>3, <1>4, <1>5, <1>6, Frame

LEMMA NonceStep ==
  ASSUME IInv, [Next]_vars
  PROVE  NonceInv' /\ RefillNoncesDistinct'
<1> USE DEF IInv, TypeOK
<1>1. \A r \in Request : At(r, "send")' => Ready(r)'
  BY ReadyStep
<1>2. NoNonceGap' /\ RefillNoncesDistinct'
  <2>1. CASE UNCHANGED sent
    BY <2>1 DEF NonceInv, NoNonceGap, NoncesOf, RefillNoncesDistinct, Refills
  <2>2. ASSUME NEW r \in Request, Send(r) PROVE NoNonceGap' /\ RefillNoncesDistinct'
    <3>1. At(r, "send") /\ Ready(r)
      BY <2>2 DEF Send, NonceInv, Ready
    <3>2. NoNonceGap'
      <4> SUFFICES ASSUME NEW f \in FaucetIndex, NEW n \in NoncesOf(f)', NEW m \in 0 .. n
                   PROVE  m \in NoncesOf(f)'
        BY DEF NoNonceGap
      <4>1. CASE n \in NoncesOf(f)
        BY <2>2, <4>1, SentGrows DEF NonceInv, NoNonceGap
      <4>2. CASE f = req[r].faucet /\ n = req[r].nonce
        <5>1. n \in Nat
          BY <4>2 DEF RequestState
        <5>2. m = n \/ m \in 0 .. (n - 1)
          BY <5>1
        <5> QED
          BY <2>2, <3>1, <4>2, <5>2, SentGrows DEF Ready
      <4> QED
        BY <2>2, <4>1, <4>2, SentGrows
    <3>3. RefillNoncesDistinct'
      <4>1. sent' = sent \cup {Sending(r)}
        BY <2>2 DEF Send
      <4>2. Sending(r).kind = req[r].kind /\ Sending(r).from = req[r].faucet
            /\ Sending(r).nonce = req[r].nonce
        BY DEF Sending
      <4>3. ASSUME NEW s \in sent, s.from = req[r].faucet, s.nonce = req[r].nonce
            PROVE  IsHandover(r)
        BY <3>1, <4>3, UsedNonce DEF Ready
      <4> QED
        BY <4>1, <4>2, <4>3 DEF RefillNoncesDistinct, Refills, IsHandover
    <3> QED
      BY <3>2, <3>3
  <2> QED
    BY <2>1, <2>2, Frame
<1>3. \A f \in FaucetIndex : 0 .. (latest'[f] - 1) \subseteq NoncesOf(f)'
  <2>1. \A f \in FaucetIndex : NoncesOf(f) \subseteq NoncesOf(f)'
    <3>1. CASE UNCHANGED sent
      BY <3>1 DEF NoncesOf
    <3>2. ASSUME NEW r \in Request, Send(r)
          PROVE  \A f \in FaucetIndex : NoncesOf(f) \subseteq NoncesOf(f)'
      BY <3>2, SentGrows
    <3> QED
      BY <3>1, <3>2, Frame
  <2>2. CASE UNCHANGED latest
    BY <2>1, <2>2 DEF NonceInv
  <2>3. ASSUME NEW g \in FaucetIndex, Mine(g)
        PROVE  \A f \in FaucetIndex : 0 .. (latest'[f] - 1) \subseteq NoncesOf(f)'
    <3>1. latest[g] \in NoncesOf(g) /\ latest' = [latest EXCEPT ![g] = latest[g] + 1]
      BY <2>3 DEF Mine
    <3>2. 0 .. latest[g] \subseteq NoncesOf(g)
      BY <3>1 DEF NonceInv, NoNonceGap
    <3>3. (latest[g] + 1) - 1 = latest[g]
      OBVIOUS
    <3> QED
      BY <2>1, <3>1, <3>2, <3>3 DEF NonceInv
  <2> QED
    BY <2>2, <2>3, Frame
<1> QED
  BY <1>1, <1>2, <1>3 DEF NonceInv, Ready

(* Other steps take a request past its deployment nowhere but to failure.  *)
LEMMA RecordFrame ==
  ASSUME TypeOK, [Next]_vars, NEW r \in Request, ~Deploy(r), ~CommitToken(r)
  PROVE  \/ req'[r] = req[r]
         \/ /\ req[r].pc \notin Ended /\ req'[r].pc # "record"
            /\ req[r].pc = "record" => req'[r].pc = "failed"
<1> DEFINE G == \/ req'[r] = req[r]
                \/ /\ req[r].pc \notin Ended /\ req'[r].pc # "record"
                   /\ req[r].pc = "record" => req'[r].pc = "failed"
<1> USE DEF TypeOK, At, Goto, Ended
<1>1. ASSUME NEW q \in Request, Fail(q) \/ Refuse(q) PROVE G
  BY <1>1 DEF Fail, Refuse, RequestState
<1>2. ASSUME NEW q \in Request, CommitAccount(q) \/ LockAction(q) PROVE G
  BY <1>2 DEF CommitAccount, LockAction, RequestState
<1>3. ASSUME NEW q \in Request, Send(q) \/ CommitRefill(q) \/ CommitHandover(q) PROVE G
  BY <1>3 DEF Send, CommitRefill, CommitHandover, RequestState
<1>4. ASSUME NEW q \in Request, LockToken(q) PROVE G
  BY <1>4 DEF LockToken, RequestState
<1>5. ASSUME NEW q \in Request, Begin(q) PROVE G
  BY <1>5 DEF Begin, RequestState
<1>6. ASSUME NEW q \in Request, LockIndex(q) \/ LockFaucet(q) PROVE G
  BY <1>6 DEF LockIndex, LockFaucet, RequestState
<1>7. ASSUME NEW q \in Request, PickName(q) PROVE G
  BY <1>7 DEF PickName, RequestState
<1>8. ASSUME NEW q \in Request, NonceOfRefill(q) \/ NonceOfHandover(q) PROVE G
  BY <1>8 DEF NonceOfRefill, NonceOfHandover, SignWith, RequestState
<1>9. ASSUME NEW q \in Request, q # r, Deploy(q) \/ CommitToken(q) PROVE G
  BY <1>9 DEF Deploy, CommitToken
<1>10. CASE Crash
  BY <1>10 DEF Crash, RequestState
<1>11. CASE UNCHANGED vars \/ \E f \in FaucetIndex : Mine(f)
  BY <1>11 DEF vars, Mine
<1> QED
  BY <1>1, <1>2, <1>3, <1>4, <1>5, <1>6, <1>7, <1>8, <1>9, <1>10, <1>11 DEF Next, Step

(* A request that is past its deployment has its contract, and the request *)
(* of a contract is recording it, done, or failed.                         *)
LEMMA DeployStep ==
  ASSUME IInv, [Next]_vars
  PROVE  DeployInv'
<1> USE DEF IInv, TypeOK, DeployInv
<1>1. ASSUME NEW r \in Request, Deploy(r) PROVE DeployInv'
  <2>1. /\ At(r, "deploy") /\ deployed' = deployed \cup Named(r)
        /\ req' = [req EXCEPT ![r].pc = "record"] /\ UNCHANGED tokens
    BY <1>1 DEF Deploy, Goto, dbVars
  <2>2. \A d \in deployed : d.by \in Request /\ d.by # r
    BY <2>1 DEF At
  <2>3. \A q \in Request : q # r => req'[q] = req[q]
    BY <2>1
  <2>4. At(r, "record")' /\ req'[r].name = req[r].name
    BY <2>1 DEF At, RequestState
  <2>5. \A d \in Named(r) : d.by = r /\ d.name \in req[r].name
    BY DEF Named
  <2>6. \A q \in Request : Named(q)' = Named(q)
    BY <2>3, <2>4 DEF Named
  <2>7. \A d \in Named(r) : d \notin tokens
    BY <2>2, <2>5
  <2> HIDE DEF DeployInv
  <2>8. tokens' \subseteq deployed'
    BY <2>1 DEF DeployInv
  <2>9. \A q \in Request : At(q, "record")' => Named(q)' \subseteq deployed'
    <3>1. ASSUME NEW q \in Request, q # r, At(q, "record")' PROVE Named(q) \subseteq deployed
      BY <2>3, <3>1 DEF DeployInv, At
    <3> QED
      BY <2>1, <2>6, <3>1
  <2>10. ASSUME NEW d \in deployed'
         PROVE  \/ d \in tokens' /\ At(d.by, "done")'
                \/ d \notin tokens' /\ At(d.by, "record")' /\ d.name \in req'[d.by].name
                \/ d \notin tokens' /\ At(d.by, "failed")'
    <3>1. CASE d \in deployed
      BY <2>1, <2>2, <2>3, <3>1 DEF DeployInv, At
    <3>2. CASE d \in Named(r)
      BY <2>1, <2>4, <2>5, <2>7, <3>2
    <3> QED
      BY <2>1, <3>1, <3>2
  <2> QED
    BY <2>8, <2>9, <2>10 DEF DeployInv
<1>2. ASSUME NEW r \in Request, CommitToken(r) PROVE DeployInv'
  <2>1. /\ At(r, "record") /\ tokens' = tokens \cup Named(r)
        /\ req' = [req EXCEPT ![r].pc = "done"] /\ UNCHANGED deployed
    BY <1>2 DEF CommitToken, Goto
  <2>2. Named(r) \subseteq deployed
    BY <2>1
  <2>3. \A d \in deployed : d.by = r => d \in Named(r)
    BY <2>1 DEF Named, At
  <2>4. \A q \in Request : q # r => req'[q] = req[q]
    BY <2>1
  <2>5. req'[r].pc = "done" /\ \A d \in Named(r) : d.by = r
    BY <2>1 DEF RequestState, Named
  <2> HIDE DEF DeployInv
  <2>6. tokens' \subseteq deployed'
    BY <2>1, <2>2 DEF DeployInv
  <2>7. \A q \in Request : At(q, "record")' => Named(q)' \subseteq deployed'
    BY <2>1, <2>4, <2>5 DEF DeployInv, At, Named
  <2>8. ASSUME NEW d \in deployed'
         PROVE  \/ d \in tokens' /\ At(d.by, "done")'
                \/ d \notin tokens' /\ At(d.by, "record")' /\ d.name \in req'[d.by].name
                \/ d \notin tokens' /\ At(d.by, "failed")'
    <3>1. CASE d.by = r
      BY <2>1, <2>3, <2>5, <3>1 DEF At
    <3>2. CASE d.by # r
      <4>1. d.by \in Request /\ d \in deployed /\ d \notin Named(r)
        BY <2>1, <2>5, <3>2
      <4> QED
        BY <2>1, <2>4, <3>2, <4>1 DEF DeployInv, At
    <3> QED
      BY <3>1, <3>2
  <2> QED
    BY <2>6, <2>7, <2>8 DEF DeployInv
<1>3. CASE \A r \in Request : ~Deploy(r) /\ ~CommitToken(r)
  <2>1. UNCHANGED <<deployed, tokens>>
    BY <1>3, Frame
  <2>2. \A r \in Request :
          \/ req'[r] = req[r]
          \/ /\ req[r].pc \notin Ended /\ req'[r].pc # "record"
             /\ req[r].pc = "record" => req'[r].pc = "failed"
    BY <1>3, RecordFrame
  <2>3. \A d \in deployed : d.by \in Request
    OBVIOUS
  <2>4. \A d \in deployed : At(d.by, "done") => At(d.by, "done")'
    BY <2>2, <2>3 DEF At, Ended
  <2>5. \A d \in deployed : At(d.by, "failed") => At(d.by, "failed")'
    BY <2>2, <2>3 DEF At, Ended
  <2>6. \A d \in deployed :
          At(d.by, "record") => \/ At(d.by, "record")' /\ req'[d.by].name = req[d.by].name
                                \/ At(d.by, "failed")'
    BY <2>2, <2>3 DEF At
  <2>7. \A r \in Request : At(r, "record")' => At(r, "record") /\ Named(r)' = Named(r)
    BY <2>2 DEF At, Named
  <2> QED
    BY <2>1, <2>4, <2>5, <2>6, <2>7
<1> QED
  BY <1>1, <1>2, <1>3

(* Who takes a lock moves past it, and who moves back to before it, or to  *)
(* an end, releases it; one transaction is sent at a time.                 *)
LEMMA HolderStep ==
  ASSUME IInv, [Next]_vars
  PROVE  HolderInv'
<1> DEFINE H == /\ \A q \in Request :
                     /\ lock'["ACCOUNT_INDEX"] = q => At(q, "insert")'
                     /\ lock'["SendCotiFromFaucet"] = q =>
                          req'[q].pc \in {"faucet", "nonce", "send", "save"}
                     /\ lock'["FAUCET_ACCOUNT_INDEX"] = q => req'[q].pc \in {"nonce", "send", "save"}
                     /\ lock'["CREATE_TOKEN_LOCK"] = q => req'[q].pc \in {"name", "deploy", "record"}
<1>a. IsFiniteSet(sent')
  <2>1. CASE UNCHANGED sent
    BY <2>1 DEF IInv, HolderInv
  <2>2. ASSUME NEW r \in Request, Send(r) PROVE IsFiniteSet(sent')
    BY <2>2, FS_AddElement DEF IInv, HolderInv, Send
  <2> QED
    BY <2>1, <2>2, Frame
<1> USE NoOneAssumption DEF IInv, TypeOK, RequestState, HolderInv, dbVars, Goto, At, LockRow
<1>1. ASSUME NEW r \in Request, Begin(r) PROVE H
  BY <1>1 DEF Begin
<1>2. ASSUME NEW r \in Request, Fail(r) \/ Refuse(r) PROVE H
  BY <1>2 DEF Fail, Refuse, Unlock
<1>3. ASSUME NEW r \in Request, LockIndex(r) PROVE H
  BY <1>3 DEF LockIndex, Lock
<1>4. ASSUME NEW r \in Request, LockAction(r) PROVE H
  BY <1>4 DEF LockAction, Lock
<1>5. ASSUME NEW r \in Request, LockFaucet(r) PROVE H
  BY <1>5 DEF LockFaucet, Lock
<1>6. ASSUME NEW r \in Request, LockToken(r) PROVE H
  BY <1>6 DEF LockToken, Lock
<1>7. ASSUME NEW r \in Request, CommitAccount(r) \/ CommitRefill(r) \/ CommitHandover(r)
      PROVE  H
  BY <1>7 DEF CommitAccount, CommitRefill, CommitHandover, Unlock
<1>8. ASSUME NEW r \in Request, CommitToken(r) PROVE H
  BY <1>8 DEF CommitToken, Unlock
<1>9. ASSUME NEW r \in Request, NonceOfRefill(r) \/ NonceOfHandover(r) PROVE H
  BY <1>9 DEF NonceOfRefill, NonceOfHandover, SignWith
<1>10. ASSUME NEW r \in Request, Send(r) \/ Deploy(r) PROVE H
  BY <1>10 DEF Send, Deploy
<1>11. ASSUME NEW r \in Request, PickName(r) PROVE H
  BY <1>11 DEF PickName
<1>12. ASSUME Crash PROVE H
  BY <1>12 DEF Crash, Unlock
<1>13. ASSUME UNCHANGED vars \/ \E f \in FaucetIndex : Mine(f) PROVE H
  BY <1>13 DEF vars, Mine
<1> HIDE DEF HolderInv, H, IInv, TypeOK, RequestState, dbVars, Goto, At, LockRow
<1>14. H
  BY <1>1, <1>2, <1>3, <1>4, <1>5, <1>6, <1>7, <1>8, <1>9, <1>10, <1>11, <1>12, <1>13
  DEF Next, Step
<1> QED
  BY <1>a, <1>14 DEF H, HolderInv, At

(* Where a request is that has created its account. *)
Begun == {"action", "faucet", "nonce", "send", "save", "done", "failed"}

(* A step other than its commits and its send keeps a request with an      *)
(* account where such a request can be, and takes none to "save" or, with  *)
(* an account, to "done".                                                  *)
LEMMA RefillFrame ==
  ASSUME IInv, [Next]_vars, NEW r \in Request,
         ~Send(r), ~CommitAccount(r), ~CommitRefill(r)
  PROVE  /\ At(r, "save")' => At(r, "save") /\ req'[r] = req[r]
         /\ req'[r].pc \in {"index", "insert"} =>
              \/ req'[r].kind = "createAccount"
              \/ req'[r].kind = req[r].kind /\ req[r].pc \in {"index", "insert"}
         /\ req[r].kind = "createAccount" /\ req[r].pc \in Begun =>
              /\ req'[r].kind = "createAccount" /\ req'[r].pc \in Begun
              /\ At(r, "done")' => At(r, "done")
<1> USE DEF IInv, TypeOK, RequestState, At, Goto, Begun
<1>1. CASE req'[r] = req[r]
  BY <1>1
<1>2. CASE Fail(r) \/ Refuse(r) \/ Crash
  <2>1. req'[r] = req[r] \/ req'[r] = [req[r] EXCEPT !.pc = "failed"]
    BY <1>2 DEF Fail, Refuse, Crash
  <2> QED
    BY <1>1, <2>1
<1>3. CASE Begin(r)
  BY <1>3 DEF Begin
<1>4. CASE LockIndex(r)
  BY <1>4 DEF LockIndex
<1>5. CASE LockToken(r) \/ PickName(r) \/ Deploy(r) \/ CommitToken(r)
  <2>1. req[r].pc \notin Begun /\ req'[r].pc \in {"name", "deploy", "record", "done"}
    BY <1>5 DEF LockToken, PickName, Deploy, CommitToken
  <2> QED
    BY <2>1
<1>6. CASE LockAction(r) \/ LockFaucet(r) \/ NonceOfRefill(r) \/ NonceOfHandover(r)
  <2>1. req'[r].kind = req[r].kind /\ req'[r].pc \in {"faucet", "nonce", "send"}
    BY <1>6 DEF LockAction, LockFaucet, NonceOfRefill, NonceOfHandover, SignWith
  <2> QED
    BY <2>1
<1>7. CASE CommitHandover(r)
  <2>1. req[r].kind = "replaceFaucetAddress" /\ req'[r].pc = "done"
    BY <1>7 DEF CommitHandover, IsHandover
  <2> QED
    BY <2>1
<1>8. ASSUME NEW q \in Request, q # r, Begin(q) \/ Step(q) \/ Fail(q) \/ Refuse(q)
      PROVE  req'[r] = req[r]
  <2> USE <1>8
  <2>1. CASE Begin(q) \/ Fail(q) \/ Refuse(q)
    BY <2>1 DEF Begin, Fail, Refuse
  <2>2. CASE LockIndex(q) \/ CommitAccount(q) \/ LockAction(q) \/ LockFaucet(q) \/ LockToken(q)
    BY <2>2 DEF LockIndex, CommitAccount, LockAction, LockFaucet, LockToken
  <2>3. CASE NonceOfRefill(q) \/ NonceOfHandover(q)
    BY <2>3 DEF NonceOfRefill, NonceOfHandover, SignWith
  <2>4. CASE \/ Send(q) \/ CommitRefill(q) \/ CommitHandover(q)
             \/ PickName(q) \/ Deploy(q) \/ CommitToken(q)
    BY <2>4 DEF Send, CommitRefill, CommitHandover, PickName, Deploy, CommitToken
  <2> QED
    BY <2>1, <2>2, <2>3, <2>4 DEF Step
<1>9. CASE UNCHANGED vars \/ \E f \in FaucetIndex : Mine(f)
  BY <1>9 DEF vars, Mine
<1> HIDE DEF IInv, TypeOK, RequestState, At, Goto, Begun
<1> QED
  BY <1>1, <1>2, <1>3, <1>4, <1>5, <1>6, <1>7, <1>8, <1>9 DEF Next, Step

(* The steps that matter to an account and its refill: the first commit,   *)
(* the send, and the second commit.                                        *)
LEMMA RefillStep ==
  ASSUME IInv, [Next]_vars
  PROVE  RefillInv'
<1> DEFINE Good(a) == /\ req[a.by].kind = "createAccount"
                      /\ req[a.by].pc \in Begun
                      /\ At(a.by, "done") => \E s \in sent : s.by = a.by
       Early(r) == req[r].pc \in {"index", "insert"} => req[r].kind = "createAccount"
<1>a. RefillInv <=> /\ \A a \in accounts : Good(a)
                    /\ \A r \in Request : Early(r)
                    /\ \A r \in Request : At(r, "save") => Sending(r) \in sent
  BY DEF RefillInv, RefilledUnlessFailed, Begun
<1>b. RefillInv' <=> /\ \A a \in accounts' : Good(a)'
                     /\ \A r \in Request : Early(r)'
                     /\ \A r \in Request : At(r, "save")' => Sending(r)' \in sent'
  BY DEF RefillInv, RefilledUnlessFailed, Begun
<1>c. sent \subseteq sent'
  BY Frame DEF Send
<1>d. \A a \in accounts : a.by \in Request
  BY DEF IInv, TypeOK
<1>e. \A r \in Request : Sending(r).by = r
  BY DEF Sending
<1>1. ASSUME NEW r \in Request, At(r, "save")' PROVE Sending(r)' \in sent'
  <2>1. CASE Send(r)
    <3>1. req' = [req EXCEPT ![r].pc = "save"] /\ Sending(r) \in sent'
      BY <2>1 DEF Send, Goto
    <3>2. Sending(r)' = Sending(r)
      BY <3>1 DEF Sending, IInv, TypeOK, RequestState
    <3> QED
      BY <3>1, <3>2
  <2>2. ~CommitAccount(r) /\ ~CommitRefill(r)
    BY <1>1 DEF CommitAccount, CommitRefill, Goto, At, IInv, TypeOK, RequestState
  <2>3. CASE ~Send(r)
    <3>1. At(r, "save") /\ req'[r] = req[r]
      BY <1>1, <2>2, <2>3, RefillFrame
    <3>2. Sending(r)' = Sending(r)
      BY <3>1 DEF Sending
    <3> QED
      BY <1>a, <1>c, <3>1, <3>2 DEF IInv
  <2> QED
    BY <2>1, <2>3
<1>2. ASSUME NEW a \in accounts PROVE Good(a)'
  <2> DEFINE r == a.by
  <2>1. r \in Request /\ Good(a)
    BY <1>a, <1>d DEF IInv
  <2>2. CASE Send(r)
    <3>1. req' = [req EXCEPT ![r].pc = "save"]
      BY <2>2 DEF Send, Goto
    <3> QED
      BY <2>1, <3>1 DEF At, Begun, IInv, TypeOK, RequestState
  <2>3. CASE CommitRefill(r)
    <3>1. req' = [req EXCEPT ![r].pc = "done"] /\ Sending(r) \in sent
      BY <1>a, <2>1, <2>3 DEF CommitRefill, Goto, IInv
    <3> QED
      BY <1>c, <1>e, <2>1, <3>1 DEF At, Begun, IInv, TypeOK, RequestState
  <2>4. ~CommitAccount(r)
    BY <2>1 DEF CommitAccount, At, Begun
  <2>5. CASE ~Send(r) /\ ~CommitRefill(r)
    BY <1>c, <2>1, <2>4, <2>5, RefillFrame
  <2> QED
    BY <2>2, <2>3, <2>5
<1>3. ASSUME NEW r \in Request, CommitAccount(r) PROVE \A a \in accounts' : Good(a)'
  <2>1. /\ At(r, "insert") /\ req' = [req EXCEPT ![r].pc = "action"]
        /\ accounts' = accounts \cup {[index |-> req[r].index, by |-> r]}
    BY <1>3 DEF CommitAccount, Goto
  <2>2. req[r].kind = "createAccount"
    BY <1>a, <2>1 DEF IInv, At
  <2>3. Good([index |-> req[r].index, by |-> r])'
    BY <2>1, <2>2 DEF At, Begun, IInv, TypeOK, RequestState
  <2> QED
    BY <1>2, <2>1, <2>3
<1>4. \A a \in accounts' : Good(a)'
  BY <1>2, <1>3, Frame
<1>5. ASSUME NEW r \in Request PROVE Early(r)'
  <2>1. Early(r)
    BY <1>a DEF IInv
  <2>2. CASE Send(r) \/ CommitAccount(r) \/ CommitRefill(r)
    <3>1. req'[r].pc \in {"save", "action", "done"}
      BY <2>2 DEF Send, CommitAccount, CommitRefill, Goto, IInv, TypeOK, RequestState
    <3> QED
      BY <3>1
  <2>3. CASE ~Send(r) /\ ~CommitAccount(r) /\ ~CommitRefill(r)
    BY <2>1, <2>3, RefillFrame DEF At
  <2> QED
    BY <2>2, <2>3
<1> QED
  BY <1>b, <1>1, <1>4, <1>5

LEMMA StepInv == IInv /\ [Next]_vars => IInv'
BY RefillStep, TypeStep, LockStep, HolderStep, IndexStep, NameStep, DeployStep, NonceStep DEF IInv

(* The invariant the theorems below rest on. *)
THEOREM Invariance == Spec => []IInv
BY InitInv, StepInv, PTL DEF Spec

(* Every account index is given out once, and none is left out. *)
THEOREM AccountsNumbered == Spec => []IndexesDense
<1>1. IInv => IndexesDense
  BY DEF IInv
<1> QED
  BY <1>1, Invariance, PTL

(* Only a request that failed leaves the account it created without its    *)
(* first refill.                                                           *)
THEOREM RefilledOrFailed == Spec => []RefilledUnlessFailed
<1>1. IInv => RefilledUnlessFailed
  BY DEF IInv, RefillInv
<1> QED
  BY <1>1, Invariance, PTL

(* Every generated name names one token. *)
THEOREM NamesUsedOnce == Spec => []NamesOnce
<1>1. IInv => NamesOnce
  BY DEF IInv
<1> QED
  BY <1>1, Invariance, PTL

(* No two refills share a nonce. *)
THEOREM RefillsApart == Spec => []RefillNoncesDistinct
<1>1. IInv => RefillNoncesDistinct
  BY DEF IInv
<1> QED
  BY <1>1, Invariance, PTL

(* The faucet leaves out no nonce. *)
THEOREM NoncesDense == Spec => []NoNonceGap
<1>1. IInv => NoNonceGap
  BY DEF IInv, NonceInv
<1> QED
  BY <1>1, Invariance, PTL

(* Nothing is signed for a faucet already replaced. *)
THEOREM FaucetUpToDate == Spec => []NoRefillFromOldFaucet
<1>1. IInv => NoRefillFromOldFaucet
  BY DEF IInv, LockInv, NoRefillFromOldFaucet, At
<1> QED
  BY <1>1, Invariance, PTL

(* The requests' records, counters and locks keep their types: no request  *)
(* leads to a state the code has no name for.                              *)
THEOREM TypeCorrect == Spec => []TypeOK
<1>1. IInv => TypeOK
  BY DEF IInv
<1> QED
  BY <1>1, Invariance, PTL

(* A name has a second contract only after a request failed, and a token   *)
(* in the table has its contract.                                          *)
THEOREM ContractsOnce == Spec => []DeployedOnce
<1>1. IInv => DeployedOnce
  <2> SUFFICES ASSUME IInv,
                      NEW d \in deployed, NEW e \in deployed, d.name = e.name, d # e,
                      ~At(d.by, "failed"), ~At(e.by, "failed")
               PROVE  FALSE
    BY DEF IInv, DeployInv, DeployedOnce
  <2>1. d.by \in Request /\ e.by \in Request /\ d.by # e.by
    BY DEF IInv, TypeOK
  <2>2. ASSUME NEW x \in deployed, NEW y \in deployed, x \in tokens, y \notin tokens,
               x.name = y.name, ~At(y.by, "failed")
        PROVE  FALSE
    <3>1. At(y.by, "record") /\ y.name \in req[y.by].name /\ y.by \in Request
      BY <2>2 DEF IInv, TypeOK, DeployInv
    <3>2. x.name \in generated
      BY <2>2 DEF IInv, NamesOnce
    <3> QED
      BY <2>2, <3>1, <3>2 DEF IInv, LockInv, At
  <2>3. d \notin tokens \/ e \notin tokens
    BY DEF IInv, NamesOnce
  <2>4. d \notin tokens /\ e \notin tokens
    BY <2>2, <2>3
  <2>5. At(d.by, "record") /\ At(e.by, "record")
    BY <2>4 DEF IInv, DeployInv
  <2>6. lock["CREATE_TOKEN_LOCK"] = d.by /\ lock["CREATE_TOKEN_LOCK"] = e.by
    BY <2>1, <2>5 DEF IInv, LockInv, At
  <2> QED
    BY <2>1, <2>6
<1> QED
  BY <1>1, Invariance, PTL

(* The interleaved requests implement the counters: a request changes them *)
(* in the one step in which it commits, and as if it had run alone.        *)
THEOREM CountersImplemented == Spec => CountersSpec
<1>1. Init => Counters!Init
  BY DEF Init, Counters!Init
<1>2. IInv /\ [Next]_vars => [Counters!Next]_(Counters!vars)
  <2> SUFFICES ASSUME IInv, [Next]_vars PROVE Counters!Next \/ UNCHANGED Counters!vars
    BY DEF Counters!vars
  <2>1. ASSUME NEW r \in Request, CommitAccount(r) PROVE Counters!CreateAccount(r)
    <3>1. req[r].index = accountIndex
      BY <2>1 DEF CommitAccount, IInv, LockInv
    <3> QED
      BY <2>1, <3>1 DEF CommitAccount, Counters!CreateAccount
  <2>2. ASSUME NEW r \in Request, CommitHandover(r) PROVE Counters!ReplaceFaucet
    <3>1. req[r].faucet = faucetIndex
      BY <2>2 DEF CommitHandover, IInv, LockInv, At
    <3> QED
      BY <2>2, <3>1 DEF CommitHandover, Counters!ReplaceFaucet
  <2>3. ASSUME NEW r \in Request, CommitToken(r)
        PROVE  UNCHANGED Counters!vars \/ \E n \in Name : Counters!CreateToken(r, n)
    <3>1. /\ req[r].name \in SUBSET Name /\ req[r].name \cap generated = {}
          /\ \A m, n \in req[r].name : m = n
      BY <2>3 DEF CommitToken, IInv, LockInv, TypeOK, RequestState, At
    <3>2. CASE req[r].name = {}
      <4>1. Named(r) = {}
        BY <3>2 DEF Named
      <4> QED
        BY <2>3, <3>2, <4>1 DEF CommitToken, Counters!vars
    <3>3. ASSUME NEW n \in req[r].name PROVE Counters!CreateToken(r, n)
      <4>1. req[r].name = {n}
        BY <3>1
      <4>2. Named(r) = {[name |-> n, by |-> r]}
        BY <4>1 DEF Named
      <4> QED
        BY <2>3, <3>1, <4>1, <4>2 DEF CommitToken, Counters!CreateToken
    <3> QED
      BY <3>1, <3>2, <3>3
  <2>4. CASE \A r \in Request : ~CommitAccount(r) /\ ~CommitHandover(r) /\ ~CommitToken(r)
    BY <2>4, Frame DEF Counters!vars
  <2> QED
    BY <2>1, <2>2, <2>3, <2>4 DEF Counters!Next
<1> QED
  BY <1>1, <1>2, Invariance, PTL DEF Spec, CountersSpec, Counters!Spec

(* Who holds a row that another waits for waits for none, unless it is a   *)
(* refill that waits for the faucet, whose holder waits for none.          *)
LEMMA HolderBusy ==
  ASSUME HolderInv, NEW r \in Request, NEW q \in Request, HeldUpBy(r, q)
  PROVE  \/ \A p \in Request : ~HeldUpBy(q, p)
         \/ /\ At(q, "faucet")
            /\ \A p \in Request : HeldUpBy(q, p) => \A o \in Request : ~HeldUpBy(p, o)
<1> USE DEF HeldUpBy, WaitsFor, LockRow, At
<1>1. req[q].pc \in {"insert", "faucet", "nonce", "send", "save", "name", "deploy", "record"}
  BY DEF HolderInv
<1>2. CASE req[q].pc # "faucet"
  BY <1>1, <1>2
<1>3. CASE req[q].pc = "faucet"
  <2>1. ASSUME NEW p \in Request, HeldUpBy(q, p) PROVE req[p].pc \in {"nonce", "send", "save"}
    BY <1>3, <2>1 DEF HolderInv
  <2> QED
    BY <1>3, <2>1
<1> QED
  BY <1>2, <1>3

(* No circle of requests waits for each other's rows. *)
THEOREM NoDeadlock == Spec => []NoCircularWait
<1>1. IInv => NoCircularWait
  <2> SUFFICES ASSUME IInv, NEW R \in (SUBSET Request) \ {{}},
                      \A r \in R : \E q \in R : HeldUpBy(r, q)
               PROVE  FALSE
    BY DEF NoCircularWait, Waiting
  <2>1. PICK r \in R : TRUE
    OBVIOUS
  <2>2. PICK q \in R : HeldUpBy(r, q)
    OBVIOUS
  <2>3. PICK p \in R : HeldUpBy(q, p)
    OBVIOUS
  <2>4. PICK o \in R : HeldUpBy(p, o)
    OBVIOUS
  <2> QED
    BY <2>2, <2>3, <2>4, HolderBusy DEF IInv
<1> QED
  BY <1>1, Invariance, PTL

(* Some numbers up to a bound have a least one: the intervals up to its    *)
(* members have a smallest, by inclusion.                                  *)
LEMMA LeastOf ==
  ASSUME NEW N \in Nat, NEW S, S \subseteq 0 .. N, S # {}
  PROVE  \E n \in S : \A m \in S : n <= m
<1> DEFINE U == 0 .. N
           T == {0 .. x : x \in S}
           R == StrictSubsetOrdering(U)
<1>1. IsWellFoundedOn(R, FiniteSubsetsOf(U))
  BY FS_StrictSubsetOrderingWellFounded
<1>2. FiniteSubsetsOf(U) = SUBSET U
  <2>1. IsFiniteSet(U)
    BY FS_Interval
  <2> QED
    BY <2>1, FS_FiniteSubsetsOfFinite
<1>3. T \subseteq FiniteSubsetsOf(U) /\ T # {}
  <2>1. ASSUME NEW x \in S PROVE (0 .. x) \in SUBSET U
    OBVIOUS
  <2> HIDE DEF U
  <2>2. T \subseteq SUBSET U /\ T # {}
    BY <2>1
  <2> QED
    BY <1>2, <2>2
<1> HIDE DEF T, R
<1>4. PICK I \in T : \A J \in T : ~(<<J, I>> \in R)
  BY <1>1, <1>3, WFMin
<1>5. PICK n \in S : I = 0 .. n
  BY DEF T
<1>6. ASSUME NEW m \in S PROVE n <= m
  <2> SUFFICES ASSUME m < n PROVE FALSE
    OBVIOUS
  <2>1. 0 .. m \in T
    BY DEF T
  <2>2. (0 .. m) \in SUBSET U /\ I \in SUBSET U
    BY <1>5
  <2>3. (0 .. m) \subseteq I /\ n \in I /\ n \notin 0 .. m
    BY <1>5
  <2>4. <<0 .. m, I>> \in R
    BY <2>2, <2>3 DEF R, StrictSubsetOrdering
  <2> QED
    BY <1>4, <2>1, <2>4
<1> QED
  BY <1>6

(* The nonces of finitely many transactions are no more than these. *)
LEMMA NoncesFew ==
  ASSUME IInv, NEW f
  PROVE  /\ IsFiniteSet(NoncesOf(f))
         /\ Cardinality(NoncesOf(f)) \in Nat
         /\ Cardinality(NoncesOf(f)) <= Cardinality(sent)
<1> DEFINE S == {s \in sent : s.from = f}
           g == [s \in S |-> s.nonce]
<1>1. IsFiniteSet(S) /\ Cardinality(S) <= Cardinality(sent)
  BY FS_Subset DEF IInv, HolderInv
<1>2. g \in Surjection(S, NoncesOf(f))
  BY DEF NoncesOf, Surjection
<1> HIDE DEF S, g
<1>3. IsFiniteSet(NoncesOf(f)) /\ Cardinality(NoncesOf(f)) <= Cardinality(S)
  BY <1>1, <1>2, FS_Surjection
<1>4. /\ Cardinality(S) \in Nat /\ Cardinality(sent) \in Nat
      /\ Cardinality(NoncesOf(f)) \in Nat
  BY <1>1, <1>3, FS_CardinalityType DEF IInv, HolderInv
<1> QED
  BY <1>1, <1>3, <1>4

(* A refill always finds a nonce among the first so many. *)
THEOREM NonceFound == Spec => []NonceAvailable
<1>1. IInv => NonceAvailable
  <2> SUFFICES ASSUME IInv, NEW f \in FaucetIndex
               PROVE  \E n \in 0 .. Cardinality(sent) : IsPendingNonce(f, n)
    BY DEF NonceAvailable
  <2> DEFINE k == Cardinality(sent)
             Free == (0 .. k) \ NoncesOf(f)
  <2>1. k \in Nat
    BY FS_CardinalityType DEF IInv, HolderInv
  <2>2. Free # {}
    <3>1. SUFFICES ASSUME 0 .. k \subseteq NoncesOf(f) PROVE FALSE
      OBVIOUS
    <3>2. Cardinality(0 .. k) = k + 1
      BY <2>1, FS_Interval
    <3>3. Cardinality(0 .. k) <= Cardinality(NoncesOf(f))
      BY <3>1, NoncesFew, FS_Subset
    <3> QED
      BY <2>1, <3>2, <3>3, NoncesFew
  <2>3. PICK n \in Free : \A m \in Free : n <= m
    <3> HIDE DEF k
    <3>1. Free \subseteq 0 .. k
      OBVIOUS
    <3> HIDE DEF Free
    <3> QED
      BY <2>1, <2>2, <3>1, LeastOf
  <2>4. latest[f] \in Nat /\ 0 .. (latest[f] - 1) \subseteq NoncesOf(f)
    BY DEF IInv, TypeOK, NonceInv
  <2>5. n \in 0 .. k /\ n \notin NoncesOf(f) /\ n \in Nat
    BY <2>1
  <2>6. n >= latest[f]
    BY <2>4, <2>5
  <2>7. ASSUME NEW m \in latest[f] .. (n - 1) PROVE m \in NoncesOf(f)
    <3> HIDE DEF k
    <3>1. m \in 0 .. k /\ m < n
      BY <2>1, <2>4, <2>5
    <3> QED
      BY <2>3, <2>5, <3>1
  <2> QED
    BY <2>5, <2>6, <2>7 DEF IsPendingNonce
<1> QED
  BY <1>1, Invariance, PTL

(* A step leaves a request where it is or brings it closer to its end. *)
LEMMA Advance ==
  ASSUME TypeOK, [Next]_vars
  PROVE  \A r \in Request : At(r, req'[r].pc) \/ StepsLeft(r)' < StepsLeft(r)
<1> DEFINE G == \A r \in Request : At(r, req'[r].pc) \/ StepsLeft(r)' < StepsLeft(r)
<1> USE DEF TypeOK, RequestState, StepsLeft, At, Goto, Ended
<1>1. ASSUME NEW q \in Request, Begin(q) PROVE G
  BY <1>1 DEF Begin
<1>2. ASSUME NEW q \in Request, Fail(q) \/ Refuse(q) PROVE G
  BY <1>2 DEF Fail, Refuse, Pc
<1>3. ASSUME NEW q \in Request, LockIndex(q) \/ LockAction(q) \/ LockFaucet(q) \/ LockToken(q)
      PROVE  G
  BY <1>3 DEF LockIndex, LockAction, LockFaucet, LockToken
<1>4. ASSUME NEW q \in Request, CommitAccount(q) \/ CommitRefill(q) \/ CommitHandover(q)
                                  \/ CommitToken(q)
      PROVE  G
  BY <1>4 DEF CommitAccount, CommitRefill, CommitHandover, CommitToken
<1>5. ASSUME NEW q \in Request, NonceOfRefill(q) \/ NonceOfHandover(q) PROVE G
  BY <1>5 DEF NonceOfRefill, NonceOfHandover, SignWith
<1>6. ASSUME NEW q \in Request, Send(q) \/ Deploy(q) PROVE G
  BY <1>6 DEF Send, Deploy
<1>7. ASSUME NEW q \in Request, PickName(q) PROVE G
  BY <1>7 DEF PickName
<1>8. CASE Crash
  BY <1>8 DEF Crash, Pc
<1>9. CASE UNCHANGED vars \/ \E f \in FaucetIndex : Mine(f)
  BY <1>9 DEF vars, Mine
<1> HIDE DEF TypeOK, RequestState, StepsLeft, At, Goto, Ended
<1> QED
  BY <1>1, <1>2, <1>3, <1>4, <1>5, <1>6, <1>7, <1>8, <1>9 DEF Next, Step

(* No request goes back: what it has locked, read or sent it does once.    *)
THEOREM RequestsGoOn == Spec => RequestsAdvance
<1>1. IInv /\ [Next]_vars => [\A r \in Request : At(r, req'[r].pc) \/ StepsLeft(r)' < StepsLeft(r)]_vars
  BY Advance DEF IInv
<1> QED
  BY <1>1, Invariance, PTL DEF Spec, RequestsAdvance
=============================================================================
