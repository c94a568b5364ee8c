-------------------------- MODULE OnboardingProofs --------------------------
(* What TLAPS proves about Onboarding, for any accounts, any number of     *)
(* calls and any pool.                                                     *)
EXTENDS Onboarding, TLAPS

(* The inductive invariant holds when the process starts. *)
LEMMA InitInv == Init => IInv
<1> SUFFICES ASSUME Init PROVE IInv
  OBVIOUS
<1>1. NoCall \in RequestState
  BY AccountAssumption DEF NoCall, RequestState, RequestPc, Caller
<1>2. TypeOK
  BY <1>1 DEF Init, TypeOK, HandlerPc
<1>3. \A r \in Request : ~Active(r)
  BY DEF Init, NoCall, Active
<1> QED
  BY <1>2, <1>3 DEF Init, IInv, KeysAreEarned, CallInv, RoundInv, CronOnboardsApart,
    CronRequest, Active

(* Every step keeps the types. *)
LEMMA TypeStep == TypeOK /\ [Next]_vars => TypeOK'
<1> SUFFICES ASSUME TypeOK, [Next]_vars PROVE TypeOK'
  OBVIOUS
<1>0. NoCall \in RequestState
  BY AccountAssumption DEF NoCall, RequestState, RequestPc, Caller
<1> USE DEF TypeOK, dbVars, handlerVars
<1>1. ASSUME NEW T \in Task, NEW H \in SUBSET T, StartRound(T, H) PROVE TypeOK'
  BY <1>1 DEF StartRound, HandlerPc
<1>2. ASSUME NEW h \in Handler, NEW S \in SUBSET Account, Load(h, S) PROVE TypeOK'
  BY <1>2 DEF Load, HandlerPc
<1>3. ASSUME NEW h \in Handler, NEW S \in SUBSET Account, Save(h, S) PROVE TypeOK'
  BY <1>3 DEF Save, HandlerPc
<1>4. ASSUME NEW h \in Handler, Leave(h) \/ Settle(h) PROVE TypeOK'
  BY <1>4 DEF Leave, Settle, HandlerPc
<1>5. ASSUME NEW r \in Request, NEW a \in Account, NEW by \in Caller, Begin(r, a, by)
      PROVE TypeOK'
  BY <1>5 DEF Begin, RequestState, RequestPc
<1>6. ASSUME NEW r \in Request, Step(r) \/ Fail(r) PROVE TypeOK'
  <2>1. req' \in [Request -> RequestState]
    BY <1>0, <1>6 DEF Step, Onboard, SaveKey, Record, Fail, Goto, End, RequestState, RequestPc
  <2>2. req[r].account \in Account
    BY DEF RequestState
  <2> QED
    BY <1>6, <2>1, <2>2 DEF Step, Onboard, SaveKey, Record, Fail
<1>7. ASSUME Crash PROVE TypeOK'
  BY <1>0, <1>7 DEF Crash, HandlerPc
<1>8. ASSUME BecomeCalm \/ UNCHANGED vars PROVE TypeOK'
  BY <1>8 DEF BecomeCalm, vars
<1> QED
  BY <1>1, <1>2, <1>3, <1>4, <1>5, <1>6, <1>7, <1>8 DEF Next, Cron

(* Keys, and calls that have one, stay backed by the chain: the chain      *)
(* forgets no onboarding, and rows are copies of rows.                     *)
LEMMA KeyStep == TypeOK /\ KeysAreEarned /\ CallInv /\ [Next]_vars => KeysAreEarned' /\ CallInv'
<1> SUFFICES ASSUME TypeOK, KeysAreEarned, CallInv, [Next]_vars
             PROVE KeysAreEarned' /\ CallInv'
  OBVIOUS
<1> USE DEF TypeOK, KeysAreEarned, CallInv, dbVars, handlerVars
<1>0. NoCall.pc = "none"
  BY DEF NoCall
<1>1. ASSUME NEW T \in Task, NEW H \in SUBSET T, StartRound(T, H)
      PROVE KeysAreEarned' /\ CallInv'
  BY <1>1 DEF StartRound
<1>2. ASSUME NEW h \in Handler, NEW S \in SUBSET Account, Load(h, S)
      PROVE KeysAreEarned' /\ CallInv'
  BY <1>2 DEF Load
<1>3. ASSUME NEW h \in Handler, NEW S \in SUBSET Account, Save(h, S)
      PROVE KeysAreEarned' /\ CallInv'
  BY <1>3 DEF Save
<1>4. ASSUME NEW h \in Handler, Leave(h) \/ Settle(h) PROVE KeysAreEarned' /\ CallInv'
  BY <1>4 DEF Leave, Settle
<1>5. ASSUME NEW r \in Request, NEW a \in Account, NEW by \in Caller, Begin(r, a, by)
      PROVE KeysAreEarned' /\ CallInv'
  BY <1>5 DEF Begin
<1>6. ASSUME NEW r \in Request, Onboard(r) PROVE KeysAreEarned' /\ CallInv'
  BY <1>6 DEF Onboard, Goto, RequestState
<1>7. ASSUME NEW r \in Request, SaveKey(r) PROVE KeysAreEarned' /\ CallInv'
  BY <1>7 DEF SaveKey, Goto, RequestState
<1>8. ASSUME NEW r \in Request, Record(r) \/ Fail(r) PROVE KeysAreEarned' /\ CallInv'
  BY <1>0, <1>8 DEF Record, Fail, End
<1>9. ASSUME Crash PROVE KeysAreEarned' /\ CallInv'
  BY <1>0, <1>9 DEF Crash
<1>10. ASSUME BecomeCalm \/ UNCHANGED vars PROVE KeysAreEarned' /\ CallInv'
  BY <1>10 DEF BecomeCalm, vars
<1> QED
  BY <1>1, <1>2, <1>3, <1>4, <1>5, <1>6, <1>7, <1>8, <1>9, <1>10 DEF Next, Cron, Step

(* The task's calls belong to the one round that waits for them. *)
LEMMA RoundStep ==
  TypeOK /\ RoundInv /\ CronOnboardsApart /\ [Next]_vars => RoundInv' /\ CronOnboardsApart'
<1> SUFFICES ASSUME TypeOK, RoundInv, CronOnboardsApart, [Next]_vars
             PROVE RoundInv' /\ CronOnboardsApart'
  OBVIOUS
<1> DEFINE onboarder == "handleOnboardAccount"
<1> USE DEF TypeOK, RoundInv, CronOnboardsApart, CronRequest, Active, dbVars, handlerVars
<1>0. NoCall.pc = "none"
  BY DEF NoCall
<1>1. ASSUME NEW T \in Task, NEW H \in SUBSET T, StartRound(T, H)
      PROVE RoundInv' /\ CronOnboardsApart'
  <2>1. onboarder \in H => hpc[onboarder] = "idle"
    BY <1>1 DEF StartRound
  <2> QED
    BY <1>1, <2>1 DEF StartRound, Handler, RunActivities
<1>2. ASSUME NEW h \in Handler, NEW S \in SUBSET Account, Load(h, S)
      PROVE RoundInv' /\ CronOnboardsApart'
  BY <1>2 DEF Load, Handler, RunActivities
<1>3. ASSUME NEW h \in Handler, NEW S \in SUBSET Account, Save(h, S)
      PROVE RoundInv' /\ CronOnboardsApart'
  <2>1. CASE h = onboarder
    <3>1. todo = {} /\ \A r \in Request : ~CronRequest(r)
      BY <1>3, <2>1 DEF Save
    <3> QED
      BY <1>3, <2>1, <3>1 DEF Save, Handler, RunActivities
  <2>2. CASE h # onboarder
    BY <1>3, <2>2 DEF Save
  <2> QED
    BY <2>1, <2>2
<1>4. ASSUME NEW h \in Handler, Leave(h) \/ Settle(h) PROVE RoundInv' /\ CronOnboardsApart'
  <2>1. h = onboarder => todo = {} /\ \A r \in Request : ~CronRequest(r)
    BY <1>4 DEF Leave, Settle
  <2>2. todo' = todo /\ req' = req /\ \A g \in Handler \ {h} : hpc'[g] = hpc[g]
    BY <1>4 DEF Leave, Settle
  <2> QED
    BY <2>1, <2>2 DEF Handler, RunActivities
<1>5. ASSUME NEW r \in Request, NEW a \in Account, NEW by \in Caller, Begin(r, a, by)
      PROVE RoundInv' /\ CronOnboardsApart'
  <2>1. CASE by = "cron"
    <3>1. hpc[onboarder] = "settling" /\ hpc' = hpc /\ todo' = todo \ {a} /\ a \in todo
      BY <1>5, <2>1 DEF Begin
    <3>2. \A s \in Request : CronRequest(s) => req[s].account # a
      BY <3>1
    <3>3. \A s \in Request \ {r} : req'[s] = req[s]
      BY <1>5 DEF Begin
    <3>4. ~CronRequest(r) /\ (CronRequest(r)' => req'[r].account = a)
      BY <1>5 DEF Begin
    <3> QED
      BY <3>1, <3>2, <3>3, <3>4
  <2>2. CASE by # "cron"
    BY <1>5, <2>2 DEF Begin
  <2> QED
    BY <2>1, <2>2
<1>6. ASSUME NEW r \in Request, Step(r) \/ Fail(r) PROVE RoundInv' /\ CronOnboardsApart'
  <2>1. todo' = todo /\ hpc' = hpc
    BY <1>6 DEF Step, Onboard, SaveKey, Record, Fail
  <2>2. \A s \in Request : CronRequest(s)' => CronRequest(s) /\ req'[s].account = req[s].account
    BY <1>0, <1>6 DEF Step, Onboard, SaveKey, Record, Fail, Goto, End, RequestState
  <2> QED
    BY <2>1, <2>2
<1>7. ASSUME Crash PROVE RoundInv' /\ CronOnboardsApart'
  BY <1>0, <1>7 DEF Crash
<1>8. ASSUME BecomeCalm \/ UNCHANGED vars PROVE RoundInv' /\ CronOnboardsApart'
  BY <1>8 DEF BecomeCalm, vars
<1> QED
  BY <1>1, <1>2, <1>3, <1>4, <1>5, <1>6, <1>7, <1>8 DEF Next, Cron

(* Every step keeps the inductive invariant. *)
LEMMA StepInv == IInv /\ [Next]_vars => IInv'
  BY TypeStep, KeyStep, RoundStep DEF IInv

(* The inductive invariant of onboarding: what the table and the calls     *)
(* know of keys is on the chain, and rounds own their calls.               *)
THEOREM Invariance == Spec => []IInv
  BY InitInv, StepInv, PTL DEF Spec

(* A key in the table was obtained from the chain. *)
THEOREM KeysEarned == Spec => []KeysAreEarned
<1>1. IInv => KeysAreEarned
  BY DEF IInv
<1> QED
  BY Invariance, <1>1, PTL

(* The task never onboards an account twice at a time. *)
THEOREM CronNeverTwice == Spec => []CronOnboardsApart
<1>1. IInv => CronOnboardsApart
  BY DEF IInv
<1> QED
  BY Invariance, <1>1, PTL

(* Connections, calls and rounds keep their types: no row is saved that    *)
(* was not loaded.                                                         *)
THEOREM TypeCorrect == Spec => []TypeOK
<1>1. IInv => TypeOK
  BY DEF IInv
<1> QED
  BY <1>1, Invariance, PTL
=============================================================================
