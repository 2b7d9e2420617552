---------------------------- MODULE NotifyProofs ----------------------------
(***************************************************************************)
(* Proofs about Notify and NotifyHistory, for every set of items, every    *)
(* signature normalisation, every N, cooldown and TTL, and every set of    *)
(* faults unless a theorem says otherwise.                                 *)
(***************************************************************************)
EXTENDS NotifyHistory, NotifyRulesProofs

-----------------------------------------------------------------------------
(* Type correctness, with what a run in flight carries along: the baseline *)
(* it loaded, the action Dispatch chose from it, and nothing once it ended.*)

RunInv ==
  /\ pc = "idle" => run = NoRun
  /\ pc # "idle" => run.prev \in Loaded
  /\ run.rawEmpty => run.filtered = {}
  /\ run.newStreak # 0 => run.rawEmpty /\ run.prev.status = StatusAlert
  /\ pc = "prepared" => run.action = ActionNone
  /\ pc \in {"sending", "saving"} =>
       run.action = DispatchAction(run.prev, run.filtered, run.rawEmpty, run.newStreak)
  /\ pc = "sending" => run.action # ActionNone

IInv == TypeOK /\ RunInv

LEMMA LoadedType ==
  ASSUME file \in State
  PROVE  Loaded \in SUBSET State
BY ColdStartType DEF Loaded

LEMMA DispatchType ==
  ASSUME TypeOK, Dispatch
  PROVE  run' \in Context
<1> DEFINE act == DispatchAction(run.prev, run.filtered, run.rawEmpty, run.newStreak)
<1>1. run \in Context /\ run.prev \in State
  BY DEF TypeOK, Context
<1>2. act \in Actions
  BY <1>1, DispatchActionType
<1>3. run' = [run EXCEPT !.action = act]
  BY DEF Dispatch
<1> HIDE DEF act
<1>4. QED
  BY <1>1, <1>2, <1>3 DEF Context

LEMMA DeliverType ==
  ASSUME TypeOK, Deliver, run.action # ActionNone
  PROVE  inbox' \in Mail
<1>1. run.action \in Actions /\ run.filtered \in SUBSET Items
  BY DEF TypeOK, Context
<1>2. MailSig(run.action, run.filtered) \in SUBSET SigKeys
  BY <1>1, SignatureType DEF MailSig
<1>3. QED
  BY <1>1, <1>2, RulesAssumption DEF Deliver, Mail, Actions

(* The type invariant and RunInv are inductive together: RunInv gives the  *)
(* action a mail is sent for.                                              *)
LEMMA InitIInv == Init => IInv
<1> SUFFICES ASSUME Init PROVE IInv
  OBVIOUS
<1>1. TypeOK
  BY NoRunType, ColdStartType, RulesAssumption, NotifyAssumption
  DEF Init, TypeOK, NoMail, Mail
<1>2. RunInv
  BY DEF Init, RunInv, NoRun
<1>3. QED
  BY <1>1, <1>2 DEF IInv

LEMMA StepIInv == IInv /\ [Next]_vars => IInv'
<1> SUFFICES ASSUME IInv, [Next]_vars PROVE IInv'
  OBVIOUS
<1> USE DEF IInv
<1>1. ASSUME NEW raw \in SUBSET Items, Prepare(raw)
      PROVE  IInv'
  <2>1. PICK prev \in Loaded : run' = ContextOf(raw, prev)
    BY <1>1 DEF Prepare
  <2>2. prev \in State
    BY LoadedType, <2>1 DEF TypeOK
  <2>3. run' \in Context
    BY <2>1, <2>2, ContextType
  <2>4. TypeOK'
    BY <1>1, <2>3, NotifyAssumption DEF Prepare, TypeOK
  <2>5. run'.prev \in Loaded'
    BY <1>1, <2>1 DEF Prepare, ContextOf, Loaded
  <2>6. /\ run'.rawEmpty => run'.filtered = {}
        /\ run'.newStreak # 0 => run'.rawEmpty /\ run'.prev.status = StatusAlert
    BY <2>1 DEF ContextOf, Filtered, UpdateRecoveryStreak
  <2>7. pc' = "prepared" /\ run'.action = ActionNone
    BY <1>1, <2>1 DEF Prepare, ContextOf
  <2>8. QED
    BY <2>4, <2>5, <2>6, <2>7 DEF RunInv
<1>2. CASE Dispatch
  <2> DEFINE act == DispatchAction(run.prev, run.filtered, run.rawEmpty, run.newStreak)
  <2>1. run' \in Context
    BY <1>2, DispatchType
  <2>2. TypeOK'
    BY <1>2, <2>1 DEF Dispatch, TypeOK
  <2>3. /\ run' = [run EXCEPT !.action = act]
        /\ pc' = IF act = ActionNone THEN "saving" ELSE "sending"
        /\ UNCHANGED file
    BY <1>2 DEF Dispatch
  <2>4. run \in Context
    BY DEF TypeOK
  <2> HIDE DEF act
  <2>5. /\ run'.prev = run.prev /\ run'.filtered = run.filtered
        /\ run'.rawEmpty = run.rawEmpty /\ run'.newStreak = run.newStreak
        /\ run'.action = act
    BY <2>3, <2>4 DEF Context
  <2>6. /\ run'.prev \in Loaded'
        /\ run'.rawEmpty => run'.filtered = {}
        /\ run'.newStreak # 0 => run'.rawEmpty /\ run'.prev.status = StatusAlert
    BY <1>2, <2>3, <2>5 DEF Dispatch, RunInv, Loaded
  <2>7. run'.action = DispatchAction(run'.prev, run'.filtered, run'.rawEmpty, run'.newStreak)
    BY <2>5 DEF act
  <2>8. QED
    BY <2>2, <2>3, <2>5, <2>6, <2>7 DEF RunInv
<1>3. CASE SendOK
  <2>1. run.action # ActionNone
    BY <1>3 DEF SendOK, RunInv
  <2>2. TypeOK'
    BY <1>3, <2>1, DeliverType DEF SendOK, TypeOK
  <2>3. QED
    BY <1>3, <2>2 DEF SendOK, RunInv, Loaded
<1>4. CASE Save
  <2>1. file' \in State
    BY <1>4, StateAfterType DEF Save, TypeOK
  <2>2. TypeOK'
    BY <1>4, <2>1, NoRunType DEF Save, EndRun, TypeOK
  <2>3. QED
    BY <1>4, <2>2 DEF Save, EndRun, RunInv, NoRun
<1>5. ASSUME EndRun, UNCHANGED <<file, gap>>, inbox' \in Mail
      PROVE  IInv'
  <2>1. TypeOK'
    BY <1>5, NoRunType DEF EndRun, TypeOK
  <2>2. QED
    BY <1>5, <2>1 DEF EndRun, RunInv, NoRun
<1>6. CASE WriteFails \/ SendFails \/ SaveFails \/ Crash
  BY <1>5, <1>6 DEF WriteFails, SendFails, SaveFails, Crash, TypeOK
<1>7. CASE SendFailsLate
  <2>1. run.action # ActionNone
    BY <1>7 DEF SendFailsLate, RunInv
  <2>2. QED
    BY <1>5, <1>7, <2>1, DeliverType DEF SendFailsLate
<1>8. CASE Tick
  <2>1. file' \in State
    BY <1>8, OlderType DEF Tick, TypeOK
  <2>2. Bump(inbox.age, Cooldown) \in 0 .. Cooldown
    BY BumpType, RulesAssumption DEF TypeOK, Mail
  <2>3. inbox' \in Mail
    BY <1>8, <2>2 DEF Tick, TypeOK, Mail
  <2>4. TypeOK'
    BY <1>8, <2>1, <2>3, NotifyAssumption DEF Tick, TypeOK
  <2>5. QED
    BY <1>8, <2>4 DEF Tick, RunInv, NoRun
<1>9. CASE UNCHANGED vars
  BY <1>9 DEF vars, TypeOK, RunInv, Loaded
<1>10. QED
  BY <1>1, <1>2, <1>3, <1>4, <1>6, <1>7, <1>8, <1>9 DEF Next

LEMMA AlwaysIInv == Spec => []IInv
BY InitIInv, StepIInv, PTL DEF Spec

(* The state read from and written to state.json, the context between      *)
(* Prepare and Dispatch and the mails sent always have their types; a      *)
(* pending counter never reaches N.                                        *)
THEOREM TypeCorrect == Spec => []TypeOK
BY AlwaysIInv, PTL DEF IInv

-----------------------------------------------------------------------------
(* No record is lost: state.json describes the last mail. *)

NoRecordLost == "unrecorded" \notin Faults /\ "damage" \notin Faults

LEMMA InitRecordIsTrue == Init => RecordIsTrue
BY DEF Init, RecordIsTrue, RecordMatchesInbox, ColdStart, NoMail,
       StatusEmpty, StatusAlert, StatusOK, ActionSendAlert, ActionSendRecovery

LEMMA StepRecordIsTrue ==
  ASSUME NoRecordLost, IInv, RecordIsTrue, [Next]_vars
  PROVE  RecordIsTrue'
<1> USE DEF IInv
<1>1. ASSUME NEW raw \in SUBSET Items, Prepare(raw)
      PROVE  RecordIsTrue'
  BY <1>1 DEF Prepare, RecordIsTrue, RecordMatchesInbox
<1>2. CASE Dispatch
  <2> DEFINE act == DispatchAction(run.prev, run.filtered, run.rawEmpty, run.newStreak)
  <2>1. /\ run' = [run EXCEPT !.action = act]
        /\ pc' = IF act = ActionNone THEN "saving" ELSE "sending"
        /\ UNCHANGED <<file, inbox>> /\ pc = "prepared"
    BY <1>2 DEF Dispatch
  <2>2. run \in Context
    BY DEF TypeOK
  <2> HIDE DEF act
  <2>3. pc' = "saving" => run'.action = ActionNone
    BY <2>1, <2>2 DEF Context
  <2>4. QED
    BY <2>1, <2>3 DEF RecordIsTrue, RecordMatchesInbox
<1>3. CASE SendOK
  <2>1. run.action \in Actions \ {ActionNone}
    BY <1>3 DEF SendOK, RunInv, TypeOK, Context
  <2> DEFINE s == StateAfter(run.action, run.prev, run.filtered, run.nextPending, run.newStreak)
  <2>2. /\ s.sentAge = 0 /\ s.sig = MailSig(run.action, run.filtered)
        /\ s.status = IF run.action = ActionSendAlert THEN StatusAlert ELSE StatusOK
    BY <2>1, StateAfterMail
  <2>3. /\ inbox'.kind = run.action /\ inbox'.sig = MailSig(run.action, run.filtered)
        /\ inbox'.age = 0
    BY <1>3 DEF SendOK, Deliver
  <2>4. /\ s.status = StatusAlert <=> run.action = ActionSendAlert
        /\ s.status = StatusOK <=> run.action = ActionSendRecovery
    BY <2>1, <2>2 DEF Actions, StatusAlert, StatusOK, ActionSendAlert, ActionSendRecovery, ActionNone
  <2>5. s' = s /\ run' = run /\ pc' = "saving"
    BY <1>3 DEF SendOK
  <2>6. /\ s'.status = StatusAlert <=> inbox'.kind = ActionSendAlert
        /\ s'.status = StatusOK <=> inbox'.kind = ActionSendRecovery
        /\ s'.sig = inbox'.sig /\ s'.sentAge = inbox'.age
    BY <2>2, <2>3, <2>4, <2>5
  <2>7. QED
    BY <2>1, <2>5, <2>6 DEF RecordIsTrue, RecordMatchesInbox
<1>4. CASE Save
  <2> DEFINE s == StateAfter(run.action, run.prev, run.filtered, run.nextPending, run.newStreak)
  <2>1. file' = s /\ pc' = "idle" /\ inbox' = inbox /\ pc = "saving"
    BY <1>4 DEF Save, EndRun
  <2>2. CASE run.action # ActionNone
    BY <2>1, <2>2 DEF RecordIsTrue, RecordMatchesInbox
  <2>3. CASE run.action = ActionNone
    <3>1. run.prev = file /\ file \in State
      BY <2>1 DEF RunInv, Loaded, NoRecordLost, TypeOK
    <3>2. /\ file'.sentAge = file.sentAge /\ file'.sig = file.sig
          /\ file'.status = file.status
      BY <2>1, <2>3, <3>1, StateAfterNone
    <3>3. QED
      BY <2>1, <2>3, <3>2 DEF RecordIsTrue, RecordMatchesInbox
  <2>4. QED
    BY <2>2, <2>3
<1>5. CASE WriteFails \/ SendFails \/ SaveFails \/ Crash
  <2>1. RecordMatchesInbox(file)
    BY <1>5 DEF WriteFails, SendFails, SaveFails, Crash, NothingUnrecorded,
                NoRecordLost, RecordIsTrue
  <2>2. pc' = "idle" /\ UNCHANGED <<file, inbox>>
    BY <1>5 DEF WriteFails, SendFails, SaveFails, Crash, EndRun
  <2>3. QED
    BY <2>1, <2>2 DEF RecordIsTrue, RecordMatchesInbox
<1>6. CASE SendFailsLate
  BY <1>6 DEF SendFailsLate, NoRecordLost
<1>7. CASE Tick
  <2>1. RecordMatchesInbox(file) /\ pc' = "idle"
    BY <1>7 DEF Tick, RecordIsTrue
  <2>2. /\ file'.sentAge = Bump(file.sentAge, Cooldown)
        /\ file'.sig = file.sig /\ file'.status = file.status
    BY <1>7 DEF Tick, Older, TypeOK, State
  <2>3. /\ inbox'.age = Bump(inbox.age, Cooldown)
        /\ inbox'.sig = inbox.sig /\ inbox'.kind = inbox.kind
    BY <1>7 DEF Tick, TypeOK, Mail
  <2>4. QED
    BY <2>1, <2>2, <2>3 DEF RecordIsTrue, RecordMatchesInbox
<1>8. CASE UNCHANGED vars
  BY <1>8 DEF vars, RecordIsTrue, RecordMatchesInbox
<1>9. QED
  BY <1>1, <1>2, <1>3, <1>4, <1>5, <1>6, <1>7, <1>8 DEF Next

(* Unless a mail goes out whose record is lost, or state.json is damaged,  *)
(* state.json always describes the last mail the recipients got.           *)
THEOREM RecordAlwaysTrue ==
  ASSUME NoRecordLost
  PROVE  Spec => []RecordIsTrue
<1>1. RecordIsTrue /\ IInv /\ [Next]_vars => RecordIsTrue'
  BY StepRecordIsTrue
<1>2. QED
  BY <1>1, InitRecordIsTrue, AlwaysIInv, PTL DEF Spec

-----------------------------------------------------------------------------
(* Notify implements AlertEpisode. *)

LEMMA StepKeepsPromise ==
  ASSUME NoRecordLost, IInv, RecordIsTrue, [Next]_vars
  PROVE  [Episode!Next]_inbox
<1> USE DEF IInv
<1>1. CASE SendOK
  <2>1. run.prev = file /\ RecordMatchesInbox(file)
    BY <1>1 DEF SendOK, RunInv, Loaded, NoRecordLost, RecordIsTrue
  <2>2. /\ run.action = DispatchAction(run.prev, run.filtered, run.rawEmpty, run.newStreak)
        /\ run.action \in Actions \ {ActionNone} /\ run.filtered \in SUBSET Items
    BY <1>1 DEF SendOK, RunInv, TypeOK, Context
  <2>3. inbox' = [kind |-> run.action, sig |-> MailSig(run.action, run.filtered), age |-> 0]
    BY <1>1 DEF SendOK, Deliver
  <2>4. CASE run.action = ActionSendAlert
    <3>1. /\ run.filtered # {}
          /\ \/ file.status # StatusAlert
             \/ Signature(run.filtered) # file.sig
             \/ file.sentAge >= Cooldown
      BY <2>1, <2>2, <2>4, AlertMeans
    <3>2. \/ inbox.kind # ActionSendAlert
          \/ inbox.sig # Signature(run.filtered)
          \/ inbox.age >= Cooldown
      BY <2>1, <3>1 DEF RecordMatchesInbox
    <3>3. Signature(run.filtered) \in SUBSET SigKeys /\ Signature(run.filtered) # {}
      BY <2>2, <3>1, SignatureType
    <3>4. Episode!Alert(Signature(run.filtered))
      BY <2>3, <2>4, <3>2, <3>3 DEF Episode!Alert, MailSig, ActionSendAlert
    <3>5. QED
      BY <3>3, <3>4 DEF Episode!Next
  <2>5. CASE run.action = ActionSendRecovery
    <3>1. file.status = StatusAlert
      BY <2>1, <2>2, <2>5, RecoveryMeans
    <3>2. inbox.kind = ActionSendAlert
      BY <2>1, <3>1 DEF RecordMatchesInbox
    <3>3. QED
      BY <2>3, <2>5, <3>2
      DEF Episode!Next, Episode!Recovery, MailSig, ActionSendAlert, ActionSendRecovery
  <2>6. QED
    BY <2>2, <2>4, <2>5 DEF Actions
<1>2. CASE SendFailsLate
  BY <1>2 DEF SendFailsLate, NoRecordLost
<1>3. CASE Tick
  <2>1. inbox' = [inbox EXCEPT !.age = Bump(inbox.age, Cooldown)] /\ inbox \in Mail
    BY <1>3 DEF Tick, TypeOK
  <2>2. CASE inbox.age < Cooldown
    BY <2>1, <2>2 DEF Episode!Next, Episode!Elapse, Bump
  <2>3. CASE ~(inbox.age < Cooldown)
    BY <2>1, <2>3 DEF Bump, Mail
  <2>4. QED
    BY <2>2, <2>3
<1>4. CASE \E raw \in SUBSET Items : Prepare(raw)
  BY <1>4 DEF Prepare
<1>5. CASE \/ Dispatch \/ Save \/ WriteFails \/ SendFails \/ SaveFails \/ Crash
           \/ UNCHANGED vars
  BY <1>5 DEF Dispatch, Save, WriteFails, SendFails, SaveFails, Crash, vars
<1>6. QED
  BY <1>1, <1>2, <1>3, <1>4, <1>5 DEF Next

(* The mails of all the runs together keep the promise of AlertEpisode, as *)
(* long as no record is lost.                                              *)
THEOREM NotifyKeepsPromise ==
  ASSUME NoRecordLost
  PROVE  Spec => KeepsPromise
<1>1. Init => Episode!Init
  BY DEF Init, NoMail, Episode!Init
<1>2. IInv /\ RecordIsTrue /\ [Next]_vars => [Episode!Next]_inbox
  BY StepKeepsPromise
<1>3. QED
  BY <1>1, <1>2, AlwaysIInv, RecordAlwaysTrue, PTL DEF Spec, KeepsPromise, Episode!Spec

-----------------------------------------------------------------------------
(* The recovery mail is not held back longer than ConsecutiveRuns runs. *)

LEMMA StepNotOverdue == IInv /\ RecoveryNotOverdue /\ [Next]_vars => RecoveryNotOverdue'
<1> SUFFICES ASSUME IInv, RecoveryNotOverdue, [Next]_vars, SendRecovery
             PROVE  file'.streak < ConsecutiveRuns
  BY DEF RecoveryNotOverdue
<1> USE DEF IInv
<1>1. CASE Save
  <2>1. /\ file' = StateAfter(run.action, run.prev, run.filtered, run.nextPending, run.newStreak)
        /\ run \in Context /\ pc = "saving"
    BY <1>1 DEF Save, TypeOK
  <2>2. run.action \in Actions /\ run.prev \in State /\ run.newStreak \in Nat
    BY <2>1 DEF Context
  <2>3. CASE run.action = ActionNone
    <3>1. file'.streak = run.newStreak
      BY <2>1, <2>2, <2>3, StateAfterNone
    <3>2. DispatchAction(run.prev, run.filtered, run.rawEmpty, run.newStreak) # ActionSendRecovery
      BY <2>1, <2>3 DEF RunInv, ActionNone, ActionSendRecovery
    <3>3. CASE run.newStreak = 0
      BY <3>1, <3>3, RulesAssumption
    <3>4. CASE run.newStreak # 0
      <4>1. run.rawEmpty /\ run.prev.status = StatusAlert /\ run.filtered = {}
        BY <3>4 DEF RunInv
      <4>2. ~(run.newStreak >= ConsecutiveRuns)
        BY <3>2, <4>1 DEF DispatchAction, Gated, ActionNone, ActionSendRecovery
      <4>3. QED
        BY <2>2, <3>1, <4>2, RulesAssumption
    <3>5. QED
      BY <2>2, <3>3, <3>4
  <2>4. CASE run.action # ActionNone
    BY <2>1, <2>4, RulesAssumption DEF StateAfter
  <2>5. QED
    BY <2>3, <2>4
<1>2. CASE Tick
  <2>1. file'.streak = file.streak
    BY <1>2 DEF Tick, Older, TypeOK, State
  <2>2. QED
    BY <2>1 DEF RecoveryNotOverdue
<1>3. CASE ~Save /\ ~Tick
  <2>1. file' = file
    BY <1>3 DEF Next, Prepare, Dispatch, SendOK, SendFails, SendFailsLate, WriteFails,
                SaveFails, Crash, vars
  <2>2. QED
    BY <2>1 DEF RecoveryNotOverdue
<1>4. QED
  BY <1>1, <1>2, <1>3

(* No saved state holds a streak that would have closed the incident. *)
THEOREM RecoveryNeverOverdue == Spec => []RecoveryNotOverdue
<1>1. Init => RecoveryNotOverdue
  BY RulesAssumption DEF Init, ColdStart, RecoveryNotOverdue
<1>2. QED
  BY <1>1, AlwaysIInv, StepNotOverdue, PTL DEF Spec
=============================================================================
