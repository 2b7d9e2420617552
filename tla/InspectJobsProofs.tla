-------------------------- MODULE InspectJobsProofs --------------------------
(***************************************************************************)
(* Proofs about InspectJobs, for any number of jobs and pages and any set  *)
(* of faults: what the flock gives the jobs, and what holds without it.    *)
(***************************************************************************)
EXTENDS InspectJobs, NotifyRulesProofs

-----------------------------------------------------------------------------
(* Types. *)

(* Where a job is tells whether it has a context and an action. *)
StageInv ==
  /\ \A w \in Writers : notifies[w] => w \in Jobs /\ at[w] \in Writing \cup Dispatching
  /\ \A w \in Writers : at[w] \in Dispatching => notifies[w]
  /\ \A j \in Jobs : at[j] = "sending" => ctx[j].action # ActionNone

JInv == JTypeOK /\ StageInv

(* A step of one writer to another stage that leaves its context alone. *)
LEMMA GotoStage ==
  ASSUME JInv, NEW w \in Writers,
         NEW stage \in {"off"} \cup Collecting \cup Writing \cup Dispatching,
         Goto(w, stage), notifies' = notifies, ctx' = ctx,
         notifies[w] => stage \in Writing \cup Dispatching,
         stage \in Dispatching => notifies[w],
         stage # "sending"
  PROVE  /\ at' \in [Writers -> {"off"} \cup Collecting \cup Writing \cup Dispatching]
         /\ at'[w] = stage
         /\ \A v \in Writers \ {w} : at'[v] = at[v]
         /\ StageInv'
<1> DEFINE Stages == {"off"} \cup Collecting \cup Writing \cup Dispatching
<1>1. at \in [Writers -> Stages] /\ at' = [at EXCEPT ![w] = stage]
  BY DEF JInv, JTypeOK, Goto
<1> HIDE DEF Stages
<1>2. at' \in [Writers -> Stages]
  BY <1>1 DEF Stages
<1>3. at'[w] = stage /\ \A v \in Writers \ {w} : at'[v] = at[v]
  BY <1>1
<1>4. StageInv'
  BY <1>3 DEF JInv, StageInv, Writers
<1>5. QED
  BY <1>2, <1>3, <1>4 DEF Stages

(* What is left of a process that has ended, and what is not touched. *)
LEMMA ExitEffect ==
  ASSUME JTypeOK, NEW w \in Writers, Exit(w)
  PROVE  /\ at' \in [Writers -> {"off"} \cup Collecting \cup Writing \cup Dispatching]
         /\ notifies' \in [Writers -> BOOLEAN]
         /\ ctx' \in [Jobs -> Context]
         /\ body' \in [Jobs -> Writers \cup {Nobody}]
         /\ lock' \in Jobs \cup {Nobody}
         /\ cancelled' \subseteq Pages
         /\ shown' \in Pages \cup {Nobody}
         /\ at'[w] = "off" /\ ~notifies'[w] /\ lock' # w
         /\ \A v \in Writers \ {w} : at'[v] = at[v] /\ notifies'[v] = notifies[v]
         /\ \A j \in Jobs \ {w} : ctx'[j] = ctx[j] /\ body'[j] = body[j]
         /\ w \in Jobs => ctx'[w] = NoRun
         /\ lock # w => lock' = lock
         /\ lock = w => lock' = Nobody
<1>1. Nobody \notin Writers
  BY JobsAssumption
<1>2. QED
  BY <1>1, NoRunType DEF Exit, Goto, JTypeOK, Writers

LEMMA InitJInv == Init => JInv
<1> SUFFICES ASSUME Init PROVE JInv
  OBVIOUS
<1>1. JTypeOK
  BY NoRunType, ColdStartType, RulesAssumption, JobsAssumption
  DEF Init, JTypeOK, NoMail, Mail, Actions
<1>2. StageInv
  BY DEF Init, StageInv, Dispatching, Writers
<1>3. QED
  BY <1>1, <1>2 DEF JInv

LEMMA DeliverTypes ==
  ASSUME JTypeOK, NEW j \in Jobs, Deliver(j)
  PROVE  inbox' \in Mail /\ delivered' \subseteq [kind : Actions, sig : SUBSET SigKeys]
<1>1. ctx[j] \in Context
  BY DEF JTypeOK
<1>2. ctx[j].action \in Actions /\ ctx[j].filtered \in SUBSET Items
  BY <1>1 DEF Context
<1>3. MailSig(ctx[j].action, ctx[j].filtered) \in SUBSET SigKeys
  BY <1>2, SignatureType DEF MailSig
<1>4. MailOf(j) \in [kind : Actions, sig : SUBSET SigKeys]
  BY <1>2, <1>3 DEF MailOf
<1>5. inbox' \in Mail
  BY <1>4, RulesAssumption DEF Deliver, Mail, Actions, ActionNone
<1>6. QED
  BY <1>4, <1>5 DEF Deliver, JTypeOK

LEMMA StepExit ==
  ASSUME JInv, NEW w \in Writers, Exit(w),
         html' \in [by : Writers \cup {Nobody}, whole : BOOLEAN],
         json' \in Writers \cup {Nobody}, file' \in State, inbox' \in Mail,
         gap' \in 0 .. MaxGap, delivered' \subseteq [kind : Actions, sig : SUBSET SigKeys]
  PROVE  JInv'
<1>1. JTypeOK'
  BY ExitEffect DEF JInv, JTypeOK
<1>2. StageInv'
  <2>1. \A j \in Jobs : at'[j] = "sending" => j # w
    BY ExitEffect DEF JInv
  <2>2. QED
    BY <2>1, ExitEffect DEF JInv, StageInv, Dispatching, Writers
<1>3. QED
  BY <1>1, <1>2 DEF JInv

(* The steps every writer takes. *)
LEMMA StepWriter ==
  ASSUME JInv, NEW w \in Writers, WriterStep(w)
  PROVE  JInv'
<1> USE DEF JInv, JTypeOK
<1>1. CASE RunFails(w)
  BY <1>1, StepExit DEF RunFails, report, state
<1>2. CASE NextPhase(w)
  <2>1. PICK stage \in Collecting : Goto(w, stage)
    BY <1>2 DEF NextPhase, Collecting
  <2>2. at[w] \notin Writing \cup Dispatching
    BY <1>2 DEF NextPhase, Writing, Dispatching
  <2>3. ~notifies[w] /\ stage \notin Dispatching
    BY <2>2 DEF StageInv, Collecting, Dispatching
  <2>4. QED
    BY <1>2, <2>1, <2>3, GotoStage DEF NextPhase, Dispatching, report, ui, state
<1>3. CASE BeginHTML(w)
  <2>1. Goto(w, "html") /\ html' = [by |-> w, whole |-> FALSE]
    BY <1>3 DEF BeginHTML
  <2>2. QED
    BY <1>3, <2>1, GotoStage DEF BeginHTML, Writing, Dispatching, ui, state
<1>4. CASE EndHTML(w)
  <2>1. Goto(w, "json")
    BY <1>4 DEF EndHTML
  <2>2. html' = [by |-> w, whole |-> TRUE] \/ html' = [by |-> Nobody, whole |-> FALSE]
    BY <1>4 DEF EndHTML, Report
  <2>3. \A v \in Writers \cup {Nobody}, b \in BOOLEAN :
          [by |-> v, whole |-> b] \in [by : Writers \cup {Nobody}, whole : BOOLEAN]
    OBVIOUS
  <2>4. QED
    BY <1>4, <2>1, <2>2, <2>3, GotoStage DEF EndHTML, Writing, Dispatching, ui, state
<1>5. CASE WriteJSON(w)
  <2>1. CASE notifies[w]
    BY <1>5, <2>1, GotoStage DEF WriteJSON, Writing, Dispatching, ui, state
  <2>2. CASE ~notifies[w]
    BY <1>5, <2>2, StepExit DEF WriteJSON, state
  <2>3. QED
    BY <2>1, <2>2
<1>6. CASE WriteFails(w)
  BY <1>6, StepExit DEF WriteFails, report, state
<1>7. QED
  BY <1>1, <1>2, <1>3, <1>4, <1>5, <1>6 DEF WriterStep

LEMMA StepPage ==
  ASSUME JInv, NEW p \in Pages, PageStep(p)
  PROVE  JInv'
<1> USE DEF JInv, JTypeOK
<1>0. p \in Writers /\ p \notin Jobs
  BY JobsAssumption DEF Writers
<1>1. CASE OpenPage(p)
  <2>1. ~notifies[p]
    BY <1>0 DEF StageInv
  <2>2. QED
    BY <1>0, <1>1, <2>1, GotoStage DEF OpenPage, Collecting, Dispatching, report, state
<1>2. CASE RunCancelled(p)
  BY <1>0, <1>2, StepExit DEF RunCancelled, report, state
<1>3. CASE PageCollected(p)
  BY <1>0, <1>3, GotoStage DEF PageCollected, Writing, Dispatching, report, ui, state
<1>4. QED
  BY <1>1, <1>2, <1>3 DEF PageStep

LEMMA LoadedTypes ==
  ASSUME file \in State
  PROVE  Loaded \in SUBSET State
BY ColdStartType DEF Loaded

LEMMA StepJob ==
  ASSUME JInv, NEW j \in Jobs, JobStep(j)
  PROVE  JInv'
<1> USE DEF JInv, JTypeOK
<1>0. j \in Writers /\ 0 \in 0 .. MaxGap
  BY JobsAssumption DEF Writers
<1>1. CASE Acquire(j) \/ AcquireFails(j)
  <2>1. ~notifies[j] /\ Goto(j, "phase1")
    BY <1>0, <1>1 DEF Acquire, AcquireFails, StageInv, Writing, Dispatching
  <2>2. QED
    BY <1>0, <1>1, <2>1, GotoStage
    DEF Acquire, AcquireFails, Collecting, Dispatching, report, ui, state
<1>2. CASE Crash(j)
  BY <1>0, <1>2, StepExit DEF Crash, report, state
<1>3. CASE PrepareOff(j)
  BY <1>0, <1>3, GotoStage DEF PrepareOff, Writing, Dispatching, report, ui, state
<1>4. ASSUME NEW raw \in SUBSET Items, Prepare(j, raw)
      PROVE  JInv'
  <2>1. PICK prev \in Loaded : ctx' = [ctx EXCEPT ![j] = ContextOf(raw, prev)]
    BY <1>4 DEF Prepare
  <2>2. ContextOf(raw, prev) \in Context
    BY <2>1, LoadedTypes, ContextType
  <2>3. ctx' \in [Jobs -> Context]
    BY <2>1, <2>2
  <2>4. \A k \in Jobs \ {j} : ctx'[k] = ctx[k]
    BY <2>1
  <2>5. QED
    BY <1>0, <1>4, <2>3, <2>4 DEF Prepare, Goto, StageInv, Writing, Dispatching, report, ui
<1>5. CASE Dispatch(j)
  <2> DEFINE act == DispatchAction(ctx[j].prev, ctx[j].filtered, ctx[j].rawEmpty,
                                   ctx[j].newStreak)
  <2>1. /\ ctx' = [ctx EXCEPT ![j].action = act]
        /\ at' = [at EXCEPT ![j] = IF act = ActionNone THEN "saving" ELSE "sending"]
    BY <1>5 DEF Dispatch, Goto
  <2>2. ctx[j] \in Context /\ ctx[j].prev \in State
    BY DEF Context
  <2>3. act \in Actions
    BY <2>2, DispatchActionType
  <2> HIDE DEF act
  <2>4. [ctx[j] EXCEPT !.action = act] \in Context
    BY <2>2, <2>3 DEF Context
  <2>5. ctx' \in [Jobs -> Context] /\ ctx'[j].action = act
    BY <2>1, <2>2, <2>4 DEF Context
  <2>6. \A k \in Jobs \ {j} : ctx'[k] = ctx[k]
    BY <2>1
  <2>7. body' \in [Jobs -> Writers \cup {Nobody}]
    BY <1>5 DEF Dispatch
  <2>8. JTypeOK'
    BY <1>0, <1>5, <2>1, <2>5, <2>7 DEF Dispatch, Dispatching, report, ui, state
  <2>9. notifies' = notifies /\ notifies[j]
    BY <1>0, <1>5 DEF Dispatch, StageInv, Dispatching
  <2>10. StageInv'
    BY <1>0, <2>1, <2>5, <2>6, <2>9 DEF StageInv, Writing, Dispatching
  <2>11. QED
    BY <2>8, <2>10
<1>6. CASE SendOK(j)
  <2>1. inbox' \in Mail /\ delivered' \subseteq [kind : Actions, sig : SUBSET SigKeys]
    BY <1>6, DeliverTypes DEF SendOK
  <2>2. QED
    BY <1>0, <1>6, <2>1, GotoStage DEF SendOK, StageInv, Dispatching, report, ui
<1>7. CASE SendFails(j)
  <2>1. inbox' \in Mail /\ delivered' \subseteq [kind : Actions, sig : SUBSET SigKeys]
    BY <1>7, DeliverTypes DEF SendFails
  <2>2. QED
    BY <1>0, <1>7, <2>1, StepExit DEF SendFails, report
<1>8. CASE Save(j)
  <2>1. file' \in State
    BY <1>8, StateAfterType DEF Save
  <2>2. QED
    BY <1>0, <1>8, <2>1, StepExit DEF Save, report
<1>9. CASE SaveFails(j)
  BY <1>0, <1>9, StepExit DEF SaveFails, report, state
<1>10. QED
  BY <1>1, <1>2, <1>3, <1>4, <1>5, <1>6, <1>7, <1>8, <1>9 DEF JobStep

LEMMA StepJInv == JInv /\ [Next]_vars => JInv'
<1> SUFFICES ASSUME JInv, [Next]_vars PROVE JInv'
  OBVIOUS
<1>1. CASE Escape
  BY <1>1 DEF Escape, JInv, JTypeOK, StageInv, report, state
<1>2. CASE Tick
  <2>1. file' \in State
    BY <1>2, OlderType DEF Tick, JInv, JTypeOK
  <2>2. Bump(inbox.age, Cooldown) \in 0 .. Cooldown
    BY BumpType, RulesAssumption DEF JInv, JTypeOK, Mail
  <2>3. inbox' \in Mail
    BY <1>2, <2>2 DEF Tick, JInv, JTypeOK, Mail
  <2>4. gap' \in 0 .. MaxGap
    BY <1>2, JobsAssumption DEF Tick, JInv, JTypeOK
  <2>5. QED
    BY <1>2, <2>1, <2>3, <2>4 DEF Tick, JInv, JTypeOK, StageInv, report, ui
<1>3. CASE UNCHANGED vars
  BY <1>3 DEF vars, JInv, JTypeOK, StageInv, report, ui, state
<1>4. QED
  BY <1>1, <1>2, <1>3, StepJob, StepPage, StepWriter DEF Next

LEMMA AlwaysJInv == Spec => []JInv
BY InitJInv, StepJInv, PTL DEF Spec

(* Every variable keeps its type whatever the jobs, the pages and the      *)
(* faults do, with the lock or without it.                                 *)
THEOREM JobsTypeCorrect == Spec => []JTypeOK
<1>1. JInv => JTypeOK
  BY DEF JInv
<1>2. QED
  BY <1>1, AlwaysJInv, PTL

-----------------------------------------------------------------------------
(* The lock. *)

(* Only the process with the flock is past lock.Acquire. *)
LockInv == \A j \in Jobs : at[j] # "off" => lock = j

(* A writer that was running moves on and the lock stays where it is. *)
LEMMA GotoKeepsLock ==
  ASSUME JTypeOK, LockInv, NEW w \in Writers, NEW stage, Goto(w, stage),
         at[w] # "off" \/ w \in Pages, lock' = lock
  PROVE  LockInv'
<1>1. \A j \in Jobs : j \in Writers /\ (j # w => at'[j] = at[j])
  BY DEF Goto, JTypeOK, Writers
<1>2. w \in Jobs => at[w] # "off"
  BY JobsAssumption
<1>3. QED
  BY <1>1, <1>2 DEF LockInv

LEMMA ExitKeepsLock ==
  ASSUME JTypeOK, LockInv, NEW w \in Writers, Exit(w)
  PROVE  LockInv'
<1>1. \A j \in Jobs : j \in Writers
  BY DEF Writers
<1>2. QED
  BY <1>1, ExitEffect DEF LockInv

LEMMA StepLockInv ==
  ASSUME ~LockMayFail, JInv, LockInv, [Next]_vars
  PROVE  LockInv'
<1> USE DEF JInv
<1>1. ASSUME NEW w \in Writers, WriterStep(w)
      PROVE  LockInv'
  <2>1. CASE RunFails(w) \/ WriteFails(w)
    BY <2>1, ExitKeepsLock DEF RunFails, WriteFails
  <2>2. CASE NextPhase(w)
    <3>1. PICK stage : Goto(w, stage)
      BY <2>2 DEF NextPhase
    <3>2. QED
      BY <2>2, <3>1, GotoKeepsLock DEF NextPhase
  <2>3. CASE BeginHTML(w) \/ EndHTML(w)
    BY <2>3, GotoKeepsLock DEF BeginHTML, EndHTML
  <2>4. CASE WriteJSON(w)
    BY <2>4, GotoKeepsLock, ExitKeepsLock DEF WriteJSON
  <2>5. QED
    BY <1>1, <2>1, <2>2, <2>3, <2>4 DEF WriterStep
<1>2. ASSUME NEW p \in Pages, PageStep(p)
      PROVE  LockInv'
  <2>1. p \in Writers
    BY DEF Writers
  <2>2. CASE OpenPage(p) \/ PageCollected(p)
    BY <2>1, <2>2, GotoKeepsLock DEF OpenPage, PageCollected
  <2>3. CASE RunCancelled(p)
    BY <2>1, <2>3, ExitKeepsLock DEF RunCancelled
  <2>4. QED
    BY <1>2, <2>2, <2>3 DEF PageStep
<1>3. ASSUME NEW j \in Jobs, JobStep(j)
      PROVE  LockInv'
  <2>1. j \in Writers
    BY DEF Writers
  <2>2. CASE Acquire(j)
    <3>1. \A k \in Jobs : k # Nobody /\ k \in Writers
      BY JobsAssumption DEF Writers
    <3>2. \A k \in Jobs \ {j} : at[k] = "off" /\ at'[k] = at[k]
      BY <2>2, <3>1 DEF Acquire, LockInv, Goto, JTypeOK
    <3>3. QED
      BY <2>2, <3>2 DEF Acquire, LockInv
  <2>3. CASE AcquireFails(j)
    BY <2>3 DEF AcquireFails
  <2>4. CASE Crash(j) \/ SendFails(j) \/ Save(j) \/ SaveFails(j)
    BY <2>1, <2>4, ExitKeepsLock DEF Crash, SendFails, Save, SaveFails
  <2>5. CASE PrepareOff(j) \/ SendOK(j) \/ \E raw \in SUBSET Items : Prepare(j, raw)
    BY <2>1, <2>5, GotoKeepsLock DEF PrepareOff, Prepare, SendOK
  <2>6. CASE Dispatch(j)
    <3>1. PICK stage : Goto(j, stage)
      BY <2>6 DEF Dispatch
    <3>2. QED
      BY <2>1, <2>6, <3>1, GotoKeepsLock DEF Dispatch
  <2>7. QED
    BY <1>3, <2>2, <2>3, <2>4, <2>5, <2>6 DEF JobStep
<1>4. CASE Escape \/ Tick \/ UNCHANGED vars
  BY <1>4 DEF Escape, Tick, vars, LockInv
<1>5. QED
  BY <1>1, <1>2, <1>3, <1>4 DEF Next

LEMMA AlwaysLockInv ==
  ASSUME ~LockMayFail
  PROVE  Spec => []LockInv
<1>1. Init => LockInv
  BY DEF Init, LockInv, Writers
<1>2. JInv /\ LockInv /\ [Next]_vars => LockInv'
  BY StepLockInv
<1>3. QED
  BY <1>1, <1>2, AlwaysJInv, PTL DEF Spec

-----------------------------------------------------------------------------
(* The jobs implement Notify. *)

(* What Single puts for pc and run. *)
barPc == IF ~InRun THEN "idle"
         ELSE IF at[lock] \in {"sending", "saving"} THEN at[lock] ELSE "prepared"
barRun == IF InRun THEN ctx[lock] ELSE NoRun

(* Notify and the jobs decide by the same rules. *)
LEMMA SameNames ==
  /\ Single!ActionNone = ActionNone /\ Single!ActionSendAlert = ActionSendAlert
  /\ Single!ActionSendRecovery = ActionSendRecovery
  /\ Single!StatusAlert = StatusAlert /\ Single!StatusOK = StatusOK
  /\ Single!ColdStart = ColdStart /\ Single!NoRun = NoRun /\ Single!NoMail = NoMail
BY DEF Single!ActionNone, ActionNone, Single!ActionSendAlert, ActionSendAlert,
       Single!ActionSendRecovery, ActionSendRecovery, Single!StatusAlert, StatusAlert,
       Single!StatusOK, StatusOK, Single!StatusEmpty, StatusEmpty,
       Single!ColdStart, ColdStart, Single!NoRun, NoRun, Single!NoMail, NoMail

LEMMA SameOlder == ASSUME NEW s PROVE Single!Older(s) = Older(s)
BY DEF Single!Older, Older, Single!Bump, Bump

LEMMA SameContext ==
  ASSUME NEW raw, NEW prev
  PROVE  Single!ContextOf(raw, prev) = ContextOf(raw, prev)
BY SameNames
DEF Single!ContextOf, ContextOf, Single!Filtered, Filtered, Single!NextPending, NextPending,
    Single!NewCount, NewCount, Single!NewAge, NewAge, Single!Fresh, Fresh,
    Single!UpdateRecoveryStreak, UpdateRecoveryStreak, Single!Bump, Bump

LEMMA SameMailSig ==
  ASSUME NEW action, NEW items
  PROVE  Single!MailSig(action, items) = MailSig(action, items)
BY SameNames DEF Single!MailSig, MailSig, Single!Signature, Signature

LEMMA SameAction ==
  ASSUME NEW prev, NEW items, NEW rawEmpty, NEW streak
  PROVE  Single!DispatchAction(prev, items, rawEmpty, streak)
           = DispatchAction(prev, items, rawEmpty, streak)
BY SameNames
DEF Single!DispatchAction, DispatchAction, Single!Gated, Gated, Single!Decide, Decide,
    Single!Signature, Signature

LEMMA SameStateAfter ==
  ASSUME NEW action, NEW prev, NEW items, NEW pending, NEW streak
  PROVE  Single!StateAfter(action, prev, items, pending, streak)
           = StateAfter(action, prev, items, pending, streak)
BY SameNames, SameMailSig DEF Single!StateAfter, StateAfter

(* A stage change that Notify does not see. *)
LEMMA GotoUnseen ==
  ASSUME JInv, NEW w \in Writers, NEW stage, Goto(w, stage),
         UNCHANGED <<notifies, ctx, lock>>,
         ~notifies[w] \/ {at[w], stage} \cap {"sending", "saving"} = {}
  PROVE  UNCHANGED <<barPc, barRun>>
<1>1. \A v \in Writers : at'[v] = IF v = w THEN stage ELSE at[v]
  BY DEF Goto, JInv, JTypeOK
<1>2. lock # Nobody => lock \in Writers
  BY DEF JInv, JTypeOK, Writers
<1>3. InRun' = InRun
  BY DEF InRun
<1>4. QED
  BY <1>1, <1>2, <1>3 DEF barPc, barRun, InRun

(* The end of a process ends the run of Notify if it is past Prepare, and  *)
(* is not seen otherwise.                                                  *)
LEMMA ExitEndsRun ==
  ASSUME JInv, LockInv, NEW w \in Writers, Exit(w), at[w] # "off"
  PROVE  IF notifies[w]
         THEN w \in Jobs /\ lock = w /\ InRun /\ barPc' = "idle" /\ barRun' = NoRun
         ELSE UNCHANGED <<barPc, barRun>>
<1>1. w # Nobody /\ (w \in Jobs => lock = w)
  BY JobsAssumption DEF LockInv
<1>2. CASE notifies[w]
  <2>1. w \in Jobs /\ lock = w /\ InRun /\ lock' = Nobody
    BY <1>1, <1>2, ExitEffect DEF InRun, JInv, StageInv
  <2>2. QED
    BY <1>2, <2>1 DEF barPc, barRun, InRun
<1>3. CASE ~notifies[w] /\ lock = w
  <2>1. ~InRun /\ lock' = Nobody
    BY <1>3, ExitEffect DEF InRun, JInv
  <2>2. QED
    BY <1>3, <2>1 DEF barPc, barRun, InRun
<1>4. CASE ~notifies[w] /\ lock # w
  <2>1. lock' = lock
    BY <1>4, ExitEffect DEF JInv
  <2>2. lock # Nobody => /\ lock \in Jobs /\ lock \in Writers /\ at'[lock] = at[lock]
                         /\ notifies'[lock] = notifies[lock] /\ ctx'[lock] = ctx[lock]
    BY <1>4, ExitEffect DEF JInv, JTypeOK, Writers
  <2>3. QED
    BY <1>4, <2>1, <2>2 DEF barPc, barRun, InRun
<1>5. QED
  BY <1>2, <1>3, <1>4

(* While it notifies, the job with the lock is the run. *)
LEMMA JobIsRun ==
  ASSUME JInv, LockInv, NEW j \in Jobs, notifies[j]
  PROVE  /\ lock = j /\ lock # Nobody /\ InRun /\ barRun = ctx[j]
         /\ barPc = IF at[j] \in {"sending", "saving"} THEN at[j] ELSE "prepared"
<1>1. j \in Writers /\ j # Nobody
  BY JobsAssumption DEF Writers
<1>2. at[j] # "off"
  BY <1>1 DEF JInv, StageInv, Writing, Dispatching
<1>3. QED
  BY <1>1, <1>2 DEF LockInv, InRun, barRun, barPc

LEMMA JobRefines ==
  ASSUME JInv, LockInv, NEW j \in Jobs, JobStep(j), ~LockMayFail
  PROVE  [Single!Next]_(Single!vars)
<1>0. j \in Writers /\ j # Nobody
  BY JobsAssumption DEF Writers
<1>1. CASE Acquire(j)
  <2>1. ~notifies[j]
    BY <1>0, <1>1 DEF Acquire, JInv, StageInv, Writing, Dispatching
  <2>2. ~InRun /\ ~InRun'
    BY <1>1, <2>1 DEF Acquire, InRun
  <2>3. QED
    BY <1>1, <2>2 DEF Acquire, Single!vars, state
<1>2. CASE AcquireFails(j)
  BY <1>2 DEF AcquireFails
<1>3. CASE Crash(j)
  <2>1. CASE notifies[j]
    <3>1. barPc # "idle" /\ barPc' = "idle" /\ barRun' = NoRun
      BY <1>0, <1>3, <2>1, JobIsRun, ExitEndsRun DEF Crash
    <3>2. barPc = "saving" /\ barRun.action # ActionNone => "unrecorded" \in Faults
      BY <1>3, <2>1, JobIsRun DEF Crash
    <3>3. Single!Crash
      BY <1>3, <3>1, <3>2, SameNames
      DEF Crash, Single!Crash, Single!EndRun, Single!NothingUnrecorded, barPc, barRun, state
    <3>4. QED
      BY <3>3 DEF Single!Next
  <2>2. CASE ~notifies[j]
    <3>1. UNCHANGED <<barPc, barRun>>
      BY <1>0, <1>3, <2>2, ExitEndsRun DEF Crash
    <3>2. QED
      BY <1>3, <3>1 DEF Crash, Single!vars, barPc, barRun, state
  <2>3. QED
    BY <2>1, <2>2
<1>4. CASE PrepareOff(j)
  <2>1. UNCHANGED <<barPc, barRun>>
    BY <1>0, <1>4, GotoUnseen DEF PrepareOff
  <2>2. QED
    BY <1>4, <2>1 DEF PrepareOff, Single!vars, barPc, barRun, state
<1>5. ASSUME NEW raw \in SUBSET Items, Prepare(j, raw)
      PROVE  [Single!Next]_(Single!vars)
  <2>1. lock = j /\ ~notifies[j]
    BY <1>0, <1>5 DEF Prepare, LockInv, JInv, StageInv, Writing, Dispatching
  <2>2. ~InRun /\ barPc = "idle"
    BY <2>1 DEF InRun, barPc
  <2>3. PICK prev \in Loaded : ctx' = [ctx EXCEPT ![j] = ContextOf(raw, prev)]
    BY <1>5 DEF Prepare
  <2>4. lock' = j /\ notifies'[j] /\ at'[j] = "prepared" /\ ctx'[j] = ContextOf(raw, prev)
    BY <1>0, <1>5, <2>1, <2>3 DEF Prepare, Goto, JInv, JTypeOK
  <2>5. InRun' /\ barPc' = "prepared" /\ barRun' = ContextOf(raw, prev)
    BY <1>0, <2>4 DEF InRun, barPc, barRun
  <2>6. Single!Prepare(raw)
    BY <1>5, <2>2, <2>3, <2>5, SameNames, SameContext
    DEF Prepare, Single!Prepare, Single!Loaded, Loaded, barPc, barRun
  <2>7. QED
    BY <2>6 DEF Single!Next
<1>6. CASE Dispatch(j)
  <2> DEFINE act == DispatchAction(ctx[j].prev, ctx[j].filtered, ctx[j].rawEmpty,
                                   ctx[j].newStreak)
  <2>1. notifies[j]
    BY <1>0, <1>6 DEF Dispatch, JInv, StageInv, Dispatching
  <2>2. lock = j /\ InRun /\ barPc = "prepared" /\ barRun = ctx[j]
    BY <1>6, <2>1, JobIsRun DEF Dispatch
  <2>3. /\ ctx' = [ctx EXCEPT ![j].action = act]
        /\ at' = [at EXCEPT ![j] = IF act = ActionNone THEN "saving" ELSE "sending"]
        /\ lock' = lock /\ notifies' = notifies
    BY <1>6 DEF Dispatch, Goto
  <2> HIDE DEF act
  <2>4. /\ ctx'[j] = [ctx[j] EXCEPT !.action = act]
        /\ at'[j] = IF act = ActionNone THEN "saving" ELSE "sending"
    BY <1>0, <2>3 DEF JInv, JTypeOK
  <2>5. InRun' /\ barRun' = [barRun EXCEPT !.action = act]
    BY <1>0, <2>1, <2>2, <2>3, <2>4 DEF InRun, barRun
  <2>6. barPc' = IF act = ActionNone THEN "saving" ELSE "sending"
    BY <2>2, <2>3, <2>4, <2>5 DEF barPc
  <2>7. act = DispatchAction(barRun.prev, barRun.filtered, barRun.rawEmpty, barRun.newStreak)
    BY <2>2 DEF act
  <2>8. UNCHANGED <<file, inbox, gap>>
    BY <1>6 DEF Dispatch, state
  <2>9. Single!Dispatch
    BY <2>2, <2>5, <2>6, <2>7, <2>8, SameNames, SameAction DEF Single!Dispatch, barPc, barRun
  <2>10. QED
    BY <2>9 DEF Single!Next
<1>7. CASE SendOK(j)
  <2>1. notifies[j]
    BY <1>0, <1>7 DEF SendOK, JInv, StageInv, Dispatching
  <2>2. lock = j /\ InRun /\ barPc = "sending" /\ barRun = ctx[j]
    BY <1>7, <2>1, JobIsRun DEF SendOK
  <2>3. lock' = lock /\ notifies' = notifies /\ ctx' = ctx /\ at'[j] = "saving"
    BY <1>0, <1>7 DEF SendOK, Goto, JInv, JTypeOK
  <2>4. InRun' /\ barPc' = "saving" /\ barRun' = barRun
    BY <1>0, <2>1, <2>2, <2>3 DEF InRun, barPc, barRun
  <2>5. inbox' = [kind |-> barRun.action, sig |-> MailSig(barRun.action, barRun.filtered),
                  age |-> 0]
    BY <1>7, <2>2 DEF SendOK, Deliver, MailOf
  <2>6. Single!SendOK
    BY <1>7, <2>2, <2>4, <2>5, SameMailSig
    DEF SendOK, Single!SendOK, Single!Deliver, barPc, barRun
  <2>7. QED
    BY <2>6 DEF Single!Next
<1>8. CASE SendFails(j)
  <2>1. notifies[j]
    BY <1>0, <1>8 DEF SendFails, JInv, StageInv, Dispatching
  <2>2. barPc = "sending" /\ barRun = ctx[j]
    BY <1>8, <2>1, JobIsRun DEF SendFails
  <2>3. barPc' = "idle" /\ barRun' = NoRun
    BY <1>0, <1>8, <2>1, ExitEndsRun DEF SendFails
  <2>4. CASE "send" \in Faults /\ UNCHANGED <<inbox, delivered>>
    <3>1. Single!SendFails
      BY <1>8, <2>2, <2>3, <2>4, SameNames
      DEF SendFails, Single!SendFails, Single!EndRun, barPc, barRun
    <3>2. QED
      BY <3>1 DEF Single!Next
  <2>5. CASE "unrecorded" \in Faults /\ Deliver(j)
    <3>1. inbox' = [kind |-> barRun.action, sig |-> MailSig(barRun.action, barRun.filtered),
                    age |-> 0]
      BY <2>2, <2>5 DEF Deliver, MailOf
    <3>2. Single!SendFailsLate
      BY <1>8, <2>2, <2>3, <2>5, <3>1, SameNames, SameMailSig
      DEF SendFails, Single!SendFailsLate, Single!Deliver, Single!EndRun, barPc, barRun
    <3>3. QED
      BY <3>2 DEF Single!Next
  <2>6. QED
    BY <1>8, <2>4, <2>5 DEF SendFails
<1>9. CASE Save(j) \/ SaveFails(j)
  <2>1. notifies[j]
    BY <1>0, <1>9 DEF Save, SaveFails, JInv, StageInv, Dispatching
  <2>2. barPc = "saving" /\ barRun = ctx[j]
    BY <1>9, <2>1, JobIsRun DEF Save, SaveFails
  <2>3. barPc' = "idle" /\ barRun' = NoRun
    BY <1>0, <1>9, <2>1, ExitEndsRun DEF Save, SaveFails
  <2>4. CASE Save(j)
    <3>1. Single!Save
      BY <2>2, <2>3, <2>4, SameNames, SameStateAfter
      DEF Save, Single!Save, Single!EndRun, barPc, barRun
    <3>2. QED
      BY <3>1 DEF Single!Next
  <2>5. CASE SaveFails(j)
    <3>1. Single!SaveFails
      BY <2>2, <2>3, <2>5, SameNames
      DEF SaveFails, Single!SaveFails, Single!EndRun, Single!NothingUnrecorded,
          barPc, barRun, state
    <3>2. QED
      BY <3>1 DEF Single!Next
  <2>6. QED
    BY <1>9, <2>4, <2>5
<1>10. QED
  BY <1>1, <1>2, <1>3, <1>4, <1>5, <1>6, <1>7, <1>8, <1>9 DEF JobStep

LEMMA UnseenStutters ==
  ASSUME UNCHANGED <<barPc, barRun>>, UNCHANGED state
  PROVE  UNCHANGED Single!vars
BY DEF Single!vars, barPc, barRun, state

LEMMA WriterRefines ==
  ASSUME JInv, LockInv, NEW w \in Writers, WriterStep(w)
  PROVE  [Single!Next]_(Single!vars)
<1>0. at[w] \in Collecting => ~notifies[w]
  BY DEF JInv, StageInv, Collecting, Writing, Dispatching
<1>1. CASE RunFails(w)
  <2>1. UNCHANGED <<barPc, barRun>>
    BY <1>0, <1>1, ExitEndsRun DEF RunFails, Collecting
  <2>2. QED
    BY <1>1, <2>1, UnseenStutters DEF RunFails
<1>2. CASE NextPhase(w)
  <2>1. PICK stage : Goto(w, stage)
    BY <1>2 DEF NextPhase
  <2>2. UNCHANGED <<barPc, barRun>>
    BY <1>0, <1>2, <2>1, GotoUnseen DEF NextPhase, Collecting
  <2>3. QED
    BY <1>2, <2>2, UnseenStutters DEF NextPhase
<1>3. CASE BeginHTML(w) \/ EndHTML(w)
  <2>1. UNCHANGED <<barPc, barRun>>
    BY <1>3, GotoUnseen DEF BeginHTML, EndHTML
  <2>2. QED
    BY <1>3, <2>1, UnseenStutters DEF BeginHTML, EndHTML
<1>4. CASE WriteJSON(w)
  <2>1. UNCHANGED <<barPc, barRun>>
    BY <1>4, GotoUnseen, ExitEndsRun DEF WriteJSON
  <2>2. QED
    BY <1>4, <2>1, UnseenStutters DEF WriteJSON
<1>5. CASE WriteFails(w)
  <2>1. CASE notifies[w]
    <3>1. barPc = "prepared"
      BY <1>5, <2>1, JobIsRun DEF WriteFails, Writing, JInv, StageInv
    <3>2. barPc' = "idle" /\ barRun' = NoRun
      BY <1>5, <2>1, ExitEndsRun DEF WriteFails, Writing
    <3>3. Single!WriteFails
      BY <1>5, <3>1, <3>2, SameNames
      DEF WriteFails, Single!WriteFails, Single!EndRun, barPc, barRun, state
    <3>4. QED
      BY <3>3 DEF Single!Next
  <2>2. CASE ~notifies[w]
    <3>1. UNCHANGED <<barPc, barRun>>
      BY <1>5, <2>2, ExitEndsRun DEF WriteFails, Writing
    <3>2. QED
      BY <1>5, <3>1, UnseenStutters DEF WriteFails
  <2>3. QED
    BY <2>1, <2>2
<1>6. QED
  BY <1>1, <1>2, <1>3, <1>4, <1>5 DEF WriterStep

LEMMA PageRefines ==
  ASSUME JInv, LockInv, NEW p \in Pages, PageStep(p)
  PROVE  [Single!Next]_(Single!vars)
<1>0. p \in Writers /\ ~notifies[p]
  BY JobsAssumption DEF Writers, JInv, StageInv
<1>1. CASE OpenPage(p) \/ PageCollected(p)
  <2>1. UNCHANGED <<barPc, barRun>>
    BY <1>0, <1>1, GotoUnseen DEF OpenPage, PageCollected
  <2>2. QED
    BY <1>1, <2>1, UnseenStutters DEF OpenPage, PageCollected
<1>2. CASE RunCancelled(p)
  <2>1. UNCHANGED <<barPc, barRun>>
    BY <1>0, <1>2, ExitEndsRun DEF RunCancelled
  <2>2. QED
    BY <1>2, <2>1, UnseenStutters DEF RunCancelled
<1>3. QED
  BY <1>1, <1>2 DEF PageStep

LEMMA StepRefines ==
  ASSUME ~LockMayFail, JInv, LockInv, [Next]_vars
  PROVE  [Single!Next]_(Single!vars)
<1>1. CASE Escape \/ UNCHANGED vars
  <2>1. UNCHANGED <<barPc, barRun>> /\ UNCHANGED state
    BY <1>1 DEF Escape, vars, barPc, barRun, InRun
  <2>2. QED
    BY <2>1, UnseenStutters
<1>2. CASE Tick
  <2>1. ~InRun
    BY <1>2 DEF Tick, InRun, JInv, JTypeOK
  <2>2. barPc = "idle" /\ UNCHANGED <<barPc, barRun>>
    BY <1>2, <2>1 DEF Tick, barPc, barRun, InRun
  <2>3. Single!Tick
    BY <1>2, <2>2, SameOlder
    DEF Tick, Single!Tick, Single!Bump, Bump, barPc, barRun
  <2>4. QED
    BY <2>3 DEF Single!Next
<1>3. QED
  BY <1>1, <1>2, JobRefines, WriterRefines, PageRefines DEF Next

(* Where the lock file is usable, any number of jobs behaves as the one    *)
(* sequence of runs of Notify, whatever the jobs, the pages and the faults *)
(* do: what is proved about Notify holds for the processes.                *)
THEOREM LockMakesSingleRuns ==
  ASSUME ~LockMayFail
  PROVE  Spec => JobsAreSingleRuns
<1>1. Init => Single!Init
  BY SameNames DEF Init, Single!Init, InRun
<1>2. JInv /\ LockInv /\ [Next]_vars => [Single!Next]_(Single!vars)
  BY StepRefines
<1>3. QED
  BY <1>1, <1>2, AlwaysJInv, AlwaysLockInv, PTL DEF Spec, JobsAreSingleRuns, Single!Spec

-----------------------------------------------------------------------------
(* The mail of a run. *)

Intruders == IF Pages = {} THEN {} ELSE Pages \cup {Nobody}

(* What a job finds in the report files at each of its stages. *)
ReportInv ==
  \A j \in Jobs :
    /\ at[j] = "html" => \/ html = [by |-> j, whole |-> FALSE]
                         \/ html.by \in Intruders
    /\ at[j] \in {"json"} \cup Dispatching => html = Report(j) \/ html.by \in Intruders
    /\ at[j] \in Dispatching => json \in {j} \cup Intruders
    /\ at[j] \in {"sending", "saving"} => body[j] \in {j} \cup Intruders

LEMMA GotoAt ==
  ASSUME JTypeOK, NEW w \in Writers, NEW stage, Goto(w, stage)
  PROVE  at'[w] = stage /\ \A v \in Writers \ {w} : at'[v] = at[v]
BY DEF Goto, JTypeOK

(* An invariant of the job with the lock only has to hold of it: the       *)
(* others are off before and after its step.                               *)
LEMMA OneJobReport ==
  ASSUME LockInv, LockInv', NEW j \in Jobs, lock = j \/ lock' = j, lock' \in {j, Nobody},
         /\ at'[j] = "html" => \/ html' = [by |-> j, whole |-> FALSE]
                               \/ html'.by \in Intruders
         /\ at'[j] \in {"json"} \cup Dispatching => html' = Report(j) \/ html'.by \in Intruders
         /\ at'[j] \in Dispatching => json' \in {j} \cup Intruders
         /\ at'[j] \in {"sending", "saving"} => body'[j] \in {j} \cup Intruders
  PROVE  ReportInv'
<1>1. \A k \in Jobs \ {j} : at'[k] = "off"
  BY JobsAssumption DEF LockInv, Writers
<1>2. QED
  BY <1>1 DEF ReportInv, Dispatching, Report

LEMMA JobReport ==
  ASSUME ~LockMayFail, JInv, JInv', LockInv, LockInv', ReportInv,
         NEW j \in Jobs, JobStep(j) \/ WriterStep(j)
  PROVE  ReportInv'
<1> USE DEF JInv
<1>0. j \in Writers /\ (at[j] # "off" => lock = j) /\ j # Nobody
  BY JobsAssumption DEF Writers, LockInv
<1>1. CASE Exit(j) /\ at[j] # "off"
  <2>1. at'[j] = "off" /\ lock = j /\ lock' = Nobody
    BY <1>0, <1>1, ExitEffect
  <2>2. QED
    BY <2>1, OneJobReport DEF Dispatching
<1>2. CASE Acquire(j) \/ PrepareOff(j) \/ NextPhase(j) \/ \E raw \in SUBSET Items : Prepare(j, raw)
  <2>1. at'[j] \in {"phase1", "phase2", "phase3", "prepared"} /\ lock' = j
    BY <1>0, <1>2, GotoAt DEF Acquire, PrepareOff, NextPhase, Prepare
  <2>2. QED
    BY <2>1, OneJobReport DEF Dispatching
<1>3. CASE BeginHTML(j)
  <2>1. at'[j] = "html" /\ lock' = j /\ html' = [by |-> j, whole |-> FALSE]
    BY <1>0, <1>3, GotoAt DEF BeginHTML, Writing
  <2>2. QED
    BY <2>1, OneJobReport DEF Dispatching
<1>4. CASE EndHTML(j)
  <2>1. at'[j] = "json" /\ lock' = j /\ at[j] = "html"
    BY <1>0, <1>4, GotoAt DEF EndHTML
  <2>2. html' = Report(j) \/ html'.by \in Intruders
    <3>1. CASE html' = Report(j)
      BY <3>1
    <3>2. CASE html.whole /\ html' = [by |-> Nobody, whole |-> FALSE]
      <4>1. html.by \in Intruders
        BY <2>1, <3>2 DEF ReportInv
      <4>2. Nobody \in Intruders
        BY <4>1 DEF Intruders
      <4>3. QED
        BY <3>2, <4>2
    <3>3. QED
      BY <1>4, <3>1, <3>2 DEF EndHTML
  <2>3. QED
    BY <2>1, <2>2, OneJobReport DEF Dispatching
<1>5. CASE WriteJSON(j) /\ notifies[j]
  <2>1. at'[j] = "written" /\ lock' = j /\ at[j] = "json" /\ html' = html /\ json' = j
    BY <1>0, <1>5, GotoAt DEF WriteJSON
  <2>2. html = Report(j) \/ html.by \in Intruders
    BY <2>1 DEF ReportInv
  <2>3. QED
    BY <2>1, <2>2, OneJobReport DEF Dispatching, Report
<1>6. CASE Dispatch(j)
  <2>1. /\ at'[j] \in {"sending", "saving"} /\ lock' = j /\ at[j] = "written"
        /\ html' = html /\ json' = json
    BY <1>0, <1>6, GotoAt DEF Dispatch, report
  <2>2. /\ html = Report(j) \/ html.by \in Intruders
        /\ json \in {j} \cup Intruders
    BY <2>1 DEF ReportInv, Dispatching
  <2>3. body'[j] = IF html.whole THEN html.by ELSE Nobody
    BY <1>6 DEF Dispatch, JTypeOK
  <2>4. CASE html = Report(j)
    BY <2>1, <2>2, <2>3, <2>4, OneJobReport DEF Report
  <2>5. CASE html.by \in Intruders
    <3>1. Nobody \in Intruders
      BY <2>5 DEF Intruders
    <3>2. QED
      BY <2>1, <2>2, <2>3, <2>5, <3>1, OneJobReport
  <2>6. QED
    BY <2>2, <2>4, <2>5
<1>7. CASE SendOK(j)
  <2>1. /\ at'[j] = "saving" /\ lock' = j /\ at[j] = "sending"
        /\ html' = html /\ json' = json /\ body' = body
    BY <1>0, <1>7, GotoAt DEF SendOK, report
  <2>2. /\ html = Report(j) \/ html.by \in Intruders
        /\ json \in {j} \cup Intruders /\ body[j] \in {j} \cup Intruders
    BY <2>1 DEF ReportInv, Dispatching
  <2>3. QED
    BY <2>1, <2>2, OneJobReport DEF Report
<1>8. QED
  <2>1. \/ Acquire(j) \/ PrepareOff(j) \/ NextPhase(j) \/ BeginHTML(j) \/ EndHTML(j)
        \/ Dispatch(j) \/ SendOK(j) \/ \E raw \in SUBSET Items : Prepare(j, raw)
        \/ WriteJSON(j) /\ notifies[j]
        \/ Exit(j) /\ at[j] # "off"
    BY DEF JobStep, WriterStep, AcquireFails, Crash, SendFails, Save, SaveFails, RunFails,
           WriteFails, WriteJSON, Writing
  <2>2. QED
    BY <2>1, <1>1, <1>2, <1>3, <1>4, <1>5, <1>6, <1>7

(* What a page writes is the intruder's. *)
LEMMA PageReport ==
  ASSUME JInv, ReportInv, NEW p \in Pages, PageStep(p) \/ WriterStep(p)
  PROVE  ReportInv'
<1> USE DEF JInv
<1>0. p \in Writers /\ ~notifies[p] /\ p \in Intruders /\ Nobody \in Intruders
  BY JobsAssumption DEF Writers, StageInv, Intruders
<1>1. \A j \in Jobs : at'[j] = at[j] /\ body'[j] = body[j]
  <2>1. \A j \in Jobs : j \in Writers \ {p}
    BY JobsAssumption DEF Writers
  <2>2. body' = body \/ Exit(p)
    BY <1>0 DEF PageStep, WriterStep, OpenPage, RunCancelled, PageCollected, RunFails, NextPhase,
                BeginHTML, EndHTML, WriteJSON, WriteFails
  <2>3. Exit(p) \/ \E stage : Goto(p, stage)
    BY <1>0 DEF PageStep, WriterStep, OpenPage, RunCancelled, PageCollected, RunFails, NextPhase,
                BeginHTML, EndHTML, WriteJSON, WriteFails
  <2>4. \A j \in Jobs : at'[j] = at[j]
    BY <1>0, <2>1, <2>3, ExitEffect, GotoAt
  <2>5. \A j \in Jobs : body'[j] = body[j]
    BY <1>0, <2>1, <2>2, ExitEffect
  <2>6. QED
    BY <2>4, <2>5
<1>2. html' = html \/ html'.by \in Intruders
  BY <1>0 DEF PageStep, WriterStep, OpenPage, RunCancelled, PageCollected, RunFails, NextPhase,
              BeginHTML, EndHTML, WriteJSON, WriteFails, Report, report
<1>3. json' = json \/ json' \in Intruders
  BY <1>0 DEF PageStep, WriterStep, OpenPage, RunCancelled, PageCollected, RunFails, NextPhase,
              BeginHTML, EndHTML, WriteJSON, WriteFails, report
<1>4. QED
  BY <1>1, <1>2, <1>3 DEF ReportInv, Report

LEMMA StepReport ==
  ASSUME ~LockMayFail, JInv, JInv', LockInv, LockInv', ReportInv, [Next]_vars
  PROVE  ReportInv'
<1>1. CASE Escape \/ Tick \/ UNCHANGED vars
  BY <1>1 DEF Escape, Tick, vars, report, ReportInv, Report
<1>2. QED
  BY <1>1, JobReport, PageReport DEF Next, Writers

(* A mail carries the report of the run that sends it, however many jobs   *)
(* there are, unless a page of WeTerm writes in between.                   *)
THEOREM MailsOfTheirRuns ==
  ASSUME ~LockMayFail
  PROVE  Spec => []MailIsOfItsRun
<1>1. Init => ReportInv
  BY DEF Init, ReportInv, Dispatching, Writers
<1>2. JInv /\ JInv' /\ LockInv /\ LockInv' /\ ReportInv /\ [Next]_vars => ReportInv'
  BY StepReport
<1>3. ReportInv => MailIsOfItsRun
  BY DEF ReportInv, MailIsOfItsRun, Intruders, Dispatching
<1>4. QED
  BY <1>1, <1>2, <1>3, AlwaysJInv, AlwaysLockInv, PTL DEF Spec

-----------------------------------------------------------------------------
(* Without the lock. *)

(* The mail a state tells of is among these. *)
Told(s, mails) ==
  /\ s.status = StatusAlert => [kind |-> ActionSendAlert, sig |-> s.sig] \in mails
  /\ s.status = StatusOK => [kind |-> ActionSendRecovery, sig |-> {}] \in mails

(* Every state that is read, carried along or about to be saved tells of a *)
(* mail that was delivered.                                                *)
ToldInv ==
  /\ Told(file, delivered)
  /\ \A j \in Jobs : /\ Told(ctx[j].prev, delivered)
                     /\ at[j] = "saving" /\ ctx[j].action # ActionNone => MailOf(j) \in delivered

LEMMA ColdStartTold == ASSUME NEW mails PROVE Told(ColdStart, mails) /\ Told(NoRun.prev, mails)
BY DEF Told, ColdStart, NoRun, StatusEmpty, StatusAlert, StatusOK

LEMMA ToldStays ==
  ASSUME NEW s, NEW mails, NEW more, Told(s, mails), mails \subseteq more
  PROVE  Told(s, more)
BY DEF Told

(* Mails are never taken back. *)
LEMMA DeliveredGrows ==
  ASSUME [Next]_vars
  PROVE  delivered \subseteq delivered'
BY DEF Next, JobStep, PageStep, WriterStep, Escape, Tick, vars, state, Acquire, AcquireFails,
       Crash, PrepareOff, Prepare, Dispatch, SendOK, SendFails, Deliver, Save, SaveFails,
       OpenPage, RunCancelled, PageCollected, RunFails, NextPhase, BeginHTML, EndHTML,
       WriteJSON, WriteFails

(* Each job goes on with what it has, or has nothing any more. *)
LEMMA ToldFrame ==
  ASSUME ToldInv, delivered \subseteq delivered', file' = file,
         \A j \in Jobs : \/ ctx'[j] = ctx[j] /\ at'[j] = at[j]
                         \/ ctx'[j].prev \in {ctx[j].prev, NoRun.prev} /\ at'[j] # "saving"
  PROVE  ToldInv'
<1>1. Told(file', delivered')
  BY ToldStays DEF ToldInv
<1>2. ASSUME NEW j \in Jobs
      PROVE  Told(ctx'[j].prev, delivered')
  BY ToldStays, ColdStartTold DEF ToldInv
<1>3. ASSUME NEW j \in Jobs, at'[j] = "saving", ctx'[j].action # ActionNone
      PROVE  MailOf(j)' \in delivered'
  BY <1>3 DEF ToldInv, MailOf
<1>4. QED
  BY <1>1, <1>2, <1>3 DEF ToldInv

LEMMA ExitTold ==
  ASSUME JInv, ToldInv, NEW w \in Writers, Exit(w), file' = file, delivered \subseteq delivered'
  PROVE  ToldInv'
<1>1. \A j \in Jobs : \/ ctx'[j] = ctx[j] /\ at'[j] = at[j]
                      \/ ctx'[j].prev \in {ctx[j].prev, NoRun.prev} /\ at'[j] # "saving"
  BY ExitEffect DEF JInv, Writers
<1>2. QED
  BY <1>1, ToldFrame

LEMMA GotoTold ==
  ASSUME JInv, ToldInv, NEW w \in Writers, NEW stage, Goto(w, stage), stage # "saving",
         ctx' = ctx, file' = file, delivered' = delivered
  PROVE  ToldInv'
<1>1. \A j \in Jobs : \/ ctx'[j] = ctx[j] /\ at'[j] = at[j]
                      \/ ctx'[j].prev \in {ctx[j].prev, NoRun.prev} /\ at'[j] # "saving"
  BY GotoAt DEF JInv, Writers
<1>2. QED
  BY <1>1, ToldFrame

LEMMA StepTold ==
  ASSUME JInv, ToldInv, [Next]_vars
  PROVE  ToldInv'
<1> USE DEF JInv
<1>0. delivered \subseteq delivered' /\ Jobs \subseteq Writers
  BY DeliveredGrows DEF Writers
<1>1. ASSUME NEW w \in Writers, WriterStep(w) \/ PageStep(w)
      PROVE  ToldInv'
  <2>1. CASE Exit(w)
    BY <1>0, <1>1, <2>1, ExitTold
    DEF WriterStep, PageStep, RunFails, NextPhase, BeginHTML, EndHTML, WriteJSON, WriteFails,
        OpenPage, RunCancelled, PageCollected, state
  <2>2. CASE ~Exit(w)
    BY <1>1, <2>2, GotoTold
    DEF WriterStep, PageStep, RunFails, NextPhase, BeginHTML, EndHTML, WriteJSON, WriteFails,
        OpenPage, RunCancelled, PageCollected, state
  <2>3. QED
    BY <2>1, <2>2
<1>2. ASSUME NEW j \in Jobs, Acquire(j) \/ AcquireFails(j) \/ PrepareOff(j)
      PROVE  ToldInv'
  BY <1>0, <1>2, GotoTold DEF Acquire, AcquireFails, PrepareOff, state
<1>3. ASSUME NEW j \in Jobs, Crash(j) \/ SendFails(j) \/ SaveFails(j)
      PROVE  ToldInv'
  BY <1>0, <1>3, ExitTold DEF Crash, SendFails, SaveFails, state
<1>4. ASSUME NEW j \in Jobs, NEW raw \in SUBSET Items, Prepare(j, raw)
      PROVE  ToldInv'
  <2>1. PICK prev \in Loaded : ctx' = [ctx EXCEPT ![j] = ContextOf(raw, prev)]
    BY <1>4 DEF Prepare
  <2>2. Told(prev, delivered)
    BY ColdStartTold DEF Loaded, ToldInv
  <2>3. ctx'[j].prev = prev /\ \A k \in Jobs \ {j} : ctx'[k] = ctx[k]
    BY <2>1 DEF ContextOf, JTypeOK
  <2>4. at'[j] = "prepared" /\ \A k \in Jobs \ {j} : at'[k] = at[k]
    BY <1>0, <1>4, GotoAt DEF Prepare
  <2>5. UNCHANGED <<file, delivered>>
    BY <1>4 DEF Prepare
  <2>6. QED
    BY <2>2, <2>3, <2>4, <2>5 DEF ToldInv, MailOf
<1>5. ASSUME NEW j \in Jobs, Dispatch(j)
      PROVE  ToldInv'
  <2> DEFINE act == DispatchAction(ctx[j].prev, ctx[j].filtered, ctx[j].rawEmpty,
                                   ctx[j].newStreak)
  <2>1. ctx' = [ctx EXCEPT ![j].action = act] /\ UNCHANGED <<file, delivered>>
    BY <1>5 DEF Dispatch, state
  <2>2. at' = [at EXCEPT ![j] = IF act = ActionNone THEN "saving" ELSE "sending"]
    BY <1>5 DEF Dispatch, Goto
  <2> HIDE DEF act
  <2>3. ctx'[j].prev = ctx[j].prev /\ ctx'[j].action = act
    BY <2>1 DEF JTypeOK, Context
  <2>4. \A k \in Jobs \ {j} : ctx'[k] = ctx[k] /\ at'[k] = at[k]
    BY <1>0, <2>1, <2>2 DEF JTypeOK
  <2>5. at'[j] = "saving" => act = ActionNone
    BY <1>0, <2>2 DEF JTypeOK
  <2>6. UNCHANGED <<file, delivered>>
    BY <2>1
  <2>7. ASSUME NEW k \in Jobs
        PROVE  /\ Told(ctx'[k].prev, delivered)
               /\ at'[k] = "saving" /\ ctx'[k].action # ActionNone => MailOf(k)' \in delivered
    <3>1. CASE k = j
      BY <2>3, <2>5, <3>1 DEF ToldInv
    <3>2. CASE k # j
      BY <2>4, <3>2 DEF ToldInv, MailOf
    <3>3. QED
      BY <3>1, <3>2
  <2>8. QED
    BY <2>6, <2>7 DEF ToldInv
<1>6. ASSUME NEW j \in Jobs, SendOK(j)
      PROVE  ToldInv'
  <2>1. \A k \in Jobs \ {j} : at'[k] = at[k]
    BY <1>0, <1>6, GotoAt DEF SendOK
  <2>2. ctx' = ctx /\ file' = file /\ MailOf(j) \in delivered'
    BY <1>6 DEF SendOK, Deliver
  <2>3. Told(file', delivered') /\ \A k \in Jobs : Told(ctx'[k].prev, delivered')
    BY <1>0, <2>2, ToldStays DEF ToldInv
  <2>4. \A k \in Jobs : at'[k] = "saving" /\ ctx[k].action # ActionNone =>
                          MailOf(k) \in delivered'
    BY <1>0, <2>1, <2>2 DEF ToldInv
  <2>5. QED
    BY <2>2, <2>3, <2>4 DEF ToldInv, MailOf
<1>7. ASSUME NEW j \in Jobs, Save(j)
      PROVE  ToldInv'
  <2>1. Exit(j) /\ delivered' = delivered /\ at[j] = "saving" /\ ctx[j] \in Context
    BY <1>7 DEF Save, JTypeOK
  <2>2. file' = StateAfter(ctx[j].action, ctx[j].prev, ctx[j].filtered,
                           ctx[j].nextPending, ctx[j].newStreak)
    BY <1>7 DEF Save
  <2>3. ctx[j].action \in Actions /\ ctx[j].prev \in State
    BY <2>1 DEF Context
  <2>4. Told(file', delivered)
    <3>1. CASE ctx[j].action = ActionNone
      <4>1. file'.status = ctx[j].prev.status /\ file'.sig = ctx[j].prev.sig
        BY <2>2, <2>3, <3>1, StateAfterNone
      <4>2. QED
        BY <4>1 DEF ToldInv, Told
    <3>2. CASE ctx[j].action # ActionNone
      <4>1. /\ file'.sig = MailSig(ctx[j].action, ctx[j].filtered)
            /\ file'.status = IF ctx[j].action = ActionSendAlert THEN StatusAlert ELSE StatusOK
        BY <2>2, <2>3, <3>2, StateAfterMail
      <4>2. [kind |-> ctx[j].action, sig |-> MailSig(ctx[j].action, ctx[j].filtered)]
              \in delivered
        BY <2>1, <3>2 DEF ToldInv, MailOf
      <4>3. CASE ctx[j].action = ActionSendAlert
        BY <4>1, <4>2, <4>3 DEF Told, StatusAlert, StatusOK
      <4>4. CASE ctx[j].action = ActionSendRecovery
        BY <4>1, <4>2, <4>4
        DEF Told, MailSig, ActionSendAlert, ActionSendRecovery, StatusAlert, StatusOK
      <4>5. QED
        BY <2>3, <3>2, <4>3, <4>4 DEF Actions
    <3>3. QED
      BY <3>1, <3>2
  <2>5. \A k \in Jobs : \/ ctx'[k] = ctx[k] /\ at'[k] = at[k]
                        \/ ctx'[k] = NoRun /\ at'[k] = "off"
    BY <1>0, <2>1, ExitEffect
  <2>6. QED
    BY <2>1, <2>4, <2>5, ColdStartTold DEF ToldInv, MailOf
<1>8. CASE Tick
  <2>1. file'.status = file.status /\ file'.sig = file.sig
    BY <1>8 DEF Tick, Older, JTypeOK, State
  <2>2. QED
    BY <1>8, <2>1 DEF Tick, ToldInv, Told, MailOf
<1>9. CASE Escape \/ UNCHANGED vars
  BY <1>9 DEF Escape, vars, state, ToldInv, MailOf
<1>10. QED
  BY <1>0, <1>1, <1>2, <1>3, <1>4, <1>5, <1>6, <1>7, <1>8, <1>9 DEF Next, JobStep, Writers

(* With the lock or without it, however many jobs overlap, state.json      *)
(* never tells of a mail that nobody got.                                  *)
THEOREM NoJobMakesUpAMail == Spec => []NoPhantomRecord
<1>1. Init => ToldInv
  BY ColdStartTold DEF Init, ToldInv, Writers
<1>2. JInv /\ ToldInv /\ [Next]_vars => ToldInv'
  BY StepTold
<1>3. ToldInv => NoPhantomRecord
  BY DEF ToldInv, Told, NoPhantomRecord
<1>4. QED
  BY <1>1, <1>2, <1>3, AlwaysJInv, PTL DEF Spec
=============================================================================
