------------------------- MODULE NotifyHistoryProofs -------------------------
(***************************************************************************)
(* Proofs about what state.json stands for: confirmation counters and      *)
(* claimed mails, related to the runs and the mails there really were.     *)
(* They hold whatever faults can happen.                                   *)
(***************************************************************************)
EXTENDS NotifyProofs

(* A step of the history is a step of Notify. *)
LEMMA HistoryRefinesNotify == HSpec => Spec
<1>1. HInit => Init
  BY DEF HInit
<1>2. [HNext]_hvars => [Next]_vars
  BY DEF HNext, HPrepare, HDispatch, HSendOK, HSendFails, HSendFailsLate, HSave, HOther,
         hvars, Next
<1>3. QED
  BY <1>1, <1>2, PTL DEF HSpec, Spec

LEMMA AlwaysHIInv == HSpec => []IInv
BY HistoryRefinesNotify, AlwaysIInv, PTL

-----------------------------------------------------------------------------
(* Counters. *)

StreaksTyped ==
  /\ cur \in SUBSET Items
  /\ recorded \in Streaks

(* A run in flight was computed by Prepare from the items it found. *)
RunOfCur ==
  pc # "idle" =>
    /\ run.filtered = Filtered(cur, run.prev.pending)
    /\ run.nextPending = NextPending(cur, run.prev.pending)
    /\ run.newStreak = UpdateRecoveryStreak(run.prev.streak, run.prev.status, run.rawEmpty)
    /\ run.rawEmpty => cur = {}

CounterInv == StreaksTyped /\ RunOfCur /\ CountersAreBacked

LEMMA ExtendType ==
  ASSUME NEW s \in Streaks, NEW raw \in SUBSET Items
  PROVE  Extend(s, raw) \in Streaks
<1>1. \A i \in Items : Bump(s.seen[i], ConsecutiveRuns) \in 0 .. ConsecutiveRuns
  BY BumpType, RulesAssumption DEF Streaks
<1>2. Bump(s.clean, ConsecutiveRuns) \in 0 .. ConsecutiveRuns
  BY BumpType, RulesAssumption DEF Streaks
<1>3. QED
  BY <1>1, <1>2, RulesAssumption DEF Extend, Streaks

(* The counters a run hands to the next one are backed once it is counted. *)
LEMMA NextPendingBacked ==
  ASSUME NEW s \in Streaks, NEW raw \in SUBSET Items, NEW p \in PendingMap,
         \A i \in DOMAIN p : p[i].count <= s.seen[i]
  PROVE  \A i \in DOMAIN NextPending(raw, p) :
           NextPending(raw, p)[i].count <= Extend(s, raw).seen[i]
<1> SUFFICES ASSUME NEW i \in raw \ Filtered(raw, p)
             PROVE  NewCount(i, p) <= Extend(s, raw).seen[i]
  BY DEF NextPending
<1>1. i \in Items /\ i \in raw /\ ~(NewCount(i, p) >= ConsecutiveRuns)
  BY DEF Filtered
<1>2. Extend(s, raw).seen[i] = Bump(s.seen[i], ConsecutiveRuns)
  BY <1>1 DEF Extend
<1>3. s.seen[i] \in 0 .. ConsecutiveRuns
  BY <1>1 DEF Streaks
<1>4. CASE Fresh(i, p)
  <2>1. p[i].count \in Nat /\ p[i].count <= s.seen[i]
    BY <1>4, PendingMapElements, RulesAssumption DEF Fresh
  <2>2. NewCount(i, p) = p[i].count + 1
    BY <1>4 DEF NewCount
  <2>3. QED
    BY <1>1, <1>2, <1>3, <2>1, <2>2, RulesAssumption DEF Bump
<1>5. CASE ~Fresh(i, p)
  <2>1. NewCount(i, p) = 1
    BY <1>5 DEF NewCount
  <2>2. QED
    BY <1>1, <1>2, <1>3, <2>1, RulesAssumption DEF Bump
<1>6. QED
  BY <1>4, <1>5

LEMMA StreakBacked ==
  ASSUME NEW s \in Streaks, NEW raw \in SUBSET Items, NEW k \in 0 .. ConsecutiveRuns,
         k <= s.clean, NEW status, NEW rawEmpty, rawEmpty => raw = {}
  PROVE  UpdateRecoveryStreak(k, status, rawEmpty) <= Extend(s, raw).clean
<1>1. s.clean \in 0 .. ConsecutiveRuns
  BY DEF Streaks
<1>2. CASE status = StatusAlert /\ rawEmpty
  <2>1. UpdateRecoveryStreak(k, status, rawEmpty) = Bump(k, ConsecutiveRuns)
    BY <1>2 DEF UpdateRecoveryStreak
  <2>2. raw = {}
    BY <1>2
  <2>3. Extend(s, raw).clean = Bump(s.clean, ConsecutiveRuns)
    BY <2>2 DEF Extend
  <2>4. QED
    BY <1>1, <2>1, <2>3, RulesAssumption DEF Bump
<1>3. CASE ~(status = StatusAlert /\ rawEmpty)
  <2>1. UpdateRecoveryStreak(k, status, rawEmpty) = 0
    BY <1>3 DEF UpdateRecoveryStreak
  <2>2. Extend(s, raw) \in Streaks
    BY ExtendType
  <2>3. QED
    BY <2>1, <2>2, RulesAssumption DEF Streaks
<1>4. QED
  BY <1>2, <1>3

(* Counters that were loaded are backed: they are the file's or none. *)
LEMMA LoadedBacked ==
  ASSUME CountersAreBacked, StreaksTyped, NEW prev \in Loaded
  PROVE  /\ \A i \in DOMAIN prev.pending : prev.pending[i].count <= recorded.seen[i]
         /\ prev.streak <= recorded.clean
<1>1. CASE prev = file
  BY <1>1 DEF CountersAreBacked
<1>2. CASE prev = ColdStart
  BY <1>2, RulesAssumption DEF ColdStart, StreaksTyped, Streaks
<1>3. QED
  BY <1>1, <1>2 DEF Loaded

LEMMA InitCounterInv == HInit => CounterInv
<1> SUFFICES ASSUME HInit PROVE CounterInv
  OBVIOUS
<1>1. StreaksTyped
  BY RulesAssumption DEF HInit, StreaksTyped, NoStreaks, Streaks
<1>2. RunOfCur
  BY DEF HInit, Init, RunOfCur
<1>3. CountersAreBacked
  BY RulesAssumption DEF HInit, Init, CountersAreBacked, ColdStart, NoStreaks
<1>4. QED
  BY <1>1, <1>2, <1>3 DEF CounterInv

LEMMA StepCounterInv ==
  ASSUME IInv, CounterInv, [HNext]_hvars
  PROVE  CounterInv'
<1> USE DEF IInv, CounterInv
<1>1. ASSUME NEW raw \in SUBSET Items, HPrepare(raw)
      PROVE  CounterInv'
  <2>1. PICK prev \in Loaded : run' = ContextOf(raw, prev)
    BY <1>1 DEF HPrepare, Prepare
  <2>2. cur' = raw /\ UNCHANGED <<file, recorded>>
    BY <1>1 DEF HPrepare, Prepare
  <2>3. /\ run'.filtered = Filtered(raw, run'.prev.pending)
        /\ run'.nextPending = NextPending(raw, run'.prev.pending)
        /\ run'.newStreak = UpdateRecoveryStreak(run'.prev.streak, run'.prev.status,
                                                 run'.rawEmpty)
        /\ run'.rawEmpty => raw = {}
    BY <2>1 DEF ContextOf
  <2>4. QED
    BY <2>2, <2>3 DEF StreaksTyped, RunOfCur, CountersAreBacked
<1>2. CASE HDispatch
  <2> DEFINE act == DispatchAction(run.prev, run.filtered, run.rawEmpty, run.newStreak)
  <2>1. run' = [run EXCEPT !.action = act] /\ run \in Context /\ pc = "prepared"
    BY <1>2 DEF HDispatch, Dispatch, TypeOK
  <2> HIDE DEF act
  <2>2. /\ run'.prev = run.prev /\ run'.filtered = run.filtered
        /\ run'.rawEmpty = run.rawEmpty /\ run'.newStreak = run.newStreak
        /\ run'.nextPending = run.nextPending
    BY <2>1 DEF Context
  <2>3. UNCHANGED <<file, cur, recorded>>
    BY <1>2 DEF HDispatch, Dispatch
  <2>4. QED
    BY <2>1, <2>2, <2>3 DEF StreaksTyped, RunOfCur, CountersAreBacked
<1>3. CASE HSave
  <2>1. /\ file' = StateAfter(run.action, run.prev, run.filtered, run.nextPending, run.newStreak)
        /\ recorded' = Extend(recorded, cur) /\ cur' = cur /\ pc' = "idle" /\ pc = "saving"
    BY <1>3 DEF HSave, Save, EndRun
  <2>2. /\ run.action \in Actions /\ run.prev \in State /\ run.prev \in Loaded
    BY <2>1 DEF TypeOK, Context, RunInv
  <2>3. run.prev.pending \in PendingMap /\ run.prev.streak \in 0 .. ConsecutiveRuns
    BY <2>2 DEF State
  <2>4. /\ \A i \in DOMAIN run.prev.pending : run.prev.pending[i].count <= recorded.seen[i]
        /\ run.prev.streak <= recorded.clean
    BY <2>2, LoadedBacked
  <2>5. \A i \in DOMAIN run.nextPending : run.nextPending[i].count <= recorded'.seen[i]
    BY <2>1, <2>3, <2>4, NextPendingBacked DEF RunOfCur, StreaksTyped
  <2>6. run.newStreak <= recorded'.clean
    BY <2>1, <2>3, <2>4, StreakBacked DEF RunOfCur, StreaksTyped
  <2>7. recorded' \in Streaks
    BY <2>1, ExtendType DEF StreaksTyped
  <2>8. file'.pending = run.nextPending /\ file'.streak \in {0, run.newStreak}
    <3>1. CASE run.action = ActionNone
      BY <2>1, <2>2, <3>1, StateAfterNone
    <3>2. CASE run.action # ActionNone
      BY <2>1, <3>2 DEF StateAfter
    <3>3. QED
      BY <3>1, <3>2
  <2>9. 0 <= recorded'.clean
    BY <2>7, RulesAssumption DEF Streaks
  <2>10. CountersAreBacked'
    BY <2>5, <2>6, <2>8, <2>9 DEF CountersAreBacked
  <2>11. QED
    BY <2>1, <2>7, <2>10 DEF StreaksTyped, RunOfCur
<1>4. ASSUME EndRun, UNCHANGED <<file, cur, recorded>>
      PROVE  CounterInv'
  BY <1>4 DEF EndRun, StreaksTyped, RunOfCur, CountersAreBacked
<1>5. CASE HSendFails \/ HSendFailsLate \/ (HOther /\ ~Tick)
  BY <1>4, <1>5 DEF HSendFails, HSendFailsLate, HOther, history, SendFails, SendFailsLate,
                    WriteFails, SaveFails, Crash
<1>6. CASE HSendOK \/ UNCHANGED hvars
  BY <1>6 DEF HSendOK, SendOK, hvars, vars, history, StreaksTyped, RunOfCur, CountersAreBacked
<1>7. CASE HOther /\ Tick
  <2>1. file' = Older(file) /\ pc' = "idle" /\ UNCHANGED <<cur, recorded>>
    BY <1>7 DEF HOther, history, Tick
  <2>2. file.pending \in PendingMap /\ file \in State
    BY DEF TypeOK, State
  <2>3. file'.streak = file.streak
    BY <2>1, <2>2 DEF Older, State
  <2>4. file'.pending = [i \in DOMAIN file.pending |->
                           [file.pending[i] EXCEPT !.age = Bump(@, PendingTTL)]]
    BY <2>1, <2>2 DEF Older, State
  <2>5. \A i \in DOMAIN file.pending :
           [file.pending[i] EXCEPT !.age = Bump(@, PendingTTL)].count = file.pending[i].count
    BY <2>2, PendingMapElements DEF PendingItem
  <2>6. QED
    BY <2>1, <2>3, <2>4, <2>5 DEF StreaksTyped, RunOfCur, CountersAreBacked
<1>8. QED
  BY <1>1, <1>2, <1>3, <1>5, <1>6, <1>7 DEF HNext

LEMMA AlwaysCounterInv == HSpec => []CounterInv
<1>1. IInv /\ CounterInv /\ [HNext]_hvars => CounterInv'
  BY StepCounterInv
<1>2. QED
  BY <1>1, InitCounterInv, AlwaysHIInv, PTL DEF HSpec

(* No counter in state.json is ahead of the runs that were recorded, for   *)
(* any faults and any N.                                                   *)
THEOREM CountersAlwaysBacked == HSpec => []CountersAreBacked
BY AlwaysCounterInv, PTL DEF CounterInv

-----------------------------------------------------------------------------
(* Confirmation. *)

(* A promoted item had been counted N - 1 times before this run. *)
LEMMA PromotedWasCounted ==
  ASSUME NEW raw \in SUBSET Items, NEW p \in PendingMap, NEW i \in Filtered(raw, p)
  PROVE  /\ i \in raw
         /\ ConsecutiveRuns = 1 \/ (i \in DOMAIN p /\ p[i].count >= ConsecutiveRuns - 1)
<1>1. i \in raw /\ NewCount(i, p) >= ConsecutiveRuns
  BY DEF Filtered
<1>2. CASE Fresh(i, p)
  <2>1. i \in DOMAIN p /\ p[i].count \in Nat
    BY <1>2, PendingMapElements, RulesAssumption DEF Fresh
  <2>2. NewCount(i, p) = p[i].count + 1
    BY <1>2 DEF NewCount
  <2>3. QED
    BY <1>1, <2>1, <2>2, RulesAssumption
<1>3. CASE ~Fresh(i, p)
  <2>1. NewCount(i, p) = 1
    BY <1>3 DEF NewCount
  <2>2. QED
    BY <1>1, <2>1, RulesAssumption
<1>4. QED
  BY <1>2, <1>3

(* A mail is decided about by counters, and counters are backed by runs. *)
LEMMA CountersConfirm == IInv /\ CounterInv => OnlyConfirmedMails
<1> SUFFICES ASSUME IInv, CounterInv, pc \in {"sending", "saving"}
             PROVE  Confirmed(recorded)
  BY DEF OnlyConfirmedMails
<1> USE DEF IInv, CounterInv
<1>1. run.action = DispatchAction(run.prev, run.filtered, run.rawEmpty, run.newStreak)
  BY DEF RunInv
<1>2. run.prev \in Loaded /\ run.prev \in State
  BY DEF RunInv, TypeOK, Context
<1>3. run.prev.pending \in PendingMap /\ run.prev.streak \in 0 .. ConsecutiveRuns
  BY <1>2 DEF State
<1>4. /\ \A i \in DOMAIN run.prev.pending : run.prev.pending[i].count <= recorded.seen[i]
      /\ run.prev.streak <= recorded.clean
  BY <1>2, LoadedBacked
<1>5. recorded.clean \in Nat /\ \A i \in Items : recorded.seen[i] \in Nat
  BY RulesAssumption DEF StreaksTyped, Streaks
<1>6. ASSUME NEW i \in run.filtered
      PROVE  i \in cur /\ recorded.seen[i] >= ConsecutiveRuns - 1
  <2>1. i \in Filtered(cur, run.prev.pending) /\ cur \in SUBSET Items
    BY <1>6 DEF RunOfCur, StreaksTyped
  <2>2. /\ i \in cur
        /\ \/ ConsecutiveRuns = 1
           \/ /\ i \in DOMAIN run.prev.pending
              /\ run.prev.pending[i].count >= ConsecutiveRuns - 1
    BY <2>1, <1>3, PromotedWasCounted
  <2>3. i \in DOMAIN run.prev.pending => run.prev.pending[i].count \in Nat
    BY <1>3, PendingMapElements, RulesAssumption
  <2>4. QED
    BY <2>1, <2>2, <2>3, <1>4, <1>5, RulesAssumption
<1>7. ASSUME run.action = ActionSendRecovery
      PROVE  cur = {} /\ recorded.clean >= ConsecutiveRuns - 1
  <2>1. run.prev.status = StatusAlert /\ run.rawEmpty /\ run.newStreak >= ConsecutiveRuns
    BY <1>1, <1>7, RecoveryMeans
  <2>2. cur = {}
    BY <2>1 DEF RunOfCur
  <2>3. run.newStreak = Bump(run.prev.streak, ConsecutiveRuns)
    BY <2>1 DEF RunOfCur, UpdateRecoveryStreak
  <2>4. QED
    BY <2>1, <2>2, <2>3, <1>3, <1>4, <1>5, RulesAssumption DEF Bump
<1>8. QED
  BY <1>6, <1>7 DEF Confirmed

(* Whatever fails, an alert mail lists only items that warned in N         *)
(* consecutive recorded runs, this one included, and a recovery mail       *)
(* follows N such runs without any warn item.                              *)
THEOREM MailsAreConfirmed == HSpec => []OnlyConfirmedMails
BY AlwaysHIInv, AlwaysCounterInv, CountersConfirm, PTL
-----------------------------------------------------------------------------
(* Phantom mails. *)

SentMail == [kind |-> run.action, sig |-> MailSig(run.action, run.filtered)]

(* A run about to record its mail has delivered it. *)
PhantomInv ==
  /\ NoPhantomMail
  /\ pc = "saving" /\ run.action # ActionNone => SentMail \in delivered

LEMMA InitPhantomInv == HInit => PhantomInv
BY DEF HInit, Init, PhantomInv, NoPhantomMail, ColdStart, StatusEmpty, StatusAlert, StatusOK

LEMMA StepPhantomInv ==
  ASSUME IInv, PhantomInv, [HNext]_hvars
  PROVE  PhantomInv'
<1> USE DEF IInv, PhantomInv
<1>1. CASE HSave
  <2>1. /\ file' = StateAfter(run.action, run.prev, run.filtered, run.nextPending, run.newStreak)
        /\ delivered' = delivered /\ pc' = "idle" /\ pc = "saving"
    BY <1>1 DEF HSave, Save, EndRun
  <2>2. run.action \in Actions /\ run.prev \in State /\ run.prev \in {file, ColdStart}
    BY <2>1 DEF TypeOK, Context, RunInv, Loaded
  <2>3. CASE run.action = ActionNone
    <3>1. file'.status = run.prev.status /\ file'.sig = run.prev.sig
      BY <2>1, <2>2, <2>3, StateAfterNone
    <3>2. QED
      BY <2>1, <2>2, <3>1
      DEF NoPhantomMail, ColdStart, StatusEmpty, StatusAlert, StatusOK
  <2>4. CASE run.action # ActionNone
    <3>1. /\ file'.sig = MailSig(run.action, run.filtered)
          /\ file'.status = IF run.action = ActionSendAlert THEN StatusAlert ELSE StatusOK
      BY <2>1, <2>2, <2>4, StateAfterMail
    <3>2. SentMail \in delivered
      BY <2>1, <2>4
    <3>3. run.action = ActionSendAlert \/ run.action = ActionSendRecovery
      BY <2>2, <2>4 DEF Actions
    <3>4. QED
      BY <2>1, <3>1, <3>2, <3>3
      DEF NoPhantomMail, SentMail, MailSig, StatusAlert, StatusOK, ActionSendAlert,
          ActionSendRecovery
  <2>5. QED
    BY <2>3, <2>4
<1>2. CASE HSendOK
  <2>1. /\ run' = run /\ file' = file
        /\ delivered' = delivered \cup {SentMail}
    BY <1>2 DEF HSendOK, SendOK, Deliver, HDelivered, SentMail
  <2>2. QED
    BY <2>1 DEF NoPhantomMail, SentMail
<1>3. CASE HSendFailsLate
  <2>1. /\ pc' = "idle" /\ file' = file
        /\ delivered' = delivered \cup {SentMail}
    BY <1>3 DEF HSendFailsLate, SendFailsLate, EndRun, Deliver, HDelivered, SentMail
  <2>2. QED
    BY <2>1 DEF NoPhantomMail
<1>4. CASE HDispatch
  <2> DEFINE act == DispatchAction(run.prev, run.filtered, run.rawEmpty, run.newStreak)
  <2>1. /\ run' = [run EXCEPT !.action = act] /\ run \in Context
        /\ pc' = IF act = ActionNone THEN "saving" ELSE "sending"
        /\ UNCHANGED <<file, delivered>>
    BY <1>4 DEF HDispatch, Dispatch, TypeOK
  <2> HIDE DEF act
  <2>2. run'.action = act
    BY <2>1 DEF Context
  <2>3. QED
    BY <2>1, <2>2 DEF NoPhantomMail
<1>5. ASSUME UNCHANGED <<file, delivered>>, pc' # "saving"
      PROVE  PhantomInv'
  BY <1>5 DEF NoPhantomMail
<1>6. CASE (\E raw \in SUBSET Items : HPrepare(raw)) \/ HSendFails \/ (HOther /\ ~Tick)
  BY <1>5, <1>6 DEF HPrepare, Prepare, HSendFails, SendFails, EndRun, HOther, history,
                    WriteFails, SaveFails, Crash
<1>7. CASE HOther /\ Tick
  <2>1. file' = Older(file) /\ pc' = "idle" /\ delivered' = delivered /\ file \in State
    BY <1>7 DEF HOther, history, Tick, TypeOK
  <2>2. file'.status = file.status /\ file'.sig = file.sig
    BY <2>1 DEF Older, State
  <2>3. QED
    BY <2>1, <2>2 DEF NoPhantomMail
<1>8. CASE UNCHANGED hvars
  BY <1>8 DEF hvars, vars, history, NoPhantomMail, SentMail
<1>9. QED
  BY <1>1, <1>2, <1>3, <1>4, <1>6, <1>7, <1>8 DEF HNext

(* Whatever fails, the alert set or the recovery that state.json records   *)
(* was delivered by some run: Dispatch records only what Send confirmed.   *)
THEOREM NoPhantomMailEver == HSpec => []NoPhantomMail
<1>1. IInv /\ PhantomInv /\ [HNext]_hvars => PhantomInv'
  BY StepPhantomInv
<1>2. PhantomInv => NoPhantomMail
  BY DEF PhantomInv
<1>3. QED
  BY <1>1, <1>2, InitPhantomInv, AlwaysHIInv, PTL DEF HSpec

-----------------------------------------------------------------------------
(* Types of the history. *)

LEMMA StepHTypeOK ==
  ASSUME IInv, HTypeOK, IInv', CounterInv', [HNext]_hvars
  PROVE  HTypeOK'
<1> USE DEF HTypeOK
<1>1. TypeOK' /\ cur' \in SUBSET Items /\ recorded' \in Streaks
  BY DEF IInv, CounterInv, StreaksTyped
<1>2. run.action \in Actions /\ run.filtered \in SUBSET Items
  BY DEF TypeOK, Context
<1>3. MailSig(run.action, run.filtered) \in SUBSET SigKeys
  BY <1>2, SignatureType DEF MailSig
<1>4. ASSUME NEW raw \in SUBSET Items, HPrepare(raw)
      PROVE  HTypeOK'
  <2>1. stable' \in 0 .. StableCap
    BY <1>4, BumpType, HistoryAssumption DEF HPrepare
  <2>2. QED
    BY <1>1, <1>4, <2>1 DEF HPrepare
<1>5. CASE HSendOK \/ HSendFailsLate
  <2>1. /\ inbox'.kind = run.action /\ inbox'.sig = MailSig(run.action, run.filtered)
        /\ UNCHANGED <<stable, owed>> /\ HDelivered
    BY <1>5 DEF HSendOK, HSendFailsLate, SendOK, SendFailsLate, Deliver
  <2>2. QED
    BY <1>1, <1>2, <1>3, <2>1 DEF HDelivered
<1>6. CASE HSendFails
  BY <1>1, <1>2, <1>6 DEF HSendFails
<1>7. CASE HDispatch \/ HSave \/ HOther \/ UNCHANGED hvars
  BY <1>1, <1>7 DEF HDispatch, HSave, HOther, hvars, history
<1>8. QED
  BY <1>4, <1>5, <1>6, <1>7 DEF HNext

(* Everything the history records keeps its type. *)
THEOREM HistoryTypeCorrect == HSpec => []HTypeOK
<1>1. HInit => HTypeOK
  BY InitIInv, InitCounterInv, HistoryAssumption
  DEF HInit, HTypeOK, IInv, CounterInv, StreaksTyped
<1>2. IInv /\ HTypeOK /\ IInv' /\ CounterInv' /\ [HNext]_hvars => HTypeOK'
  BY StepHTypeOK
<1>3. QED
  BY <1>1, <1>2, AlwaysHIInv, AlwaysCounterInv, PTL DEF HSpec

-----------------------------------------------------------------------------
(* Refused alerts. *)

(* The items of a refused alert mail are still one sighting short of N in  *)
(* state.json, since nothing was saved.                                    *)
OwedInv ==
  /\ pc \in {"sending", "saving"} => owed = {}
  /\ \A i \in owed : \/ ConsecutiveRuns = 1
                     \/ /\ i \in DOMAIN file.pending
                        /\ file.pending[i].count >= ConsecutiveRuns - 1

(* The converse of PromotedWasCounted: an item counted that often is      *)
(* promoted when it is seen again.                                         *)
LEMMA CountedIsPromoted ==
  ASSUME NEW raw \in SUBSET Items, NEW p \in PendingMap, NEW i \in raw,
         \/ ConsecutiveRuns = 1
         \/ Fresh(i, p) /\ p[i].count >= ConsecutiveRuns - 1
  PROVE  i \in Filtered(raw, p)
<1>1. CASE ConsecutiveRuns = 1
  BY <1>1, PendingMapElements DEF Filtered, NewCount, Fresh
<1>2. CASE Fresh(i, p) /\ p[i].count >= ConsecutiveRuns - 1
  <2>1. p[i].count \in Nat /\ p[i].count + 1 >= ConsecutiveRuns
    BY <1>2, PendingMapElements, RulesAssumption DEF Fresh
  <2>2. QED
    BY <1>2, <2>1 DEF Filtered, NewCount
<1>3. QED
  BY <1>1, <1>2

LEMMA StepOwedInv ==
  ASSUME IInv, CounterInv, OwedInv, [HNext]_hvars
  PROVE  OwedInv'
<1> USE DEF IInv, OwedInv
<1>1. CASE HSendFails
  <2>1. /\ pc = "sending" /\ pc' = "idle" /\ file' = file
        /\ owed' = IF run.action = ActionSendAlert THEN run.filtered ELSE {}
    BY <1>1 DEF HSendFails, SendFails, EndRun
  <2>2. /\ run.filtered = Filtered(cur, run.prev.pending)
        /\ run.prev \in State /\ run.prev \in {file, ColdStart} /\ cur \in SUBSET Items
    BY <2>1 DEF CounterInv, RunOfCur, StreaksTyped, TypeOK, Context, RunInv, Loaded
  <2>3. run.prev.pending \in PendingMap
    BY <2>2 DEF State
  <2>4. \A i \in run.filtered : \/ ConsecutiveRuns = 1
                                \/ /\ i \in DOMAIN run.prev.pending
                                   /\ run.prev.pending[i].count >= ConsecutiveRuns - 1
    BY <2>2, <2>3, PromotedWasCounted
  <2>5. CASE run.prev = file
    BY <2>1, <2>4, <2>5
  <2>6. CASE run.prev = ColdStart
    BY <2>1, <2>4, <2>6 DEF ColdStart
  <2>7. QED
    BY <2>2, <2>5, <2>6
<1>2. CASE HDispatch
  BY <1>2 DEF HDispatch
<1>3. CASE HSave
  BY <1>3 DEF HSave, Save
<1>4. CASE HOther /\ Tick
  <2>1. file' = Older(file) /\ pc' = pc /\ owed' = owed
    BY <1>4 DEF HOther, history, Tick
  <2>2. file \in State /\ file.pending \in PendingMap
    BY DEF TypeOK, State
  <2>3. file'.pending = [i \in DOMAIN file.pending |->
                           [file.pending[i] EXCEPT !.age = Bump(@, PendingTTL)]]
    BY <2>1, <2>2 DEF Older, State
  <2>4. \A i \in DOMAIN file.pending : file'.pending[i].count = file.pending[i].count
    BY <2>2, <2>3, PendingMapElements DEF PendingItem
  <2>5. DOMAIN file'.pending = DOMAIN file.pending
    BY <2>3
  <2>6. QED
    BY <2>1, <2>4, <2>5
<1>5. CASE \/ \E raw \in SUBSET Items : HPrepare(raw)
           \/ HSendFailsLate
           \/ HOther /\ ~Tick
  <2>1. UNCHANGED <<file, owed>> /\ pc' \notin {"sending", "saving"}
    BY <1>5 DEF HPrepare, Prepare, HSendFailsLate, SendFailsLate, HOther, history, EndRun,
                WriteFails, SaveFails, Crash
  <2>2. QED
    BY <2>1
<1>6. CASE HSendOK
  BY <1>6 DEF HSendOK, SendOK
<1>7. CASE UNCHANGED hvars
  BY <1>7 DEF hvars, vars, history
<1>8. QED
  BY <1>1, <1>2, <1>3, <1>4, <1>5, <1>6, <1>7 DEF HNext

(* With firing items, Dispatch sends an alert or has recorded just these.  *)
LEMMA FiringIsSentOrRecorded ==
  ASSUME NEW prev, NEW items, items # {}, NEW rawEmpty, NEW streak
  PROVE  \/ DispatchAction(prev, items, rawEmpty, streak) = ActionSendAlert
         \/ Signature(items) = prev.sig
BY DEF DispatchAction, Gated, Decide, ActionSendAlert, ActionSendRecovery

LEMMA RetryStep ==
  ASSUME IInv, CounterInv, OwedInv,
         Dispatch, owed # {}, owed \subseteq cur, run.prev = file,
         \A i \in owed \cap DOMAIN file.pending : Fresh(i, file.pending)
  PROVE  run'.action = ActionSendAlert \/ Signature(run.filtered) = file.sig
<1> DEFINE act == DispatchAction(run.prev, run.filtered, run.rawEmpty, run.newStreak)
<1>1. run' = [run EXCEPT !.action = act] /\ run \in Context /\ pc = "prepared"
  BY DEF Dispatch, IInv, TypeOK
<1>2. run.filtered = Filtered(cur, file.pending) /\ cur \in SUBSET Items
  BY <1>1 DEF CounterInv, RunOfCur, StreaksTyped
<1>3. file.pending \in PendingMap
  BY DEF IInv, TypeOK, State
<1>4. owed \subseteq run.filtered
  BY <1>2, <1>3, CountedIsPromoted DEF OwedInv
<1>5. act = ActionSendAlert \/ Signature(run.filtered) = file.sig
  BY <1>4, FiringIsSentOrRecorded
<1> HIDE DEF act
<1>6. run'.action = act
  BY <1>1 DEF Context
<1>7. QED
  BY <1>5, <1>6

(* A refused alert mail is sent again by the next run that reads the state *)
(* before it and finds its items still warning and their counters fresh.   *)
THEOREM RefusedAlertsAreRetried == HSpec => FailedAlertIsRetried
<1>1. HInit => OwedInv
  BY DEF HInit, Init, OwedInv
<1>2. IInv /\ CounterInv /\ OwedInv /\ [HNext]_hvars => OwedInv'
  BY StepOwedInv
<1>3. IInv /\ CounterInv /\ OwedInv =>
        (/\ Dispatch
         /\ owed # {} /\ owed \subseteq cur
         /\ run.prev = file
         /\ \A i \in owed \cap DOMAIN file.pending : Fresh(i, file.pending)
         => \/ run'.action = ActionSendAlert
            \/ Signature(run.filtered) = file.sig)
  BY RetryStep
<1>4. QED
  BY <1>1, <1>2, <1>3, AlwaysHIInv, AlwaysCounterInv, PTL DEF HSpec, FailedAlertIsRetried
=============================================================================
