-------------------------- MODULE NotifyRulesProofs --------------------------
(***************************************************************************)
(* Lemmas about the operators of NotifyRules: their types, and what the    *)
(* choice of an action and the state saved after it have to do with the    *)
(* baseline.  They serve every module that is built from the rules.        *)
(***************************************************************************)
EXTENDS NotifyRules, TLAPS

-----------------------------------------------------------------------------
(* The operators of NotifyRules stay within their types. *)

LEMMA BumpType ==
  ASSUME NEW cap \in Nat, NEW x \in 0 .. cap
  PROVE  Bump(x, cap) \in 0 .. cap /\ x <= Bump(x, cap)
BY DEF Bump

LEMMA PendingMapElements ==
  ASSUME NEW p \in PendingMap
  PROVE  /\ DOMAIN p \subseteq Items
         /\ \A i \in DOMAIN p : /\ p[i] \in PendingItem
                                /\ p[i].count \in 1 .. (ConsecutiveRuns - 1)
                                /\ p[i].age \in 0 .. PendingTTL
<1>1. PICK S \in SUBSET Items : p \in [S -> PendingItem]
  BY DEF PendingMap
<1>2. DOMAIN p = S /\ \A i \in S : p[i] \in PendingItem
  BY <1>1
<1>3. QED
  BY <1>2 DEF PendingItem

LEMMA PendingMapIntro ==
  ASSUME NEW S \in SUBSET Items, NEW p \in [S -> PendingItem]
  PROVE  p \in PendingMap
BY DEF PendingMap

LEMMA ColdStartType == ColdStart \in State
<1>1. [i \in {} |-> 0] \in [{} -> PendingItem]
  OBVIOUS
<1>2. [i \in {} |-> 0] \in PendingMap
  BY <1>1, PendingMapIntro
<1>3. QED
  BY <1>2, RulesAssumption DEF ColdStart, State

LEMMA OlderType ==
  ASSUME NEW s \in State
  PROVE  Older(s) \in State
<1> DEFINE aged == [i \in DOMAIN s.pending |->
                      [s.pending[i] EXCEPT !.age = Bump(@, PendingTTL)]]
<1>1. s.pending \in PendingMap
  BY DEF State
<1>2. ASSUME NEW i \in DOMAIN s.pending
      PROVE  [s.pending[i] EXCEPT !.age = Bump(@, PendingTTL)] \in PendingItem
  <2>1. s.pending[i] \in PendingItem
    BY <1>1, PendingMapElements
  <2>2. Bump(s.pending[i].age, PendingTTL) \in 0 .. PendingTTL
    BY <2>1, BumpType, RulesAssumption DEF PendingItem
  <2>3. QED
    BY <2>1, <2>2 DEF PendingItem
<1>3. aged \in [DOMAIN s.pending -> PendingItem]
  BY <1>2
<1>4. aged \in PendingMap
  BY <1>1, <1>3, PendingMapElements, PendingMapIntro
<1>5. Bump(s.sentAge, Cooldown) \in 0 .. Cooldown
  BY BumpType, RulesAssumption DEF State
<1>6. QED
  BY <1>4, <1>5 DEF Older, State

LEMMA NextPendingType ==
  ASSUME NEW raw \in SUBSET Items, NEW p \in PendingMap
  PROVE  /\ Filtered(raw, p) \in SUBSET raw
         /\ NextPending(raw, p) \in PendingMap
<1>1. ASSUME NEW i \in raw \ Filtered(raw, p)
      PROVE  [count |-> NewCount(i, p), age |-> NewAge(i, p)] \in PendingItem
  <2>1. NewCount(i, p) \in Nat /\ NewCount(i, p) >= 1
    BY PendingMapElements, RulesAssumption DEF NewCount, Fresh
  <2>2. ~(NewCount(i, p) >= ConsecutiveRuns)
    BY DEF Filtered
  <2>3. NewAge(i, p) \in 0 .. PendingTTL
    BY PendingMapElements, RulesAssumption DEF NewAge, Fresh
  <2>4. QED
    BY <2>1, <2>2, <2>3, RulesAssumption DEF PendingItem
<1>2. NextPending(raw, p) \in [raw \ Filtered(raw, p) -> PendingItem]
  BY <1>1 DEF NextPending
<1>3. QED
  BY <1>2, PendingMapIntro DEF Filtered

LEMMA StreakType ==
  ASSUME NEW streak \in 0 .. ConsecutiveRuns, NEW status, NEW rawEmpty
  PROVE  UpdateRecoveryStreak(streak, status, rawEmpty) \in 0 .. ConsecutiveRuns
BY BumpType, RulesAssumption DEF UpdateRecoveryStreak

LEMMA ContextType ==
  ASSUME NEW raw \in SUBSET Items, NEW prev \in State
  PROVE  ContextOf(raw, prev) \in Context
<1>1. prev.pending \in PendingMap /\ prev.streak \in 0 .. ConsecutiveRuns
  BY DEF State
<1>2. Filtered(raw, prev.pending) \in SUBSET Items
  BY <1>1, NextPendingType
<1>3. NextPending(raw, prev.pending) \in PendingMap
  BY <1>1, NextPendingType
<1>4. UpdateRecoveryStreak(prev.streak, prev.status, raw = {}) \in 0 .. ConsecutiveRuns
  BY <1>1, StreakType
<1>5. QED
  BY <1>2, <1>3, <1>4 DEF ContextOf, Context, Actions

LEMMA DispatchActionType ==
  ASSUME NEW prev \in State, NEW items, NEW rawEmpty, NEW streak
  PROVE  DispatchAction(prev, items, rawEmpty, streak) \in Actions
BY DEF DispatchAction, Gated, Decide, Actions

LEMMA SignatureType ==
  ASSUME NEW items \in SUBSET Items
  PROVE  Signature(items) \in SUBSET SigKeys /\ (Signature(items) = {} <=> items = {})
BY RulesAssumption DEF Signature

LEMMA StateAfterType ==
  ASSUME NEW r \in Context
  PROVE  StateAfter(r.action, r.prev, r.filtered, r.nextPending, r.newStreak) \in State
<1>1. /\ r.prev \in State /\ r.filtered \in SUBSET Items /\ r.nextPending \in PendingMap
      /\ r.newStreak \in 0 .. ConsecutiveRuns /\ r.action \in Actions
  BY DEF Context
<1>2. MailSig(r.action, r.filtered) \in SUBSET SigKeys
  BY <1>1, SignatureType DEF MailSig
<1>3. CASE r.action = ActionNone
  BY <1>1, <1>3 DEF StateAfter, State
<1>4. CASE r.action # ActionNone
  BY <1>1, <1>2, <1>4, RulesAssumption DEF StateAfter, State
<1>5. QED
  BY <1>3, <1>4

LEMMA NoRunType == NoRun \in Context
BY ColdStartType, RulesAssumption DEF NoRun, Context, State, Actions

LEMMA StateAfterMail ==
  ASSUME NEW action \in Actions \ {ActionNone}, NEW prev, NEW items, NEW pending, NEW streak
  PROVE  LET s == StateAfter(action, prev, items, pending, streak)
         IN  /\ s.sentAge = 0 /\ s.sig = MailSig(action, items)
             /\ s.status = IF action = ActionSendAlert THEN StatusAlert ELSE StatusOK
BY DEF StateAfter

LEMMA StateAfterNone ==
  ASSUME NEW prev \in State, NEW items, NEW pending, NEW streak
  PROVE  LET s == StateAfter(ActionNone, prev, items, pending, streak)
         IN  /\ s.sentAge = prev.sentAge /\ s.sig = prev.sig /\ s.status = prev.status
             /\ s.pending = pending /\ s.streak = streak
BY DEF StateAfter, State

(* What Dispatch's choice of a mail says about the baseline. *)
LEMMA AlertMeans ==
  ASSUME NEW prev, NEW items, NEW rawEmpty, NEW streak,
         DispatchAction(prev, items, rawEmpty, streak) = ActionSendAlert
  PROVE  /\ items # {}
         /\ \/ prev.status # StatusAlert
            \/ Signature(items) # prev.sig
            \/ prev.sentAge >= Cooldown
BY DEF DispatchAction, Gated, Decide, ActionNone, ActionSendAlert, ActionSendRecovery

LEMMA RecoveryMeans ==
  ASSUME NEW prev, NEW items, NEW rawEmpty, NEW streak,
         DispatchAction(prev, items, rawEmpty, streak) = ActionSendRecovery
  PROVE  prev.status = StatusAlert /\ items = {} /\ rawEmpty /\ streak >= ConsecutiveRuns
BY DEF DispatchAction, Gated, Decide, ActionNone, ActionSendAlert, ActionSendRecovery
=============================================================================
