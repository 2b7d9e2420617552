---------------------------- MODULE NotifyRules ----------------------------
(***************************************************************************)
(* The decision rules of inspect/notify: how the warn items of one         *)
(* inspection and the state kept in state.json decide which mail is sent   *)
(* and which state is kept for the next inspection.                        *)
(*                                                                         *)
(* Times are kept as ages.  The code compares now - LastSentAt with the    *)
(* cooldown and now - FirstSeen with pendingTTL and does nothing else with *)
(* either time, so an age stops growing at the value it is compared with.  *)
(***************************************************************************)
EXTENDS Integers

CONSTANTS
  Items,            \* the (Host, Field) keys a Warn check can have: PendingKey
  SigKeys,          \* keys after normalizeFieldForSignature
  SigKey,           \* the key an item contributes to the signature
  ConsecutiveRuns,  \* persistence.consecutive_runs, N in the comments
  Cooldown,         \* trigger.min_interval_minutes
  PendingTTL,       \* pendingTTL
  SendRecovery      \* trigger.send_recovery

ASSUME RulesAssumption ==
  /\ SigKey \in [Items -> SigKeys]
  /\ ConsecutiveRuns \in Nat \ {0}
  /\ Cooldown \in Nat \ {0}
  /\ PendingTTL \in Nat \ {0}
  /\ SendRecovery \in BOOLEAN

(* x + 1, but never above cap. *)
Bump(x, cap) == IF x < cap THEN x + 1 ELSE x

-----------------------------------------------------------------------------
(* The persisted state. *)

StatusEmpty == "empty"
StatusAlert == "alert"
StatusOK == "ok"

PendingItem == [count : 1 .. (ConsecutiveRuns - 1), age : 0 .. PendingTTL]

(* A pending map has entries for some of the items only. *)
PendingMap == UNION {[S -> PendingItem] : S \in SUBSET Items}

(* RecoveryStreak is only compared with ConsecutiveRuns; it grows without  *)
(* bound in the code when recovery mails are switched off, and stops at    *)
(* ConsecutiveRuns here.                                                   *)
State == [sentAge : 0 .. Cooldown,
          sig     : SUBSET SigKeys,
          status  : {StatusEmpty, StatusAlert, StatusOK},
          pending : PendingMap,
          streak  : 0 .. ConsecutiveRuns]

(* What LoadState returns for a missing, unreadable or corrupt file: the   *)
(* zero LastSentAt is further away than any cooldown.                      *)
ColdStart == [sentAge |-> Cooldown, sig |-> {}, status |-> StatusEmpty,
              pending |-> [i \in {} |-> 0], streak |-> 0]

(* One time unit later. *)
Older(s) ==
  [s EXCEPT !.sentAge = Bump(@, Cooldown),
            !.pending = [i \in DOMAIN s.pending |->
               [s.pending[i] EXCEPT !.age = Bump(@, PendingTTL)]]]

-----------------------------------------------------------------------------
(* ApplyPersistence. *)

(* Faulty variant: the age test the wrong way round. *)
FreshWhenOld(i, pending) == i \in DOMAIN pending /\ pending[i].age >= PendingTTL

(* An entry counts only while it is younger than the TTL. *)
Fresh(i, pending) == i \in DOMAIN pending /\ pending[i].age < PendingTTL

NewCount(i, pending) == IF Fresh(i, pending) THEN pending[i].count + 1 ELSE 1

NewAge(i, pending) == IF Fresh(i, pending) THEN pending[i].age ELSE 0

(* Faulty variants: one run too early, one run too late. *)
FilteredEarly(raw, pending) == {i \in raw : NewCount(i, pending) >= ConsecutiveRuns - 1}
FilteredLate(raw, pending) == {i \in raw : NewCount(i, pending) > ConsecutiveRuns}

(* The items promoted to firing.  With ConsecutiveRuns = 1 that is every   *)
(* item, which is the code's fast path.                                    *)
Filtered(raw, pending) == {i \in raw : NewCount(i, pending) >= ConsecutiveRuns}

(* Faulty variant: entries of items that went away are kept. *)
NextPendingKept(raw, pending) ==
  [i \in (raw \ Filtered(raw, pending)) \cup (DOMAIN pending \ raw) |->
     IF i \in raw
     THEN [count |-> NewCount(i, pending), age |-> NewAge(i, pending)]
     ELSE pending[i]]

(* The others keep counting; a promoted or an absent item has no entry. *)
NextPending(raw, pending) ==
  [i \in raw \ Filtered(raw, pending) |->
     [count |-> NewCount(i, pending), age |-> NewAge(i, pending)]]

(* Faulty variant: the streak starts again in every run. *)
StreakRestarted(streak, status, rawEmpty) ==
  IF status = StatusAlert /\ rawEmpty THEN 1 ELSE 0

UpdateRecoveryStreak(streak, status, rawEmpty) ==
  IF status = StatusAlert /\ rawEmpty THEN Bump(streak, ConsecutiveRuns) ELSE 0

-----------------------------------------------------------------------------
(* Signature, Decide and Dispatch's choice of an action. *)

(* The hash of a set of keys stands for the set, "" for the empty one. *)
Signature(items) == {SigKey[i] : i \in items}

ActionNone == "none"
ActionSendAlert == "send_alert"
ActionSendRecovery == "send_recovery"

Actions == {ActionNone, ActionSendAlert, ActionSendRecovery}

(* Faulty variant: no cooldown. *)
DecideUncooled(prev, items) ==
  IF items = {}
  THEN IF prev.status = StatusAlert THEN ActionSendRecovery ELSE ActionNone
  ELSE ActionSendAlert

Decide(prev, items) ==
  IF items = {}
  THEN IF prev.status = StatusAlert THEN ActionSendRecovery ELSE ActionNone
  ELSE IF \/ prev.status # StatusAlert
          \/ Signature(items) # prev.sig
          \/ prev.sentAge >= Cooldown
       THEN ActionSendAlert
       ELSE ActionNone

(* Faulty variant: one empty run too many. *)
GatedLate(prev, items, rawEmpty, streak) ==
  IF prev.status = StatusAlert /\ items = {}
  THEN IF rawEmpty /\ streak > ConsecutiveRuns
       THEN ActionSendRecovery
       ELSE ActionNone
  ELSE Decide(prev, items)

(* Without a firing item an alert ends only after enough empty runs. *)
Gated(prev, items, rawEmpty, streak) ==
  IF prev.status = StatusAlert /\ items = {}
  THEN IF rawEmpty /\ streak >= ConsecutiveRuns
       THEN ActionSendRecovery
       ELSE ActionNone
  ELSE Decide(prev, items)

DispatchAction(prev, items, rawEmpty, streak) ==
  LET action == Gated(prev, items, rawEmpty, streak)
  IN  IF action = ActionSendRecovery /\ ~SendRecovery THEN ActionNone ELSE action

(* The alert set a mail announces. *)
MailSig(action, items) == IF action = ActionSendAlert THEN Signature(items) ELSE {}

(* Faulty variant: a recovery leaves the signature in place. *)
StateAfterStaleSig(action, prev, items, pending, streak) ==
  IF action = ActionNone
  THEN [prev EXCEPT !.pending = pending, !.streak = streak]
  ELSE [sentAge |-> 0,
        sig     |-> IF action = ActionSendAlert THEN MailSig(action, items) ELSE prev.sig,
        status  |-> IF action = ActionSendAlert THEN StatusAlert ELSE StatusOK,
        pending |-> pending,
        streak  |-> 0]

(* The state saved after each action. *)
StateAfter(action, prev, items, pending, streak) ==
  IF action = ActionNone
  THEN [prev EXCEPT !.pending = pending, !.streak = streak]
  ELSE [sentAge |-> 0,
        sig     |-> MailSig(action, items),
        status  |-> IF action = ActionSendAlert THEN StatusAlert ELSE StatusOK,
        pending |-> pending,
        streak  |-> 0]
-----------------------------------------------------------------------------
(* The PrepContext of a run, with the action Dispatch chose. *)

Context == [prev : State, filtered : SUBSET Items, nextPending : PendingMap,
            newStreak : 0 .. ConsecutiveRuns, rawEmpty : BOOLEAN, action : Actions]

NoRun == [prev |-> ColdStart, filtered |-> {}, nextPending |-> ColdStart.pending,
          newStreak |-> 0, rawEmpty |-> TRUE, action |-> ActionNone]

(* What Prepare computes from the warn items it found and its baseline. *)
ContextOf(raw, prev) ==
  [prev        |-> prev,
   filtered    |-> Filtered(raw, prev.pending),
   nextPending |-> NextPending(raw, prev.pending),
   newStreak   |-> UpdateRecoveryStreak(prev.streak, prev.status, raw = {}),
   rawEmpty    |-> raw = {},
   action      |-> ActionNone]

-----------------------------------------------------------------------------
(* The mails: how many addressees there are makes no difference. *)

Mail == [kind : {"none", ActionSendAlert, ActionSendRecovery},
         sig : SUBSET SigKeys, age : 0 .. Cooldown]

NoMail == [kind |-> "none", sig |-> {}, age |-> Cooldown]
=============================================================================
