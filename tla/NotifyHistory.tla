--------------------------- MODULE NotifyHistory ---------------------------
(***************************************************************************)
(* Notify with history variables, which record what the program forgets:   *)
(* the warn items of the runs gone by and the mails that were delivered.   *)
(* They let properties speak of "N consecutive runs" and of "a mail that   *)
(* was sent", whatever state.json says.  No step of Notify depends on      *)
(* them.                                                                   *)
(***************************************************************************)
EXTENDS Notify

CONSTANT StableCap  \* how far the count of identical runs goes

ASSUME HistoryAssumption == StableCap \in Nat

VARIABLES
  cur,        \* the warn items of the current or last run
  recorded,   \* streaks over the runs that saved their state
  stable,     \* how many runs before the last one found the same items
  delivered,  \* every mail the recipients ever got
  owed        \* firing items of the last alert mail that was refused

history == <<cur, recorded, stable, delivered, owed>>
hvars == <<vars, history>>

(* For how many consecutive runs, up to ConsecutiveRuns, each item was     *)
(* there, and for how many there was none.                                 *)
Streaks == [seen : [Items -> 0 .. ConsecutiveRuns], clean : 0 .. ConsecutiveRuns]

NoStreaks == [seen |-> [i \in Items |-> 0], clean |-> 0]

Extend(s, raw) ==
  [seen  |-> [i \in Items |-> IF i \in raw THEN Bump(s.seen[i], ConsecutiveRuns) ELSE 0],
   clean |-> IF raw = {} THEN Bump(s.clean, ConsecutiveRuns) ELSE 0]

HTypeOK ==
  /\ TypeOK
  /\ cur \in SUBSET Items
  /\ recorded \in Streaks
  /\ stable \in 0 .. StableCap
  /\ delivered \subseteq [kind : Actions, sig : SUBSET SigKeys]
  /\ owed \in SUBSET Items

HInit ==
  /\ Init
  /\ cur = {}
  /\ recorded = NoStreaks
  /\ stable = 0
  /\ delivered = {}
  /\ owed = {}

HPrepare(raw) ==
  /\ Prepare(raw)
  /\ cur' = raw
  /\ stable' = IF raw = cur THEN Bump(stable, StableCap) ELSE 0
  /\ UNCHANGED <<recorded, delivered, owed>>

HDispatch ==
  /\ Dispatch
  /\ owed' = {}
  /\ UNCHANGED <<cur, recorded, stable, delivered>>

HDelivered == delivered' = delivered \cup {[kind |-> inbox'.kind, sig |-> inbox'.sig]}

HSendOK ==
  /\ SendOK
  /\ HDelivered
  /\ UNCHANGED <<cur, recorded, stable, owed>>

HSendFails ==
  /\ SendFails
  /\ owed' = IF run.action = ActionSendAlert THEN run.filtered ELSE {}
  /\ UNCHANGED <<cur, recorded, stable, delivered>>

HSendFailsLate ==
  /\ SendFailsLate
  /\ HDelivered
  /\ UNCHANGED <<cur, recorded, stable, owed>>

HSave ==
  /\ Save
  /\ recorded' = Extend(recorded, cur)
  /\ UNCHANGED <<cur, stable, delivered, owed>>

HOther == (WriteFails \/ SaveFails \/ Crash \/ Tick) /\ UNCHANGED history

HNext ==
  \/ \E raw \in SUBSET Items : HPrepare(raw)
  \/ HDispatch
  \/ HSendOK
  \/ HSendFails
  \/ HSendFailsLate
  \/ HSave
  \/ HOther

HSpec == HInit /\ [][HNext]_hvars
-----------------------------------------------------------------------------
(* Nothing fires that did not warn in ConsecutiveRuns consecutive runs,    *)
(* the current one included, and nothing is declared recovered before as   *)
(* many runs without any warn item.  Runs that ended without saving their  *)
(* state are not counted: they leave no trace in state.json (Dispatch      *)
(* returns before SaveState).                                              *)
Confirmed(streaks) ==
  /\ run.action = ActionSendAlert =>
       \A i \in run.filtered : i \in cur /\ streaks.seen[i] >= ConsecutiveRuns - 1
  /\ run.action = ActionSendRecovery =>
       cur = {} /\ streaks.clean >= ConsecutiveRuns - 1

OnlyConfirmedMails == pc \in {"sending", "saving"} => Confirmed(recorded)

(* Counters in state.json are backed by as many consecutive recorded runs. *)
CountersAreBacked ==
  /\ \A i \in DOMAIN file.pending : file.pending[i].count <= recorded.seen[i]
  /\ file.streak <= recorded.clean

(* state.json never claims a mail that was not delivered, whatever fails:  *)
(* the next alert or recovery is never decided about a phantom mail.       *)
NoPhantomMail ==
  /\ file.status = StatusAlert =>
       [kind |-> ActionSendAlert, sig |-> file.sig] \in delivered
  /\ file.status = StatusOK =>
       [kind |-> ActionSendRecovery, sig |-> {}] \in delivered

(* An alert mail the SMTP server refused is tried again by the next run    *)
(* that finds the same items still warning, cooldown or not: the failed    *)
(* run left their counters one short of N.  The exceptions are that a      *)
(* counter expired meanwhile, that state.json could not be read, and that  *)
(* the alert set is the recorded one.                                      *)
FailedAlertIsRetried ==
  [][/\ Dispatch
     /\ owed # {} /\ owed \subseteq cur
     /\ run.prev = file
     /\ \A i \in owed \cap DOMAIN file.pending : Fresh(i, file.pending)
     => \/ run'.action = ActionSendAlert
        \/ Signature(run.filtered) = file.sig]_hvars

-----------------------------------------------------------------------------
(* The schedule: cron starts a run again and again, a run that is not      *)
(* stopped by a fault goes on, and the SMTP server does not refuse every   *)
(* mail for ever.                                                          *)
Fairness ==
  /\ WF_hvars(\E raw \in SUBSET Items : HPrepare(raw))
  /\ WF_hvars(HDispatch)
  /\ SF_hvars(HSendOK)
  /\ WF_hvars(HSave)

FairSpec == HSpec /\ Fairness

(* An item that warns in every run from some time on is, again and again,  *)
(* part of what the recipients last read: neither the confirmation         *)
(* counter, nor the cooldown, nor a failing SMTP server hides it.          *)
PersistentWarnIsMailed ==
  \A i \in Items :
    <>[](i \in cur) =>
      []<>(inbox.kind = ActionSendAlert /\ SigKey[i] \in inbox.sig)

(* When no run finds a warn item any more, the recipients are told that    *)
(* the incident is over, and nothing after it.                             *)
RecoveryIsMailed ==
  SendRecovery => (<>[](cur = {}) => <>[](inbox.kind # ActionSendAlert))

-----------------------------------------------------------------------------
(* Statements of the documentation that the code does not keep. *)

(* An item that has been counted ConsecutiveRuns - 1 times and warns again *)
(* is promoted in this run.                                                *)
LastSightingPromotes ==
  [][\A i \in Items :
       /\ pc = "idle" /\ pc' = "prepared"
       /\ i \in DOMAIN file.pending
       /\ file.pending[i].count = ConsecutiveRuns - 1
       /\ i \in cur'
       => i \in run'.filtered]_hvars

(* While every run finds the same warn items, at most one alert mail is    *)
(* sent per cooldown window.                                               *)
StableAlertsMailedOncePerWindow ==
  [][/\ SendOK /\ run.action = ActionSendAlert
     /\ inbox.kind = ActionSendAlert
     /\ stable = StableCap
     => inbox.age >= Cooldown]_hvars
=============================================================================
