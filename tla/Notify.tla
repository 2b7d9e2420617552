------------------------------- MODULE Notify -------------------------------
(***************************************************************************)
(* The notification half of weops-inspect as a sequence of runs: each run  *)
(* reads state.json (Prepare), writes the report, chooses an action        *)
(* (Dispatch), talks to the SMTP server and rewrites state.json.           *)
(*                                                                         *)
(* A run can end early at every step: the report cannot be written, the    *)
(* SMTP server refuses, the server accepts but the answer comes after the  *)
(* 30 s timeout, SaveState fails, the process is killed.  Faults says      *)
(* which of these can happen.  A run whose Prepare returns nil (mail       *)
(* switched off or misconfigured) changes nothing: it is a stuttering      *)
(* step.                                                                   *)
(*                                                                         *)
(* One unit of time is longer than what passes between Prepare and         *)
(* SaveState, so time advances between runs only.                          *)
(***************************************************************************)
EXTENDS NotifyRules

CONSTANTS
  Faults,   \* the faults that can happen, a subset of FaultKinds
  MaxGap    \* runs are at most this many time units apart: the cron period

FaultKinds == {"write", "send", "save", "crash", "unrecorded", "damage"}

ASSUME NotifyAssumption == Faults \subseteq FaultKinds /\ MaxGap \in Nat

VARIABLES
  pc,      \* where the current run is
  run,     \* its PrepContext, with the action Dispatch chose
  file,    \* the content of state.json
  inbox,   \* the last mail delivered to the recipients
  gap      \* time since the last run began

vars == <<pc, run, file, inbox, gap>>

TypeOK ==
  /\ pc \in {"idle", "prepared", "sending", "saving"}
  /\ run \in Context
  /\ file \in State
  /\ inbox \in Mail
  /\ gap \in 0 .. MaxGap

Init ==
  /\ pc = "idle"
  /\ run = NoRun
  /\ file = ColdStart
  /\ inbox = NoMail
  /\ gap = 0

-----------------------------------------------------------------------------
(* LoadState: a damaged or unreadable file is a cold start. *)
Loaded == {file} \cup (IF "damage" \in Faults THEN {ColdStart} ELSE {})

(* A run found the warn items raw and reads its baseline. *)
Prepare(raw) ==
  /\ pc = "idle"
  /\ \E prev \in Loaded : run' = ContextOf(raw, prev)
  /\ pc' = "prepared"
  /\ gap' = 0
  /\ UNCHANGED <<file, inbox>>

(* Every way a run ends: nothing of it stays but what it has written. *)
EndRun == pc' = "idle" /\ run' = NoRun

(* main exits with code 1 before Dispatch. *)
WriteFails ==
  /\ "write" \in Faults
  /\ pc = "prepared"
  /\ EndRun
  /\ UNCHANGED <<file, inbox, gap>>

(* The report is on disk; an action is chosen. *)
Dispatch ==
  /\ pc = "prepared"
  /\ LET action == DispatchAction(run.prev, run.filtered, run.rawEmpty, run.newStreak)
     IN  /\ run' = [run EXCEPT !.action = action]
         /\ pc' = IF action = ActionNone THEN "saving" ELSE "sending"
  /\ UNCHANGED <<file, inbox, gap>>

(* What the recipients see when the mail of this run arrives. *)
Deliver ==
  inbox' = [kind |-> run.action,
            sig  |-> MailSig(run.action, run.filtered),
            age  |-> 0]

SendOK ==
  /\ pc = "sending"
  /\ Deliver
  /\ pc' = "saving"
  /\ UNCHANGED <<run, file, gap>>

(* Faulty variants: the error is ignored; the counters are saved.          *)
SendFailsIgnored ==
  /\ "send" \in Faults
  /\ pc = "sending"
  /\ pc' = "saving"
  /\ UNCHANGED <<run, file, inbox, gap>>

SendFailsCounted ==
  /\ "send" \in Faults
  /\ pc = "sending"
  /\ file' = [file EXCEPT !.pending = run.nextPending]
  /\ EndRun
  /\ UNCHANGED <<inbox, gap>>

(* Send returns an error and Dispatch returns without saving anything. *)
SendFails ==
  /\ "send" \in Faults
  /\ pc = "sending"
  /\ EndRun
  /\ UNCHANGED <<file, inbox, gap>>

(* The same, but the server had already accepted the mail. *)
SendFailsLate ==
  /\ "unrecorded" \in Faults
  /\ pc = "sending"
  /\ Deliver
  /\ EndRun
  /\ UNCHANGED <<file, gap>>

(* The new state replaces the old one by a rename: all of it or nothing. *)
Save ==
  /\ pc = "saving"
  /\ file' = StateAfter(run.action, run.prev, run.filtered, run.nextPending, run.newStreak)
  /\ EndRun
  /\ UNCHANGED <<inbox, gap>>

(* Losing the record of a mail that was sent is a fault of its own. *)
NothingUnrecorded ==
  pc = "saving" /\ run.action # ActionNone => "unrecorded" \in Faults

(* Dispatch ignores the error SaveState returns. *)
SaveFails ==
  /\ "save" \in Faults
  /\ pc = "saving"
  /\ NothingUnrecorded
  /\ EndRun
  /\ UNCHANGED <<file, inbox, gap>>

Crash ==
  /\ "crash" \in Faults
  /\ pc # "idle"
  /\ NothingUnrecorded
  /\ EndRun
  /\ UNCHANGED <<file, inbox, gap>>

(* Time passes between two runs, up to the cron period. *)
Tick ==
  /\ pc = "idle"
  /\ gap < MaxGap
  /\ gap' = gap + 1
  /\ file' = Older(file)
  /\ inbox' = [inbox EXCEPT !.age = Bump(@, Cooldown)]
  /\ UNCHANGED <<pc, run>>

Next ==
  \/ \E raw \in SUBSET Items : Prepare(raw)
  \/ Dispatch
  \/ SendOK
  \/ Save
  \/ WriteFails
  \/ SendFails
  \/ SendFailsLate
  \/ SaveFails
  \/ Crash
  \/ Tick

Spec == Init /\ [][Next]_vars
-----------------------------------------------------------------------------
(* What the file says and what the recipients last saw are the same thing. *)
RecordMatchesInbox(f) ==
  /\ f.status = StatusAlert <=> inbox.kind = ActionSendAlert
  /\ f.status = StatusOK <=> inbox.kind = ActionSendRecovery
  /\ f.sig = inbox.sig
  /\ f.sentAge = inbox.age

(* As long as no record is lost, state.json describes the last mail the    *)
(* recipients got: its kind, its alert set and its age, so that cooldown   *)
(* and recovery are decided about a mail that was really sent (Dispatch    *)
(* saves after Send succeeded, and only then).  While a mail is out and    *)
(* not yet recorded, the run still holds the state it will save.           *)
RecordIsTrue ==
  IF pc = "saving" /\ run.action # ActionNone
  THEN RecordMatchesInbox(StateAfter(run.action, run.prev, run.filtered,
                                     run.nextPending, run.newStreak))
  ELSE RecordMatchesInbox(file)

Episode == INSTANCE AlertEpisode

(* As long as no record is lost, what the recipients see over all the runs *)
(* is what AlertEpisode promises: no repetition within the cooldown, and   *)
(* one recovery per incident (Decide and Dispatch work from state.json     *)
(* alone, which the runs before them wrote).                               *)
KeepsPromise == Episode!Spec

(* A clear run that could close the incident does close it: no state is    *)
(* kept in which the streak of empty runs has reached ConsecutiveRuns and  *)
(* the recovery mail is still to come.                                     *)
RecoveryNotOverdue == SendRecovery => file.streak < ConsecutiveRuns
=============================================================================
