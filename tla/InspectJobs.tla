----------------------------- MODULE InspectJobs -----------------------------
(***************************************************************************)
(* The processes around one state.json and one report directory: jobs are  *)
(* weops-inspect processes that cron or a person starts (main.go), pages   *)
(* are inspections started inside WeTerm ("ShowInspectPage").  Both run    *)
(* the same runner and write the same report files; only jobs take the     *)
(* flock, confirm warnings, send mail and keep state.json.                 *)
(*                                                                         *)
(* A process that finds the lock taken exits with code 0 and changes       *)
(* nothing: a stuttering step.  A finished process id stands for the next  *)
(* process as well.  The notification rules are NotifyRules; that the jobs *)
(* together behave as the single sequence of runs of Notify is a property. *)
(***************************************************************************)
EXTENDS NotifyRules

CONSTANTS
  Jobs,         \* weops-inspect processes that can be alive at a time
  Pages,        \* WeTerm inspection goroutines that can be alive at a time
  Faults,       \* as in Notify
  LockMayFail,  \* the lock file may be unusable, which is not contention
  MaxGap,       \* as in Notify
  Nobody        \* no writer

Writers == Jobs \cup Pages

ASSUME JobsAssumption ==
  /\ Jobs \cap Pages = {}
  /\ Nobody \notin Writers
  /\ Faults \subseteq {"write", "send", "save", "crash", "unrecorded", "damage"}
  /\ LockMayFail \in BOOLEAN
  /\ MaxGap \in Nat

VARIABLES
  at,         \* how far each writer is
  notifies,   \* whether Prepare gave the job a context (mail enabled and valid)
  ctx,        \* the PrepContext of each job
  body,       \* whose report the job read as mail body; Nobody: plain text
  lock,       \* the job that holds the flock
  html,       \* weops_inspection.html: whose it is, and if it is complete
  json,       \* weops_inspection.json: whose it is
  cancelled,  \* the pages whose context was cancelled
  shown,      \* the page on the screen, which ESC cancels
  file, inbox, gap,  \* as in Notify
  delivered   \* every mail the recipients ever got

state == <<file, inbox, gap, delivered>>
report == <<html, json>>
ui == <<cancelled, shown>>
vars == <<at, notifies, ctx, body, lock, report, ui, state>>

(* The phases of runner.Run, the steps of output.Write and of Dispatch. *)
Collecting == {"phase1", "phase2", "phase3"}
Writing == {"prepared", "html", "json"}
Dispatching == {"written", "sending", "saving"}

Report(w) == [by |-> w, whole |-> TRUE]

JTypeOK ==
  /\ at \in [Writers -> {"off"} \cup Collecting \cup Writing \cup Dispatching]
  /\ notifies \in [Writers -> BOOLEAN]
  /\ ctx \in [Jobs -> Context]
  /\ body \in [Jobs -> Writers \cup {Nobody}]
  /\ lock \in Jobs \cup {Nobody}
  /\ html \in [by : Writers \cup {Nobody}, whole : BOOLEAN]
  /\ json \in Writers \cup {Nobody}
  /\ cancelled \subseteq Pages
  /\ shown \in Pages \cup {Nobody}
  /\ file \in State
  /\ inbox \in Mail
  /\ gap \in 0 .. MaxGap
  /\ delivered \subseteq [kind : Actions, sig : SUBSET SigKeys]

Init ==
  /\ at = [w \in Writers |-> "off"]
  /\ notifies = [w \in Writers |-> FALSE]
  /\ ctx = [j \in Jobs |-> NoRun]
  /\ body = [j \in Jobs |-> Nobody]
  /\ lock = Nobody
  /\ html = [by |-> Nobody, whole |-> FALSE]
  /\ json = Nobody
  /\ cancelled = {}
  /\ shown = Nobody
  /\ file = ColdStart
  /\ inbox = NoMail
  /\ gap = 0
  /\ delivered = {}

-----------------------------------------------------------------------------
(* Start and end of a writer. *)

Goto(w, stage) == at' = [at EXCEPT ![w] = stage]

(* Faulty variant: the lock outlives the process. *)
ExitLocked(w) ==
  /\ Goto(w, "off")
  /\ notifies' = [notifies EXCEPT ![w] = FALSE]
  /\ ctx' = [j \in Jobs |-> IF j = w THEN NoRun ELSE ctx[j]]
  /\ body' = [j \in Jobs |-> IF j = w THEN Nobody ELSE body[j]]
  /\ cancelled' = cancelled \ {w}
  /\ UNCHANGED <<lock, shown>>

(* The process is gone and the kernel has closed its lock file, or the     *)
(* goroutine has returned.                                                 *)
Exit(w) ==
  /\ Goto(w, "off")
  /\ notifies' = [notifies EXCEPT ![w] = FALSE]
  /\ ctx' = [j \in Jobs |-> IF j = w THEN NoRun ELSE ctx[j]]
  /\ body' = [j \in Jobs |-> IF j = w THEN Nobody ELSE body[j]]
  /\ lock' = IF lock = w THEN Nobody ELSE lock
  /\ cancelled' = cancelled \ {w}
  /\ UNCHANGED shown

(* Faulty variant: contention is not noticed. *)
AcquireShared(j) ==
  /\ at[j] = "off"
  /\ lock' = j
  /\ Goto(j, "phase1")
  /\ UNCHANGED <<notifies, ctx, body, report, ui, state>>

(* lock.Acquire succeeds. *)
Acquire(j) ==
  /\ at[j] = "off"
  /\ lock = Nobody
  /\ lock' = j
  /\ Goto(j, "phase1")
  /\ UNCHANGED <<notifies, ctx, body, report, ui, state>>

(* lock.Acquire fails with something else than ErrBusy, or there is no     *)
(* config directory to put the lock in: the job goes on without it.        *)
AcquireFails(j) ==
  /\ LockMayFail
  /\ at[j] = "off"
  /\ Goto(j, "phase1")
  /\ UNCHANGED <<notifies, ctx, body, lock, report, ui, state>>

(* The inspection entry of the menu, which is reached with no page open.   *)
OpenPage(p) ==
  /\ shown = Nobody
  /\ at[p] = "off"
  /\ shown' = p
  /\ Goto(p, "phase1")
  /\ UNCHANGED <<notifies, ctx, body, lock, report, cancelled, state>>

(* ESC calls CancelFunc and goes back to the menu. *)
Escape ==
  /\ shown # Nobody
  /\ cancelled' = IF at[shown] = "off" THEN cancelled ELSE cancelled \cup {shown}
  /\ shown' = Nobody
  /\ UNCHANGED <<at, notifies, ctx, body, lock, report, state>>

Crash(j) ==
  /\ "crash" \in Faults
  /\ at[j] # "off"
  /\ at[j] = "saving" /\ ctx[j].action # ActionNone => "unrecorded" \in Faults
  /\ Exit(j)
  /\ UNCHANGED <<report, state>>

-----------------------------------------------------------------------------
(* runner.Run. *)

(* There is no SSH key to start with. *)
RunFails(w) ==
  /\ at[w] = "phase1"
  /\ Exit(w)
  /\ UNCHANGED <<report, state>>

(* The context is checked after the hosts and after the modules.           *)
NextPhase(w) ==
  /\ w \notin cancelled
  /\ \/ at[w] = "phase1" /\ Goto(w, "phase2")
     \/ at[w] = "phase2" /\ Goto(w, "phase3")
  /\ UNCHANGED <<notifies, ctx, body, lock, report, ui, state>>

RunCancelled(p) ==
  /\ p \in cancelled
  /\ at[p] \in {"phase1", "phase2"}
  /\ Exit(p)
  /\ UNCHANGED <<report, state>>

(* The last phase ends without another check; a page goes on to write. *)
PageCollected(p) ==
  /\ at[p] = "phase3"
  /\ Goto(p, "prepared")
  /\ UNCHANGED <<notifies, ctx, body, lock, report, ui, state>>

-----------------------------------------------------------------------------
(* notify.Prepare. *)

Loaded == {file} \cup (IF "damage" \in Faults THEN {ColdStart} ELSE {})

Prepare(j, raw) ==
  /\ at[j] = "phase3"
  /\ \E prev \in Loaded : ctx' = [ctx EXCEPT ![j] = ContextOf(raw, prev)]
  /\ notifies' = [notifies EXCEPT ![j] = TRUE]
  /\ Goto(j, "prepared")
  /\ gap' = 0
  /\ UNCHANGED <<body, lock, report, ui, file, inbox, delivered>>

(* There is no usable notify config: Prepare returns nil. *)
PrepareOff(j) ==
  /\ at[j] = "phase3"
  /\ Goto(j, "prepared")
  /\ UNCHANGED <<notifies, ctx, body, lock, report, ui, state>>

-----------------------------------------------------------------------------
(* output.Write. *)

(* os.WriteFile truncates the file before it writes. *)
BeginHTML(w) ==
  /\ at[w] = "prepared"
  /\ html' = [by |-> w, whole |-> FALSE]
  /\ Goto(w, "html")
  /\ UNCHANGED <<notifies, ctx, body, lock, json, ui, state>>

(* The content lands on top of what another writer wrote meanwhile: what   *)
(* remains of a longer report follows a shorter one.                       *)
EndHTML(w) ==
  /\ at[w] = "html"
  /\ \/ html' = Report(w)
     \/ html.whole /\ html' = [by |-> Nobody, whole |-> FALSE]
  /\ Goto(w, "json")
  /\ UNCHANGED <<notifies, ctx, body, lock, json, ui, state>>

(* The job goes on to Dispatch; Dispatch(nil) returns at once, and so does *)
(* main or the page.                                                       *)
WriteJSON(w) ==
  /\ at[w] = "json"
  /\ json' = w
  /\ IF notifies[w]
     THEN Goto(w, "written") /\ UNCHANGED <<notifies, ctx, body, lock, ui>>
     ELSE Exit(w)
  /\ UNCHANGED <<html, state>>

(* Faulty variant: a job goes on to Dispatch with what is on disk. *)
WriteFailsIgnored(w) ==
  /\ "write" \in Faults
  /\ at[w] \in Writing
  /\ IF notifies[w]
     THEN Goto(w, "written") /\ UNCHANGED <<notifies, ctx, body, lock, ui>>
     ELSE Exit(w)
  /\ UNCHANGED <<report, state>>

(* Exit code 1, or a line on the page. *)
WriteFails(w) ==
  /\ "write" \in Faults
  /\ at[w] \in Writing
  /\ Exit(w)
  /\ UNCHANGED <<report, state>>

-----------------------------------------------------------------------------
(* notify.Dispatch. *)

(* An action is chosen, and the mail body is read from disk: a report      *)
(* without a complete body element gives a plain text mail.                *)
Dispatch(j) ==
  /\ at[j] = "written"
  /\ LET action == DispatchAction(ctx[j].prev, ctx[j].filtered, ctx[j].rawEmpty,
                                  ctx[j].newStreak)
     IN  /\ ctx' = [ctx EXCEPT ![j].action = action]
         /\ Goto(j, IF action = ActionNone THEN "saving" ELSE "sending")
  /\ body' = [body EXCEPT ![j] = IF html.whole THEN html.by ELSE Nobody]
  /\ UNCHANGED <<notifies, lock, report, ui, state>>

MailOf(j) ==
  [kind |-> ctx[j].action, sig |-> MailSig(ctx[j].action, ctx[j].filtered)]

Deliver(j) ==
  /\ inbox' = [kind |-> MailOf(j).kind, sig |-> MailOf(j).sig, age |-> 0]
  /\ delivered' = delivered \cup {MailOf(j)}

SendOK(j) ==
  /\ at[j] = "sending"
  /\ Deliver(j)
  /\ Goto(j, "saving")
  /\ UNCHANGED <<notifies, ctx, body, lock, report, ui, file, gap>>

(* Faulty variant: the error is ignored. *)
SendFailsIgnored(j) ==
  /\ "send" \in Faults
  /\ at[j] = "sending"
  /\ Goto(j, "saving")
  /\ UNCHANGED <<notifies, ctx, body, lock, report, ui, state>>

(* Dispatch returns; the server may have taken the mail all the same. *)
SendFails(j) ==
  /\ at[j] = "sending"
  /\ \/ "send" \in Faults /\ UNCHANGED <<inbox, delivered>>
     \/ "unrecorded" \in Faults /\ Deliver(j)
  /\ Exit(j)
  /\ UNCHANGED <<report, file, gap>>

Save(j) ==
  /\ at[j] = "saving"
  /\ file' = StateAfter(ctx[j].action, ctx[j].prev, ctx[j].filtered,
                        ctx[j].nextPending, ctx[j].newStreak)
  /\ Exit(j)
  /\ UNCHANGED <<report, inbox, gap, delivered>>

SaveFails(j) ==
  /\ "save" \in Faults
  /\ at[j] = "saving"
  /\ ctx[j].action # ActionNone => "unrecorded" \in Faults
  /\ Exit(j)
  /\ UNCHANGED <<report, state>>

(* As in Notify, a time unit is longer than what Prepare to SaveState      *)
(* takes; collecting may take any time.                                    *)
Tick ==
  /\ \A j \in Jobs : ~notifies[j]
  /\ gap < MaxGap
  /\ gap' = gap + 1
  /\ file' = Older(file)
  /\ inbox' = [inbox EXCEPT !.age = Bump(@, Cooldown)]
  /\ UNCHANGED <<at, notifies, ctx, body, lock, report, ui, delivered>>

-----------------------------------------------------------------------------
JobStep(j) ==
  \/ Acquire(j) \/ AcquireFails(j) \/ Crash(j)
  \/ PrepareOff(j) \/ \E raw \in SUBSET Items : Prepare(j, raw)
  \/ Dispatch(j) \/ SendOK(j) \/ SendFails(j) \/ Save(j) \/ SaveFails(j)

PageStep(p) == OpenPage(p) \/ RunCancelled(p) \/ PageCollected(p)

WriterStep(w) ==
  RunFails(w) \/ NextPhase(w) \/ BeginHTML(w) \/ EndHTML(w) \/ WriteJSON(w) \/ WriteFails(w)

Next ==
  \/ \E j \in Jobs : JobStep(j)
  \/ \E p \in Pages : PageStep(p)
  \/ \E w \in Writers : WriterStep(w)
  \/ Escape
  \/ Tick

Spec == Init /\ [][Next]_vars

(* From Prepare on nothing waits without a time limit: files are local and *)
(* Send gives up after 30 s.  Nothing is assumed about collecting, which   *)
(* a host that accepts the connection and then falls silent can stop.      *)
Finishing(j) ==
  \/ BeginHTML(j) \/ EndHTML(j) \/ WriteJSON(j)
  \/ Dispatch(j) \/ SendOK(j) \/ SendFails(j) \/ Save(j)

FairSpec == Spec /\ \A j \in Jobs : WF_vars(Finishing(j))
-----------------------------------------------------------------------------
(* The jobs as one sequence of runs: the job with the lock is the run,     *)
(* from its Prepare on.                                                    *)
InRun == IF lock = Nobody THEN FALSE ELSE notifies[lock]

Single == INSTANCE Notify
  WITH pc  <- IF ~InRun THEN "idle"
              ELSE IF at[lock] \in {"sending", "saving"} THEN at[lock] ELSE "prepared",
       run <- IF InRun THEN ctx[lock] ELSE NoRun

(* With the flock, any number of cron triggers and manual starts behaves   *)
(* as one run after another: read, decide, send and rewrite state.json     *)
(* happen without another job in between, so no update is lost and what    *)
(* holds for Notify holds for the processes (lock.go: concurrent runs      *)
(* "cannot corrupt the notify state.json").                                *)
JobsAreSingleRuns == Single!Spec

(* A mail carries the report of the run that sends it, complete and in     *)
(* both files, never the report of another job; only an inspection page    *)
(* of WeTerm, which writes the same files without the lock, can come       *)
(* between (main writes the report before Dispatch reads it).              *)
MailIsOfItsRun ==
  LET Intruders == IF Pages = {} THEN {} ELSE Pages \cup {Nobody}
  IN  \A j \in Jobs :
        lock = j /\ at[j] = "sending" =>
          /\ html = Report(j) \/ html.by \in Intruders
          /\ body[j] \in {j} \cup Intruders
          /\ json \in {j} \cup Intruders

(* A job that got as far as Prepare gives the lock back, whatever fails,   *)
(* so that the next cron trigger is not skipped for ever (release, or the  *)
(* kernel when main exits with code 1).                                    *)
LockIsReleased ==
  \A j \in Jobs :
    (lock = j /\ at[j] \in Writing \cup Dispatching) ~> (lock # j)

(* Even jobs that run without the lock never record a mail that nobody     *)
(* got: an update can be lost then, but none is made up (each job saves    *)
(* what it read or what it has sent itself).                               *)
NoPhantomRecord ==
  /\ file.status = StatusAlert =>
       [kind |-> ActionSendAlert, sig |-> file.sig] \in delivered
  /\ file.status = StatusOK =>
       [kind |-> ActionSendRecovery, sig |-> {}] \in delivered

-----------------------------------------------------------------------------
(* A statement of the comments that the code does not keep. *)

(* After ESC, Run returns ctx.Err() as soon as it can, and the page writes *)
(* no report (runner.go, inspect.go).                                      *)
CancelledRunWritesNothing ==
  [][\A p \in Pages : BeginHTML(p) => p \notin cancelled]_vars
=============================================================================
