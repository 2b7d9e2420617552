----------------------------- MODULE ReportView -----------------------------
(***************************************************************************)
(* One inspection report and what the notification makes of it: the rules  *)
(* turn what was collected into rows with a status, ExtractAlerts turns    *)
(* the Warn rows into (Host, Field) items, and demotePending writes the    *)
(* outcome of the confirmation back into the two copies the report holds   *)
(* of each host row (the host's own table, and AllChecks, which Summary    *)
(* counts).                                                                *)
(*                                                                         *)
(* Runs follow one another and every run saves its state; Notify is about  *)
(* what can fail.  The entries do not get old enough to expire here.       *)
(***************************************************************************)
EXTENDS NotifyRules, Sequences, FiniteSetsExt

CONSTANTS
  HostOrder,    \* the inspected hosts, in the order of cfg.AllHosts
  HostFields,   \* fields of the rows CheckHost gives every host
  EmptyIsBad,   \* those for which the zero value of the metric is a Warn
  MountFields,  \* fields of rows that exist only where the mount was seen
  Probes,       \* service rows: one sub-module on one host
  ProbeField,   \* the field of such a row, which does not name the host
  NoHost        \* the empty Host

Hosts == Range(HostOrder)
Fields == HostFields \cup MountFields \cup Range(ProbeField)

ASSUME ReportAssumption ==
  /\ Items = (Hosts \cup {NoHost}) \X Fields
  /\ EmptyIsBad \subseteq HostFields
  /\ HostFields \cap MountFields = {}
  /\ DOMAIN ProbeField = Probes
  /\ Probes \cap (Hosts \X (HostFields \cup MountFields)) = {}
  /\ Range(ProbeField) \cap (HostFields \cup MountFields) = {}
  /\ HostOrder \in Seq(Hosts)
  /\ ConsecutiveRuns > 1

VARIABLES
  phase,     \* "idle": the run before is over; "collected"
  hostView,  \* report.Hosts[..].Checks: the status of each row of each host
  all,       \* report.AllChecks: the status of each row
  summary,   \* report.Summary
  pending,   \* State.Pending, saved by the run before
  fired,     \* Filtered: what the mail of the last run lists
  seenRow,   \* for how many runs in a row each row has been Warn, up to N
  seenField  \* for how many runs in a row some row of the field was Warn

vars == <<phase, hostView, all, summary, pending, fired, seenRow, seenField>>

OK == "ok"
Warn == "warn"
Unknown == "unknown"
Notice == "notice"

HostRows == Hosts \X (HostFields \cup MountFields)
FieldOf(row) == IF row \in Probes THEN ProbeField[row] ELSE row[2]

-----------------------------------------------------------------------------
(* The rules. *)

(* An unreachable host has zero metrics and no mounts; what matters of a   *)
(* reachable one is which of its metrics are beyond their threshold.       *)
Metrics == [up : {TRUE}, bad : SUBSET (HostFields \cup MountFields)]
             \cup [up : {FALSE}, bad : {EmptyIsBad}]

CheckHost(m) ==
  [f \in HostFields \cup (IF m.up THEN MountFields ELSE {}) |->
     IF f \in m.bad THEN Warn ELSE OK]

(* systemctl's ActiveState, "" when the unit is not there. *)
UnitStates == {"active", "failed", ""}

CheckService(unitState) ==
  IF unitState = "active" THEN OK ELSE IF unitState = "" THEN Unknown ELSE Warn

(* Notice rows are in no bucket. *)
Summarize(rows) ==
  LET count(status) == Cardinality({r \in DOMAIN rows : rows[r] = status})
  IN  [ok |-> count(OK), warn |-> count(Warn), unknown |-> count(Unknown),
       total |-> count(OK) + count(Warn) + count(Unknown)]

(* runner.Run appends a copy of every row to AllChecks. *)
AllRows(view, probes) ==
  [r \in {hf \in HostRows : hf[2] \in DOMAIN view[hf[1]]} \cup Probes |->
     IF r \in Probes THEN CheckService(probes[r]) ELSE view[r[1]][r[2]]]

-----------------------------------------------------------------------------
(* ExtractAlerts and demotePending. *)

(* hostByField: each host with a row of that field overwrites the one      *)
(* before it.                                                              *)
HostByField(f, view) ==
  LET places == {i \in DOMAIN HostOrder : f \in DOMAIN view[HostOrder[i]]}
  IN  IF places = {} THEN NoHost ELSE HostOrder[Max(places)]

ItemOf(row, view) == <<HostByField(FieldOf(row), view), FieldOf(row)>>

WarnRows(rows) == {r \in DOMAIN rows : rows[r] = Warn}

ExtractAlerts(view, rows) == {ItemOf(r, view) : r \in WarnRows(rows)}

(* A host table is matched by the host it belongs to... *)
DemotedView(view, keys) ==
  [h \in Hosts |-> [f \in DOMAIN view[h] |->
     IF view[h][f] = Warn /\ <<h, f>> \in keys THEN Notice ELSE view[h][f]]]

(* Faulty variant: host rows are demoted in their own table only. *)
DemotedProbes(rows, view, keys) ==
  [r \in DOMAIN rows |->
     IF r \in Probes /\ rows[r] = Warn /\ ItemOf(r, view) \in keys THEN Notice ELSE rows[r]]

(* ... and AllChecks by the host hostByField names. *)
DemotedRows(rows, view, keys) ==
  [r \in DOMAIN rows |->
     IF rows[r] = Warn /\ ItemOf(r, view) \in keys THEN Notice ELSE rows[r]]

(* Faulty variant: the summary from before the demotion. *)
StaleSummary(rows) == summary

recomputeSummary(rows) == Summarize(rows)

-----------------------------------------------------------------------------
Init ==
  /\ phase = "idle"
  /\ hostView = [h \in Hosts |-> [f \in {} |-> OK]]
  /\ all = [r \in {} |-> OK]
  /\ summary = Summarize([r \in {} |-> OK])
  /\ pending = ColdStart.pending
  /\ fired = {}
  /\ seenRow = [r \in HostRows \cup Probes |-> 0]
  /\ seenField = [f \in Fields |-> 0]

(* runner.Run with the given metrics and unit states. *)
Run(metrics, probes) ==
  LET view == [h \in Hosts |-> CheckHost(metrics[h])]
      rows == AllRows(view, probes)
      seenNow == WarnRows(rows)
  IN  /\ phase = "idle"
      /\ phase' = "collected"
      /\ hostView' = view
      /\ all' = rows
      /\ summary' = Summarize(rows)
      /\ fired' = {}
      /\ seenRow' = [r \in DOMAIN seenRow |->
           IF r \in seenNow THEN Bump(seenRow[r], ConsecutiveRuns) ELSE 0]
      /\ seenField' = [f \in Fields |->
           IF \E r \in seenNow : FieldOf(r) = f
           THEN Bump(seenField[f], ConsecutiveRuns) ELSE 0]
      /\ UNCHANGED pending

(* notify.Prepare, and the state the same run saves. *)
Prepare ==
  LET raw == ExtractAlerts(hostView, all)
      keys == raw \ Filtered(raw, pending)
      rows == DemotedRows(all, hostView, keys)
  IN  /\ phase = "collected"
      /\ phase' = "idle"
      /\ fired' = Filtered(raw, pending)
      /\ pending' = NextPending(raw, pending)
      /\ IF keys = {}
         THEN UNCHANGED <<hostView, all, summary>>
         ELSE /\ hostView' = DemotedView(hostView, keys)
              /\ all' = rows
              /\ summary' = recomputeSummary(rows)
      /\ UNCHANGED <<seenRow, seenField>>

Next ==
  \/ \E metrics \in [Hosts -> Metrics], probes \in [Probes -> UnitStates] :
       Run(metrics, probes)
  \/ Prepare

Spec == Init /\ [][Next]_vars
-----------------------------------------------------------------------------
(* The subject of an alert mail ("x of y checks") counts the very rows its *)
(* body lists: Summary.Warn is the number of rows still Warn, and those    *)
(* rows are the firing items, no more and no less (Prepare demotes every   *)
(* pending row before Summary is used).                                    *)
SubjectMatchesBody ==
  phase = "idle" =>
    /\ summary.warn = Cardinality(WarnRows(all))
    /\ ExtractAlerts(hostView, all) = fired

(* The attached report never tones down what the mail announces: a row     *)
(* demoted in the table of its host is demoted in AllChecks too, although  *)
(* the two are matched by different hosts.                                 *)
HostTableShowsFired ==
  \A h \in Hosts : \A f \in DOMAIN hostView[h] :
    hostView[h][f] = Notice => all[<<h, f>>] = Notice

(* What fires has been Warn on some host in each of the last N runs (the   *)
(* key an item is counted under may name another host than the one that    *)
(* warns, but never another field).                                        *)
FieldWasConfirmed ==
  \A i \in fired : seenField[i[2]] >= ConsecutiveRuns

-----------------------------------------------------------------------------
(* Statements of the documentation that the code does not keep. *)

(* Only a (Host, Field) that warns in N consecutive inspections counts:    *)
(* behind every firing item is a row of its field that did.                *)
ConfirmedOnOneHost ==
  \A i \in fired :
    \E r \in DOMAIN seenRow : FieldOf(r) = i[2] /\ seenRow[r] >= ConsecutiveRuns
=============================================================================
