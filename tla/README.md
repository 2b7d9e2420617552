# WeTerm and weops-inspect in TLA+

Specifications, model checks and proofs for the program in this repository:
WeTerm, a terminal interface for running a BlueKing/WeOps platform, and
weops-inspect, the inspection program it embeds and that cron runs on its own.

Three parts are modelled. The centre is the alerting half of weops-inspect: it
keeps state from one run to the next, several processes share it, it has to cope
with a mail server and with crashes, and nobody notices its errors: an alert that
is never sent looks like a healthy platform. Before it comes the collection, from
the configuration over hosts, services and components that fail in every way to
the rows of the report. Beside both stands procmon: collectors put on the hosts
by WeTerm, run by cron, fetched and summed up again.

## 1. Inventory

### weops-inspect (`inspect/`)

| part | state | operations | talks to |
|---|---|---|---|
| `notify/persistence.go`, `trigger.go`, `signature.go` | none: pure rules | ApplyPersistence, UpdateRecoveryStreak, Decide, Signature | called by notify.go |
| `notify/state.go` | `state.json`: last mail, pending counters, recovery streak | LoadState, SaveState | the file system |
| `notify/notify.go` | PrepContext of the run | Prepare, Dispatch, demotePending | the rules, the report, email.go |
| `notify/email.go`, `htmlfrag.go` | none | Send with a 30 s limit, body from the report on disk | SMTP server |
| `notify/alerts.go` | none | ExtractAlerts: Warn rows to (Host, Field) | the report |
| `lock/lock.go` | `inspect.lock` | Acquire, release | other weops-inspect processes |
| `output/writer.go`, `render/` | `weops_inspection.html`, `.json` | Write | the file system; read again by Dispatch and Send |
| `runner/runner.go` | the report under construction | Run in three phases, RunHostsOnly | collectors, rules |
| `ssh/client.go` | SSH configuration | Run, RunContext with a timeout | hosts |
| `collector/` | none between runs | parallel host sampling, services, ES, MySQL, Redis, Sentinel, MongoDB, RabbitMQ, replication, bkmonitor dependencies | hosts, components |
| `checker/` | none | rules from metrics to rows with a status | the report |
| `config/config.go` | Config from BK_* variables | Load, Validate, module and host lists | environment |

`main.go` joins them: lock, Run, Prepare, Write, Dispatch. Prepare must come
before Write (pending rows are demoted in the report) and Dispatch after it (the
report on disk is mailed).

### WeTerm (`cmd/`, `index/`, `pages/`, `utils/`)

One tview event loop and one AppModel with a single CancelFunc. Menu entries
open pages; long work runs in goroutines that queue updates on the event loop;
ESC calls CancelFunc and shows the menu. `pages/inspect` runs the same runner
and the same output.Write as weops-inspect, in the process of WeTerm, without
the lock and without notify. `pages/procmon` drives scp and ssh over all hosts.
`cmd/action.go` and `pages/template` run shell commands and show their output.

### procmon (`procmon/`)

A collector that cron starts every minute on every host (one JSON line per
process into one file per day, pruned by file date), and a Python reporter that
loads the files, normalises command lines, and turns counters into rates.

### What is hard

* **State across runs.** Four mechanisms decide on a mail (confirmation by N
  runs, signature, cooldown, recovery streak). Each is simple; their interplay
  over many runs, with runs that end early in between, is not.
* **Failure between two effects.** The mail is sent, then state.json is
  written. A run can die between the two, and a refused mail means nothing is
  written.
* **Concurrent processes.** cron, a person at the shell and WeTerm run
  inspections at the same time, over shared files; the lock covers some of it.
* **Two copies of a row.** A host row is in the host's table and in AllChecks;
  confirmation is written back into both, by different rules.
* **Collection.** One silent host can stop everything; timeouts race answers.
* **Cancellation.** One CancelFunc for all pages, checked between phases only.

`PROJECT.json` lists the hazards at their lines, with the properties that cover
them, and those no property covers yet.

What makes each part correct: the decision rules must mail everything that
persists, nothing that does not, once per cooldown, and close every incident
once; state.json must describe what was really sent; processes must behave as
one run after another; a mail must carry the report of its run; the copies in
the report must agree with the mail; the collection must end and must not turn
an outage into silence; a page that was left must have no further effect.

## 2. Modules

| module | models | extends |
|---|---|---|
| `NotifyRules` | the rules and the persisted state, as operators | |
| `AlertEpisode` | abstract: what the recipients of the mails are promised | |
| `Notify` | the runs one after another, each step with its faults | `NotifyRules` |
| `NotifyHistory` | `Notify` with history variables, properties about past runs and mails, fairness | `Notify` |
| `NotifyRulesProofs` | lemmas about the rules: types, what each action means | `NotifyRules` |
| `NotifyProofs`, `NotifyHistoryProofs` | theorems about `Notify` and `NotifyHistory` | these and `NotifyRulesProofs` |
| `InspectJobs` | processes, lock, report files, inspection pages | `NotifyRules`; refines `Notify` |
| `InspectJobsProofs` | theorems about `InspectJobs` | `InspectJobs`, `NotifyRulesProofs` |
| `ReportView` | rows, host attribution, demotion, summary | `NotifyRules` |
| `ReportViewProofs` | theorems about `ReportView` | `ReportView`, `NotifyRulesProofs` |
| `CheckRows` | the rows of a report | |
| `InspectConfig` | host lists, validation, numeric bounds, blacklists, endpoints, as operators | `CheckRows` |
| `HostRules` | host and service output, its parsing, its rules | `CheckRows` |
| `ComponentRules` | what components can answer, what the collectors make of it, their rules | `CheckRows` |
| `SshClient` | remote commands: one call with its goroutine and its context | |
| `Inspection` | abstract: one verdict per target, no report without all of them | |
| `Collection` | one inspection with all its goroutines | `InspectConfig`, `HostRules`, `ComponentRules`; an instance of `SshClient`; refines `Inspection` |
| `CollectionProofs` | theorems about `Collection`: verdicts, phases, cancellation | `Collection` |
| `CollectionRowsProofs` | theorems about the rows of its report | `CollectionProofs` |
| `ProcmonData` | samples, lines, the prune's limit, the reporter's loading and sums, as operators | |
| `ProcmonFleet` | the procmon pages, the remote commands, cron, collectors, processes | `ProcmonData` |
| `ProcmonFleetProofs` | theorems about `ProcmonFleet` | `ProcmonFleet` |
| `MCNotify`, `MCInspectJobs`, `MCReportView`, `MCCollection`, `MCProcmonFleet` | instances for TLC | |

A definition named `Faulty variant` in a comment is not part of the model. It is
the form a plausible mistake would give the definition after it; a property is
only kept if it fails when the variant replaces the definition (`PROJECT.json`,
"mutants").

### NotifyRules and Notify

`NotifyRules` has the operators of `ApplyPersistence` (`Filtered`,
`NextPending`), `UpdateRecoveryStreak`, `Signature`, `Decide`, the choice in
Dispatch (`Gated`, `DispatchAction`) and the state it saves (`StateAfter`).

* Times are ages. The code compares `now - LastSentAt` with the cooldown and
  `now - FirstSeen` with pendingTTL and uses the times for nothing else, so an
  age stops at the value it is compared with. An age is relative to the moment
  of Prepare (`PrepContext.Now`).
* An item is a (Host, Field) key, `SigKey` is the normalisation that collapses
  RabbitMQ queues of a virtual host, and a signature is the set of normalised
  keys its hash stands for.
* `RecoveryStreak` is only compared with N and stops at N.
* `consecutive_runs` and the cooldown are positive, as `Load` makes them.

`Notify` has one action per step of a run: `Prepare` (LoadState, ExtractAlerts,
ApplyPersistence, UpdateRecoveryStreak), `Dispatch` (the decision), `SendOK`,
`Save`, and the exits `WriteFails` (main exits before Dispatch), `SendFails`,
`SendFailsLate` (the server took the mail, the answer came too late),
`SaveFails`, `Crash`. `Tick` is time between runs, `MaxGap` the cron period. The
constant `Faults` says which exits can happen; `damage` is an unreadable
state.json, `unrecorded` the loss of the record of a sent mail, by a late answer
or by a crash or a failing save between Send and SaveState. Raw items are any
subset of `Items` in every run: the collection may find anything.

A run whose Prepare returns nil changes nothing and is a stuttering step here;
`InspectJobs` has it as `PrepareOff`. Process calls Prepare and Dispatch and
adds nothing.

### InspectJobs

Jobs are weops-inspect processes, pages are inspection goroutines of WeTerm.
`at` is how far each is: `phase1` to `phase3` of runner.Run, `prepared`, `html`,
`json` in output.Write, `written`, `sending`, `saving` in Dispatch. `Acquire`
and `AcquireFails` are the cases of the switch in main; contention is a
stuttering step, as the process exits. `RunCancelled` and `NextPhase` have the
context checks where the code has them, and the third phase has none.
`BeginHTML`/`EndHTML` are the truncation and the write of os.WriteFile: two
writers can interleave, and the rest of a longer report can follow a shorter
one. `Dispatch` reads the body from the file at that moment.

The page writes in its own process, so a crash of WeTerm, which would end all
pages, is left out; it can end a page in no state that `WriteFails` or
`RunCancelled` do not reach as well.

### ReportView

One run is `Run` (rules applied to any metrics and unit states, rows copied to
AllChecks, Summary) followed by `Prepare` (ExtractAlerts, confirmation,
demotion, Summary again). Thresholds are abstracted: a metric is beyond its
threshold or not. An unreachable host has the zero metrics the code gives it:
`EmptyIsBad` is the set of fields for which these are a Warn (max_open_files,
selinux, firewalld, chronyd), and it has no mount rows. Rows that name no host
(services, components) have the empty host, as hostByField finds none.

### Collection

A *deployment* is the environment an inspection starts from: the host lists and
numbers of its BK_* and INSPECT_* variables, what its commands can print, what
RabbitMQ can reply, and `faulty`, the hosts whose SSH may be refused, hang, break
off or be late. `pc` is the place in `runner.Run` (or `RunHostsOnly`, mode
"hosts"): `Load` and `NoAuthMethod` are the errors before the first phase,
`StartSampling`, `StartBatch`, `StartServices`, `StartComponents` the barriers
(`wg.Wait`) with the context checks where the code has them, and `SampleDone`,
`BatchDone`, `ServiceDone` what a goroutine does with its result.

The calls are those of `SshClient`: `dialing` (has a timeout), `handshake` (has
none: dial, key exchange and session), `waiting` for the goroutine that runs the
command, `sent` when its result is in the channel. `TimesOut` can win against a
result that is there. A caller that gives up leaves an orphan, which ends by
`LateAnswer` because the channel has room for one.

`HostRules` and `ComponentRules` are the data path: the output of a batch
command is a prefix of its sections (`seen`), a value is good, bad, or the zero
value of what never came; a component's answer is a record with one of a few
failures or outcomes per question. Each `Collect...` operator has the branches
of the collector of that name, each `Check...` the rules of the checker.
Components are asked one after the other in the order of `Run`; `late` says that
the context was cancelled before a component's turn, so that its probes fail
with it (`Unanswered`), except those of bkmonitorv3, which take no context.

Left out: the five seconds between the passes, wire formats and columns, log
output, and of the registry all but one sub-module of each kind per module.

### ProcmonFleet

A *site* is the hosts in order, those whose connection may fail or hang
(`faulty`), those where a command may fail because the disk is full or the user of
the pages may not write (`unfit`), whether the local machine may fail a page in the
same way (`tight`), the pages the operator opens, the time zone, the processes.
`page` is the page in the foreground with the hosts it still has to do. `Open` may
end a Deploy or a Pull before the first host (no temporary file, no data
directory). Deploy is `CopyBegins`, `CopyEnds` (scp), `Launch` (ssh), then the
remote script step by step: `Install`, `InstallEnds`, `RemoveTmp`, `WriteCron`,
`SmokeTest`, `SmokeTestEnds`. It runs under `set -e`: on an unfit host each of the
commands that write may fail (`Fails`), which ends the script and leaves what it
did so far, half a file included. `rm -f` and `ls` are taken to succeed. A script's
`copy` is what its install will have made of the source: install opens a new file
in place of the old one and reads while it writes, so a source that is replaced
meanwhile gives a cut copy, and a later install takes the binary's place away from
an earlier one (`TakesOver`).

Uninstall is `Launch` and `RejectUninstall`: the line it sends is no shell command,
for its parentheses are not quoted, so nothing is removed and the host is red. Pull
is one step per host. `ConnectionLost` and `Cancel` end the local command; the remote
script goes on (`scripts`), and the next page may begin meanwhile. `raced` remembers,
for good, that the remote halves of two deployments met on a host, or one and the
copy for another. The list of hosts is not empty and names no address twice
(`SitesAssumption`); `hosts()` returns what the operator configured and does not
look for repetitions.

`Tick` is a minute of cron: a collector on every host that has the cron file and
a whole binary, and once a day the prune. A collector lists the processes first
and then samples one after the other; a process can vanish before any of the six
reads of its sample (`Skipped`, `KnownAfter`), and its number can be taken by
another. On an unfit host a line may stay unfinished, or a collector of cron's ends
before it has opened its file. `files` keeps what was written
also after the prune, so that properties can refer to it. A fetched file is
whatever prefix scp left.

Time is counted in ticks, with one or a few to a day; the hour of the prune
(`PruneHour`) and the zone enter through `Expired`, which compares as
`parseFileDate` and `cutoff` do: midnight UTC with a local time.

## 3. Runs

| run | instance | checks |
|---|---|---|
| `NotifyFaults` | 2 items, N = 3, cooldown 2, TTL 2, gap up to 1, all faults | `OnlyConfirmedMails`, `CountersAreBacked`, `NoPhantomMail`, `RecoveryNotOverdue`, `FailedAlertIsRetried` |
| `NotifyEpisode` | 3 items with 2 signature keys, N = 2, cooldown 2, TTL 2, mails may be refused | `RecordIsTrue`, `KeepsPromise` (refines `AlertEpisode`), `PersistentWarnIsMailed`, `RecoveryIsMailed` |
| `JobsLocked` | 2 jobs, 1 page, 1 item, all faults, working lock | `JobsAreSingleRuns` (refines `Notify`), `MailIsOfItsRun`, `LockIsReleased` |
| `JobsUnlocked` | 2 jobs, 1 item, all faults, lock may be unusable, symmetric jobs | `NoPhantomRecord` |
| `ReportView` | 2 hosts, 1 field of every host, 1 mount, 1 service on both hosts, N = 2 | `SubjectMatchesBody`, `HostTableShowsFired`, `FieldWasConfirmed` |
| `Collection` | 17 deployments of 2 hosts: two unreliable hosts, wide sets of outputs, each kind of service, each component | `UnhealthyIsShown`, `HealthyIsQuiet`, `InspectionKept` (refines `Inspection`), `CancelStops`, `OnlySilenceBlocks`, `NoGoroutineLeft` |
| `Fleet` | 13 sites of 1 or 2 hosts, up to 2 processes, up to 3 pages, up to 5 ticks | `CronHasBinary`, `CronComesLast`, `GreenIsTrue`, `EveryHostIsTried`, `PulledIsTrue`, `NoFalseLoad`, `WeekIsKept`, `PageEnds` |
| `StableAlerts`, `DailyRuns`, `CancelledPage`, `HostCollapse`, `UninstallFails` | see section 6 | one statement each of the documentation that the code does not keep |

Why the bounds are enough. N = 3 is the smallest N for which a counter has an
intermediate value, 2 the smallest for which there is a counter at all (N = 1 is
the code's fast path). The decision rules compare an age with one limit, so a
limit of 2 gives "just sent", "in between" and "over". Two items give an alert
set that changes without becoming empty, three with two keys one that changes
without changing its signature. With gap 0 or 1 both a burst of manual runs and
runs that outlive a TTL occur. Two processes are enough for every race on a file
that is read once and written once by each; the page adds a writer without
the lock. Two hosts are enough for a row to be attributed to the wrong one, and
mounts exist for a host only when it is reachable, so the attribution can change
from run to run.

A deployment or a site puts one part through everything that can happen to it
and keeps the others quiet; parts that do not interact in the code are not
multiplied with each other. In `Collection` two unreliable hosts are enough for
results to be mixed up and for one host to hold the other; outputs vary on one
reliable host, where no interleaving adds to them; components are asked in turn
and get at most two nodes, enough for "one", "some" and "all". In `Fleet` two
hosts give "before" and "after" a failing one, two pages a page that meets the
leftovers of another, three two generations of leftovers; the sites where commands
fail begin with a collector installed (`Full`) and without (`Fresh`); two days of data and a keep of two days put a file on each
side of the limit, in the zones UTC-12, UTC and UTC+14; two units of processor
time are enough to be charged twice or to the wrong process.

Deadlock is checked in every run but `Collection`, `Fleet` and `UninstallFails`: an
inspection is over, or blocked by a silent host, and the pages of a site are
bounded (`maxPages`).

### Fairness

* `NotifyHistory!Fairness`: cron starts runs again and again, a run goes on
  (weak fairness), and the mail server does not refuse for ever (strong fairness
  of `SendOK`: the code retries by running again, it cannot do more). Nothing is
  assumed about what a run finds. `NotifyEpisode` leaves out crashes and failing
  saves: when every second run loses its counters nothing can be promised, and
  TLC says so.
* `InspectJobs!FairSpec`: a job that has reached Prepare takes its further steps,
  since they are local file operations or Send, which gives up after 30 s.
  Nothing is assumed about the collection: a host that accepts the connection
  and then stays silent stops it, and the lock stays taken (`ssh/client.go`).

* `Collection!Fairness`: the run goes on, a call to a host that is not faulty is
  answered, a TCP dial ends (it has a timeout), a running command's context ends,
  and what has a result returns. Nothing is assumed of a faulty host in the
  handshake. The fairness is one weak condition on all calls together, less than
  the code gives, and enough as a call takes few steps.
* `ProcmonFleet!Fairness`: commands, remote scripts and collectors of hosts that
  are not faulty go on. Nothing is assumed of the faulty ones: scp and ssh are run
  without a timeout, so one of them may hold the page for ever. No process, clock
  or operator has to do anything.

## 4. What the properties say

* `RecordIsTrue`, `KeepsPromise`: state.json describes the last mail that was
  received, hence no alert set is mailed twice within the cooldown and each
  incident has one recovery mail. With lost records (`unrecorded`) both are
  false, and what remains is `NoPhantomMail`: the file never claims a mail that
  was not received. A lost record costs at most a repeated mail.
* `OnlyConfirmedMails`: whatever fails, a mail is backed by N consecutive runs
  that recorded what they saw. Runs that ended early are not counted and do not
  interrupt: an item seen, then absent in a run whose mail was refused, then seen
  again is confirmed. The specification documents contradict each other here.
* `FailedAlertIsRetried`: a refused alert is not lost, although the run that
  was refused leaves no trace.
* `RecoveryNotOverdue`, `RecoveryIsMailed`, `PersistentWarnIsMailed`: neither
  end of an incident can be starved.
* `JobsAreSingleRuns`: the lock turns any interleaving of processes into the
  runs of `Notify`, so what is shown there holds for the processes.
* `MailIsOfItsRun`: body and attachment are those of the run that mails them, up
  to the inspection pages, which can intrude.
* `SubjectMatchesBody`: the number in the subject is that of the items the body
  lists. `HostTableShowsFired`: a row that was demoted in the table of its host was
  demoted in the list of all rows too, so no fired item is shown as pending there.
  The converse is not checked and does not hold (section 6). `FieldWasConfirmed`:
  an item may be counted under the key of another host, but its field has warned
  in each of the last N runs.
* `InspectionKept`: through both passes, the barriers and the cancellations, each
  host, service and component gets one verdict; the failure of the first pass is
  not overwritten by the second, and no report leaves a target out.
* `UnhealthyIsShown`, `HealthyIsQuiet`: both directions from the truth - what the
  commands and components answered - to the rows. What is ill or could not be
  asked has a row that is not OK, on its own host or node; what is well has no
  Warn. `PassedOver` lists the exceptions the code makes, see section 6.
* `OnlySilenceBlocks`: an inspection ends, or a host accepts its connection and
  stays silent: the one thing that no timeout of the code covers.
* `CronHasBinary`: where no command of the remote half fails, cron finds a whole
  collector, except while a new one is being installed, however often the
  connection is lost or the page cancelled. `CronComesLast`: where any command may
  fail, no host gets a cron file before the whole binary. Both exempt hosts on which
  two deployments met (`raced`), the first also unfit ones: section 6 says what the
  code leaves there.
* `GreenIsTrue`: green is never shown too early. What is shown stays so while
  commands of earlier deployments run late, also where deployments met, as long as
  no command fails on the host.
* `EveryHostIsTried`: a page that ended has dealt with every host, whatever the
  others did; and a deployment from a machine in order shows no host in red that
  answers, is fit and has seen no other deployment.
* `PulledIsTrue`, `NoFalseLoad`: end to end from the processes to the report.
  What is fetched was written, line by line and in that order, by one host of that
  name; and although
  processes vanish, numbers are taken again, lines are torn and files fetched
  halfway, the report never charges more processor time than was used.
* `WeekIsKept`: the prune's limit, in zones on both sides of UTC.
* `PageEnds`: a page ends unless a host holds it.

## 5. Proofs

TLAPS proves, for every set of items, every normalisation, every N, cooldown and
TTL, every period, any number of jobs and pages, any hosts and rows of a report,
every set of deployments and every set of sites:

| theorem | statement | assumes |
|---|---|---|
| `TypeCorrect` | `Spec => []TypeOK` | |
| `RecordAlwaysTrue` | `Spec => []RecordIsTrue` | no `unrecorded`, no `damage` (`NoRecordLost`) |
| `NotifyKeepsPromise` | `Spec => KeepsPromise` | the same |
| `RecoveryNeverOverdue` | `Spec => []RecoveryNotOverdue` | |
| `CountersAlwaysBacked` | `HSpec => []CountersAreBacked` | |
| `MailsAreConfirmed` | `HSpec => []OnlyConfirmedMails` | |
| `NoPhantomMailEver` | `HSpec => []NoPhantomMail` | |
| `HistoryTypeCorrect` | `HSpec => []HTypeOK` | |
| `RefusedAlertsAreRetried` | `HSpec => FailedAlertIsRetried` | |
| `JobsTypeCorrect` | `Spec => []JTypeOK` of `InspectJobs` | |
| `LockMakesSingleRuns` | `Spec => JobsAreSingleRuns` | `~LockMayFail` |
| `MailsOfTheirRuns` | `Spec => []MailIsOfItsRun` | `~LockMayFail` |
| `NoJobMakesUpAMail` | `Spec => []NoPhantomRecord` | |
| `SubjectAlwaysMatches` | `Spec => []SubjectMatchesBody` of `ReportView` | |
| `TablesAgreeOnNotices` | `Spec => []HostTableShowsFired` | |
| `FieldsAreConfirmed` | `Spec => []FieldWasConfirmed` | |
| `CollectionTypes` | `Spec => []CTypeOK` of `Collection` | |
| `InspectionIsKept` | `Spec => InspectionKept` | |
| `CancelStopsPhases` | `Spec => CancelStops` | |
| `ServiceHostsAreInspected` | the hosts of every module are among those sampled, for all lists | |
| `SickIsShown` | `Spec => []UnhealthyIsShown` | |
| `WellIsQuiet` | `Spec => []HealthyIsQuiet` | |
| `FleetTypes` | `Spec => []FleetTypeOK` of `ProcmonFleet` | |
| `CronIsSound` | `Spec => []CronHasBinary` | |
| `CronIsLast` | `Spec => CronComesLast` | |
| `GreenIsSo` | `Spec => []GreenIsTrue` | |
| `HostsAreTried` | `Spec => []EveryHostIsTried` | |
| `PruneIsSound` | `Spec => WeekIsKept` | |
| `FetchedIsTrue` | `Spec => []PulledIsTrue` | |
| `LoadIsNeverFalse` | `Spec => []NoFalseLoad` | |

An empty third column means: nothing but what the modules assume of their
constants in named `ASSUME`s, which TLC evaluates in the runs.

The argument. A run carries its PrepContext from Prepare to Save, so nothing
about the file is inductive without saying what the run in flight holds.
`IInv` is `TypeOK` with `RunInv`: the context of a run is based on a state that
was loaded, its action is the one Dispatch chooses from that context, and an
idle process has none. `RecordIsTrue` is inductive relative to it because it
speaks of the state the run is going to save while a mail is out. The step
simulation for `AlertEpisode` needs `RecordIsTrue` at the moment of `SendOK`:
the baseline's signature and age are those of the inbox, so `Decide`'s condition
is the guard of `Alert`. For the counters, `CounterInv` adds that the context
was computed from the items the run found; lemmas on `NextPending` and
`UpdateRecoveryStreak` show that a counter grows by at most one where the history
grows by one. `PhantomInv` adds that the mail of a run that is saving has been
delivered. `OwedInv` says that the items of a refused alert are still one
sighting short of N in state.json, because nothing was saved; then
`CountedIsPromoted` makes them firing again, and with a firing item Dispatch
either mails or has recorded just these items.

For the processes, `StageInv` ties a job's stage to its context, and `LockInv`,
the mutual exclusion, says that only the job with the flock is past
lock.Acquire. With both, a step of the job with the lock is the step of the same
name of `Notify` once Prepare gave it a context, and every other step (of
another job, of a page, of the report files) leaves the mapped `pc` and `run`
(`barPc`, `barRun`) alone. So what is proved about `Notify` holds for the
processes as long as the lock file is usable. `ReportInv` follows the report files
through the stages of the one job that can be running. `ToldInv`, which needs no
lock, says that every state that is on disk or carried along tells of a mail that
was delivered.

For the report, `ReportInv` says what holds of it at both ends of a run. After
the rules (`collected`) the two copies of a row are equal (`CopiesAgree`); after
the demotion the rows that are still Warn are those whose item fires
(`SubjectInv`). Both rest on `DemotionKeepsKeys`: an item is a row's key under
`hostByField`, which depends on which rows each host has, and a demotion changes
the status of rows only, so that the items found after it are those of before
without the demoted ones. `HostTableShowsFired` needs more, because a host's table
is demoted by (host, field) and AllChecks by the attributed key: where the
former demotes a row, the item of that host and field was extracted, so the
host is the one the field is attributed to. `CountsAreOfField` bounds every
counter by the runs in which its field has warned on some host; a field that
warns under another host's key only loses counts. `ReportAssumption` keeps the
names of host rows, mount rows and services apart, as the checkers' fixed names
and the `/`, `:` of the others do.

For the collection, an invariant must tell how the stage of each call goes with
the phase. `PhaseInv` says which calls may have begun in which phase, and that
those of a past phase have returned: the barriers. `SlotInv` says what a slot
holds while its goroutine runs: the zero value before the first pass, an error
only by a call that returned, nothing after the second that the second did not
write; it needs that only hosts without an error are in the second pass.
`AskedInv` does the same for the components. With these a step of a goroutine is
`Judge` of its target or a stutter, the end of the run is `Report`, and all
others leave the mapped variables alone.

For the rows of its report, the state says little and the data path much.
`RowsInv` says that the slot of a host holds the error of its first pass or the
parsed output of its second, that a service's slot is what the collector makes of
its reply, that an answer is one the component can give, and that the numbers in
use were accepted by `Load`. What remains are lemmas about operators, one for
each rule and each direction: `Sick...Shown` (an output or an answer in which
this is ill yields a row of this host or node that is not OK) and `Well...Quiet`,
through the parser, the collector and the checker of each component, for every
output and answer and every accepted number. It is assumed that the constants are
well formed (`DeploymentsAssumption`), that `NoNode` is no host and that a batch
of service commands prints something (`NamesAssumption`).

For process monitoring, none of the properties is inductive without the steps of
the remote commands. `HostInv` says of a host where no two deployments met that at
most one is under way, and for each of its steps what the host is like there
(`Stage`): the copy is whole when install begins, what install writes is whole, the
binary is when the cron file is written. `CronIsLast` is read off the stage of the
step that writes it, failing steps included. `OwnerInv` ties a command to the page
that launched it, so that the end of a command wakes only its own page; with both
`ShownInv` follows: a host in green is behind the page and nothing runs there any
more. Where deployments met, `MeetInv` takes over: once the command of the page has
reached its install, no install under way makes a part of the binary, since nobody
copies to that host any more, so what the page left becomes whole again when the
last of them ends. `PageInv` says that everything behind the page was shown, which
needs hosts that are not repeated. `FileInv` has a file for the day of every running
collector; with it the prune comes down to arithmetic about `Expired`, which
needs that the prune runs at most a day away from midnight UTC
(`SitesAssumption`, `PruneAssumption`). `DataInv` says that whatever was fetched is
the beginning of a file that still grows; `EncodeKeeps` is the reason that it
stays one: the encoder appends, or makes an unfinished last line longer, which is
a record neither before nor after.

`LoadIsNeverFalse` goes from the processes over the collector, the files, scp and
the reporter to the sum of a report. `BookInv` gives every host a *ledger*: under
which process number each unit of processor time was used, and for each record in
the host's files how much had been used by then (`Ledger`). It balances when two
records of one number differ by no more than the units of that number between
them, and a running process has not used more since any record of its number.
Using time adds a unit (`LedgerOfUse`); a process that ends or begins changes
nothing, because a new one starts at zero (`LedgerOfProcesses`); a record is
written of a running process and is the last of all there are (`LedgerOfRecord`),
which needs that no other collector is under way (`AloneInv`) and that the day of
a file is the day of its records (`RecordInv`); a torn line loses a record and adds
none (`LineExtends`). In the report, what a record is charged is at most the units
between it and the one before it (`LedgerBalances`). These shares are disjoint,
whichever records are missing, so all services together are charged no more than
was used (`SumOfShares`, `ServicesShare`); and the records of a fetched directory
are some of the host's own (`FetchedRecords`, from `DataInv`). Sums have no
induction theorem the provers could use: `SumsUpTo` and `SumOfShares` take instead
a counterexample of the least size, which `WFMin` provides. The processes of a
site have natural numbers (`SitesAssumption`), as those of Linux do; a collector
takes the least of those left.

Every safety invariant and every action property of the runs that pass is proved,
some under the conditions of the third column.
Only model-checked are the six liveness properties (`PersistentWarnIsMailed`,
`RecoveryIsMailed`, `LockIsReleased`, `OnlySilenceBlocks`, `NoGoroutineLeft`,
`PageEnds`), which need fairness and ENABLED.

## 6. Where code and documentation disagree

1. `StableAlerts`. The specification of alert-notification (lines 195-197)
   wants one mail in two hours while the alerts are stable. An item that fires
   leaves the pending map and counts from one again, so with N = 2 two
   items that were first seen one run apart fire in alternate runs: the
   signature changes in every run, and every run mails.
2. `DailyRuns`. The age of a counter is that of its first sighting. With runs 24
   hours apart no counter ever reaches N; the comment in persistence.go holds
   that the limit matters only after a coding bug.
3. `CancelledPage`. The context is checked between phases, not after the last
   one: a page left in phase 3 overwrites the report with one whose component
   probes failed because they were cancelled.
4. `HostCollapse`. The README of inspect promises confirmation per (Host, Field).
   `hostByField` has one host per field, so all hosts share the counter of
   `cpu_usage` and its like.
5. `UninstallFails`. The page promises to remove cron file and binary of every host
   (procmon.go:251). The line it sends has `(data under ... kept)` outside of
   quotes: the remote shell rejects all of it, so `rm` never runs and every host
   that answers is shown as failed. The script procmon/cmd/procmon/uninstall.sh, which
   the page is to stand for, is not concerned.

Noted without a run. About the report:

* A MySQL slave that cannot be asked has no row at all (rules.go:227), where
  platform-checks/spec.md:18 wants Unknown for data that could not be collected: an
  outage turns an alert into silence. `UnhealthyIsShown` lists it (`PassedOver`).
* An item that is pending stays Warn in the table of its own host when its
  counter is under another one (`hostByField` again; notify.go:180-181 says each
  host's view is updated).
* An unreachable host is judged by zero metrics: CPU, memory and load OK,
  max_open_files, selinux, firewalld and chronyd Warn. A batch cut off before the
  number of processors makes any rising load a Warn; one cut off before a health
  section gives no row for it.
* An answer that is no answer passes for well: the 401 of Elasticsearch
  (es.go:115), an error object of RabbitMQ's API (rabbitmq.go:88, 148), a health
  body with "ok" and true, or "UP", anywhere in it, any HTTP answer of an
  http_alive service. MySQL nodes have no rule; one whose slave status cannot be
  read counts as a master. RabbitMQ is asked through its first node only.
* `job-analysis` (SkipStatusCheck) is Unknown in every report; the comment in
  service.go:132 and service-check-overrides want no row, platform-checks:157 an
  Unknown one.
* Thresholds may be negative, and NaN, which ParseFloat accepts, turns a rule off.

About the collection: host-metrics-collection/spec.md:35-38 says that a host whose
SSH fails does not block the others; a silent one does (`OnlySilenceBlocks`). A
cancellation does not stop the second pass over the hosts.

About procmon:

* Each step of the remote half may fail (a full disk, a user who may not write to
  /usr/local/bin) and ends it (`set -e`). Where a collector was installed before, its
  cron file is still there and goes on starting what install left: no binary or a
  cut one. Nothing tells but the red line of the page.
* After a cancelled Deploy, the copy and the remote half of the next one can meet
  the remote half of the former: it installs a copy that is being written, or fails
  because the other removed it. If the second ends green, all is well in the end; if
  it fails, the cut binary may stay.
* Deploy and Pull can end before the first host, when the local machine cannot
  write its temporary file or its data directory.
* collect.go:91 counts vanished processes as expected; ESRCH is not among them,
  while one that vanishes after its first file is kept as half a record, where
  procfs.go:108-109 says the caller skips it. Half a record has a coarser service
  key, so part of a service's time can be booked under its plain name.
* Up to UTC+2 and west of it the prune at 03:00 deletes a file whose last records
  are less than the days to keep old; from UTC+3 on it keeps a day more.
* Two hosts of one name overwrite each other's files in the fetched directory.
  Two collectors in one second (Deploy's first sample and cron's) double the
  memory of a service; collectors that overlap can be charged time twice, and
  `NoFalseLoad` excludes them.

## 7. Not modelled, and the plan

Not modelled at all: HTML layout and wording, plots, shell scripts, forms that
run one command, the wire formats of the components, the process handling of
runWithTimeout.

Planned, in this order:

1. **Screens**: event loop, page switches, the shared CancelFunc, ticker
   goroutines, subprocess output, ShowOverviewPage.
2. `Collection` composed with `ReportView`, which takes any metrics today.
