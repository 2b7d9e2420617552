----------------------------- MODULE ProcmonFleet -----------------------------
(***************************************************************************)
(* Process monitoring: the pages that put the collector on the hosts, take *)
(* it off and fetch its data, and the collectors themselves, which cron    *)
(* runs on every host where the pages left them.                           *)
(*                                                                         *)
(* A page works through the hosts one after the other, with scp and ssh of *)
(* the local machine.  ESC kills the command under way; what that command  *)
(* started on the remote host goes on, and the next page may begin.        *)
(*                                                                         *)
(* A site is what does not change: the hosts in order; faulty, those whose *)
(* connection may fail or hang; unfit, those where a command may fail, for *)
(* the disk is full or the user of the pages may not write; tight, whether *)
(* the local machine may fail a page that way; the pages the operator      *)
(* opens, the time zone, the processes.                                    *)
(***************************************************************************)
EXTENDS ProcmonData

CONSTANTS
  Sites,       \* the sites, by name
  HostName,    \* what a host calls itself, by its address
  PruneHour,   \* the hour the prune runs at, at the first tick of a day
  KeepDays     \* --keep-days

(* No address is listed twice, the prune runs close enough to midnight in  *)
(* UTC for a file's day to be the day it is, and processes have numbers.   *)
ASSUME SitesAssumption ==
  \A x \in DOMAIN Sites :
    LET s == Sites[x]
    IN  /\ s.hosts \in Seq(DOMAIN HostName) /\ s.hosts # <<>>
        /\ \A i, j \in 1..Len(s.hosts) : s.hosts[i] = s.hosts[j] => i = j
        /\ s.installed \in BOOLEAN
        /\ s.start \in Nat /\ s.dayLength \in Nat \ {0}
        /\ s.zone \in Int /\ PruneHour - s.zone \in -23..24
        /\ s.pids \subseteq Nat
ASSUME PruneAssumption == KeepDays \in Nat /\ PruneHour \in 0..23

VARIABLES
  site,        \* the name of the site
  page,        \* the last page: its operation, its number, the hosts left, its step
  opened,      \* how many pages were opened
  shown,       \* what the page showed of a host: "", "red" for a failure, "green"
  tmp, bin,    \* /tmp/procmon.new and the binary: "none", "partial" or "whole"
  cron,        \* whether the cron file is there, with its entries
  scripts,     \* the remote commands running on a host
  now,         \* the clock
  due,         \* whether the prune of today is still to come
  files,       \* every line written, by host and day
  pruned,      \* the days whose file was deleted
  collects,    \* the collectors running on a host
  procs,       \* the processes of a host, by number
  local,       \* the fetched files, by name of their host and day
  \* history
  raced,       \* a deployment met the copy or the command of another on the host
  burned,      \* processor time used on the host
  overlapped   \* two collectors ran on the host at the same time

pageVars == <<page, opened, shown>>
remoteVars == <<tmp, bin, cron, scripts, raced>>
dataVars == <<files, pruned, collects, overlapped>>
procVars == <<procs, burned>>
clockVars == <<now, due>>
vars == <<site, pageVars, remoteVars, dataVars, procVars, clockVars, local>>

S == Sites[site]
Hosts == ToSet(S.hosts)
DayOf(ts) == ts \div S.dayLength
Today == DayOf(now)
NoProcess == [comm |-> ""]

Busy == page.left # <<>>
h0 == Head(page.left)

(* copy is what an install will have made of its source: nothing yet, the  *)
(* whole, maybe a part, or a file that another install has replaced.       *)
NewScript == [op |-> page.op, no |-> page.no, step |-> 1, copy |-> "none"]
Deploying(h) == \E s \in scripts[h] : s.op = "deploy"

-----------------------------------------------------------------------------
Init ==
  /\ site \in DOMAIN Sites
  /\ page = [op |-> "none", no |-> 0, left |-> <<>>, step |-> "ended"] /\ opened = 0
  /\ shown = [h \in Hosts |-> ""]
  /\ tmp = [h \in Hosts |-> "none"]
  /\ bin = [h \in Hosts |-> IF S.installed THEN "whole" ELSE "none"]
  /\ cron = [h \in Hosts |-> S.installed]
  /\ scripts = [h \in Hosts |-> {}]
  /\ now = S.start /\ due = [h \in Hosts |-> FALSE]
  /\ files = [h \in Hosts |-> [d \in {} |-> <<>>]]
  /\ pruned = [h \in Hosts |-> {}]
  /\ collects = [h \in Hosts |-> {}]
  /\ procs = [h \in Hosts |-> [p \in S.pids |-> NoProcess]]
  /\ local = [f \in {} |-> <<>>]
  /\ raced = [h \in Hosts |-> FALSE]
  /\ burned = [h \in Hosts |-> 0]
  /\ overlapped = [h \in Hosts |-> FALSE]

-----------------------------------------------------------------------------
(* The pages.                                                              *)

Open(op) ==
  /\ ~Busy /\ opened < S.maxPages /\ op \in S.ops
  /\ opened' = opened + 1
  /\ \/ page' = [op |-> op, no |-> opened + 1, left |-> S.hosts, step |-> "next"]
     \/ /\ S.tight /\ op # "uninstall"   \* no temporary file, no directory for the data
        /\ page' = [op |-> op, no |-> opened + 1, left |-> <<>>, step |-> "failed"]
  /\ shown' = [h \in Hosts |-> ""]
  /\ UNCHANGED <<site, remoteVars, dataVars, procVars, clockVars, local>>

(* A host is done with, whatever came of it: on to the next one.           *)
StopAtFailure(colour) ==   \* faulty variant: the first failure ends the page
  /\ shown' = [shown EXCEPT ![h0] = colour]
  /\ page' = IF colour = "red" THEN [page EXCEPT !.left = <<>>, !.step = "ended"]
             ELSE [page EXCEPT !.left = Tail(@), !.step = IF Len(page.left) = 1 THEN "ended" ELSE "next"]
  /\ UNCHANGED opened

NextHost(colour) ==
  /\ shown' = [shown EXCEPT ![h0] = colour]
  /\ page' = [page EXCEPT !.left = Tail(@), !.step = IF Len(page.left) = 1 THEN "ended" ELSE "next"]
  /\ UNCHANGED opened

MayFail == Busy /\ h0 \in S.faulty
MayRefuse == MayFail \/ (Busy /\ (S.tight \/ h0 \in S.unfit))

(* scp does not get that far, or writes the new file in place, whoever is  *)
(* reading the old one.                                                    *)
CopyBegins ==
  /\ Busy /\ page.op = "deploy" /\ page.step = "next"
  /\ \/ /\ page' = [page EXCEPT !.step = "copying"]
        /\ tmp' = [tmp EXCEPT ![h0] = "partial"]
        /\ raced' = [raced EXCEPT ![h0] = @ \/ Deploying(h0)]
        /\ scripts' = [scripts EXCEPT ![h0] =
             {[s EXCEPT !.copy = IF @ = "whole" THEN "partial" ELSE @] : s \in @}]
        /\ UNCHANGED <<opened, shown>>
     \/ MayRefuse /\ NextHost("red") /\ UNCHANGED <<tmp, raced, scripts>>
  /\ UNCHANGED <<site, bin, cron, dataVars, procVars, clockVars, local>>

CopyEnds ==
  /\ page.op = "deploy" /\ page.step = "copying"
  /\ \/ /\ page' = [page EXCEPT !.step = "copied"]
        /\ tmp' = [tmp EXCEPT ![h0] = IF @ = "none" THEN "none" ELSE "whole"]
        /\ UNCHANGED <<opened, shown>>
     \/ MayRefuse /\ NextHost("red") /\ UNCHANGED tmp
  /\ UNCHANGED <<site, bin, cron, scripts, raced, dataVars, procVars, clockVars, local>>

(* ssh starts the remote command, or does not get that far.                *)
Launch ==
  /\ \/ page.op = "deploy" /\ page.step = "copied"
     \/ page.op = "uninstall" /\ page.step = "next"
  /\ \/ /\ scripts' = [scripts EXCEPT ![h0] = @ \cup {NewScript}]
        /\ raced' = [raced EXCEPT ![h0] = @ \/ (page.op = "deploy" /\ Deploying(h0))]
        /\ page' = [page EXCEPT !.step = "remote"]
        /\ UNCHANGED <<opened, shown>>
     \/ MayRefuse /\ NextHost("red") /\ UNCHANGED <<scripts, raced>>
  /\ UNCHANGED <<site, tmp, bin, cron, dataVars, procVars, clockVars, local>>

(* The command of the page, while it runs and when it has ended.           *)
Mine(s) == page.step = "remote" /\ s.no = page.no

(* The connection is lost; the remote command is not.                      *)
ConnectionLostUnseen ==   \* faulty variant: the result of ssh is not looked at
  /\ page.step = "remote" /\ MayFail
  /\ NextHost("green")
  /\ UNCHANGED <<site, remoteVars, dataVars, procVars, clockVars, local>>

ConnectionLostKills ==   \* faulty variant: the remote command ends with its connection
  /\ page.step = "remote" /\ MayFail
  /\ NextHost("red")
  /\ scripts' = [scripts EXCEPT ![h0] = {s \in @ : s.no # page.no}]
  /\ UNCHANGED <<site, tmp, bin, cron, raced, dataVars, procVars, clockVars, local>>

ConnectionLost ==
  /\ page.step = "remote" /\ MayFail
  /\ NextHost("red")
  /\ UNCHANGED <<site, remoteVars, dataVars, procVars, clockVars, local>>

(* A remote command ends; its page, if it still listens, goes on.          *)
ExitsIfGreen(h, s, colour) ==   \* faulty variant: a failure wakes nobody up
  /\ scripts' = [scripts EXCEPT ![h] = @ \ {s}]
  /\ IF Mine(s) /\ h = h0 /\ colour = "green" THEN NextHost(colour) ELSE UNCHANGED pageVars

Exits(h, s, colour) ==
  /\ scripts' = [scripts EXCEPT ![h] = @ \ {s}]
  /\ IF Mine(s) /\ h = h0 THEN NextHost(colour) ELSE UNCHANGED pageVars

GoesOn(h, s) ==
  /\ scripts' = [scripts EXCEPT ![h] = (@ \ {s}) \cup {[s EXCEPT !.step = @ + 1]}]
  /\ UNCHANGED pageVars

(* set -e: a command that fails is the last one.                           *)
FailsUnseen(h, s) == h \in S.unfit /\ GoesOn(h, s)   \* faulty variant: without set -e

Fails(h, s) == h \in S.unfit /\ Exits(h, s, "red")

(* install removes the old binary and writes the new one in its place; the *)
(* file an earlier install still writes to is then not the binary any more.*)
TakesOver(h, s) ==
  /\ scripts' = [scripts EXCEPT ![h] =
       {[t EXCEPT !.copy = IF @ = "none" THEN @ ELSE "lost"] : t \in @ \ {s}}
         \cup {[s EXCEPT !.step = 2, !.copy = tmp[h]]}]
  /\ UNCHANGED pageVars

Install(h, s) ==
  /\ s.op = "deploy" /\ s.step = 1
  /\ \/ tmp[h] = "none" /\ Exits(h, s, "red") /\ UNCHANGED bin
     \/ tmp[h] # "none" /\ TakesOver(h, s) /\ bin' = [bin EXCEPT ![h] = "partial"]
     \/ Fails(h, s) /\ \E b \in {bin[h], "none"} : bin' = [bin EXCEPT ![h] = b]
  /\ UNCHANGED <<tmp, cron, collects, overlapped, files>>

InstallEnds(h, s) ==
  /\ s.op = "deploy" /\ s.step = 2
  /\ \/ GoesOn(h, s) /\ s.copy = "lost" /\ UNCHANGED bin
     \/ GoesOn(h, s) /\ s.copy # "lost" /\ bin' = [bin EXCEPT ![h] = "whole"]
     \/ GoesOn(h, s) /\ s.copy = "partial" /\ UNCHANGED bin
     \/ Fails(h, s) /\ UNCHANGED bin
  /\ UNCHANGED <<tmp, cron, collects, overlapped, files>>

RemoveTmp(h, s) ==
  /\ s.op = "deploy" /\ s.step = 3
  /\ tmp' = [tmp EXCEPT ![h] = "none"]
  /\ GoesOn(h, s)
  /\ UNCHANGED <<bin, cron, collects, overlapped, files>>

(* mkdir; the cron file, emptied and then written; its mode.               *)
WriteCron(h, s) ==
  /\ s.op = "deploy" /\ s.step = 4
  /\ \/ GoesOn(h, s) /\ cron' = [cron EXCEPT ![h] = TRUE]
     \/ Fails(h, s) /\ \E c \in BOOLEAN : cron' = [cron EXCEPT ![h] = c]
  /\ UNCHANGED <<tmp, bin, collects, overlapped, files>>

(* collect reads the numbers of the processes and opens the file of the    *)
(* day before it samples.  kind is the page it belongs to, 0 for cron.     *)
Live(h) == {p \in S.pids : procs[h][p] # NoProcess}

WithDay(file, day) ==
  [d \in DOMAIN file \cup {day} |-> IF d \in DOMAIN file THEN file[d] ELSE <<>>]

StartCollects(hs, kind, ts) ==
  LET day == DayOf(ts)
  IN  /\ files' = [h \in Hosts |-> IF h \in hs THEN WithDay(files[h], day) ELSE files[h]]
      /\ collects' = [h \in Hosts |->
           collects[h] \cup IF h \in hs THEN {[kind |-> kind, ts |-> ts, left |-> Live(h), failed |-> FALSE]} ELSE {}]
      /\ overlapped' = [h \in Hosts |-> overlapped[h] \/ (h \in hs /\ collects[h] # {})]

SmokeTest(h, s) ==
  /\ s.op = "deploy" /\ s.step = 5
  /\ \/ bin[h] = "whole" /\ GoesOn(h, s) /\ StartCollects({h}, s.no, now)
     \/ /\ (bin[h] # "whole" /\ Exits(h, s, "red")) \/ Fails(h, s)
        /\ UNCHANGED <<collects, overlapped, files>>
  /\ UNCHANGED <<tmp, bin, cron>>

SmokeTestEnds(h, s) ==
  /\ s.op = "deploy" /\ s.step = 6
  /\ \A c \in collects[h] : c.kind # s.no
  /\ Exits(h, s, "green")
  /\ UNCHANGED <<tmp, bin, cron, collects, overlapped, files>>

(* The line Uninstall sends has parentheses outside of quotes: the shell   *)
(* rejects all of it, and neither file is removed.                         *)
RejectUninstall(h, s) ==
  /\ s.op = "uninstall"
  /\ Exits(h, s, "red")
  /\ UNCHANGED <<tmp, bin, cron, collects, overlapped, files>>

ScriptStep(h) ==
  /\ \E s \in scripts[h] :
       \/ Install(h, s) \/ InstallEnds(h, s) \/ RemoveTmp(h, s) \/ WriteCron(h, s)
       \/ SmokeTest(h, s) \/ SmokeTestEnds(h, s) \/ RejectUninstall(h, s)
  /\ UNCHANGED <<site, pruned, raced, procVars, clockVars, local>>

(* scp replaces the local file of the same name; cut off, it leaves any    *)
(* beginning of the file.                                                  *)
Remote(h) == {d \in DOMAIN files[h] : d \notin pruned[h]}

FetchedByAddress(h, fetched) ==   \* faulty variant: under the address of the host
  local' = [f \in {<<h, d>> : d \in DOMAIN fetched} |-> fetched[f[2]]] @@ local

FetchedAgain(h, fetched) ==   \* faulty variant: added to what is there
  local' = [f \in {<<HostName[h], d>> : d \in DOMAIN fetched} |->
             IF f \in DOMAIN local THEN local[f] \o fetched[f[2]] ELSE fetched[f[2]]] @@ local

Fetched(h, fetched) ==
  local' = [f \in DOMAIN local \cup {<<HostName[h], d>> : d \in DOMAIN fetched} |->
             IF f[1] = HostName[h] /\ f[2] \in DOMAIN fetched THEN fetched[f[2]] ELSE local[f]]

Pull ==
  /\ page.op = "pull" /\ page.step = "next"
  /\ Fetched(h0, [d \in Remote(h0) |-> files[h0][d]])
  /\ NextHost(IF Remote(h0) = {} THEN "red" ELSE "green")
  /\ UNCHANGED <<site, remoteVars, dataVars, procVars, clockVars>>

CutShort ==
  \E got \in SUBSET Remote(h0) :
    \E last \in got \cup {-1} : \E n \in 0..(IF last = -1 THEN 0 ELSE Len(files[h0][last])) :
      Fetched(h0, [d \in got |-> IF d = last THEN SubSeq(files[h0][d], 1, n) ELSE files[h0][d]])

PullFails ==
  /\ page.op = "pull" /\ page.step = "next" /\ MayRefuse
  /\ CutShort
  /\ NextHost("red")
  /\ UNCHANGED <<site, remoteVars, dataVars, procVars, clockVars>>

(* ESC: the command under way is killed, the hosts left fail at once.      *)
Cancel ==
  /\ Busy
  /\ page' = [page EXCEPT !.left = <<>>, !.step = "cancelled"]
  /\ IF page.op = "pull" THEN CutShort ELSE UNCHANGED local
  /\ UNCHANGED <<site, opened, shown, remoteVars, dataVars, procVars, clockVars>>

PageStep ==
  CopyBegins \/ CopyEnds \/ Launch \/ ConnectionLost \/ Pull \/ PullFails

-----------------------------------------------------------------------------
(* The hosts: cron, the collectors, the processes.                         *)

Monitored == {h \in Hosts : cron[h] /\ bin[h] = "whole"}

(* A minute later cron runs the collector again, and once a day the prune. *)
(* On an unfit host the collector may end before it has opened its file.   *)
Tick ==
  /\ now < S.maxNow
  /\ \A h \in Hosts : ~due[h]
  /\ now' = now + 1
  /\ \E hs \in SUBSET Monitored : Monitored \ S.unfit \subseteq hs /\ StartCollects(hs, 0, now')
  /\ due' = [h \in Hosts |-> h \in Monitored /\ now' % S.dayLength = 0]
  /\ UNCHANGED <<site, pageVars, remoteVars, pruned, procVars, local>>

Prune(h) ==
  /\ due[h]
  /\ due' = [due EXCEPT ![h] = FALSE]
  /\ pruned' = [pruned EXCEPT ![h] = @ \cup
       {d \in DOMAIN files[h] : Expired(d, Today, PruneHour, S.zone, KeepDays)}]
  /\ UNCHANGED <<site, pageVars, remoteVars, files, collects, overlapped, procVars, now, local>>

(* The file stays the one of the day the collector began.  On a full disk  *)
(* a line is cut off or not begun: the encoder keeps that error and writes *)
(* no more, while the collector goes on over the processes.                *)
Sampled(c, pid) == [c EXCEPT !.left = @ \ {pid}]

WriteFails(h, c, pid) ==
  /\ h \in S.unfit /\ ~c.failed
  /\ collects' = [collects EXCEPT ![h] = (@ \ {c}) \cup {[Sampled(c, pid) EXCEPT !.failed = TRUE]}]
  /\ \/ files' = [files EXCEPT ![h][DayOf(c.ts)] = Encode(@, Torn)]
     \/ UNCHANGED files

Passes(h, c, pid) ==
  /\ collects' = [collects EXCEPT ![h] = (@ \ {c}) \cup {Sampled(c, pid)}]
  /\ UNCHANGED files

Write(h, c, pid, rec) ==
  \/ IF c.failed THEN Passes(h, c, pid)
     ELSE /\ files' = [files EXCEPT ![h][DayOf(c.ts)] = Encode(@, rec)]
          /\ collects' = [collects EXCEPT ![h] = (@ \ {c}) \cup {Sampled(c, pid)}]
  \/ WriteFails(h, c, pid)

(* The next process: gone since the numbers were read, sampled, or gone    *)
(* in the middle of it.                                                    *)
SampleNext(h, c) ==
  LET pid == Min(c.left)
      p == procs[h][pid]
  IN  /\ c.left # {}
      /\ \/ p = NoProcess /\ Passes(h, c, pid) /\ UNCHANGED procs
         \/ /\ p # NoProcess /\ Write(h, c, pid, samplePid(c.ts, pid, p, Whole))
            /\ UNCHANGED procs
         \/ /\ p # NoProcess /\ S.mortal
            /\ procs' = [procs EXCEPT ![h][pid] = NoProcess]
            /\ \E done \in 0..(Whole - 1), loss \in Losses :
                 IF Skipped(done, loss) THEN Passes(h, c, pid)
                 ELSE Write(h, c, pid, samplePid(c.ts, pid, p, done))
      /\ UNCHANGED <<site, pageVars, remoteVars, pruned, overlapped, burned, clockVars, local>>

CollectEnds(h, c) ==
  /\ c.left = {}
  /\ collects' = [collects EXCEPT ![h] = @ \ {c}]
  /\ UNCHANGED <<site, pageVars, remoteVars, files, pruned, overlapped, procVars, clockVars, local>>

CollectStep(h) == \E c \in collects[h] : SampleNext(h, c) \/ CollectEnds(h, c)

Fork(h, p) ==
  /\ procs[h][p] = NoProcess
  /\ \E svc \in S.services :
       procs' = [procs EXCEPT ![h][p] =
                  [f \in DOMAIN svc \cup {"cpu"} |-> IF f = "cpu" THEN 0 ELSE svc[f]]]
  /\ UNCHANGED <<site, pageVars, remoteVars, dataVars, burned, clockVars, local>>

Exit(h, p) ==
  /\ procs[h][p] # NoProcess /\ S.mortal
  /\ procs' = [procs EXCEPT ![h][p] = NoProcess]
  /\ UNCHANGED <<site, pageVars, remoteVars, dataVars, burned, clockVars, local>>

Burn(h, p) ==
  /\ procs[h][p] # NoProcess /\ burned[h] < S.maxBurn
  /\ procs' = [procs EXCEPT ![h][p].cpu = @ + 1]
  /\ burned' = [burned EXCEPT ![h] = @ + 1]
  /\ UNCHANGED <<site, pageVars, remoteVars, dataVars, clockVars, local>>

HostStep(h) ==
  \/ Prune(h) \/ CollectStep(h)
  \/ \E p \in S.pids : Fork(h, p) \/ Exit(h, p) \/ Burn(h, p)

Next ==
  \/ \E op \in {"deploy", "uninstall", "pull"} : Open(op)
  \/ PageStep \/ Cancel \/ Tick
  \/ \E h \in Hosts : ScriptStep(h) \/ HostStep(h)

(* A command on a host that is not faulty, a remote command and a          *)
(* collector go on by themselves.  Nothing is assumed of the faulty ones:  *)
(* ssh and scp are run without any timeout.                                *)
Fairness ==
  /\ WF_vars(~MayFail /\ PageStep)
  /\ WF_vars(\E h \in Hosts \ S.faulty : ScriptStep(h))
  /\ WF_vars(\E h \in Hosts \ S.faulty : CollectStep(h))

Spec == Init /\ [][Next]_vars /\ Fairness

-----------------------------------------------------------------------------
(* Every variable holds a value of its type; what is local was fetched     *)
(* under the name of a host.                                               *)
FleetTypeOK ==
  /\ page.op \in {"none", "deploy", "uninstall", "pull"} /\ page.no = opened
  /\ page.step \in {"ended", "failed", "cancelled"} \/ (Busy /\ page.step \in {"next", "copying", "copied", "remote"})
  /\ shown \in [Hosts -> {"", "red", "green"}]
  /\ tmp \in [Hosts -> {"none", "partial", "whole"}]
  /\ bin \in [Hosts -> {"none", "partial", "whole"}]
  /\ cron \in [Hosts -> BOOLEAN] /\ due \in [Hosts -> BOOLEAN]
  /\ \A h \in Hosts : DOMAIN files[h] \subseteq 0..Today /\ pruned[h] \subseteq DOMAIN files[h]
  /\ \A h \in Hosts : \A c \in collects[h] : DayOf(c.ts) \in DOMAIN files[h]
  /\ \A f \in DOMAIN local : \E h \in Hosts : f[1] = HostName[h] /\ f[2] \in DOMAIN files[h]

(* cron never runs a collector that is not there or not whole, but for the *)
(* moment a new one replaces it - unless the host is unfit, or commands of *)
(* two deployments met on it.                                              *)
Replacing(h) == \E s \in scripts[h] : s.op = "deploy" /\ s.step = 2

CronHasBinary ==
  \A h \in Hosts \ S.unfit : cron[h] /\ ~raced[h] /\ ~Replacing(h) => bin[h] = "whole"

(* Whatever fails on a host, none gets a cron file before the whole binary.*)
CronComesLast == [][\A h \in Hosts : ~cron[h] /\ cron'[h] /\ ~raced[h] => bin[h] = "whole"]_vars

(* What a page shows in green is so, until the next page is opened: the    *)
(* collector is there with its cron file and has written a file; there is  *)
(* data of the host.  Commands of earlier deployments that are late do not *)
(* undo it, except on an unfit host: they only replace the binary by the   *)
(* same one.                                                               *)
GreenIsTrue ==
  \A h \in Hosts : shown[h] = "green" =>
    /\ page.op = "deploy" /\ ~(raced[h] /\ h \in S.unfit) =>
         /\ bin[h] = "whole" \/ (raced[h] /\ Replacing(h))
         /\ cron[h] /\ DOMAIN files[h] # {}
    /\ page.op = "pull" => \E f \in DOMAIN local : f[1] = HostName[h]

(* No host is left out because another one failed, and a deployment fails  *)
(* on none that answers, is fit and has seen no other.                     *)
EveryHostIsTried ==
  /\ page.step = "ended" /\ opened > 0 => \A h \in Hosts : shown[h] # ""
  /\ page.op = "deploy" /\ ~S.tight =>
       \A h \in Hosts \ (S.faulty \cup S.unfit) : shown[h] = "red" => raced[h]

(* Documented: the page removes cron file and binary of every host.  Said  *)
(* of the hosts that answer and are fit, when no deployment is under way   *)
(* any more and the page has ended.                                        *)
UninstallRemoves ==
  page.op = "uninstall" /\ page.step = "ended" =>
    \A h \in Hosts \ (S.faulty \cup S.unfit) :
      ~Deploying(h) => ~cron[h] /\ bin[h] = "none"

(* A page ends, or is held by a host that neither answers nor refuses.     *)
PageEnds == <>[]~Busy \/ <>[]MayFail

(* The prune leaves the files of the last KeepDays days alone, today's     *)
(* included, and none older than KeepDays days before today, in any zone.  *)
WeekIsKept ==
  [][\A h \in Hosts : due[h] /\ ~due'[h] =>
       /\ \A d \in pruned'[h] \ pruned[h] : d <= Today - KeepDays
       /\ \A d \in DOMAIN files[h] \ pruned'[h] : d >= Today - KeepDays]_vars

(* A fetched file is the beginning of what the collector of a host of that *)
(* name wrote that day, line by line, whatever was cut off or pruned.  A   *)
(* last line that was unfinished may have become part of another since,    *)
(* and is no record in either file.                                        *)
Begins(got, file) ==
  /\ Len(got) <= Len(file)
  /\ \A i \in 1..Len(got) :
       got[i] = file[i] \/ (i = Len(got) /\ got[i] = Torn /\ file[i] = Garbled)

PulledIsTrue ==
  \A f \in DOMAIN local :
    \E h \in Hosts : /\ HostName[h] = f[1] /\ f[2] \in DOMAIN files[h]
                    /\ Begins(local[f], files[h][f[2]])

(* The report never claims more processor time than was used, although     *)
(* processes come and go, numbers are used again and lines get lost -      *)
(* unless two collectors ran at once.                                      *)
Local(name) ==
  [d \in {f[2] : f \in {g \in DOMAIN local : g[1] = name}} |-> local[<<name, d>>]]

NoFalseLoad ==
  \A h \in Hosts :
    (\A g \in Hosts \ {h} : HostName[g] # HostName[h]) /\ ~overlapped[h] =>
      SumFunction(aggregate_by_service(load_dir(Local(HostName[h])))) <= burned[h]
=============================================================================
