------------------------------ MODULE HostRules ------------------------------
(***************************************************************************)
(* Hosts and their services, as pure functions: what the batch commands    *)
(* print (HostOutputs, ServiceOutputs), what the collectors read from it   *)
(* (parseHostOutput, parseServices) and which rows the checker makes of    *)
(* that (CheckHost, CheckService...).                                      *)
(*                                                                         *)
(* A command can end early - the connection breaks, the shell dies - and   *)
(* leave a prefix of its sections: seen is the length of that prefix.      *)
(***************************************************************************)
EXTENDS CheckRows

CONSTANTS
  Mounts,    \* mount points of a host
  NoOutput   \* what a command printed that printed nothing

-----------------------------------------------------------------------------
(* Disk usage: which filesystems count.  "pseudo" stands for the           *)
(* blocklist, "real" for the allowlist, "other" for types in no list.      *)

FsTypes == {"real", "nfs", "pseudo", "other"}
DfLines == [mount : Mounts, fs : FsTypes, full : BOOLEAN]

shouldCollectFs(fs, includeNFS) == fs = "real" \/ (fs = "nfs" /\ includeNFS)

(* explicit: the mount points of CHECK_MOUNT_PATH, none for all.           *)
Collected(line, explicit, includeNFS) ==
  /\ line.fs # "pseudo"
  /\ IF explicit # {} THEN line.mount \in explicit
     ELSE shouldCollectFs(line.fs, includeNFS)

parseDiskUsage(lines, explicit, includeNFS) ==
  {[mount |-> l.mount, full |-> l.full] :
     l \in {x \in lines : Collected(x, explicit, includeNFS)}}

-----------------------------------------------------------------------------
(* The batch command of a host.  load "rising": 1 > 5 > 15 minutes but     *)
(* below the number of cores, "over": above it.  bad: the values beyond    *)
(* their threshold or not as expected; "N/A" is as expected.  An output    *)
(* of a single line counts as none.                                        *)

SectionOrder ==
  <<"LOADAVG", "FREE", "DF", "DFI", "ULIMIT", "PROCS", "NTPD", "CHRONYD",
    "SELINUX", "FIREWALLD", "IPTABLES", "SS", "UPTIME", "VERSION", "KERNEL",
    "MEMINFO", "CPUCOUNT", "DMIDECODE">>

AllSections == Len(SectionOrder)
Sections(seen) == {SectionOrder[i] : i \in 1..seen}

Expected == {"CHRONYD", "SELINUX", "FIREWALLD"}
Judged == {"cpu", "FREE", "ULIMIT"} \cup Expected

HostOutputs ==
  [seen : 0..AllSections, load : {"flat", "rising", "over"},
   bad : SUBSET Judged, df : SUBSET DfLines, dfi : SUBSET DfLines]

(* HostMetrics, with a value as "good", "bad" or "" for the zero value of  *)
(* a section that never came.                                              *)
NoMetrics ==
  [error |-> "", cpu |-> "", value |-> [s \in {"FREE", "ULIMIT"} \cup Expected |-> ""],
   load |-> "", cores |-> FALSE, disks |-> {}, inodes |-> {}]

parseHostOutput(out, explicit, includeNFS) ==
  LET has == Sections(out.seen)
      disks == parseDiskUsage(out.df, explicit, includeNFS)
  IN  IF out = NoOutput THEN [NoMetrics EXCEPT !.error = "incomplete"]
      ELSE [error |-> IF "DF" \in has /\ out.df # {} /\ disks = {} THEN "disk" ELSE "",
            cpu |-> IF "cpu" \in out.bad THEN "bad" ELSE "good",
            value |-> [s \in DOMAIN NoMetrics.value |->
                         IF s \notin has THEN "" ELSE IF s \in out.bad THEN "bad" ELSE "good"],
            load |-> IF "LOADAVG" \in has THEN out.load ELSE "",
            cores |-> "CPUCOUNT" \in has,
            disks |-> IF "DF" \in has THEN disks ELSE {},
            inodes |-> IF "DFI" \in has
                       THEN parseDiskUsage(out.dfi, explicit, includeNFS) ELSE {}]

-----------------------------------------------------------------------------
(* CheckHost.  The zero value passes for cpu, memory and load; it is       *)
(* below the limit of open files and is none of the expected states.       *)

EmptyPasses == {}   \* faulty variant: what never came is not judged
EmptyIsBad == {"ULIMIT"} \cup Expected

FieldOf(section) ==
  [FREE |-> "mem_usage", ULIMIT |-> "max_open_files", CHRONYD |-> "chronyd",
   SELINUX |-> "selinux", FIREWALLD |-> "firewalld"][section]

Overloaded(m) == m.load = "over" \/ (m.load = "rising" /\ ~m.cores)

CheckHost(ip, m) ==
  {Row("cpu_usage", ip, OkElseWarn(m.cpu # "bad")),
   Row("load_average", ip, OkElseWarn(~Overloaded(m)))}
    \cup {Row(FieldOf(s), ip, OkElseWarn(/\ m.value[s] # "bad"
                                         /\ m.value[s] = "" => s \notin EmptyIsBad)) :
            s \in DOMAIN m.value}
    \cup {Row("disk_usage", ip, OkElseWarn(~d.full)) : d \in m.disks}
    \cup {Row("inode_usage", ip, OkElseWarn(~d.full)) : d \in m.inodes}

-----------------------------------------------------------------------------
(* Services: the sub-modules of a module, one of each kind the registry    *)
(* lists for it.                                                           *)

SubModule(name, hz) == [name |-> name, hz |-> hz, skip |-> FALSE]

ModuleRegistry ==
  [paas |-> <<SubModule("console", "http_status")>>,
   cmdb |-> <<SubModule("cmdb-api", "json_ok")>>,
   job |-> <<SubModule("job-manage", "json_up"),
             [name |-> "job-analysis", hz |-> "json_up", skip |-> TRUE]>>,
   gse |-> <<SubModule("gse-data", "none")>>,
   appo |-> <<SubModule("bk-paasagent", "none")>>,
   appt |-> <<SubModule("bk-paasagent", "none")>>,
   iam |-> <<SubModule("bkiam", "http_status")>>,
   usermgr |-> <<SubModule("usermgr", "http_status")>>,
   nodeman |-> <<SubModule("nodeman", "http_alive")>>,
   monitor |-> <<SubModule("monitor", "http_alive")>>,
   influxdb_proxy |-> <<SubModule("influxdb-proxy", "http_alive")>>,
   transfer |-> <<SubModule("transfer", "http_alive")>>,
   unify_query |-> <<SubModule("unify-query", "http_alive")>>]

Modules == DOMAIN ModuleRegistry

(* unit: ActiveState as systemctl prints it, "" when it prints none.       *)
(* hz: "good" is 200, {"ok": true} or {"status": "UP"}; "mixed" a body     *)
(* that says a part is well and the whole is not; "bad" any other answer.  *)
(* A section the output did not reach is "unseen"; the unit is asked       *)
(* before the health of each sub-module.                                   *)
Probes == [unit : {"active", "failed", "not-found", ""},
           hz : {"good", "mixed", "bad", "unreachable", "unseen"}]
            \cup {[unit |-> "unseen", hz |-> "unseen"]}

ServiceOutputs(module) ==
  LET n == Len(ModuleRegistry[module])
  IN  {o \in [probes : [1..n -> Probes], exited : BOOLEAN] :
         /\ \A i \in 1..n : \A j \in 1..(i - 1) :
              o.probes[j].hz = "unseen" => o.probes[i].unit = "unseen"
         /\ o.exited => module \in {"appo", "appt"}
                          /\ \A i \in 1..n : o.probes[i].hz # "unseen"}

unitStatus(sub, p) ==
  IF sub.skip \/ p.unit = "unseen" THEN "" ELSE IF p.unit = "" THEN "unknown" ELSE p.unit

(* The bodies are searched for "ok" and true, or "UP", anywhere in them.   *)
healthz(sub, p) ==
  IF sub.skip \/ sub.hz = "none" THEN "N/A"
  ELSE IF p.hz = "unseen" THEN ""
  ELSE IF p.hz = "good" \/ (p.hz = "bad" /\ sub.hz = "http_alive")
            \/ (p.hz = "mixed" /\ sub.hz # "http_status")
       THEN "ok"
  ELSE IF p.hz = "unreachable" THEN "unreachable"
  ELSE "fail"

(* reply: what Client.Run gave, an error and an output, either or both.    *)
collectServiceOnHost(module, reply) ==
  LET subs == ModuleRegistry[module]
      out == reply.out
  IN  IF reply.err /\ out = NoOutput
      THEN [error |-> TRUE, services |-> <<>>, exited |-> FALSE]
      ELSE [error |-> FALSE, exited |-> out.exited,
            services |-> [i \in DOMAIN subs |->
                            [name |-> subs[i].name, status |-> unitStatus(subs[i], out.probes[i]),
                             healthz |-> healthz(subs[i], out.probes[i])]]]

CheckServiceCollectError(ip, s) == RowIf(s.error, "collect_error", ip, Notice)

StatusOf(status) ==
  IF status = "" THEN Unknown ELSE IF status = "active" THEN OK ELSE Warn

CheckService(ip, sm) ==
  {Row(sm.name \o ".status", ip, StatusOf(sm.status))}
    \cup RowIf(sm.healthz \notin {"", "N/A"}, sm.name \o ".healthz", ip,
               OkElseWarn(sm.healthz = "ok"))

CheckServiceContainers(ip, s) == RowIf(s.exited, "docker.exited", ip, Notice)

ServiceRows(ip, s) ==
  CheckServiceCollectError(ip, s) \cup CheckServiceContainers(ip, s)
    \cup UNION {CheckService(ip, s.services[i]) : i \in DOMAIN s.services}
=============================================================================
