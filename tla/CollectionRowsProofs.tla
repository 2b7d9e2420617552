------------------------ MODULE CollectionRowsProofs ------------------------
(***************************************************************************)
(* Proofs about the rows of a report: whatever is unhealthy is shown and   *)
(* what is well is not, for any hosts, deployments and answers.  First     *)
(* what the rules make of an answer, host by host, service by service and  *)
(* component by component; then that the report was made of the answers.   *)
(***************************************************************************)
EXTENDS CollectionProofs, SequenceTheorems, WellFoundedInduction

Quiet(rows) == \A r \in rows : r.status # Warn

LEMMA RowFields ==
  \A f, n, s : Row(f, n, s).status = s /\ Row(f, n, s).node = n
  BY DEF Row

LEMMA Statuses == OkElseWarn(FALSE) = Warn /\ OkElseWarn(TRUE) = OK /\ Warn # OK
                  /\ Notice # OK /\ Unknown # OK /\ Notice # Warn /\ Unknown # Warn
  BY DEF OkElseWarn, OK, Warn, Notice, Unknown

(* A row that is not OK speaks of its node, or of everything.              *)
LEMMA SpeakingRow ==
  ASSUME NEW rows, NEW node, NEW f, NEW n, NEW s, Row(f, n, s) \in rows,
         s # OK, n \in {node, NoNode}
  PROVE  Speaks(rows, node)
  BY RowFields DEF Speaks

-----------------------------------------------------------------------------
(* Hosts.                                                                  *)

LEMMA SectionsArePrefix ==
  ASSUME NEW seen \in 0 .. AllSections
  PROVE  /\ "LOADAVG" \in Sections(seen) <=> seen >= 1
         /\ "FREE" \in Sections(seen) <=> seen >= 2
         /\ "DF" \in Sections(seen) <=> seen >= 3
         /\ "DFI" \in Sections(seen) <=> seen >= 4
         /\ "ULIMIT" \in Sections(seen) <=> seen >= 5
         /\ seen = AllSections => JudgedSections \cup {"CPUCOUNT"} \subseteq Sections(seen)
<1>1. AllSections = 18
  BY DEF AllSections, SectionOrder
<1>2. \A s : s \in Sections(seen) <=> \E i \in 1 .. seen : SectionOrder[i] = s
  BY DEF Sections
<1>3. /\ SectionOrder[1] = "LOADAVG" /\ SectionOrder[2] = "FREE" /\ SectionOrder[3] = "DF"
      /\ SectionOrder[4] = "DFI" /\ SectionOrder[5] = "ULIMIT" /\ SectionOrder[8] = "CHRONYD"
      /\ SectionOrder[9] = "SELINUX" /\ SectionOrder[10] = "FIREWALLD"
      /\ SectionOrder[17] = "CPUCOUNT"
  BY DEF SectionOrder
<1>4. \A i \in 1 .. 18 :
        /\ SectionOrder[i] = "LOADAVG" => i = 1
        /\ SectionOrder[i] = "FREE" => i = 2
        /\ SectionOrder[i] = "DF" => i = 3
        /\ SectionOrder[i] = "DFI" => i = 4
        /\ SectionOrder[i] = "ULIMIT" => i = 5
  BY DEF SectionOrder
<1>5. seen \in 0 .. 18
  BY <1>1
<1>6. \A i : i \in 1 .. seen => i \in 1 .. 18
  BY <1>5
<1>7. "LOADAVG" \in Sections(seen) <=> seen >= 1
  BY <1>2, <1>3, <1>4, <1>5, <1>6
<1>8. "FREE" \in Sections(seen) <=> seen >= 2
  BY <1>2, <1>3, <1>4, <1>5, <1>6
<1>9. "DF" \in Sections(seen) <=> seen >= 3
  BY <1>2, <1>3, <1>4, <1>5, <1>6
<1>10. "DFI" \in Sections(seen) <=> seen >= 4
  BY <1>2, <1>3, <1>4, <1>5, <1>6
<1>11. "ULIMIT" \in Sections(seen) <=> seen >= 5
  BY <1>2, <1>3, <1>4, <1>5, <1>6
<1>12. ASSUME seen = AllSections
       PROVE  JudgedSections \cup {"CPUCOUNT"} \subseteq Sections(seen)
  <2>1. seen = 18
    BY <1>1, <1>12
  <2>2. {2, 5, 8, 9, 10, 17} \subseteq 1 .. seen
    BY <2>1
  <2>3. {"FREE", "ULIMIT", "CHRONYD", "SELINUX", "FIREWALLD", "CPUCOUNT"} \subseteq Sections(seen)
    BY <1>2, <1>3, <2>2
  <2> QED BY <2>3 DEF JudgedSections, Judged, Expected
<1> QED BY <1>7, <1>8, <1>9, <1>10, <1>11, <1>12

JudgedValues == {"FREE", "ULIMIT", "CHRONYD", "SELINUX", "FIREWALLD"}

(* The rows CheckHost always makes.                                        *)
LEMMA HostRowsMade ==
  ASSUME NEW ip, NEW m
  PROVE  /\ m.cpu = "bad" => Speaks(CheckHost(ip, m), ip)
         /\ Overloaded(m) => Speaks(CheckHost(ip, m), ip)
         /\ \A s \in DOMAIN m.value :
              m.value[s] = "bad" \/ (m.value[s] = "" /\ s \in EmptyIsBad)
                => Speaks(CheckHost(ip, m), ip)
         /\ \A d \in m.disks \cup m.inodes : d.full => Speaks(CheckHost(ip, m), ip)
<1>1. m.cpu = "bad" => Row("cpu_usage", ip, Warn) \in CheckHost(ip, m)
  BY Statuses DEF CheckHost
<1>2. Overloaded(m) => Row("load_average", ip, Warn) \in CheckHost(ip, m)
  BY Statuses DEF CheckHost
<1>3. ASSUME NEW s \in DOMAIN m.value,
             m.value[s] = "bad" \/ (m.value[s] = "" /\ s \in EmptyIsBad)
      PROVE  Row(FieldOf(s), ip, Warn) \in CheckHost(ip, m)
  <2>1. (m.value[s] # "bad" /\ (m.value[s] = "" => s \notin EmptyIsBad)) = FALSE
    BY <1>3
  <2>2. Row(FieldOf(s), ip, OkElseWarn(m.value[s] # "bad" /\ (m.value[s] = "" => s \notin EmptyIsBad)))
          \in CheckHost(ip, m)
    BY DEF CheckHost
  <2> QED BY <2>1, <2>2, Statuses
<1>4. ASSUME NEW d \in m.disks \cup m.inodes, d.full
      PROVE  \E f : Row(f, ip, Warn) \in CheckHost(ip, m)
  <2>1. (~d.full) = FALSE
    BY <1>4
  <2>2. \E f : Row(f, ip, OkElseWarn(~d.full)) \in CheckHost(ip, m)
    BY DEF CheckHost
  <2> QED BY <2>1, <2>2, Statuses
<1> QED BY <1>1, <1>2, <1>3, <1>4, SpeakingRow, Statuses

(* A host that could not be asked has rows that are Warn.                  *)
LEMMA NoMetricsShown ==
  ASSUME NEW ip, NEW e
  PROVE  Speaks(CheckHost(ip, [NoMetrics EXCEPT !.error = e]), ip)
<1> DEFINE m == [NoMetrics EXCEPT !.error = e]
<1>1. "ULIMIT" \in DOMAIN m.value /\ m.value["ULIMIT"] = "" /\ "ULIMIT" \in EmptyIsBad
  BY DEF NoMetrics, EmptyIsBad
<1>2. \A n : "ULIMIT" \in DOMAIN n.value /\ n.value["ULIMIT"] = "" => Speaks(CheckHost(ip, n), ip)
  BY <1>1, HostRowsMade
<1> QED BY <1>1, <1>2

(* What the metrics m of an output are.                                    *)
ParsedAs(m, out, paths, nfs) ==
  /\ DOMAIN m.value = JudgedValues
  /\ \A s \in JudgedValues :
       m.value[s] = IF s \notin Sections(out.seen) THEN ""
                    ELSE IF s \in out.bad THEN "bad" ELSE "good"
  /\ m.cpu = IF "cpu" \in out.bad THEN "bad" ELSE "good"
  /\ m.load = IF "LOADAVG" \in Sections(out.seen) THEN out.load ELSE ""
  /\ "CPUCOUNT" \in Sections(out.seen) => m.cores
  /\ m.disks = IF "DF" \in Sections(out.seen) THEN parseDiskUsage(out.df, paths, nfs) ELSE {}
  /\ m.inodes = IF "DFI" \in Sections(out.seen) THEN parseDiskUsage(out.dfi, paths, nfs) ELSE {}

LEMMA ParsedOutput ==
  ASSUME NEW out, out # NoOutput, NEW paths, NEW nfs
  PROVE  ParsedAs(parseHostOutput(out, paths, nfs), out, paths, nfs)
<1>1. DOMAIN NoMetrics.value = JudgedValues
  BY DEF NoMetrics, Expected, JudgedValues
<1> QED BY <1>1 DEF parseHostOutput, ParsedAs

LEMMA MissingSectionShown ==
  ASSUME NEW ip, NEW out \in HostOutputs, NEW paths, NEW nfs,
         NEW m, ParsedAs(m, out, paths, nfs),
         ~(out.seen >= 5)
  PROVE  Speaks(CheckHost(ip, m), ip)
<1>1. "ULIMIT" \notin Sections(out.seen)
  BY SectionsArePrefix DEF HostOutputs
<1>2. "ULIMIT" \in JudgedValues /\ "ULIMIT" \in EmptyIsBad
  BY DEF JudgedValues, EmptyIsBad
<1>3. m.value["ULIMIT"] = "" /\ "ULIMIT" \in DOMAIN m.value
  BY <1>1, <1>2 DEF ParsedAs
<1> QED BY <1>2, <1>3, HostRowsMade

(* A sick host is never shown as well: what its output misses or says.     *)
LEMMA SickOutputShown ==
  ASSUME NEW ip, NEW out \in HostOutputs, NEW paths, NEW nfs,
         NEW m, ParsedAs(m, out, paths, nfs),
         \/ ~(JudgedSections \subseteq Sections(out.seen))
         \/ out.bad # {} \/ out.load = "over"
         \/ \E l \in out.df \cup out.dfi :
              l.full /\ l.fs = "real" /\ (paths = {} \/ l.mount \in paths)
  PROVE  Speaks(CheckHost(ip, m), ip)
<1> DEFINE has == Sections(out.seen)
<1>1. out.seen \in 0 .. AllSections /\ out.bad \subseteq Judged /\ AllSections \in Nat
  BY DEF HostOutputs, AllSections, SectionOrder
<1>2. CASE ~(out.seen >= 5)
  BY <1>2, MissingSectionShown
<1>3. CASE out.seen >= 5
  <2>1. {"LOADAVG", "FREE", "DF", "DFI", "ULIMIT"} \subseteq has
    BY <1>1, <1>3, SectionsArePrefix
  <2>2. CASE ~(JudgedSections \subseteq has)
    <3>1. PICK s \in JudgedSections : s \notin has
      BY <2>2
    <3>2. s \in JudgedValues /\ s \in EmptyIsBad
      BY <2>1, <3>1 DEF JudgedSections, Judged, Expected, JudgedValues, EmptyIsBad
    <3>3. m.value[s] = "" /\ s \in DOMAIN m.value
      BY <3>1, <3>2 DEF ParsedAs
    <3> QED BY <3>2, <3>3, HostRowsMade
  <2>3. CASE JudgedSections \subseteq has /\ out.bad # {}
    <3>1. PICK s \in out.bad : s \in Judged
      BY <1>1, <2>3
    <3>2. CASE s = "cpu"
      BY <3>2, HostRowsMade DEF ParsedAs
    <3>3. CASE s # "cpu"
      <4>1. s \in JudgedValues /\ s \in has
        BY <2>3, <3>1, <3>3 DEF JudgedSections, Judged, Expected, JudgedValues
      <4>2. m.value[s] = "bad" /\ s \in DOMAIN m.value
        BY <4>1 DEF ParsedAs
      <4> QED BY <4>2, HostRowsMade
    <3> QED BY <3>2, <3>3
  <2>4. CASE out.load = "over"
    <3>1. m.load = "over"
      BY <2>1, <2>4 DEF ParsedAs
    <3> QED BY <3>1, HostRowsMade DEF Overloaded
  <2>5. ASSUME NEW l \in out.df \cup out.dfi,
               l.full, l.fs = "real", paths = {} \/ l.mount \in paths
        PROVE  Speaks(CheckHost(ip, m), ip)
    <3>1. Collected(l, paths, nfs)
      BY <2>5 DEF Collected, shouldCollectFs
    <3>2. [mount |-> l.mount, full |-> l.full]
            \in parseDiskUsage(out.df, paths, nfs) \cup parseDiskUsage(out.dfi, paths, nfs)
      BY <3>1 DEF parseDiskUsage
    <3>3. [mount |-> l.mount, full |-> l.full] \in m.disks \cup m.inodes
      BY <2>1, <3>2 DEF ParsedAs
    <3> QED BY <2>5, <3>3, HostRowsMade
  <2> QED BY <2>2, <2>3, <2>4, <2>5
<1> QED BY <1>1, <1>2, <1>3

LEMMA WellOutputQuiet ==
  ASSUME NEW ip, NEW out \in HostOutputs, NEW paths, NEW nfs,
         NEW m, ParsedAs(m, out, paths, nfs),
         out.seen = AllSections, out.bad = {}, out.load # "over",
         \A l \in out.df \cup out.dfi : ~l.full
  PROVE  Quiet(CheckHost(ip, m))
<1> DEFINE has == Sections(out.seen)
<1>1. JudgedSections \cup {"CPUCOUNT"} \subseteq has
  BY SectionsArePrefix DEF HostOutputs
<1>2. \A s \in JudgedValues : m.value[s] = "good"
  <2>1. JudgedValues \subseteq has
    BY <1>1 DEF JudgedSections, Judged, Expected, JudgedValues
  <2> QED BY <2>1 DEF ParsedAs
<1>3. ~Overloaded(m) /\ m.cpu = "good" /\ DOMAIN m.value = JudgedValues
  BY <1>1 DEF ParsedAs, Overloaded
<1>4. \A d \in m.disks \cup m.inodes : ~d.full
  <2>1. \A d \in parseDiskUsage(out.df, paths, nfs) \cup parseDiskUsage(out.dfi, paths, nfs) : ~d.full
    BY DEF parseDiskUsage
  <2> QED BY <2>1 DEF ParsedAs
<1>5. ASSUME NEW r \in CheckHost(ip, m) PROVE r.status # Warn
  <2>1. CASE r = Row("cpu_usage", ip, OkElseWarn(m.cpu # "bad"))
    BY <1>3, <2>1, RowFields, Statuses DEF OkElseWarn
  <2>2. CASE r = Row("load_average", ip, OkElseWarn(~Overloaded(m)))
    BY <1>3, <2>2, RowFields, Statuses DEF OkElseWarn
  <2>3. ASSUME NEW s \in DOMAIN m.value,
               r = Row(FieldOf(s), ip, OkElseWarn(/\ m.value[s] # "bad"
                                                  /\ m.value[s] = "" => s \notin EmptyIsBad))
        PROVE  r.status # Warn
    <3>1. m.value[s] = "good"
      BY <1>2, <1>3
    <3> QED BY <2>3, <3>1, RowFields, Statuses DEF OkElseWarn
  <2>4. ASSUME NEW d \in m.disks \cup m.inodes, NEW f, r = Row(f, ip, OkElseWarn(~d.full))
        PROVE  r.status # Warn
    BY <1>4, <2>4, RowFields, Statuses DEF OkElseWarn
  <2> QED BY <2>1, <2>2, <2>3, <2>4 DEF CheckHost
<1> QED BY <1>5 DEF Quiet
-----------------------------------------------------------------------------
(* Services.                                                               *)

SickProbe(sub, p) ==
  /\ ~sub.skip
  /\ \/ p.unit # "active"
     \/ p.hz = "unreachable" /\ sub.hz # "none"
     \/ p.hz = "bad" /\ sub.hz \notin {"none", "http_alive"}

LEMMA SickProbeShown ==
  ASSUME NEW ip, NEW sub, NEW p, SickProbe(sub, p), NEW name
  PROVE  Speaks(CheckService(ip, [name |-> name, status |-> unitStatus(sub, p),
                                  healthz |-> healthz(sub, p)]), ip)
<1> DEFINE sm == [name |-> name, status |-> unitStatus(sub, p), healthz |-> healthz(sub, p)]
<1>1. /\ Row(sm.name \o ".status", ip, StatusOf(unitStatus(sub, p))) \in CheckService(ip, sm)
      /\ healthz(sub, p) \notin {"", "N/A"} =>
           Row(sm.name \o ".healthz", ip, OkElseWarn(healthz(sub, p) = "ok")) \in CheckService(ip, sm)
  BY DEF CheckService, RowIf
<1>2. CASE p.unit # "active"
  <2>1. unitStatus(sub, p) # "active"
    BY <1>2 DEF unitStatus, SickProbe
  <2>2. StatusOf(unitStatus(sub, p)) # OK
    BY <2>1, Statuses DEF StatusOf
  <2> QED BY <1>1, <2>2, SpeakingRow
<1>3. CASE p.unit = "active"
  <2>1. healthz(sub, p) \notin {"", "N/A", "ok"}
    BY <1>3 DEF healthz, SickProbe
  <2>2. OkElseWarn(healthz(sub, p) = "ok") = Warn
    BY <2>1 DEF OkElseWarn
  <2> QED BY <1>1, <2>1, <2>2, SpeakingRow, Statuses
<1> QED BY <1>2, <1>3

LEMMA WellProbeQuiet ==
  ASSUME NEW ip, NEW sub, NEW p, p = [unit |-> "active", hz |-> "good"], NEW name
  PROVE  Quiet(CheckService(ip, [name |-> name, status |-> unitStatus(sub, p),
                                 healthz |-> healthz(sub, p)]))
<1> DEFINE sm == [name |-> name, status |-> unitStatus(sub, p), healthz |-> healthz(sub, p)]
<1>1. unitStatus(sub, p) \in {"", "active"} /\ healthz(sub, p) \in {"N/A", "ok"}
  BY DEF unitStatus, healthz
<1>2. StatusOf(unitStatus(sub, p)) # Warn
  BY <1>1, Statuses DEF StatusOf
<1>3. sm.status = unitStatus(sub, p) /\ sm.healthz = healthz(sub, p)
  OBVIOUS
<1> HIDE DEF sm
<1>4. CASE sm.healthz = "N/A"
  <2>1. CheckService(ip, sm) = {Row(sm.name \o ".status", ip, StatusOf(sm.status))}
    BY <1>4 DEF CheckService, RowIf
  <2> QED BY <1>2, <1>3, <2>1, RowFields DEF Quiet, sm
<1>5. CASE sm.healthz = "ok"
  <2>1. CheckService(ip, sm) = {Row(sm.name \o ".status", ip, StatusOf(sm.status)),
                                Row(sm.name \o ".healthz", ip, OK)}
    BY <1>5 DEF CheckService, RowIf, OkElseWarn
  <2> QED BY <1>2, <1>3, <2>1, RowFields, Statuses DEF Quiet, sm
<1> QED BY <1>1, <1>3, <1>4, <1>5

LEMMA PartSpeaks ==
  ASSUME NEW rows, NEW all, rows \subseteq all, NEW node, Speaks(rows, node)
  PROVE  Speaks(all, node)
  BY DEF Speaks

(* A failed call is shown, and so is each part of an answer that is sick.  *)
LEMMA SickServiceShown ==
  ASSUME NEW ip, NEW m \in ModuleKeys, NEW reply,
         reply = Failed \/ reply.out \in ServiceOutputs(m),
         \/ reply.out = NoOutput
         \/ \E i \in DOMAIN ModuleRegistry[m] : SickProbe(ModuleRegistry[m][i], reply.out.probes[i])
  PROVE  Speaks(ServiceRows(ip, collectServiceOnHost(m, reply)), ip)
<1> DEFINE s == collectServiceOnHost(m, reply)
           rows == ServiceRows(ip, s)
<1>1. CASE reply = Failed
  <2>1. s.error = TRUE
    BY <1>1 DEF collectServiceOnHost, Failed
  <2>2. Row("collect_error", ip, Notice) \in rows
    BY <2>1 DEF ServiceRows, CheckServiceCollectError, RowIf
  <2> QED BY <2>2, SpeakingRow, Statuses
<1>2. CASE reply.out \in ServiceOutputs(m)
  <2>1. reply.out # NoOutput
    BY <1>2, NamesAssumption
  <2>2. PICK i \in DOMAIN ModuleRegistry[m] : SickProbe(ModuleRegistry[m][i], reply.out.probes[i])
    BY <2>1
  <2> DEFINE sub == ModuleRegistry[m][i]
             p == reply.out.probes[i]
             sm == [name |-> sub.name, status |-> unitStatus(sub, p), healthz |-> healthz(sub, p)]
  <2>3. i \in DOMAIN s.services /\ s.services[i] = sm
    BY <2>1 DEF collectServiceOnHost
  <2>4. CheckService(ip, sm) \subseteq rows
    BY <2>3 DEF ServiceRows
  <2>5. Speaks(CheckService(ip, sm), ip)
    BY <2>2, SickProbeShown
  <2> QED BY <2>4, <2>5, PartSpeaks
<1> QED BY <1>1, <1>2

LEMMA WellServiceQuiet ==
  ASSUME NEW ip, NEW m \in ModuleKeys, NEW reply, reply.out # NoOutput, ~reply.out.exited,
         \A i \in DOMAIN ModuleRegistry[m] :
           reply.out.probes[i] = [unit |-> "active", hz |-> "good"]
  PROVE  Quiet(ServiceRows(ip, collectServiceOnHost(m, reply)))
<1> DEFINE s == collectServiceOnHost(m, reply)
           Part(i) == [name |-> ModuleRegistry[m][i].name,
                       status |-> unitStatus(ModuleRegistry[m][i], reply.out.probes[i]),
                       healthz |-> healthz(ModuleRegistry[m][i], reply.out.probes[i])]
<1>1. /\ ~s.error /\ ~s.exited /\ DOMAIN s.services = DOMAIN ModuleRegistry[m]
      /\ \A i \in DOMAIN s.services : s.services[i] = Part(i)
  BY DEF collectServiceOnHost
<1>2. \A i \in DOMAIN ModuleRegistry[m] : Quiet(CheckService(ip, Part(i)))
  BY WellProbeQuiet
<1>3. \A i \in DOMAIN s.services : Quiet(CheckService(ip, s.services[i]))
  BY <1>1, <1>2
<1> QED BY <1>1, <1>3 DEF ServiceRows, CheckServiceCollectError, CheckServiceContainers, RowIf, Quiet

-----------------------------------------------------------------------------
(* Components.                                                             *)

LEMMA ClassesAreErrors ==
  /\ \A f \in CurlFailures : curlErrClass(f) # NoError
  /\ \A f \in RabbitFailures : rmqErrClass(f) # NoError
  /\ \A f \in Failures : classifyRedis(f) # NoError /\ classifyMongo(f) # NoError
<1>1. \A f \in CurlFailures : curlErrClass(f) # NoError
  <2>1. /\ curlErrClass("refused") = "network" /\ curlErrClass("slow") = "timeout"
        /\ curlErrClass("deadline") = "unknown" /\ curlErrClass("cancelled") = "timeout"
    BY DEF curlErrClass
  <2> QED BY <2>1 DEF CurlFailures, NoError
<1>2. \A f \in RabbitFailures : rmqErrClass(f) # NoError
  BY <1>1 DEF RabbitFailures, rmqErrClass, NoError
<1>3. \A f \in Failures : classifyRedis(f) # NoError /\ classifyMongo(f) # NoError
  <2>1. /\ Classify("refused") = "network" /\ Classify("deadline") = "timeout"
        /\ Classify("denied") = "auth" /\ Classify("server") = "unknown"
    BY DEF Classify
  <2>2. \A f \in Failures : Classify(f) # NoError
    BY <2>1 DEF Failures, NoError
  <2> QED BY <2>2 DEF classifyRedis, classifyMongo, NoError
<1> QED BY <1>1, <1>2, <1>3

LEMMA ListIPs ==
  ASSUME NEW ips \in Seq(Hosts), ips # <<>>
  PROVE  IPs(ips) # {} /\ IPs(ips) \subseteq Hosts
<1>1. Len(ips) \in Nat /\ Len(ips) # 0
  BY EmptySeq
<1>2. DOMAIN ips = 1 .. Len(ips) /\ \A i \in DOMAIN ips : ips[i] \in Hosts
  OBVIOUS
<1>3. 1 \in DOMAIN ips
  BY <1>1, <1>2
<1> QED BY <1>2, <1>3 DEF IPs

(* Elasticsearch. *)
LEMMA CollectedES ==
  ASSUME NEW curl, NEW ips, NEW a
  PROVE  LET c == CollectES(curl, ips, a)
             down == {ip \in IPs(ips) : ~a.up[ip]}
         IN  /\ ~curl => c.error = "unknown"
             /\ curl /\ down = IPs(ips) => c.error = "network"
             /\ curl /\ down # IPs(ips) /\ a.health \in CurlFailures => c.error = curlErrClass(a.health)
             /\ curl /\ down # IPs(ips) /\ a.health \notin CurlFailures =>
                  /\ c.error = NoError /\ c.down = down
                  /\ a.health # "denied" => c.status = a.health /\ c.troubles = a.troubles
  BY DEF CollectES, NoCluster, probeES7Nodes

LEMMA SickESShown ==
  ASSUME NEW curl \in BOOLEAN, NEW ips, NEW a \in ESAnswers(ips),
         NEW node \in (NodeIf(a.health # "green" \/ a.troubles # {}, NoNode)
                         \cup {ip \in DOMAIN a.up : ~a.up[ip]})
                      \ NodeIf(a.health = "denied" /\ curl, NoNode)
  PROVE  Speaks(CheckES(CollectES(curl, ips, a)), node)
<1> DEFINE c == CollectES(curl, ips, a)
           down == {ip \in IPs(ips) : ~a.up[ip]}
<1>1. DOMAIN a.up = IPs(ips) /\ a.health \in CurlFailures \cup {"denied", "green", "yellow"}
  BY DEF ESAnswers
<1>2. CASE c.error # NoError
  <2>1. Row("es.cluster_error", NoNode, Warn) \in CheckES(c)
    BY <1>2 DEF CheckES
  <2> QED BY <2>1, SpeakingRow, Statuses
<1>3. CASE c.error = NoError
  <2>1. /\ curl /\ down # IPs(ips) /\ a.health \notin CurlFailures /\ c.down = down
        /\ a.health # "denied" => c.status = a.health /\ c.troubles = a.troubles
    BY <1>3, CollectedES, ClassesAreErrors DEF NoError
  <2>2. CASE node \in down
    <3>1. Row("es.reachability", node, Warn) \in CheckES(c)
      BY <1>3, <2>1, <2>2 DEF CheckES
    <3> QED BY <3>1, SpeakingRow, Statuses
  <2>3. CASE node \notin down
    <3>1. node = NoNode /\ (a.health # "green" \/ a.troubles # {}) /\ a.health # "denied"
      BY <1>1, <2>1, <2>3 DEF NodeIf
    <3>2. c.status = a.health /\ c.troubles = a.troubles /\ c.status \in {"green", "yellow"}
      BY <1>1, <2>1, <3>1
    <3>3. CASE c.status # "green"
      <4>1. Row("es.cluster_status", NoNode, Notice) \in CheckES(c)
        BY <1>3, <3>2, <3>3 DEF CheckES, RowIf
      <4> QED BY <4>1, SpeakingRow, Statuses
    <3>4. CASE c.troubles # {}
      <4>1. PICK t \in c.troubles : TRUE
        BY <3>4
      <4>2. Row("es." \o t, NoNode, Notice) \in CheckES(c)
        BY <1>3, <4>1 DEF CheckES
      <4> QED BY <4>2, SpeakingRow, Statuses
    <3> QED BY <3>1, <3>2, <3>3, <3>4
  <2> QED BY <2>2, <2>3
<1> QED BY <1>2, <1>3

LEMMA WellESQuiet ==
  ASSUME NEW curl \in BOOLEAN, curl, NEW ips, IPs(ips) # {}, NEW a \in ESAnswers(ips),
         a.health = "green", a.troubles = {}, \A ip \in DOMAIN a.up : a.up[ip]
  PROVE  Quiet(CheckES(CollectES(curl, ips, a)))
<1> DEFINE c == CollectES(curl, ips, a)
           down == {ip \in IPs(ips) : ~a.up[ip]}
<1>1. down = {}
  BY DEF ESAnswers
<1>2. down # IPs(ips)
  BY <1>1
<1>3. a.health \notin CurlFailures /\ a.health # "denied"
  BY DEF CurlFailures
<1>4. c.error = NoError /\ c.status = "green" /\ c.troubles = {} /\ c.down = {}
  <2>1. c.error = NoError /\ c.down = down /\ c.status = a.health /\ c.troubles = a.troubles
    BY <1>2, <1>3 DEF CollectES, NoCluster, probeES7Nodes
  <2> QED BY <1>1, <2>1
<1> HIDE DEF c
<1>5. CheckES(c) = {}
  BY <1>4 DEF CheckES, RowIf
<1> QED BY <1>5 DEF Quiet, c

(* Redis. *)
LEMMA SickRedisShown ==
  ASSUME NEW ips, NEW a \in RedisAnswers(ips),
         NEW ip \in DOMAIN a, a[ip].info # "ok" \/ a[ip].long # {}
  PROVE  Speaks(CheckRedis(CollectRedis(ips, a)), ip)
<1> DEFINE nodes == CollectRedis(ips, a)
           part == RowIf(nodes[ip].error # NoError, "redis.error", ip, Warn)
                     \cup {Row("redis." \o q, ip, Notice) : q \in nodes[ip].long}
<1>1. DOMAIN a = IPs(ips) /\ DOMAIN nodes = IPs(ips)
  BY DEF RedisAnswers, CollectRedis
<1>2. a[ip] \in [info : Failures \cup {"ok"}, long : SUBSET Queues]
  BY <1>1 DEF RedisAnswers
<1>3. a[ip].info \in Failures \cup {"ok"}
  BY <1>2
<1>4. part \subseteq CheckRedis(nodes)
  BY <1>1 DEF CheckRedis
<1>5. CASE a[ip].info # "ok"
  <2>1. nodes[ip].error = classifyRedis(a[ip].info) /\ classifyRedis(a[ip].info) # NoError
    BY <1>1, <1>3, <1>5, ClassesAreErrors DEF CollectRedis
  <2>2. Row("redis.error", ip, Warn) \in part
    BY <2>1 DEF RowIf
  <2> QED BY <1>4, <2>2, SpeakingRow, Statuses
<1>6. CASE a[ip].info = "ok"
  <2>1. nodes[ip].long = a[ip].long
    BY <1>1, <1>6 DEF CollectRedis
  <2>2. PICK q \in nodes[ip].long : TRUE
    BY <1>6, <2>1
  <2>3. Row("redis." \o q, ip, Notice) \in part
    BY <2>2
  <2> QED BY <1>4, <2>3, SpeakingRow, Statuses
<1> QED BY <1>5, <1>6

LEMMA WellRedisQuiet ==
  ASSUME NEW ips, NEW a \in RedisAnswers(ips),
         \A ip \in DOMAIN a : a[ip].info = "ok" /\ a[ip].long = {}
  PROVE  Quiet(CheckRedis(CollectRedis(ips, a)))
<1>1. /\ DOMAIN CollectRedis(ips, a) = DOMAIN a
      /\ \A ip \in DOMAIN a : /\ CollectRedis(ips, a)[ip].error = NoError
                              /\ CollectRedis(ips, a)[ip].long = {}
  BY DEF RedisAnswers, CollectRedis
<1>2. CheckRedis(CollectRedis(ips, a)) = {}
  BY <1>1 DEF CheckRedis, RowIf
<1> QED BY <1>2 DEF Quiet

(* MongoDB. *)
LEMMA SickMongoShown ==
  ASSUME NEW ips, NEW a \in MongoAnswers(ips),
         NEW node \in (IF a.reply = "ok" THEN a.sick ELSE {NoNode})
  PROVE  Speaks(CheckMongo(CollectMongo(a)), node)
<1>1. a.reply \in Failures \cup {"ok"}
  BY DEF MongoAnswers
<1>2. CASE a.reply = "ok"
  <2>1. Row("mongo.health", node, Notice) \in CheckMongo(CollectMongo(a))
    BY <1>2 DEF CollectMongo, CheckMongo
  <2> QED BY <2>1, SpeakingRow, Statuses
<1>3. CASE a.reply # "ok"
  <2>1. classifyMongo(a.reply) # NoError
    BY <1>1, <1>3, ClassesAreErrors
  <2>2. Row("mongo.error", NoNode, Warn) \in CheckMongo(CollectMongo(a))
    BY <1>3, <2>1 DEF CollectMongo, CheckMongo
  <2> QED BY <2>2, SpeakingRow, Statuses
<1> QED BY <1>2, <1>3

LEMMA WellMongoQuiet ==
  ASSUME NEW a, a.reply = "ok", a.sick = {}
  PROVE  Quiet(CheckMongo(CollectMongo(a)))
  BY DEF CollectMongo, CheckMongo, Quiet

(* Redis Sentinel: the master asked for is named by one that answered.     *)
LEMMA FirstPosition ==
  ASSUME NEW S \in SUBSET Nat, S # {}
  PROVE  Min(S) \in S
<1>1. IsWellFoundedOn(OpToRel(<, Nat), Nat)
  BY NatLessThanWellFounded
<1>2. PICK t \in S : \A u \in S : ~(<<u, t>> \in OpToRel(<, Nat))
  BY <1>1, WFMin
<1>3. \A x \in Nat, y \in Nat : x < y => <<x, y>> \in OpToRel(<, Nat)
  BY DEF OpToRel
<1>4. \A u \in S : u \in Nat /\ ~(u < t)
  BY <1>2, <1>3
<1>5. \A u \in S : t =< u
  BY <1>4
<1> QED BY <1>5 DEF Min

LEMMA NamedByOneThatAnswers ==
  ASSUME NEW ips \in Seq(Hosts), NEW a
  PROVE  \/ /\ MasterNamed(ips, a) = NoNode
            /\ \A ip \in IPs(ips) : a.ping[ip] => a.names[ip] = NoNode
         \/ \E ip \in IPs(ips) : a.ping[ip] /\ MasterNamed(ips, a) = a.names[ip] /\ a.names[ip] # NoNode
<1> DEFINE able == {i \in DOMAIN ips : a.ping[ips[i]] /\ a.names[ips[i]] # NoNode}
<1>1. DOMAIN ips = 1 .. Len(ips) /\ Len(ips) \in Nat
  OBVIOUS
<1>2. CASE able = {}
  BY <1>2 DEF MasterNamed, IPs
<1>3. CASE able # {}
  <2>1. able \in SUBSET Nat
    BY <1>1
  <2>2. Min(able) \in able
    BY <1>3, <2>1, FirstPosition
  <2>3. MasterNamed(ips, a) = a.names[ips[Min(able)]]
    BY <1>3 DEF MasterNamed
  <2> QED BY <2>2, <2>3 DEF IPs
<1> QED BY <1>2, <1>3

LEMMA SickSentinelShown ==
  ASSUME NEW ips \in Seq(Hosts), NEW a \in SentinelAnswers(ips, Hosts), NEW masterIPs,
         NEW node \in {ip \in DOMAIN a.ping : ~a.ping[ip]}
                        \cup NodeIf(\A ip \in DOMAIN a.ping : a.ping[ip] => a.names[ip] \notin a.up,
                                    NoNode)
  PROVE  Speaks(CheckRedisSentinel(CollectSentinel(ips, a), masterIPs), node)
<1> DEFINE s == CollectSentinel(ips, a)
           rows == CheckRedisSentinel(s, masterIPs)
<1>1. DOMAIN a.ping = IPs(ips)
  BY DEF SentinelAnswers
<1>2. CASE node \in DOMAIN a.ping /\ ~a.ping[node]
  <2>1. node \in s.down
    BY <1>1, <1>2 DEF CollectSentinel
  <2>2. Row("redis_sentinel.reachable", node, Warn) \in rows
    BY <2>1 DEF CheckRedisSentinel
  <2> QED BY <2>2, SpeakingRow, Statuses
<1>3. CASE \A ip \in DOMAIN a.ping : a.ping[ip] => a.names[ip] \notin a.up
  <2>1. MasterNamed(ips, a) = NoNode \/ MasterNamed(ips, a) \notin a.up
    BY <1>1, <1>3, NamedByOneThatAnswers
  <2>2. ~s.served
    BY <2>1 DEF CollectSentinel
  <2>3. Row("redis_sentinel.master_reachable", NoNode, Warn) \in rows
    BY <2>2 DEF CheckRedisSentinel, RowIf
  <2> QED BY <2>3, SpeakingRow, Statuses
<1> QED BY <1>2, <1>3 DEF NodeIf

LEMMA WellSentinelQuiet ==
  ASSUME NEW ips \in Seq(Hosts), ips # <<>>, NEW a \in SentinelAnswers(ips, Hosts), NEW masterIPs,
         \A ip \in DOMAIN a.ping : /\ a.ping[ip] /\ a.names[ip] \in a.up
                                   /\ masterIPs \subseteq {a.names[ip]}
  PROVE  Quiet(CheckRedisSentinel(CollectSentinel(ips, a), masterIPs))
<1> DEFINE s == CollectSentinel(ips, a)
           reachable == {ip \in IPs(ips) : a.ping[ip]}
           master == MasterNamed(ips, a)
<1>1. DOMAIN a.ping = IPs(ips) /\ a.up \subseteq Hosts /\ IPs(ips) # {}
  BY ListIPs DEF SentinelAnswers
<1>2. reachable = IPs(ips)
  BY <1>1
<1>3. PICK ip \in IPs(ips) : master = a.names[ip] /\ a.names[ip] # NoNode
  BY <1>1, NamedByOneThatAnswers, NamesAssumption
<1>4. master # NoNode /\ master \in a.up /\ masterIPs \subseteq {master}
  BY <1>1, <1>3
<1>5. /\ s.error = NoError /\ s.down = {} /\ s.master = master /\ s.served /\ s.status = "ok"
  BY <1>1, <1>2, <1>4 DEF CollectSentinel
<1>6. CrossCheckSentinelMaster(s, masterIPs) # "warn"
  BY <1>4, <1>5 DEF CrossCheckSentinelMaster
<1> HIDE DEF s
<1>7. CheckRedisSentinel(s, masterIPs) = {}
  BY <1>5, <1>6 DEF CheckRedisSentinel, RowIf
<1> QED BY <1>7 DEF Quiet, s

(* RabbitMQ. *)
RabbitTrouble(a) ==
  \/ a.nodes # "list" \/ a.partition \/ a.alarms # {}
  \/ a.conns # "normal" \/ a.queues # "list"

RabbitSilent(curl, a) ==
  /\ ~a.partition /\ a.alarms = {} /\ curl
  /\ {a.nodes, a.queues} \subseteq {"object", "list"}
  /\ a.conns # "abnormal"

(* What was not asked for is not in the answer.                            *)
RabbitAnswer(a) ==
  /\ a \in RabbitReplies
  /\ a.nodes # "list" => a.alarms = {} /\ ~a.partition
  /\ a.queues # "list" => a.list = {}

ThresholdsOK(thr) == thr.backlog \in Int /\ thr.ackMax \in Int /\ thr.ackMax > 0 /\ thr.pubMin \in Int

LEMMA RabbitError ==
  ASSUME NEW curl \in BOOLEAN, NEW a, NEW thr
  PROVE  LET r == CollectRabbitMQ(curl, a, thr)
         IN  /\ ~curl => r.error = "unknown"
             /\ curl /\ a.nodes \in RabbitFailures => r.error = rmqErrClass(a.nodes)
  BY DEF CollectRabbitMQ

LEMMA SickRabbitShown ==
  ASSUME NEW curl \in BOOLEAN, NEW a, RabbitAnswer(a), NEW thr, ThresholdsOK(thr),
         NEW node, \/ node = NoNode /\ RabbitTrouble(a) /\ ~RabbitSilent(curl, a)
                   \/ /\ \E q \in a.list : Stuck(q) /\ node = q.vhost
                      /\ node \notin thr.quiet /\ node # UserMgrVHost
                      /\ \A q \in a.list : q.vhost = node => ~q.event /\ ~(q.pub <= thr.pubMin)
  PROVE  Speaks(CheckRabbitMQ(CollectRabbitMQ(curl, a, thr)), node)
<1> DEFINE r == CollectRabbitMQ(curl, a, thr)
           watched == {q \in a.list : q.vhost # UserMgrVHost /\ ~q.event}
           rows == CheckRabbitMQ(r)
<1>1. /\ a.nodes \in RabbitFailures \cup {"object", "list"} /\ a.partition \in BOOLEAN
      /\ a.queues \in RabbitFailures \cup {"object", "list"} /\ a.list \subseteq QueueRecords
  BY DEF RabbitAnswer, RabbitReplies
<1>2. CASE ~curl \/ a.nodes \in RabbitFailures
  <2>1. r.error # NoError
    BY <1>2, RabbitError, ClassesAreErrors DEF NoError
  <2>2. Row("rabbitmq.error", NoNode, Warn) \in rows
    BY <2>1 DEF CheckRabbitMQ, RowIf
  <2> QED BY <2>2, SpeakingRow, Statuses
<1>3. CASE curl /\ a.nodes \notin RabbitFailures
  <2>1. /\ r.partition = (a.nodes = "list" /\ a.partition)
        /\ r.alarms = IF a.nodes = "list" THEN a.alarms ELSE {}
        /\ r.abnormal = (a.conns = "abnormal")
        /\ r.queuesError = (a.queues \in RabbitFailures)
        /\ r.stalled = {q \in watched : a.queues = "list" /\ isStalled(q, thr)}
    BY <1>3 DEF CollectRabbitMQ
  <2> HIDE DEF r
  <2>2. CASE node = NoNode /\ ~RabbitSilent(curl, a)
    <3>1. CASE a.partition
      <4>1. r.partition
        BY <2>1, <3>1 DEF RabbitAnswer
      <4>2. Row("rabbitmq.cluster_partition", NoNode, Warn) \in rows
        BY <4>1 DEF CheckRabbitMQ, RowIf
      <4> QED BY <4>2, SpeakingRow, Statuses DEF r
    <3>2. CASE a.alarms # {}
      <4>1. r.alarms # {}
        BY <2>1, <3>2 DEF RabbitAnswer
      <4>2. PICK k \in r.alarms : TRUE
        BY <4>1
      <4>3. Row("rabbitmq.node." \o k, NoNode, Warn) \in rows
        BY <4>2 DEF CheckRabbitMQ
      <4> QED BY <4>3, SpeakingRow, Statuses DEF r
    <3>3. CASE a.queues \in RabbitFailures
      <4>1. r.queuesError
        BY <2>1, <3>3
      <4>2. Row("rabbitmq.queues_error", NoNode, Warn) \in rows
        BY <4>1 DEF CheckRabbitMQ, RowIf
      <4> QED BY <4>2, SpeakingRow, Statuses DEF r
    <3>4. CASE a.conns = "abnormal"
      <4>1. r.abnormal
        BY <2>1, <3>4
      <4>2. Row("rabbitmq.abnormal_connections", NoNode, Warn) \in rows
        BY <4>1 DEF CheckRabbitMQ, RowIf
      <4> QED BY <4>2, SpeakingRow, Statuses DEF r
    <3> QED BY <1>1, <1>3, <2>2, <3>1, <3>2, <3>3, <3>4 DEF RabbitSilent
  <2>3. ASSUME NEW q \in a.list, Stuck(q), node = q.vhost, node \notin thr.quiet,
               node # UserMgrVHost, ~q.event, ~(q.pub <= thr.pubMin)
        PROVE  Speaks(rows, node)
    <3>1. q.msgs \in Int /\ q.ack \in Int /\ q.pub \in Int
      BY <1>1 DEF QueueRecords
    <3>2. isStalled(q, thr)
      BY <2>3, <3>1 DEF Stuck, isStalled, ThresholdsOK
    <3>3. a.queues = "list"
      BY DEF RabbitAnswer
    <3>4. q \in r.stalled
      BY <2>1, <2>3, <3>2, <3>3
    <3>5. Row("rabbitmq.stalled", q.vhost, Warn) \in rows
      BY <3>4 DEF CheckRabbitMQ
    <3> QED BY <2>3, <3>5, SpeakingRow, Statuses
  <2> QED BY <2>2, <2>3 DEF r
<1> QED BY <1>2, <1>3

LEMMA WellRabbitQuiet ==
  ASSUME NEW curl \in BOOLEAN, curl, NEW a, RabbitAnswer(a), ~RabbitTrouble(a), NEW thr,
         ThresholdsOK(thr),
         \A q \in a.list : q.msgs < thr.backlog /\ (q.msgs > 0 => q.ack >= thr.ackMax)
  PROVE  Quiet(CheckRabbitMQ(CollectRabbitMQ(curl, a, thr)))
<1> DEFINE r == CollectRabbitMQ(curl, a, thr)
           watched == {q \in a.list : q.vhost # UserMgrVHost /\ ~q.event}
<1>1. \A q \in a.list : q.msgs \in Int /\ q.ack \in Int
  BY DEF RabbitAnswer, RabbitReplies, QueueRecords
<1>2. "list" \notin RabbitFailures
  BY DEF RabbitFailures, CurlFailures
<1>3. /\ r.error = NoError /\ ~r.partition /\ r.alarms = {} /\ ~r.abnormal /\ ~r.queuesError
      /\ r.backlog = {q \in watched : a.queues = "list" /\ q.msgs >= thr.backlog}
      /\ r.stalled = {q \in watched : a.queues = "list" /\ isStalled(q, thr)}
  BY <1>2 DEF RabbitTrouble, CollectRabbitMQ
<1>4. r.backlog = {} /\ r.stalled = {}
  <2>1. \A q \in a.list : ~(q.msgs >= thr.backlog) /\ ~isStalled(q, thr)
    BY <1>1 DEF isStalled, ThresholdsOK
  <2>2. \A q \in watched : q \in a.list
    OBVIOUS
  <2> HIDE DEF r, watched
  <2> QED BY <1>3, <2>1, <2>2
<1> HIDE DEF r
<1>5. CheckRabbitMQ(r) = {}
  BY <1>3, <1>4 DEF CheckRabbitMQ, RowIf
<1> QED BY <1>5 DEF Quiet, r

(* Replication. *)
LEMMA ReplicationStatuses ==
  /\ \A f : collectMySQLMaster(f) = "ok" <=> f = "writable"
  /\ \A f \in {"no_slave", "stopped", "lagging"} :
       collectMySQLSlave(f) # NoReplication /\ collectMySQLSlave(f) # "ok"
  /\ collectMySQLSlave("replicating") = "ok"
  /\ \A f \in Failures \cup {"link_down", "link_slow", "link_up"} :
       collectRedisReplication(f, "master").consistency # "ok"
  /\ LET m == collectRedisReplication("master", "master")
     IN  m.consistency = "ok" /\ m.role = "master"
  /\ \A f \in Failures \cup {"master"} : collectRedisReplication(f, "slave").consistency # "ok"
  /\ \A f \in {"link_down", "link_slow"} :
       LET s == collectRedisReplication(f, "slave") IN s.role = "slave" /\ s.link # "ok"
  /\ LET s == collectRedisReplication("link_up", "slave") IN s.consistency = "ok" /\ s.link = "ok"
<1>1. \A f : collectMySQLMaster(f) = "ok" <=> f = "writable"
  BY DEF collectMySQLMaster
<1>2. \A f \in {"no_slave", "stopped", "lagging"} :
        collectMySQLSlave(f) # NoReplication /\ collectMySQLSlave(f) # "ok"
  <2>1. /\ collectMySQLSlave("no_slave") = "not-configured-as-slave"
        /\ collectMySQLSlave("stopped") = "critical" /\ collectMySQLSlave("lagging") = "warn"
    BY DEF collectMySQLSlave, Failures
  <2> QED BY <2>1 DEF NoReplication
<1>3. collectMySQLSlave("replicating") = "ok"
  BY DEF collectMySQLSlave, Failures
<1>4. \A f \in Failures \cup {"link_down", "link_slow", "link_up"} :
        collectRedisReplication(f, "master").consistency # "ok"
  BY DEF collectRedisReplication, Failures
<1>5. LET m == collectRedisReplication("master", "master")
      IN  m.consistency = "ok" /\ m.role = "master"
  BY DEF collectRedisReplication, Failures
<1>6. \A f \in Failures \cup {"master"} : collectRedisReplication(f, "slave").consistency # "ok"
  BY DEF collectRedisReplication, Failures
<1>7. \A f \in {"link_down", "link_slow"} :
        LET s == collectRedisReplication(f, "slave") IN s.role = "slave" /\ s.link # "ok"
  <2>1. /\ collectRedisReplication("link_down", "slave").role = "slave"
        /\ collectRedisReplication("link_down", "slave").link = "critical"
    BY DEF collectRedisReplication, Failures
  <2>2. /\ collectRedisReplication("link_slow", "slave").role = "slave"
        /\ collectRedisReplication("link_slow", "slave").link = "warn"
    BY DEF collectRedisReplication, Failures
  <2> QED BY <2>1, <2>2
<1>8. LET s == collectRedisReplication("link_up", "slave") IN s.consistency = "ok" /\ s.link = "ok"
  BY DEF collectRedisReplication, Failures
<1> QED BY <1>1, <1>2, <1>3, <1>4, <1>5, <1>6, <1>7, <1>8

LEMMA SickReplicationShown ==
  ASSUME NEW mIps, NEW sIps, NEW rmIps, NEW rsIps,
         NEW masters \in MasterAnswers(mIps), NEW slaves \in SlaveAnswers(sIps),
         NEW nodes \in [master : RedisRoleAnswers(rmIps), slave : RedisRoleAnswers(rsIps)], NEW node
  PROVE  LET rows == CheckReplication(CollectReplication(masters, slaves, nodes))
         IN  /\ node \in DOMAIN masters /\ masters[node] # "writable" => Speaks(rows, node)
             /\ node \in DOMAIN slaves /\ slaves[node] \notin Failures \cup {"replicating"} =>
                  Speaks(rows, node)
             /\ node \in DOMAIN nodes.master /\ nodes.master[node] # "master" => Speaks(rows, node)
             /\ node \in DOMAIN nodes.slave /\ nodes.slave[node] # "link_up" => Speaks(rows, node)
<1> DEFINE rep == CollectReplication(masters, slaves, nodes)
           rows == CheckReplication(rep)
<1>1. ASSUME node \in DOMAIN masters, masters[node] # "writable"
      PROVE  Speaks(rows, node)
  <2>1. node \in DOMAIN rep.masters /\ rep.masters[node] # "ok"
    BY <1>1, ReplicationStatuses DEF CollectReplication
  <2>2. OkElseWarn(rep.masters[node] = "ok") = Warn
    BY <2>1 DEF OkElseWarn
  <2>3. Row("mysql_master.read_only", node, OkElseWarn(rep.masters[node] = "ok")) \in rows
    BY <2>1 DEF CheckReplication
  <2> QED BY <2>2, <2>3, SpeakingRow, Statuses
<1>2. ASSUME node \in DOMAIN slaves, slaves[node] \notin Failures \cup {"replicating"}
      PROVE  Speaks(rows, node)
  <2>1. slaves[node] \in {"no_slave", "stopped", "lagging"}
    BY <1>2 DEF SlaveAnswers
  <2>2. /\ node \in DOMAIN rep.slaves
        /\ rep.slaves[node] # "ok" /\ rep.slaves[node] # NoReplication
    BY <1>2, <2>1, ReplicationStatuses DEF CollectReplication
  <2>3. OkElseWarn(rep.slaves[node] = "ok") = Warn
    BY <2>2 DEF OkElseWarn
  <2>4. Row("mysql_slave.replication", node, OkElseWarn(rep.slaves[node] = "ok")) \in rows
    BY <2>2 DEF CheckReplication
  <2> QED BY <2>3, <2>4, SpeakingRow, Statuses
<1>3. DOMAIN rep.redis = {"master", "slave"}
  BY DEF CollectReplication
<1>4. ASSUME NEW d \in {"master", "slave"}, node \in DOMAIN nodes[d]
      PROVE  /\ rep.redis[d][node] = collectRedisReplication(nodes[d][node], d)
             /\ rep.redis[d][node].consistency # "ok" => Speaks(rows, node)
             /\ rep.redis[d][node].role = "slave" /\ rep.redis[d][node].link # "ok" =>
                  Speaks(rows, node)
  <2> DEFINE n == rep.redis[d][node]
             part == {Row("redis.role", node, OkElseWarn(n.consistency = "ok"))}
                       \cup RowIf(n.role = "slave", "redis.link", node, OkElseWarn(n.link = "ok"))
  <2>1. /\ n = collectRedisReplication(nodes[d][node], d)
        /\ node \in DOMAIN rep.redis[d]
    BY <1>4 DEF CollectReplication
  <2>2. part \subseteq rows
    BY <1>3, <2>1 DEF CheckReplication
  <2> HIDE DEF n
  <2>3. ASSUME n.consistency # "ok" PROVE Speaks(rows, node)
    <3>1. OkElseWarn(n.consistency = "ok") = Warn
      BY <2>3 DEF OkElseWarn
    <3> QED BY <2>2, <3>1, SpeakingRow, Statuses
  <2>4. ASSUME n.role = "slave", n.link # "ok" PROVE Speaks(rows, node)
    <3>1. OkElseWarn(n.link = "ok") = Warn
      BY <2>4 DEF OkElseWarn
    <3>2. Row("redis.link", node, OkElseWarn(n.link = "ok")) \in part
      BY <2>4 DEF RowIf
    <3> QED BY <2>2, <3>1, <3>2, SpeakingRow, Statuses
  <2> QED BY <2>1, <2>3, <2>4 DEF n
<1> HIDE DEF rep
<1>5. ASSUME node \in DOMAIN nodes.master, nodes.master[node] # "master"
      PROVE  Speaks(rows, node)
  <2>1. nodes.master[node] \in Failures \cup {"link_down", "link_slow", "link_up"}
    BY <1>5 DEF RedisRoleAnswers
  <2> QED BY <1>4, <1>5, <2>1, ReplicationStatuses
<1>6. ASSUME node \in DOMAIN nodes.slave, nodes.slave[node] # "link_up"
      PROVE  Speaks(rows, node)
  <2>1. nodes.slave[node] \in (Failures \cup {"master"}) \cup {"link_down", "link_slow"}
    BY <1>6 DEF RedisRoleAnswers
  <2> QED BY <1>4, <1>6, <2>1, ReplicationStatuses
<1> QED BY <1>1, <1>2, <1>5, <1>6 DEF rep

LEMMA WellReplicationQuiet ==
  ASSUME NEW masters, \A ip \in DOMAIN masters : masters[ip] = "writable",
         NEW slaves, \A ip \in DOMAIN slaves : slaves[ip] = "replicating",
         NEW nodes, DOMAIN nodes = {"master", "slave"},
         \A ip \in DOMAIN nodes["master"] : nodes["master"][ip] = "master",
         \A ip \in DOMAIN nodes["slave"] : nodes["slave"][ip] = "link_up"
  PROVE  Quiet(CheckReplication(CollectReplication(masters, slaves, nodes)))
<1> DEFINE rep == CollectReplication(masters, slaves, nodes)
<1>1. \A ip \in DOMAIN rep.masters : rep.masters[ip] = "ok"
  BY ReplicationStatuses DEF CollectReplication
<1>2. \A ip \in DOMAIN rep.slaves : rep.slaves[ip] = "ok"
  BY ReplicationStatuses DEF CollectReplication
<1>3. DOMAIN rep.redis = {"master", "slave"}
  BY DEF CollectReplication
<1>4. \A ip \in DOMAIN rep.redis["master"] :
        rep.redis["master"][ip].consistency = "ok" /\ rep.redis["master"][ip].role = "master"
  BY ReplicationStatuses DEF CollectReplication
<1>5. \A ip \in DOMAIN rep.redis["slave"] :
        rep.redis["slave"][ip].consistency = "ok" /\ rep.redis["slave"][ip].link = "ok"
  BY ReplicationStatuses DEF CollectReplication
<1> HIDE DEF rep
<1>6. \A d \in DOMAIN rep.redis : \A ip \in DOMAIN rep.redis[d] :
        /\ rep.redis[d][ip].consistency = "ok"
        /\ rep.redis[d][ip].role = "slave" => rep.redis[d][ip].link = "ok"
  BY <1>3, <1>4, <1>5
<1>7. ASSUME NEW r \in CheckReplication(rep) PROVE r.status # Warn
  <2>1. ASSUME NEW ip \in DOMAIN rep.masters,
               r = Row("mysql_master.read_only", ip, OkElseWarn(rep.masters[ip] = "ok"))
        PROVE  r.status # Warn
    <3>1. OkElseWarn(rep.masters[ip] = "ok") = OK
      BY <1>1 DEF OkElseWarn
    <3> QED BY <2>1, <3>1, RowFields, Statuses
  <2>2. ASSUME NEW ip \in DOMAIN rep.slaves,
               r = Row("mysql_slave.replication", ip, OkElseWarn(rep.slaves[ip] = "ok"))
        PROVE  r.status # Warn
    <3>1. OkElseWarn(rep.slaves[ip] = "ok") = OK
      BY <1>2 DEF OkElseWarn
    <3> QED BY <2>2, <3>1, RowFields, Statuses
  <2>3. ASSUME NEW d \in DOMAIN rep.redis, NEW ip \in DOMAIN rep.redis[d],
               r = Row("redis.role", ip, OkElseWarn(rep.redis[d][ip].consistency = "ok"))
        PROVE  r.status # Warn
    <3>1. OkElseWarn(rep.redis[d][ip].consistency = "ok") = OK
      BY <1>6 DEF OkElseWarn
    <3> QED BY <2>3, <3>1, RowFields, Statuses
  <2>4. ASSUME NEW d \in DOMAIN rep.redis, NEW ip \in DOMAIN rep.redis[d],
               r \in RowIf(rep.redis[d][ip].role = "slave", "redis.link", ip,
                           OkElseWarn(rep.redis[d][ip].link = "ok"))
        PROVE  r.status # Warn
    <3>1. /\ rep.redis[d][ip].role = "slave"
          /\ r = Row("redis.link", ip, OkElseWarn(rep.redis[d][ip].link = "ok"))
      BY <2>4 DEF RowIf
    <3>2. OkElseWarn(rep.redis[d][ip].link = "ok") = OK
      BY <1>6, <3>1 DEF OkElseWarn
    <3> QED BY <3>1, <3>2, RowFields, Statuses
  <2> QED BY <2>1, <2>2, <2>3, <2>4 DEF CheckReplication
<1> QED BY <1>7 DEF Quiet, rep

(* The dependencies of bkmonitorv3. *)
LEMMA SickDepsShown ==
  ASSUME NEW a \in DepAnswers, NEW d \in DepItems, a[d] \notin {"right", "unconfigured"}, NEW node
  PROVE  Speaks(CheckBKDeps(CollectBKMonitorV3Deps(a)), node)
<1>1. a[d] \in {"no_tool", "failed", "wrong"}
  BY DEF DepAnswers
<1>2. probeDependency(d, a[d]) # "skip" /\ probeDependency(d, a[d]) # "ok"
  BY <1>1 DEF probeDependency
<1>3. Row("bkdeps." \o d, NoNode, Notice) \in CheckBKDeps(CollectBKMonitorV3Deps(a))
  BY <1>2 DEF CheckBKDeps, CollectBKMonitorV3Deps
<1> QED BY <1>3, SpeakingRow, Statuses

LEMMA DepsAreNeverWarn ==
  ASSUME NEW deps
  PROVE  Quiet(CheckBKDeps(deps))
  BY RowFields, Statuses DEF CheckBKDeps, Quiet

-----------------------------------------------------------------------------
(* The report is made of the answers.                                      *)

(* A reply is none, or what the command of its task can print.             *)
RepliesInv ==
  \A t \in AllTasks :
    /\ t.part = "batch" => call[t].reply.out \in HostOutputs \cup {NoOutput}
    /\ t.part \in ModuleKeys =>
         call[t].reply = Failed \/ call[t].reply.out \in ServiceOutputs(t.part)

(* The slot of a host holds the error of the first pass, or the metrics of *)
(* the output of the second, which only follows a first without an error.  *)
SlotOf(h) ==
  LET first == call[Task("sample", h)]
      second == call[Task("batch", h)]
  IN  /\ first.at = "returned" /\ second.at # "returned" =>
           results[h] = IF first.reply.err THEN [NoMetrics EXCEPT !.error = "ssh"] ELSE NoMetrics
      /\ second.at = "returned" =>
           /\ first.at = "returned" /\ ~first.reply.err
           /\ results[h] = parseHostOutput(second.reply.out, D.env.paths, D.env.nfs)

HostInv == \A h \in Hosts : SlotOf(h)

SampledInv ==
  pc \in {"batch", "services", "components", "done"} =>
    \A h \in AllHosts : call[Task("sample", h)].at = "returned"

ServicesInv ==
  \A t \in ServiceTasks :
    call[t].at = "returned" => services[t] = collectServiceOnHost(t.part, call[t].reply)

AnswersInv ==
  \A c \in Components :
    answers[c] # NotAsked => answers[c] \in ComponentAnswers(c) /\ Deployed(c)

ConfigInv == pc \notin {"config", "failed"} => ~NumberRejected(D.env.number)

RowsInv ==
  RepliesInv /\ HostInv /\ SampledInv /\ ServicesInv /\ AnswersInv /\ ConfigInv

LEMMA RowsInit == Init => RowsInv
<1> SUFFICES ASSUME Init PROVE RowsInv
  OBVIOUS
<1>1. \A t \in AllTasks : call[t].at = "idle" /\ call[t].reply = Failed
  BY DEF Init, SshInit, NotCalled
<1>2. RepliesInv
  <2>1. Failed.out = NoOutput
    BY DEF Failed
  <2> QED BY <1>1, <2>1 DEF RepliesInv
<1>3. HostInv
  BY <1>1, TasksAreTasks DEF HostInv, SlotOf
<1>4. ServicesInv
  BY <1>1 DEF ServicesInv, ServiceTasks
<1>5. SampledInv /\ AnswersInv /\ ConfigInv
  BY DEF Init, SampledInv, AnswersInv, ConfigInv
<1> QED BY <1>2, <1>3, <1>4, <1>5 DEF RowsInv

(* What a call that goes on or returns can hold.                           *)
LEMMA NextReply ==
  ASSUME TypeInv, NEW t \in AllTasks, SshStep(t) \/ ExpireStep(t) \/ Returns(t)
  PROVE  \/ call'[t].reply = call[t].reply
         \/ call'[t].reply = Failed
         \/ t.part # "sample" /\ call'[t].reply.out \in D.prints[t.part]
         \/ t.part = "sample"
<1>1. call[t] \in Calls /\ call \in [AllTasks -> Calls]
  BY DEF TypeInv
<1>2. ASSUME NEW r, Answers(t, r) \/ Return(t, r) PROVE call'[t].reply = r
  BY <1>1, <1>2 DEF Answers, Return, Calls
<1>3. CASE Accepted(t) \/ SessionOpened(t) \/ Expire(t)
  BY <1>1, <1>3 DEF Accepted, SessionOpened, Expire, Calls
<1>4. CASE Returns(t)
  BY <1>2, <1>4 DEF Returns, DialFails, TimesOut, Receives
<1>5. ASSUME NEW out \in Prints(t.part), NEW err, Answers(t, [err |-> err, out |-> out])
      PROVE  call'[t].reply.out = out /\ (t.part # "sample" => out \in D.prints[t.part])
  BY <1>2, <1>5 DEF Prints
<1>6. CASE SshStep(t)
  <2>1. \/ Accepted(t) \/ SessionOpened(t) \/ Answers(t, Failed)
        \/ \E out \in Prints(t.part), err \in BOOLEAN : Answers(t, [err |-> err, out |-> out])
    BY <1>6 DEF SshStep
  <2> QED BY <1>2, <1>3, <1>5, <2>1
<1> QED BY <1>3, <1>4, <1>6 DEF ExpireStep

LEMMA TaskSteps ==
  ASSUME TypeInv, NEW t \in AllTasks, SshStep(t) \/ ExpireStep(t) \/ Returns(t)
  PROVE  \A u \in AllTasks \ {t} : call'[u] = call[u]
  BY MiddleEffect, ReturnsEffect DEF TypeInv

LEMMA TaskReplies ==
  ASSUME TypeInv, RepliesInv, NEW t \in AllTasks, SshStep(t) \/ ExpireStep(t) \/ Returns(t)
  PROVE  RepliesInv'
<1>1. D.prints["batch"] \subseteq HostOutputs \cup {NoOutput}
      /\ \A m \in ModuleKeys : D.prints[m] \subseteq ServiceOutputs(m)
  BY DeploymentsAssumption DEF TypeInv, D
<1>2. /\ t.part = "batch" => call'[t].reply.out \in HostOutputs \cup {NoOutput}
      /\ t.part \in ModuleKeys =>
           call'[t].reply = Failed \/ call'[t].reply.out \in ServiceOutputs(t.part)
  <2>1. Failed.out = NoOutput
    BY DEF Failed
  <2> QED BY <1>1, <2>1, NextReply, Parts DEF RepliesInv
<1>3. \A u \in AllTasks \ {t} : call'[u] = call[u]
  BY TaskSteps
<1> QED BY <1>2, <1>3 DEF RepliesInv

LEMMA StartReplies ==
  ASSUME TypeInv, RepliesInv, NEW ts, ts \subseteq AllTasks, Start(ts)
  PROVE  RepliesInv'
<1>1. \A t \in AllTasks : call'[t] = call[t] \/ call'[t].reply = Failed
  BY DEF Start, NotCalled
<1>2. Failed.out = NoOutput
  BY DEF Failed
<1> QED BY <1>1, <1>2 DEF RepliesInv

LEMMA RepliesStep == IInv /\ RepliesInv /\ [Next]_vars => RepliesInv'
<1> SUFFICES ASSUME IInv, RepliesInv, [Next]_vars PROVE RepliesInv'
  OBVIOUS
<1>0. TypeInv
  BY DEF IInv
<1>1. CASE call' = call
  BY <1>1 DEF RepliesInv
<1>2. ASSUME NEW ts \in {Samples, {Task("batch", h) : h \in Reachable}, ServiceTasks}, Start(ts)
      PROVE  RepliesInv'
  <2>1. ts \subseteq AllTasks
    BY <1>0, StartedSets DEF Reachable
  <2> QED BY <1>0, <1>2, <2>1, StartReplies
<1>3. CASE RunStep \/ Cancel
  <2>1. \/ call' = call \/ Start(Samples) \/ Start({Task("batch", h) : h \in Reachable})
        \/ Start(ServiceTasks)
    BY <1>3 DEF RunStep, Cancel, Load, NoAuthMethod, StartSampling, StartBatch, HostsReported,
       StartServices, StartComponents, ReportAll, CollectComponent, Abort
  <2> QED BY <1>1, <1>2, <2>1
<1>4. ASSUME NEW t \in AllTasks, SshStep(t) \/ ExpireStep(t) \/ LateStep(t) \/ TaskDone(t)
      PROVE  RepliesInv'
  <2>1. LateStep(t) => call' = call
    BY DEF LateStep, LateAnswer
  <2>2. TaskDone(t) => Returns(t)
    <3>1. t = Task(t.part, t.host)
      BY DEF AllTasks, Task
    <3> QED BY <3>1 DEF TaskDone, SampleDone, BatchDone, ServiceDone
  <2> QED BY <1>0, <1>1, <1>4, <2>1, <2>2, TaskReplies
<1>5. CASE UNCHANGED vars
  BY <1>1, <1>5 DEF vars
<1> QED BY <1>3, <1>4, <1>5 DEF Next

(* A step that ends no call writes no slot and begins or moves only calls  *)
(* that have not returned.                                                 *)
LEMMA NoCallEnds ==
  ASSUME IInv,
         \/ RunStep \/ Cancel \/ UNCHANGED vars
         \/ \E t \in AllTasks : SshStep(t) \/ ExpireStep(t) \/ LateStep(t)
  PROVE  /\ UNCHANGED <<dep, results, services>>
         /\ \A u \in AllTasks :
              call'[u].at = "returned" \/ call[u].at = "returned" => call'[u] = call[u]
<1>0. TypeInv
  BY DEF IInv
<1>1. UNCHANGED <<dep, results, services>>
  <2>1. RunStep => UNCHANGED <<dep, results, services>>
    BY DEF RunStep, Load, NoAuthMethod, StartSampling, StartBatch, HostsReported,
       StartServices, StartComponents, ReportAll, CollectComponent, Abort
  <2>2. ASSUME NEW t \in AllTasks, SshStep(t) \/ ExpireStep(t) \/ LateStep(t)
        PROVE  UNCHANGED <<dep, results, services>>
    BY <2>2 DEF SshStep, ExpireStep, LateStep
  <2> QED BY <2>1, <2>2 DEF Cancel, vars
<1> DEFINE Same == \A u \in AllTasks :
              call'[u].at = "returned" \/ call[u].at = "returned" => call'[u] = call[u]
<1>2. call' = call => Same
  OBVIOUS
<1>3. ASSUME NEW ts, ts \subseteq AllTasks, Start(ts), \A u \in ts : call[u].at = "idle"
      PROVE  Same
  BY <1>0, <1>3, StartEffect DEF TypeInv
<1>4. CASE RunStep
  <2>1. CASE StartSampling /\ ~Abort
    <3>1. Samples \subseteq AllTasks /\ \A u \in Samples : call[u].at = "idle"
      BY <1>0, <2>1, StartedSets DEF StartSampling, IInv, PhaseInv
    <3> QED BY <1>1, <1>3, <2>1, <3>1 DEF StartSampling
  <2>2. CASE StartBatch
    <3> DEFINE Batch == {Task("batch", h) : h \in Reachable}
    <3>1. Batch \subseteq AllTasks /\ \A u \in Batch : u.part = "batch"
      BY <1>0, StartedSets, TaskFields DEF Reachable
    <3>2. \A u \in Batch : call[u].at = "idle"
      BY <2>2, <3>1 DEF StartBatch, IInv, PhaseInv
    <3>3. Start(Batch)
      BY <2>2 DEF StartBatch
    <3> HIDE DEF Batch
    <3> QED BY <1>1, <1>3, <3>1, <3>2, <3>3
  <2>3. CASE StartServices /\ ~Abort
    <3>1. ServiceTasks \subseteq AllTasks /\ \A u \in ServiceTasks : call[u].at = "idle"
      BY <1>0, <2>3, StartedSets DEF StartServices, IInv, PhaseInv
    <3> QED BY <1>1, <1>3, <2>3, <3>1 DEF StartServices
  <2>4. CASE call' = call
    BY <1>1, <1>2, <2>4
  <2>5. \/ StartSampling /\ ~Abort
        \/ StartBatch
        \/ StartServices /\ ~Abort
        \/ call' = call
    BY <1>4 DEF RunStep, Load, NoAuthMethod, StartSampling, HostsReported,
       StartServices, StartComponents, ReportAll, CollectComponent, Abort
  <2> QED BY <2>1, <2>2, <2>3, <2>4, <2>5
<1>5. ASSUME NEW t \in AllTasks, SshStep(t) \/ ExpireStep(t) PROVE Same
  <2>1. /\ UnderWay(t) /\ UnderWay(t)' /\ \A u \in AllTasks \ {t} : call'[u] = call[u]
    BY <1>0, <1>5, MiddleEffect
  <2> QED BY <2>1 DEF UnderWay
<1>6. CASE Cancel \/ UNCHANGED vars
  BY <1>2, <1>6 DEF Cancel, vars
<1>7. ASSUME NEW t \in AllTasks, LateStep(t) PROVE Same
  BY <1>2, <1>7 DEF LateStep, LateAnswer
<1> QED BY <1>1, <1>4, <1>5, <1>6, <1>7

LEMMA ServicesStep == IInv /\ ServicesInv /\ [Next]_vars => ServicesInv'
<1> SUFFICES ASSUME IInv, ServicesInv, [Next]_vars PROVE ServicesInv'
  OBVIOUS
<1>0. TypeInv /\ \A t \in ServiceTasks : t \in AllTasks /\ t.part \in ModuleKeys
  BY StartedSets DEF IInv
<1>1. ASSUME UNCHANGED <<dep, results, services>>,
             \A u \in AllTasks :
               call'[u].at = "returned" \/ call[u].at = "returned" => call'[u] = call[u]
      PROVE  ServicesInv'
  BY <1>0, <1>1, SameDeployment DEF ServicesInv
<1>2. ASSUME NEW t \in AllTasks, t.part \in {"sample", "batch"}, Returns(t),
             UNCHANGED <<dep, services>>
      PROVE  ServicesInv'
  <2>1. \A u \in ServiceTasks : call'[u] = call[u]
    BY <1>0, <1>2, TaskSteps, Parts
  <2> QED BY <1>2, <2>1, SameDeployment DEF ServicesInv
<1>3. ASSUME NEW t \in AllTasks, ServiceDone(t) PROVE ServicesInv'
  <2>1. /\ Returns(t) /\ t.part \in ModuleKeys /\ dep' = dep
        /\ services' = [services EXCEPT ![t] = collectServiceOnHost(t.part, call'[t].reply)]
    BY <1>3 DEF ServiceDone
  <2>2. /\ services'[t] = collectServiceOnHost(t.part, call'[t].reply)
        /\ \A u \in AllTasks \ {t} : services'[u] = services[u] /\ call'[u] = call[u]
    BY <1>0, <2>1, TaskSteps DEF TypeInv
  <2> QED BY <1>0, <2>1, <2>2, SameDeployment DEF ServicesInv
<1>4. ASSUME NEW t \in AllTasks, TaskDone(t) PROVE ServicesInv'
  <2>1. t = Task(t.part, t.host)
    BY DEF AllTasks, Task
  <2>2. CASE t.part = "sample" /\ SampleDone(t.host)
    BY <1>2, <2>1, <2>2 DEF SampleDone
  <2>3. CASE t.part = "batch" /\ BatchDone(t.host)
    BY <1>2, <2>1, <2>3 DEF BatchDone
  <2> QED BY <1>3, <1>4, <2>2, <2>3 DEF TaskDone
<1>5. CASE RunStep \/ Cancel \/ UNCHANGED vars
  BY <1>1, <1>5, NoCallEnds
<1>6. ASSUME NEW t \in AllTasks, SshStep(t) \/ ExpireStep(t) \/ LateStep(t) PROVE ServicesInv'
  BY <1>1, <1>6, NoCallEnds
<1> QED BY <1>4, <1>5, <1>6 DEF Next

(* A slot that is not written, whose calls do not end.                     *)
LEMMA SlotKept ==
  ASSUME HostInv, D' = D, NEW h \in Hosts, results'[h] = results[h],
         \A u \in {Task("sample", h), Task("batch", h)} :
           call'[u].at = "returned" \/ call[u].at = "returned" => call'[u] = call[u]
  PROVE  \A g \in Hosts : g = h => SlotOf(g)'
<1> DEFINE first == Task("sample", h)
           second == Task("batch", h)
<1>1. SlotOf(h)
  BY DEF HostInv
<1>2. call'[first].at = "returned" \/ call[first].at = "returned" => call'[first] = call[first]
  OBVIOUS
<1>3. call'[second].at = "returned" \/ call[second].at = "returned" => call'[second] = call[second]
  OBVIOUS
<1>4. /\ call'[first].at = "returned" /\ call'[second].at # "returned" =>
           results'[h] = IF call'[first].reply.err
                         THEN [NoMetrics EXCEPT !.error = "ssh"] ELSE NoMetrics
      /\ call'[second].at = "returned" =>
           /\ call'[first].at = "returned" /\ ~call'[first].reply.err
           /\ results'[h] = parseHostOutput(call'[second].reply.out, D'.env.paths, D'.env.nfs)
  <2>1. CASE call[second].at = "returned"
    BY <1>1, <1>2, <1>3, <2>1 DEF SlotOf
  <2>2. CASE call[second].at # "returned"
    BY <1>1, <1>2, <1>3, <2>2 DEF SlotOf
  <2> QED BY <2>1, <2>2
<1> QED BY <1>4 DEF SlotOf

LEMMA HostStep == IInv /\ HostInv /\ [Next]_vars => HostInv'
<1> SUFFICES ASSUME IInv, HostInv, [Next]_vars PROVE HostInv'
  OBVIOUS
<1>0. TypeInv
  BY DEF IInv
<1> DEFINE First(h) == Task("sample", h)
           Second(h) == Task("batch", h)
<1>1. \A h \in Hosts : SlotOf(h)
  BY DEF HostInv
<1>2. (\A h \in Hosts : SlotOf(h)') => HostInv'
  BY DEF HostInv
<1>4. ASSUME NEW t \in AllTasks, Returns(t), UNCHANGED <<dep, pc>>,
             \A g \in Hosts \ {t.host} : results'[g] = results[g],
             \A g \in Hosts : g = t.host => SlotOf(g)'
      PROVE  HostInv'
  <2>1. D' = D /\ \A u \in AllTasks \ {t} : call'[u] = call[u]
    BY <1>0, <1>4, SameDeployment, TaskSteps
  <2>2. \A g \in Hosts \ {t.host} :
          \A u \in {First(g), Second(g)} : call'[u] = call[u]
    BY <2>1, TasksAreTasks, TaskFields
  <2>3. \A g \in Hosts \ {t.host} : SlotOf(g)'
    BY <1>4, <2>1, <2>2, SlotKept
  <2> QED BY <1>2, <1>4, <2>3
<1>5. ASSUME NEW t \in AllTasks, t.part = "sample", SampleDone(t.host) PROVE HostInv'
  <2> DEFINE h == t.host
  <2>1. t = First(h) /\ h \in Hosts
    BY <1>5 DEF AllTasks, Task
  <2>2. Returns(t) /\ UNCHANGED <<dep, pc, cancelled, services, answers, late>>
        /\ results' = IF call'[t].reply.err THEN [results EXCEPT ![h].error = "ssh"] ELSE results
    BY <1>5, <2>1 DEF SampleDone
  <2>3. /\ UnderWay(t) /\ call'[t].at = "returned" /\ \A u \in AllTasks \ {t} : call'[u] = call[u]
    BY <1>0, <2>2, ReturnsEffect DEF TypeInv
  <2>4. results[h] = NoMetrics
    BY <2>1, <2>3 DEF IInv, SlotInv, UnderWay
  <2>5. pc = "sampling" /\ Second(h) \in AllTasks /\ Second(h) # t
    <3>1. t \notin ServiceTasks
      BY <1>5, Parts DEF ServiceTasks
    <3>2. pc = "sampling"
      BY <1>5, <2>3, <3>1 DEF IInv, PhaseInv
    <3> QED BY <1>5, <2>1, <3>2, TasksAreTasks, TaskFields
  <2>6. call'[Second(h)].at = "idle"
    <3>1. Second(h).part # "sample"
      BY TaskFields
    <3> QED BY <2>3, <2>5, <3>1 DEF IInv, PhaseInv
  <2>7. \A g \in Hosts \ {h} : results'[g] = results[g]
    BY <1>0, <2>2 DEF TypeInv
  <2>8. results'[h] = IF call'[t].reply.err THEN [NoMetrics EXCEPT !.error = "ssh"] ELSE NoMetrics
    BY <1>0, <2>1, <2>2, <2>4 DEF TypeInv
  <2>9. \A g \in Hosts : g = h => SlotOf(g)'
    BY <2>1, <2>6, <2>8 DEF SlotOf
  <2> QED BY <1>4, <2>2, <2>7, <2>9
<1>6. ASSUME NEW t \in AllTasks, t.part = "batch", BatchDone(t.host) PROVE HostInv'
  <2> DEFINE h == t.host
  <2>1. t = Second(h) /\ h \in Hosts
    BY <1>6 DEF AllTasks, Task
  <2>2. Returns(t) /\ UNCHANGED <<dep, pc, cancelled, services, answers, late>>
        /\ results' = [results EXCEPT
                        ![h] = parseHostOutput(call'[t].reply.out, D.env.paths, D.env.nfs)]
    BY <1>6, <2>1 DEF BatchDone
  <2>3. /\ UnderWay(t) /\ call'[t].at = "returned" /\ \A u \in AllTasks \ {t} : call'[u] = call[u]
    BY <1>0, <2>2, ReturnsEffect DEF TypeInv
  <2>4. results[h].error = "" /\ call[First(h)].at = "returned"
    BY <2>1, <2>3 DEF IInv, SlotInv
  <2>5. call[Second(h)].at # "returned"
    BY <2>1, <2>3 DEF UnderWay
  <2>6. ~call[First(h)].reply.err
    <3>1. [NoMetrics EXCEPT !.error = "ssh"].error = "ssh"
      BY DEF NoMetrics
    <3>2. SlotOf(h)
      BY <1>1, <2>1
    <3> QED BY <2>4, <2>5, <3>1, <3>2 DEF SlotOf
  <2>7. call'[First(h)] = call[First(h)]
    BY <1>6, <2>1, <2>3, TasksAreTasks, TaskFields
  <2>8. \A g \in Hosts \ {h} : results'[g] = results[g]
    BY <1>0, <2>2 DEF TypeInv
  <2>9. results'[h] = parseHostOutput(call'[t].reply.out, D.env.paths, D.env.nfs)
    BY <1>0, <2>1, <2>2 DEF TypeInv
  <2>10. D' = D
    BY <2>2, SameDeployment
  <2>11. \A g \in Hosts : g = h => SlotOf(g)'
    BY <2>1, <2>3, <2>4, <2>6, <2>7, <2>9, <2>10 DEF SlotOf
  <2> QED BY <1>4, <2>2, <2>8, <2>11
<1>7. ASSUME NEW t \in AllTasks, ServiceDone(t) PROVE HostInv'
  <2>1. Returns(t) /\ t.part \in ModuleKeys /\ UNCHANGED <<dep, pc, results>>
    BY <1>7 DEF ServiceDone
  <2>2. \A u \in AllTasks \ {t} : call'[u] = call[u]
    BY <1>0, <2>1, TaskSteps
  <2>3. \A g \in Hosts : \A u \in {First(g), Second(g)} : call'[u] = call[u]
    BY <2>1, <2>2, TasksAreTasks, TaskFields, Parts
  <2>4. D' = D
    BY <2>1, SameDeployment
  <2>5. \A g \in Hosts : SlotOf(g)'
    BY <2>1, <2>3, <2>4, SlotKept
  <2> QED BY <1>2, <2>5
<1>8. CASE \/ RunStep \/ Cancel \/ UNCHANGED vars
           \/ \E t \in AllTasks : SshStep(t) \/ ExpireStep(t) \/ LateStep(t)
  <2>1. /\ UNCHANGED <<dep, results, services>>
        /\ \A u \in AllTasks :
             call'[u].at = "returned" \/ call[u].at = "returned" => call'[u] = call[u]
    BY <1>8, NoCallEnds
  <2>2. D' = D
    BY <2>1, SameDeployment
  <2>3. \A g \in Hosts : First(g) \in AllTasks /\ Second(g) \in AllTasks
    BY TasksAreTasks
  <2>4. \A g \in Hosts : SlotOf(g)'
    BY <2>1, <2>2, <2>3, SlotKept
  <2> QED BY <1>2, <2>4
<1> QED BY <1>5, <1>6, <1>7, <1>8 DEF Next, TaskDone

(* A phase after the sampling begins when every sample returned; a call    *)
(* that returned stays so.                                                 *)
LEMMA SampledStep == IInv /\ SampledInv /\ [Next]_vars => SampledInv'
<1> SUFFICES ASSUME IInv, SampledInv, [Next]_vars PROVE SampledInv'
  OBVIOUS
<1> DEFINE Later == {"batch", "services", "components", "done"}
<1>0. TypeInv /\ \A h \in AllHosts : Task("sample", h) \in AllTasks
  BY HostsAreHosts, TasksAreTasks DEF IInv, TypeInv
<1>1. ASSUME dep' = dep, \A u \in AllTasks : call[u].at = "returned" => call'[u].at = "returned",
             \/ pc' \notin Later
             \/ pc \in Later
             \/ \A h \in AllHosts : call[Task("sample", h)].at = "returned"
      PROVE  SampledInv'
  BY <1>0, <1>1, SameDeployment DEF SampledInv
<1>2. CASE RunStep \/ Cancel \/ UNCHANGED vars
  <2>1. dep' = dep /\ \A u \in AllTasks : call[u].at = "returned" => call'[u].at = "returned"
    BY <1>2, NoCallEnds
  <2>2. StartBatch => \A h \in AllHosts : call[Task("sample", h)].at = "returned"
    BY DEF StartBatch, Returned, Samples
  <2>3. pc' \notin Later \/ pc \in Later \/ StartBatch
    BY <1>2 DEF RunStep, Cancel, vars, Load, NoAuthMethod, StartSampling, HostsReported,
       StartServices, StartComponents, ReportAll, CollectComponent, Abort
  <2> QED BY <1>1, <2>1, <2>2, <2>3
<1>3. ASSUME NEW t \in AllTasks, SshStep(t) \/ ExpireStep(t) \/ LateStep(t) PROVE SampledInv'
  <2>1. dep' = dep /\ \A u \in AllTasks : call[u].at = "returned" => call'[u].at = "returned"
    BY <1>3, NoCallEnds
  <2>2. pc' = pc
    BY <1>3 DEF SshStep, ExpireStep, LateStep
  <2> QED BY <1>1, <2>1, <2>2
<1>4. ASSUME NEW t \in AllTasks, TaskDone(t) PROVE SampledInv'
  <2>1. t = Task(t.part, t.host)
    BY DEF AllTasks, Task
  <2>2. Returns(t) /\ UNCHANGED <<dep, pc>>
    BY <1>4, <2>1 DEF TaskDone, SampleDone, BatchDone, ServiceDone
  <2>3. call'[t].at = "returned" /\ \A u \in AllTasks \ {t} : call'[u] = call[u]
    BY <1>0, <2>2, ReturnsEffect DEF TypeInv
  <2> QED BY <1>1, <2>2, <2>3
<1> QED BY <1>2, <1>3, <1>4 DEF Next

(* A component is asked when it is deployed, and its answer is one it can  *)
(* give.                                                                   *)
LEMMA AnswersStep == IInv /\ AnswersInv /\ [Next]_vars => AnswersInv'
<1> SUFFICES ASSUME IInv, AnswersInv, [Next]_vars PROVE AnswersInv'
  OBVIOUS
<1>1. ASSUME dep' = dep
      PROVE  \A c \in Components : /\ ComponentAnswers(c)' = ComponentAnswers(c)
                                   /\ Deployed(c)' <=> Deployed(c)
  <2>1. D' = D /\ HostLists' = HostLists
    BY <1>1, SameDeployment
  <2>2. RabbitAnswers' = RabbitAnswers /\ DepReplies' = DepReplies
        /\ ReplicationAnswers' = ReplicationAnswers
    BY <2>1 DEF RabbitAnswers, DepReplies, ReplicationAnswers
  <2> QED BY <1>1, <2>1, <2>2, SameDeployment DEF ComponentAnswers
<1>2. CASE UNCHANGED <<dep, answers>>
  BY <1>1, <1>2 DEF AnswersInv
<1>3. ASSUME NEW c \in Components, CollectComponent(c) PROVE AnswersInv'
  <2>1. PICK a \in ComponentAnswers(c) : answers' = [answers EXCEPT ![c] = a]
    BY <1>3 DEF CollectComponent
  <2>2. dep' = dep /\ Deployed(c)
    BY <1>3 DEF CollectComponent, IsNext
  <2>3. answers'[c] = a /\ \A b \in Components \ {c} : answers'[b] = answers[b]
    BY <2>1 DEF IInv, TypeInv
  <2> QED BY <1>1, <2>2, <2>3 DEF AnswersInv
<1>4. ASSUME NEW t \in AllTasks, SshStep(t) \/ ExpireStep(t) \/ LateStep(t) \/ TaskDone(t)
      PROVE  UNCHANGED <<dep, answers>>
  BY <1>4 DEF SshStep, ExpireStep, LateStep, TaskDone, SampleDone, BatchDone, ServiceDone
<1>5. CASE RunStep
  <2>1. UNCHANGED <<dep, answers>> \/ \E c \in Components : CollectComponent(c)
    BY <1>5 DEF RunStep, Load, NoAuthMethod, StartSampling, StartBatch, HostsReported,
       StartServices, StartComponents, ReportAll, Abort
  <2> QED BY <1>2, <1>3, <2>1
<1>6. CASE Cancel \/ UNCHANGED vars
  BY <1>2, <1>6 DEF Cancel, vars
<1> QED BY <1>2, <1>4, <1>5, <1>6 DEF Next

(* Numbers the configuration rejects start no inspection.                  *)
LEMMA ConfigStep == ConfigInv /\ [Next]_vars => ConfigInv'
<1> SUFFICES ASSUME ConfigInv, [Next]_vars PROVE ConfigInv'
  OBVIOUS
<1>1. ASSUME dep' = dep, pc' \in {"config", "failed"} \/ pc \notin {"config", "failed"}
      PROVE  ConfigInv'
  BY <1>1, SameDeployment DEF ConfigInv
<1>2. CASE Load
  <2>1. dep' = dep
    BY <1>2 DEF Load
  <2>2. pc' = "failed" \/ ~NumberRejected(D.env.number)
    BY <1>2 DEF Load
  <2> QED BY <2>1, <2>2, SameDeployment DEF ConfigInv
<1>3. CASE RunStep /\ ~Load
  BY <1>1, <1>3 DEF RunStep, NoAuthMethod, StartSampling, StartBatch, HostsReported,
     StartServices, StartComponents, ReportAll, CollectComponent, Abort
<1>4. ASSUME NEW t \in AllTasks, SshStep(t) \/ ExpireStep(t) \/ LateStep(t) \/ TaskDone(t)
      PROVE  UNCHANGED <<dep, pc>>
  BY <1>4 DEF SshStep, ExpireStep, LateStep, TaskDone, SampleDone, BatchDone, ServiceDone
<1>5. CASE Cancel \/ UNCHANGED vars
  BY <1>1, <1>5 DEF Cancel, Ended, vars
<1>6. CASE UNCHANGED <<dep, pc>>
  BY <1>1, <1>6
<1> QED BY <1>2, <1>3, <1>4, <1>5, <1>6 DEF Next

LEMMA AlwaysRowsInv == Spec => [](IInv /\ RowsInv)
<1>1. IInv /\ RowsInv /\ [Next]_vars => RowsInv'
  BY RepliesStep, HostStep, SampledStep, ServicesStep, AnswersStep, ConfigStep DEF RowsInv
<1> QED BY <1>1, RowsInit, AlwaysIInv, PTL DEF Spec

-----------------------------------------------------------------------------
(* What the report says of each host, service and component.               *)

(* Metrics of a host nothing is known of.                                  *)
Unseen(m) == \E e : m = [NoMetrics EXCEPT !.error = e]

(* At the end no call to a host is under way, and every host was sampled.  *)
LEMMA HostOfReport ==
  ASSUME IInv, RowsInv, NEW h \in DoneHosts
  PROVE  /\ h \in Hosts
         /\ \/ /\ call[Task("sample", h)].reply.err \/ call[Task("batch", h)].reply.out = NoOutput
               /\ Unseen(results[h])
            \/ /\ ~call[Task("sample", h)].reply.err
               /\ call[Task("batch", h)].reply.out # NoOutput
               /\ call[Task("batch", h)].reply.out \in HostOutputs
               /\ ParsedAs(results[h], call[Task("batch", h)].reply.out, D.env.paths, D.env.nfs)
<1> DEFINE first == call[Task("sample", h)]
           second == call[Task("batch", h)]
           out == second.reply.out
<1>1. pc = "done" /\ h \in AllHosts /\ h \in Hosts
  BY HostsAreHosts DEF DoneHosts, IInv, TypeInv
<1>2. Task("sample", h) \in AllTasks /\ Task("batch", h) \in AllTasks
  BY <1>1, TasksAreTasks
<1>3. first.at = "returned" /\ SlotOf(h)
  BY <1>1 DEF RowsInv, SampledInv, HostInv
<1>4. second.at \in {"idle", "returned"}
  BY <1>1, <1>2, NothingUnderWay DEF UnderWay
<1>5. second.at = "idle" => results[h].error # ""
  BY <1>1 DEF IInv, SlotInv
<1>7. CASE second.at # "returned"
  <2>1. results[h] = IF first.reply.err THEN [NoMetrics EXCEPT !.error = "ssh"] ELSE NoMetrics
    BY <1>3, <1>7 DEF SlotOf
  <2>2. first.reply.err
    BY <1>4, <1>5, <1>7, <2>1, ErrorOfNoMetrics
  <2>3. Unseen(results[h])
    BY <2>1, <2>2 DEF Unseen
  <2> QED BY <1>1, <2>2, <2>3
<1>8. CASE second.at = "returned"
  <2>1. ~first.reply.err /\ results[h] = parseHostOutput(out, D.env.paths, D.env.nfs)
    BY <1>3, <1>8 DEF SlotOf
  <2>2. out \in HostOutputs \cup {NoOutput}
    BY <1>2, TaskFields DEF RowsInv, RepliesInv
  <2>3. ASSUME out = NoOutput PROVE Unseen(results[h])
    <3>1. results[h] = [NoMetrics EXCEPT !.error = "incomplete"]
      BY <2>1, <2>3 DEF parseHostOutput
    <3> QED BY <3>1 DEF Unseen
  <2>4. out # NoOutput => ParsedAs(results[h], out, D.env.paths, D.env.nfs)
    BY <2>1, ParsedOutput
  <2> QED BY <1>1, <2>1, <2>2, <2>3, <2>4
<1> QED BY <1>7, <1>8

LEMMA HostShown ==
  ASSUME IInv, RowsInv, NEW h \in DoneHosts, SickHost(h)
  PROVE  Speaks(HostRows(h), h)
<1> DEFINE out == call[Task("batch", h)].reply.out
<1>1. CASE Unseen(results[h])
  BY <1>1, NoMetricsShown DEF HostRows, Unseen
<1>2. CASE ~Unseen(results[h])
  <2>1. /\ ~call[Task("sample", h)].reply.err /\ out # NoOutput /\ out \in HostOutputs
        /\ ParsedAs(results[h], out, D.env.paths, D.env.nfs)
    BY <1>2, HostOfReport
  <2>2. \/ ~(JudgedSections \subseteq Sections(out.seen))
        \/ out.bad # {} \/ out.load = "over"
        \/ \E l \in out.df \cup out.dfi :
             l.full /\ l.fs = "real" /\ (D.env.paths = {} \/ l.mount \in D.env.paths)
    BY <2>1 DEF SickHost
  <2> QED BY <2>1, <2>2, SickOutputShown DEF HostRows
<1> QED BY <1>1, <1>2

LEMMA HostQuiet ==
  ASSUME IInv, RowsInv, NEW h \in DoneHosts, WellHost(h)
  PROVE  Quiet(HostRows(h))
<1> DEFINE out == call[Task("batch", h)].reply.out
<1>1. /\ ~call[Task("sample", h)].reply.err /\ out # NoOutput
      /\ out.seen = AllSections /\ out.bad = {} /\ out.load # "over"
      /\ \A l \in out.df \cup out.dfi : ~l.full
  BY DEF WellHost
<1>2. ParsedAs(results[h], out, D.env.paths, D.env.nfs)
  BY <1>1, HostOfReport
<1>3. out \in HostOutputs
  <2>1. Task("batch", h) \in AllTasks
    BY HostOfReport, TasksAreTasks
  <2> QED BY <1>1, <2>1, TaskFields DEF RowsInv, RepliesInv
<1> QED BY <1>1, <1>2, <1>3, WellOutputQuiet DEF HostRows

LEMMA ServiceOfReport ==
  ASSUME IInv, RowsInv, NEW t \in DoneServices
  PROVE  /\ t.part \in ModuleKeys
         /\ call[t].reply = Failed \/ call[t].reply.out \in ServiceOutputs(t.part)
         /\ services[t] = collectServiceOnHost(t.part, call[t].reply)
<1>1. pc = "done" /\ D.mode = "all" /\ t \in ServiceTasks
  BY DEF DoneServices
<1>2. t \in AllTasks /\ t.part \in ModuleKeys
  BY <1>1 DEF ServiceTasks
<1>3. call[t].at = "returned"
  BY <1>1 DEF IInv, AskedInv
<1> QED BY <1>1, <1>2, <1>3 DEF RowsInv, RepliesInv, ServicesInv

LEMMA ServiceShown ==
  ASSUME IInv, RowsInv, NEW t \in DoneServices, SickService(t)
  PROVE  Speaks(RowsOfService(t), t.host)
<1>1. \/ call[t].reply.out = NoOutput
      \/ \E i \in DOMAIN ModuleRegistry[t.part] :
           SickProbe(ModuleRegistry[t.part][i], call[t].reply.out.probes[i])
  BY DEF SickService, SubModules, SickProbe
<1>2. Speaks(ServiceRows(t.host, collectServiceOnHost(t.part, call[t].reply)), t.host)
  BY <1>1, ServiceOfReport, SickServiceShown
<1> QED BY <1>2, ServiceOfReport DEF RowsOfService

LEMMA ServiceQuiet ==
  ASSUME IInv, RowsInv, NEW t \in DoneServices, WellService(t)
  PROVE  Quiet(RowsOfService(t))
<1>1. Quiet(ServiceRows(t.host, collectServiceOnHost(t.part, call[t].reply)))
  BY ServiceOfReport, WellServiceQuiet DEF WellService, SubModules
<1> QED BY <1>1, ServiceOfReport DEF RowsOfService

LEMMA UsableThresholds ==
  ASSUME dep \in DOMAIN Deployments, ~NumberRejected(D.env.number)
  PROVE  ThresholdsOK(Thr)
<1> DEFINE number == D.env.number
<1>1. number \in [{"backlog", "ackMax", "pubMin"} -> EnvNumber(Int)]
  BY DeploymentsAssumption DEF D
<1>2. \A k \in {"backlog", "ackMax", "pubMin"} : number[k].n \in Int
  BY <1>1 DEF EnvNumber
<1>3. Defaults.backlog \in Int /\ Defaults.ackMax \in Int /\ Defaults.pubMin \in Int
  BY DEF Defaults
<1>4. /\ parseEnv(number["backlog"], Defaults.backlog) \in Int
      /\ parseEnv(number["ackMax"], Defaults.ackMax) \in Int
      /\ parseEnv(number["pubMin"], Defaults.pubMin) \in Int
  BY <1>2, <1>3 DEF parseEnv
<1>5. parseEnv(number["ackMax"], Defaults.ackMax) > 0
  BY <1>4 DEF NumberRejected
<1>6. /\ Thr.backlog = parseEnv(number["backlog"], Defaults.backlog)
      /\ Thr.ackMax = parseEnv(number["ackMax"], Defaults.ackMax)
      /\ Thr.pubMin = parseEnv(number["pubMin"], Defaults.pubMin)
  BY DEF Thr, Thresholds
<1> QED BY <1>4, <1>5, <1>6 DEF ThresholdsOK

(* What an answer in the report is, component by component.                *)
LEMMA ComponentOfReport ==
  ASSUME IInv, RowsInv, NEW c \in DoneComponents
  PROVE  /\ c \in Components /\ answers[c] \in ComponentAnswers(c) /\ Deployed(c)
         /\ D.curl \in BOOLEAN /\ ThresholdsOK(Thr)
         /\ \A l \in Lists : HostLists[l] \in Seq(Hosts)
<1>1. c \in Components /\ pc = "done" /\ answers[c] # NotAsked /\ dep \in DOMAIN Deployments
  BY DEF DoneComponents, IInv, TypeInv
<1>2. D.curl \in BOOLEAN /\ HostLists \in [Lists -> Seq(Hosts)]
  BY <1>1, DeploymentsAssumption DEF D, HostLists
<1>3. ThresholdsOK(Thr)
  BY <1>1, UsableThresholds DEF RowsInv, ConfigInv
<1> QED BY <1>1, <1>2, <1>3 DEF RowsInv, AnswersInv

LEMMA RabbitAnswersAre ==
  ASSUME dep \in DOMAIN Deployments, NEW a \in RabbitAnswers
  PROVE  RabbitAnswer(a)
<1>1. CASE a = NoRabbitReply
  <2>1. a \in RabbitReplies
    BY <1>1 DEF NoRabbitReply, RabbitReplies, RabbitFailures, CurlFailures
  <2> QED BY <1>1, <2>1 DEF NoRabbitReply, RabbitAnswer
<1>2. CASE a # NoRabbitReply
  <2>1. D.rabbit \subseteq RabbitReplies
    BY DeploymentsAssumption DEF D
  <2> QED BY <1>2, <2>1 DEF RabbitAnswers, RabbitAnswer
<1> QED BY <1>1, <1>2

LEMMA ComponentShown ==
  ASSUME IInv, RowsInv, NEW c \in DoneComponents, NEW node \in SickNodes(c) \ PassedOver(c)
  PROVE  Speaks(ComponentRows(c), node)
<1> DEFINE a == answers[c]
<1>1. /\ c \in Components /\ a \in ComponentAnswers(c) /\ Deployed(c)
      /\ D.curl \in BOOLEAN /\ ThresholdsOK(Thr)
      /\ \A l \in Lists : HostLists[l] \in Seq(Hosts)
      /\ dep \in DOMAIN Deployments
  BY ComponentOfReport DEF IInv, TypeInv
<1>2. CASE c = "es"
  <2>1. a \in ESAnswers(HostLists["es7"])
    BY <1>1, <1>2 DEF ComponentAnswers
  <2>2. node \in (NodeIf(a.health # "green" \/ a.troubles # {}, NoNode)
                   \cup {ip \in DOMAIN a.up : ~a.up[ip]})
                \ NodeIf(a.health = "denied" /\ D.curl, NoNode)
    BY <1>2 DEF SickNodes, PassedOver
  <2>3. ComponentRows(c) = CheckES(CollectES(D.curl, HostLists["es7"], a))
    BY <1>2 DEF ComponentRows
  <2> QED BY <1>1, <2>1, <2>2, <2>3, SickESShown
<1>3. CASE c = "mysql"
  BY <1>3 DEF SickNodes, PassedOver
<1>4. CASE c = "redis"
  <2>1. a \in RedisAnswers(HostLists["redis"])
    BY <1>1, <1>4 DEF ComponentAnswers
  <2>2. node \in DOMAIN a /\ (a[node].info # "ok" \/ a[node].long # {})
    BY <1>4 DEF SickNodes
  <2>3. ComponentRows(c) = CheckRedis(CollectRedis(HostLists["redis"], a))
    BY <1>4 DEF ComponentRows
  <2> QED BY <2>1, <2>2, <2>3, SickRedisShown
<1>5. CASE c = "sentinel"
  <2>1. a \in SentinelAnswers(HostLists["sentinel"], Hosts)
    BY <1>1, <1>5 DEF ComponentAnswers
  <2>2. node \in {ip \in DOMAIN a.ping : ~a.ping[ip]}
                  \cup NodeIf(\A ip \in DOMAIN a.ping : a.ping[ip] => a.names[ip] \notin a.up, NoNode)
    BY <1>5 DEF SickNodes
  <2>3. ComponentRows(c) = CheckRedisSentinel(CollectSentinel(HostLists["sentinel"], a),
                                              IPs(HostLists["redis_master"]))
    BY <1>5 DEF ComponentRows
  <2>4. HostLists["sentinel"] \in Seq(Hosts)
    BY <1>1 DEF Lists, ComponentLists
  <2> QED BY <2>1, <2>2, <2>3, <2>4, SickSentinelShown
<1>6. CASE c = "mongo"
  <2>1. a \in MongoAnswers(HostLists["mongodb"])
    BY <1>1, <1>6 DEF ComponentAnswers
  <2>2. node \in (IF a.reply = "ok" THEN a.sick ELSE {NoNode})
    BY <1>6 DEF SickNodes
  <2>3. ComponentRows(c) = CheckMongo(CollectMongo(a))
    BY <1>6 DEF ComponentRows
  <2> QED BY <2>1, <2>2, <2>3, SickMongoShown
<1>7. CASE c = "rabbitmq"
  <2>1. RabbitAnswer(a)
    BY <1>1, <1>7, RabbitAnswersAre DEF ComponentAnswers
  <2>2. /\ node \in NodeIf(RabbitTrouble(a), NoNode) \cup {q.vhost : q \in {x \in a.list : Stuck(x)}}
        /\ node \notin NodeIf(RabbitSilent(D.curl, a), NoNode)
        /\ node \notin Thr.quiet /\ node # UserMgrVHost
        /\ node \notin {q.vhost : q \in {x \in a.list : x.event \/ x.pub <= Thr.pubMin}}
    BY <1>7 DEF SickNodes, PassedOver, RabbitTrouble, RabbitSilent
  <2>3. ComponentRows(c) = CheckRabbitMQ(CollectRabbitMQ(D.curl, a, Thr))
    BY <1>7 DEF ComponentRows
  <2>4. CASE node \in NodeIf(RabbitTrouble(a), NoNode)
    <3>1. node = NoNode /\ RabbitTrouble(a)
      BY <2>4 DEF NodeIf
    <3>2. ~RabbitSilent(D.curl, a)
      BY <2>2, <3>1 DEF NodeIf
    <3> QED BY <1>1, <2>1, <2>3, <3>1, <3>2, SickRabbitShown
  <2>5. CASE \E q \in a.list : Stuck(q) /\ node = q.vhost
    BY <1>1, <2>1, <2>2, <2>3, <2>5, SickRabbitShown
  <2> QED BY <2>2, <2>4, <2>5
<1>8. CASE c = "replication"
  <2>1. a \in ReplicationAnswers
    BY <1>1, <1>8 DEF ComponentAnswers
  <2>2. /\ a.masters \in MasterAnswers(HostLists["mysql_master"])
        /\ a.slaves \in SlaveAnswers(HostLists["mysql_slave"])
        /\ a.redis \in [master : RedisRoleAnswers(HostLists["redis_master"]),
                       slave : RedisRoleAnswers(HostLists["redis_slave"])]
    BY <2>1 DEF ReplicationAnswers
  <2>3. DOMAIN a.redis = {"master", "slave"}
    BY <2>2
  <2>4. \/ node \in DOMAIN a.masters /\ a.masters[node] # "writable"
        \/ node \in DOMAIN a.slaves /\ a.slaves[node] \notin Failures \cup {"replicating"}
        \/ node \in DOMAIN a.redis.master /\ a.redis.master[node] # "master"
        \/ node \in DOMAIN a.redis.slave /\ a.redis.slave[node] # "link_up"
    <3>1. node \notin {ip \in DOMAIN a.slaves : a.slaves[ip] \in Failures}
      BY <1>8 DEF PassedOver
    <3>2. node \in {ip \in DOMAIN a.masters : a.masters[ip] # "writable"}
                    \cup {ip \in DOMAIN a.slaves : a.slaves[ip] # "replicating"}
                    \cup UNION {{ip \in DOMAIN a.redis[d] :
                                  a.redis[d][ip] # [master |-> "master", slave |-> "link_up"][d]} :
                                d \in DOMAIN a.redis}
      BY <1>8 DEF SickNodes
    <3>3. /\ [master |-> "master", slave |-> "link_up"]["master"] = "master"
          /\ [master |-> "master", slave |-> "link_up"]["slave"] = "link_up"
      OBVIOUS
    <3>4. CASE \E d \in {"master", "slave"} :
                 /\ node \in DOMAIN a.redis[d]
                 /\ a.redis[d][node] # [master |-> "master", slave |-> "link_up"][d]
      BY <3>3, <3>4
    <3> QED BY <2>3, <3>1, <3>2, <3>4
  <2>5. ComponentRows(c) = CheckReplication(CollectReplication(a.masters, a.slaves, a.redis))
    BY <1>8 DEF ComponentRows
  <2> QED BY <2>2, <2>4, <2>5, SickReplicationShown
<1>9. CASE c = "bkmonitorv3"
  <2>1. a \in DepAnswers
    BY <1>1, <1>9 DEF ComponentAnswers, DepReplies
  <2>2. \E d \in DepItems : a[d] \notin {"right", "unconfigured"}
    BY <1>9 DEF SickNodes, NodeIf
  <2>3. ComponentRows(c) = CheckBKDeps(CollectBKMonitorV3Deps(a))
    BY <1>9 DEF ComponentRows
  <2> QED BY <2>1, <2>2, <2>3, SickDepsShown
<1> QED BY <1>1, <1>2, <1>3, <1>4, <1>5, <1>6, <1>7, <1>8, <1>9 DEF Components

LEMMA ComponentQuiet ==
  ASSUME IInv, RowsInv, NEW c \in DoneComponents, WellComponent(c)
  PROVE  Quiet(ComponentRows(c))
<1> DEFINE a == answers[c]
<1>1. /\ c \in Components /\ a \in ComponentAnswers(c) /\ Deployed(c)
      /\ D.curl \in BOOLEAN /\ ThresholdsOK(Thr)
      /\ \A l \in Lists : HostLists[l] \in Seq(Hosts)
      /\ dep \in DOMAIN Deployments
  BY ComponentOfReport DEF IInv, TypeInv
<1>2. CASE c = "es"
  <2>1. a \in ESAnswers(HostLists["es7"])
    BY <1>1, <1>2 DEF ComponentAnswers
  <2>2. a.health = "green" /\ a.troubles = {} /\ \A ip \in DOMAIN a.up : a.up[ip]
    BY <1>2 DEF WellComponent, SickNodes, NodeIf
  <2>3. HostLists["es7"] # <<>> /\ HostLists["es7"] \in Seq(Hosts)
    BY <1>1, <1>2 DEF Deployed, Lists, ComponentLists
  <2>4. IPs(HostLists["es7"]) # {} /\ D.curl
    BY <1>2, <2>3, ListIPs DEF WellComponent
  <2>5. ComponentRows(c) = CheckES(CollectES(D.curl, HostLists["es7"], a))
    BY <1>2 DEF ComponentRows
  <2> QED BY <1>1, <2>1, <2>2, <2>4, <2>5, WellESQuiet
<1>3. CASE c = "mysql"
  BY <1>3 DEF ComponentRows, Quiet
<1>4. CASE c = "redis"
  <2>1. a \in RedisAnswers(HostLists["redis"])
    BY <1>1, <1>4 DEF ComponentAnswers
  <2>2. \A ip \in DOMAIN a : a[ip].info = "ok" /\ a[ip].long = {}
    BY <1>4 DEF WellComponent, SickNodes
  <2>3. ComponentRows(c) = CheckRedis(CollectRedis(HostLists["redis"], a))
    BY <1>4 DEF ComponentRows
  <2> QED BY <2>1, <2>2, <2>3, WellRedisQuiet
<1>5. CASE c = "sentinel"
  <2>1. a \in SentinelAnswers(HostLists["sentinel"], Hosts)
    BY <1>1, <1>5 DEF ComponentAnswers
  <2>2. HostLists["sentinel"] # <<>> /\ HostLists["sentinel"] \in Seq(Hosts)
    BY <1>1, <1>5 DEF Deployed, Lists, ComponentLists
  <2>3. \A ip \in DOMAIN a.ping : /\ a.ping[ip] /\ a.names[ip] \in a.up
                                  /\ IPs(HostLists["redis_master"]) \subseteq {a.names[ip]}
    BY <1>5 DEF WellComponent, SickNodes
  <2>4. ComponentRows(c) = CheckRedisSentinel(CollectSentinel(HostLists["sentinel"], a),
                                              IPs(HostLists["redis_master"]))
    BY <1>5 DEF ComponentRows
  <2> QED BY <2>1, <2>2, <2>3, <2>4, WellSentinelQuiet
<1>6. CASE c = "mongo"
  <2>1. a.reply = "ok" /\ a.sick = {}
    BY <1>6 DEF WellComponent, SickNodes
  <2>2. ComponentRows(c) = CheckMongo(CollectMongo(a))
    BY <1>6 DEF ComponentRows
  <2> QED BY <2>1, <2>2, WellMongoQuiet
<1>7. CASE c = "rabbitmq"
  <2>1. RabbitAnswer(a)
    BY <1>1, <1>7, RabbitAnswersAre DEF ComponentAnswers
  <2>2. ~RabbitTrouble(a)
    BY <1>7 DEF WellComponent, SickNodes, NodeIf, RabbitTrouble
  <2>3. D.curl /\ \A q \in a.list : q.msgs < Thr.backlog /\ (q.msgs > 0 => q.ack >= Thr.ackMax)
    BY <1>7 DEF WellComponent
  <2>4. ComponentRows(c) = CheckRabbitMQ(CollectRabbitMQ(D.curl, a, Thr))
    BY <1>7 DEF ComponentRows
  <2> QED BY <1>1, <2>1, <2>2, <2>3, <2>4, WellRabbitQuiet
<1>8. CASE c = "replication"
  <2>1. /\ \A ip \in DOMAIN a.masters : a.masters[ip] = "writable"
        /\ \A ip \in DOMAIN a.slaves : a.slaves[ip] = "replicating"
        /\ \A d \in DOMAIN a.redis : \A ip \in DOMAIN a.redis[d] :
             a.redis[d][ip] = [master |-> "master", slave |-> "link_up"][d]
    BY <1>8 DEF WellComponent, SickNodes
  <2>2. DOMAIN a.redis = {"master", "slave"}
    <3>1. a \in ReplicationAnswers
      BY <1>1, <1>8 DEF ComponentAnswers
    <3> QED BY <3>1 DEF ReplicationAnswers
  <2>3. /\ \A ip \in DOMAIN a.redis["master"] : a.redis["master"][ip] = "master"
        /\ \A ip \in DOMAIN a.redis["slave"] : a.redis["slave"][ip] = "link_up"
    <3>1. /\ [master |-> "master", slave |-> "link_up"]["master"] = "master"
          /\ [master |-> "master", slave |-> "link_up"]["slave"] = "link_up"
      OBVIOUS
    <3> QED BY <2>1, <2>2, <3>1
  <2>4. ComponentRows(c) = CheckReplication(CollectReplication(a.masters, a.slaves, a.redis))
    BY <1>8 DEF ComponentRows
  <2>5. /\ \A ip \in DOMAIN a.masters : a.masters[ip] = "writable"
        /\ \A ip \in DOMAIN a.slaves : a.slaves[ip] = "replicating"
    BY <2>1
  <2> HIDE DEF a
  <2>6. Quiet(CheckReplication(CollectReplication(a.masters, a.slaves, a.redis)))
    BY <2>2, <2>3, <2>5, WellReplicationQuiet
  <2> QED BY <2>4, <2>6
<1>9. CASE c = "bkmonitorv3"
  <2>1. ComponentRows(c) = CheckBKDeps(CollectBKMonitorV3Deps(a))
    BY <1>9 DEF ComponentRows
  <2> QED BY <2>1, DepsAreNeverWarn
<1> QED BY <1>1, <1>2, <1>3, <1>4, <1>5, <1>6, <1>7, <1>8, <1>9 DEF Components

(* Whatever is wrong with a host, a service or a component shows in a row  *)
(* of the report that is not OK (CheckHost, ServiceRows and the checkers   *)
(* of the components), whichever failed, hung or was late on the way.      *)
THEOREM SickIsShown == Spec => []UnhealthyIsShown
<1>1. IInv /\ RowsInv => UnhealthyIsShown
  BY HostShown, ServiceShown, ComponentShown DEF UnhealthyIsShown
<1> QED BY <1>1, AlwaysRowsInv, PTL

(* What is well is not complained of: no row of a healthy host, service or *)
(* component is Warn, whatever happens to the others meanwhile.            *)
THEOREM WellIsQuiet == Spec => []HealthyIsQuiet
<1>1. IInv /\ RowsInv => HealthyIsQuiet
  BY HostQuiet, ServiceQuiet, ComponentQuiet DEF HealthyIsQuiet, Quiet
<1> QED BY <1>1, AlwaysRowsInv, PTL
=============================================================================
