------------------------------ MODULE Collection ------------------------------
(***************************************************************************)
(* One inspection, from its configuration to its rows (runner.Run and      *)
(* runner.RunHostsOnly): every host is sampled twice over SSH, one         *)
(* goroutine per host; then every service is asked on its hosts, again one *)
(* goroutine each; then the components are asked one after the other.  The *)
(* user may cancel at any time; the context is looked at between the three *)
(* phases, and by the components' probes.                                  *)
(*                                                                         *)
(* A deployment is what does not change during an inspection: the          *)
(* environment variables, what its commands can print, and faulty, the     *)
(* hosts whose SSH may fail, hang, break off or be late.  The others       *)
(* answer in full, in time.                                                *)
(***************************************************************************)
EXTENDS InspectConfig, HostRules, ComponentRules

CONSTANTS
  Deployments,    \* the deployments inspected, by name
  NotAsked,       \* the answer of a component nobody asked yet
  DefaultQuiet    \* vhosts exempt from the rule for stalled queues by default

VARIABLES
  dep,         \* the name of the deployment
  pc,          \* the phase the inspection is in
  cancelled,   \* whether its context is cancelled
  call,        \* SSH: the calls of its goroutines
  orphans,     \* SSH: goroutines whose caller gave up
  results,     \* HostMetrics, by host
  services,    \* ServiceStatus, by service task, NotAsked before
  answers,     \* what each component answered, NotAsked before
  late         \* whether the context was cancelled when this component's turn came

vars == <<dep, pc, cancelled, call, orphans, results, services, answers, late>>

Task(part, host) == [part |-> part, host |-> host]
AllTasks == [part : {"sample", "batch"} \cup ModuleKeys, host : Hosts]
AllOutputs == HostOutputs \cup {NoOutput} \cup UNION {ServiceOutputs(m) : m \in ModuleKeys}

INSTANCE SshClient WITH Tasks <- AllTasks, Outputs <- AllOutputs

ASSUME DeploymentsAssumption ==
  \A d \in DOMAIN Deployments :
    LET x == Deployments[d]
    IN  /\ x.mode \in {"all", "hosts"} /\ x.faulty \subseteq Hosts
        /\ x.env.lists \in [Lists -> Seq(Hosts)]
        /\ x.env.number \in [{"backlog", "ackMax", "pubMin"} -> EnvNumber(Int)]
        /\ x.prints["batch"] \subseteq HostOutputs \cup {NoOutput}
        /\ \A m \in ModuleKeys : x.prints[m] \subseteq ServiceOutputs(m)
        /\ x.rabbit \subseteq RabbitReplies /\ x.curl \in BOOLEAN

(* NoNode is the name of no host, and an output of a service's commands in *)
(* which nothing was reached is one whose probes are all unseen.           *)
ASSUME NamesAssumption ==
  /\ NoNode \notin Hosts
  /\ \A m \in ModuleKeys : NoOutput \notin ServiceOutputs(m)

D == Deployments[dep]
HostLists == D.env.lists
AllHosts == buildAllHosts(HostLists)
ServiceTasks ==
  {t \in AllTasks : t.part \in ModuleKeys /\ t.host \in IPs(GetModuleHosts(HostLists, t.part))}
Samples == {Task("sample", h) : h \in AllHosts}

(* Faulty variant: the second pass is made on the unreachable hosts too.   *)
ReachableOrNot == AllHosts
Reachable == {h \in AllHosts : results[h].error = ""}
Thr == Thresholds(D.env, DefaultQuiet)

Ended == pc \in {"done", "aborted", "failed"}

-----------------------------------------------------------------------------
(* The components: which are deployed, and what they can answer.           *)

ComponentOrder ==
  <<"es", "mysql", "redis", "sentinel", "mongo", "rabbitmq", "replication", "bkmonitorv3">>
Components ==
  {"es", "mysql", "redis", "sentinel", "mongo", "rabbitmq", "replication", "bkmonitorv3"}

Deployed(c) ==
  IF c = "replication" THEN \E l \in ReplicationLists : HostLists[l] # <<>>
  ELSE IF c = "bkmonitorv3" THEN MonitorDeployed(HostLists)
  ELSE HostLists[[es |-> "es7", mysql |-> "mysql", redis |-> "redis", sentinel |-> "sentinel",
               mongo |-> "mongodb", rabbitmq |-> "rabbitmq"][c]] # <<>>

(* An unconfigured dependency is not probed; any other is.                 *)
DepReplies ==
  {a \in DepAnswers : \A d \in DepItems : a[d] = "unconfigured" <=> ~DepConfigured(d, D.env.set)}

ReplicationAnswers ==
  [masters : MasterAnswers(HostLists["mysql_master"]), slaves : SlaveAnswers(HostLists["mysql_slave"]),
   redis : [master : RedisRoleAnswers(HostLists["redis_master"]),
            slave : RedisRoleAnswers(HostLists["redis_slave"])]]

RabbitAnswers ==
  {a \in D.rabbit : /\ a.nodes # "list" => a.alarms = {} /\ ~a.partition
                    /\ a.queues # "list" => a.list = {}} \cup {NoRabbitReply}

ComponentAnswers(c) ==
  CASE c = "es" -> ESAnswers(HostLists["es7"])
    [] c = "mysql" -> MySQLAnswers(HostLists["mysql"])
    [] c = "redis" -> RedisAnswers(HostLists["redis"])
    [] c = "sentinel" -> SentinelAnswers(HostLists["sentinel"], Hosts)
    [] c = "mongo" -> MongoAnswers(HostLists["mongodb"])
    [] c = "rabbitmq" -> RabbitAnswers
    [] c = "replication" -> ReplicationAnswers
    [] c = "bkmonitorv3" -> DepReplies

(* With a cancelled context the drivers fail and curl is not started; the  *)
(* probes of bkmonitorv3 take no context.                                  *)
Unanswered(c, a) ==
  CASE c = "es" -> \A ip \in DOMAIN a.up : ~a.up[ip]
    [] c = "mysql" -> \A ip \in DOMAIN a : a[ip] = "deadline"
    [] c = "redis" -> \A ip \in DOMAIN a : a[ip].info = "deadline"
    [] c = "sentinel" -> \A ip \in DOMAIN a.ping : ~a.ping[ip]
    [] c = "mongo" -> a.reply = "deadline"
    [] c = "rabbitmq" -> a = NoRabbitReply
    [] c = "replication" ->
         /\ \A ip \in DOMAIN a.masters : a.masters[ip] = "deadline"
         /\ \A ip \in DOMAIN a.slaves : a.slaves[ip] = "deadline"
         /\ \A d \in DOMAIN a.redis : \A ip \in DOMAIN a.redis[d] : a.redis[d][ip] = "deadline"
    [] c = "bkmonitorv3" -> TRUE

-----------------------------------------------------------------------------
(* What the report holds and which rows the checkers make of it.           *)

ComponentRows(c) ==
  LET a == answers[c]
  IN  CASE c = "es" -> CheckES(CollectES(D.curl, HostLists["es7"], a))
        [] c = "mysql" -> {}
        [] c = "redis" -> CheckRedis(CollectRedis(HostLists["redis"], a))
        [] c = "sentinel" -> CheckRedisSentinel(CollectSentinel(HostLists["sentinel"], a),
                                                IPs(HostLists["redis_master"]))
        [] c = "mongo" -> CheckMongo(CollectMongo(a))
        [] c = "rabbitmq" -> CheckRabbitMQ(CollectRabbitMQ(D.curl, a, Thr))
        [] c = "replication" -> CheckReplication(CollectReplication(a.masters, a.slaves, a.redis))
        [] c = "bkmonitorv3" -> CheckBKDeps(CollectBKMonitorV3Deps(a))

HostRows(h) == CheckHost(h, results[h])
RowsOfService(t) == ServiceRows(t.host, services[t])

-----------------------------------------------------------------------------
Init ==
  /\ dep \in DOMAIN Deployments
  /\ pc = "config"
  /\ cancelled = FALSE
  /\ SshInit
  /\ results = [h \in Hosts |-> NoMetrics]
  /\ services = [t \in AllTasks |-> NotAsked]
  /\ answers = [c \in Components |-> NotAsked]
  /\ late = FALSE

Load ==
  /\ pc = "config"
  /\ pc' = IF NumberRejected(D.env.number) \/ ~Validate(HostLists) THEN "failed" ELSE "loaded"
  /\ UNCHANGED <<dep, cancelled, call, orphans, results, services, answers, late>>

(* No usable key, no agent: the SSH client cannot be made.                 *)
NoAuthMethod ==
  /\ pc = "loaded"
  /\ pc' = "failed"
  /\ UNCHANGED <<dep, cancelled, call, orphans, results, services, answers, late>>

Cancel ==
  /\ ~cancelled /\ ~Ended /\ pc # "config"
  /\ cancelled' = TRUE
  /\ UNCHANGED <<dep, pc, call, orphans, results, services, answers, late>>

(* The context is looked at before a phase begins.                         *)
Abort ==
  /\ cancelled
  /\ pc' = "aborted"
  /\ UNCHANGED <<dep, cancelled, call, orphans, results, services, answers, late>>

StartSampling ==
  /\ pc = "loaded"
  /\ \/ Abort
     \/ /\ ~cancelled
        /\ pc' = "sampling"
        /\ Start(Samples)
        /\ UNCHANGED <<dep, cancelled, orphans, results, services, answers, late>>

(* The goroutine of a host: a failed call leaves an error in its slot.     *)
SampleDone(h) ==
  LET t == Task("sample", h)
  IN  /\ Returns(t)
      /\ results' = IF call'[t].reply.err THEN [results EXCEPT ![h].error = "ssh"] ELSE results
      /\ UNCHANGED <<dep, pc, cancelled, services, answers, late>>

(* Five seconds later, on the hosts without an error.                      *)
StartBatch ==
  /\ pc = "sampling"
  /\ Returned(Samples)
  /\ pc' = "batch"
  /\ Start({Task("batch", h) : h \in Reachable})
  /\ UNCHANGED <<dep, cancelled, orphans, results, services, answers, late>>

(* The error of this call is dropped; its output decides.                  *)
BatchDone(h) ==
  LET t == Task("batch", h)
  IN  /\ Returns(t)
      /\ results' = [results EXCEPT
                       ![h] = parseHostOutput(call'[t].reply.out, D.env.paths, D.env.nfs)]
      /\ UNCHANGED <<dep, pc, cancelled, services, answers, late>>

BatchIsOver == \A h \in AllHosts : call[Task("batch", h)].at \in {"idle", "returned"}

HostsReported ==
  /\ pc = "batch" /\ D.mode = "hosts" /\ BatchIsOver
  /\ pc' = "done"
  /\ UNCHANGED <<dep, cancelled, call, orphans, results, services, answers, late>>

(* Faulty variant: the context is not looked at after the hosts.           *)
StartServicesAnyway ==
  /\ pc = "batch" /\ D.mode = "all" /\ BatchIsOver
  /\ pc' = "services"
  /\ Start(ServiceTasks)
  /\ UNCHANGED <<dep, cancelled, orphans, results, services, answers, late>>

StartServices ==
  /\ pc = "batch" /\ D.mode = "all" /\ BatchIsOver
  /\ \/ Abort
     \/ /\ ~cancelled
        /\ pc' = "services"
        /\ Start(ServiceTasks)
        /\ UNCHANGED <<dep, cancelled, orphans, results, services, answers, late>>

(* Faulty variant: a result is filed under its module, for every host.     *)
ServiceDoneByModule(t) ==
  /\ t.part \in ModuleKeys
  /\ Returns(t)
  /\ services' = [u \in AllTasks |-> IF u.part = t.part
                                     THEN collectServiceOnHost(t.part, call'[t].reply)
                                     ELSE services[u]]
  /\ UNCHANGED <<dep, pc, cancelled, results, answers, late>>

ServiceDone(t) ==
  /\ t.part \in ModuleKeys
  /\ Returns(t)
  /\ services' = [services EXCEPT ![t] = collectServiceOnHost(t.part, call'[t].reply)]
  /\ UNCHANGED <<dep, pc, cancelled, results, answers, late>>

StartComponents ==
  /\ pc = "services"
  /\ Returned(ServiceTasks)
  /\ \/ Abort
     \/ /\ ~cancelled
        /\ pc' = "components"
        /\ late' = FALSE
        /\ UNCHANGED <<dep, cancelled, call, orphans, results, services, answers>>

(* One component after the other; those not deployed are passed over.      *)
IsNext(c) ==
  /\ Deployed(c) /\ answers[c] = NotAsked
  /\ \E i \in DOMAIN ComponentOrder :
       /\ ComponentOrder[i] = c
       /\ \A j \in 1..(i - 1) : LET b == ComponentOrder[j]
                                IN  Deployed(b) => answers[b] # NotAsked

CollectComponent(c) ==
  /\ pc = "components"
  /\ IsNext(c)
  /\ \E a \in ComponentAnswers(c) :
       /\ late => Unanswered(c, a)
       /\ answers' = [answers EXCEPT ![c] = a]
  /\ late' = cancelled
  /\ UNCHANGED <<dep, pc, cancelled, call, orphans, results, services>>

(* The context is not looked at any more.                                  *)
ReportAll ==
  /\ pc = "components"
  /\ \A c \in Components : Deployed(c) => answers[c] # NotAsked
  /\ pc' = "done"
  /\ UNCHANGED <<dep, cancelled, call, orphans, results, services, answers, late>>

(* What the network and the remote side do in the middle of a call.        *)
Prints(part) == IF part = "sample" THEN {NoOutput} ELSE D.prints[part]

SshStep(t) ==
  /\ \/ Accepted(t) \/ SessionOpened(t)
     \/ t.host \in D.faulty /\ Answers(t, Failed)
     \/ /\ call[t].at = "waiting"
        /\ \E out \in Prints(t.part), err \in BOOLEAN :
             /\ err => t.host \in D.faulty
             /\ Answers(t, [err |-> err, out |-> out])
  /\ UNCHANGED <<dep, pc, cancelled, results, services, answers, late>>

ExpireStep(t) ==
  /\ t.host \in D.faulty
  /\ Expire(t)
  /\ UNCHANGED <<dep, pc, cancelled, results, services, answers, late>>

LateStep(t) ==
  /\ LateAnswer(t)
  /\ UNCHANGED <<dep, pc, cancelled, results, services, answers, late>>

TaskDone(t) ==
  /\ t.host \in D.faulty \/ call[t].at = "sent"
  /\ \/ t.part = "sample" /\ SampleDone(t.host)
     \/ t.part = "batch" /\ BatchDone(t.host)
     \/ ServiceDone(t)

RunStep ==
  \/ Load \/ NoAuthMethod \/ StartSampling \/ StartBatch \/ HostsReported
  \/ StartServices \/ StartComponents \/ ReportAll
  \/ \E c \in Components : CollectComponent(c)

Next ==
  \/ RunStep \/ Cancel
  \/ \E t \in AllTasks : SshStep(t) \/ ExpireStep(t) \/ LateStep(t) \/ TaskDone(t)

(* What goes on by itself: the run, a call to a host that is not faulty, a *)
(* TCP dial (it has a timeout), the clock of a call whose command runs,    *)
(* the return of a call that has a result or is expired, and an orphan.    *)
(* Nothing is assumed of a faulty host in its handshake.  No call takes    *)
(* more than a few steps, so that fairness towards all of them together is *)
(* enough.                                                                 *)
Bounded(t) ==
  \/ t.host \notin D.faulty /\ (SshStep(t) \/ TaskDone(t))
  \/ call[t].at = "dialing" /\ (SshStep(t) \/ TaskDone(t))
  \/ call[t].at = "waiting" /\ ExpireStep(t)
  \/ call[t].at \in {"waiting", "sent"} /\ TaskDone(t)
  \/ LateStep(t)

Fairness == WF_vars(RunStep) /\ WF_vars(\E t \in AllTasks : Bounded(t))

Spec == Init /\ [][Next]_vars /\ Fairness

-----------------------------------------------------------------------------
(* Every variable holds a value of its type: the phase is one the run has, *)
(* metrics are the zero value, an error or parsed values.                  *)
CTypeOK ==
  /\ dep \in DOMAIN Deployments
  /\ pc \in {"config", "loaded", "sampling", "batch", "services", "components",
             "done", "aborted", "failed"}
  /\ cancelled \in BOOLEAN /\ late \in BOOLEAN
  /\ SshTypeOK
  /\ \A h \in Hosts : results[h].error \in {"", "ssh", "incomplete", "disk"}
  /\ \A h \in Hosts \ AllHosts : results[h] = NoMetrics
  /\ \A t \in AllTasks \ ServiceTasks : services[t] = NotAsked

(* The targets of a deployment and the verdicts on them, as Inspection     *)
(* sees them: a host stands for its batch, a component for itself.         *)
AllTargets == [part : {"batch"} \cup ModuleKeys, host : Hosts]
                \cup [part : Components, host : {NoNode}]

Wanted ==
  {Task("batch", h) : h \in AllHosts}
    \cup IF D.mode = "hosts" THEN {}
         ELSE ServiceTasks \cup {Task(c, NoNode) : c \in {b \in Components : Deployed(b)}}

HostVerdict(h) ==
  IF results[h].error # "" THEN "failed"
  ELSE IF call[Task("batch", h)].at = "returned" THEN "seen" ELSE "open"

ServiceVerdict(t) ==
  IF call[t].at # "returned" THEN "open" ELSE IF services[t].error THEN "failed" ELSE "seen"

Verdict ==
  [t \in AllTargets |->
     IF t.part \in Components THEN IF answers[t.part] = NotAsked THEN "open" ELSE "seen"
     ELSE IF t.part = "batch" THEN HostVerdict(t.host)
     ELSE ServiceVerdict(t)]

Outcome ==
  IF pc = "done" THEN "report" ELSE IF pc \in {"aborted", "failed"} THEN "error" ELSE "none"

Promise == INSTANCE Inspection WITH
  Targets <- AllTargets, wanted <- Wanted, verdict <- Verdict, outcome <- Outcome

(* The two passes, the barriers and the phases keep the promise: every     *)
(* host, service and component gets one verdict, a failure of the first    *)
(* pass is never overwritten by the second, and no report leaves one out.  *)
InspectionKept == Promise!Spec

-----------------------------------------------------------------------------
(* What is really wrong, said of the answers and not of the report.        *)

JudgedSections == Judged \ {"cpu"}

SickHost(h) ==
  LET first == call[Task("sample", h)].reply
      out == call[Task("batch", h)].reply.out
  IN  \/ first.err
      \/ out = NoOutput
      \/ ~(JudgedSections \subseteq Sections(out.seen))
      \/ out.bad # {} \/ out.load = "over"
      \/ \E l \in out.df \cup out.dfi :
           l.full /\ l.fs = "real" /\ (D.env.paths = {} \/ l.mount \in D.env.paths)

WellHost(h) ==
  LET out == call[Task("batch", h)].reply.out
  IN  /\ ~call[Task("sample", h)].reply.err
      /\ out # NoOutput
      /\ out.seen = AllSections /\ out.bad = {} /\ out.load # "over"
      /\ \A l \in out.df \cup out.dfi : ~l.full

SubModules(t) == ModuleRegistry[t.part]

(* A body that only says of a part that it is well, and a web service that *)
(* answers with an error, pass for healthy: they are not counted here.     *)
SickService(t) ==
  LET out == call[t].reply.out
  IN  \/ out = NoOutput
      \/ \E i \in DOMAIN SubModules(t) :
           LET sub == SubModules(t)[i]
               p == out.probes[i]
           IN  /\ ~sub.skip
               /\ \/ p.unit # "active"
                  \/ p.hz = "unreachable" /\ sub.hz # "none"
                  \/ p.hz = "bad" /\ sub.hz \notin {"none", "http_alive"}

WellService(t) ==
  LET out == call[t].reply.out
  IN  /\ out # NoOutput /\ ~out.exited
      /\ \A i \in DOMAIN SubModules(t) : out.probes[i] = [unit |-> "active", hz |-> "good"]

(* The nodes of a component that are in trouble, NoNode for the whole.     *)
NodeIf(condition, node) == IF condition THEN {node} ELSE {}

Stuck(q) == q.msgs > 0 /\ q.ack = 0 /\ q.pub > 0

SickNodes(c) ==
  LET a == answers[c]
  IN  CASE c = "es" -> NodeIf(a.health # "green" \/ a.troubles # {}, NoNode)
                         \cup {ip \in DOMAIN a.up : ~a.up[ip]}
        [] c = "mysql" -> {ip \in DOMAIN a : a[ip] \in Failures}
        [] c = "redis" -> {ip \in DOMAIN a : a[ip].info # "ok" \/ a[ip].long # {}}
        [] c = "sentinel" ->
             {ip \in DOMAIN a.ping : ~a.ping[ip]}
               \cup NodeIf(\A ip \in DOMAIN a.ping : a.ping[ip] => a.names[ip] \notin a.up, NoNode)
        [] c = "mongo" -> IF a.reply = "ok" THEN a.sick ELSE {NoNode}
        [] c = "rabbitmq" ->
             NodeIf(\/ a.nodes # "list" \/ a.partition \/ a.alarms # {}
                    \/ a.conns # "normal" \/ a.queues # "list", NoNode)
               \cup {q.vhost : q \in {x \in a.list : Stuck(x)}}
        [] c = "replication" ->
             {ip \in DOMAIN a.masters : a.masters[ip] # "writable"}
               \cup {ip \in DOMAIN a.slaves : a.slaves[ip] # "replicating"}
               \cup UNION {{ip \in DOMAIN a.redis[d] :
                             a.redis[d][ip] # [master |-> "master", slave |-> "link_up"][d]} :
                           d \in DOMAIN a.redis}
        [] c = "bkmonitorv3" -> NodeIf(\E d \in DepItems : a[d] \notin {"right", "unconfigured"}, NoNode)

(* Those the rows of a component keep quiet about: an answer that is no    *)
(* answer to the question (a refused login to Elasticsearch, an error      *)
(* object of RabbitMQ), MySQL, slaves that cannot be asked, and the vhosts *)
(* that are exempt.                                                        *)
PassedOver(c) ==
  LET a == answers[c]
  IN  CASE c = "es" -> NodeIf(a.health = "denied" /\ D.curl, NoNode)
        [] c = "mysql" -> DOMAIN a
        [] c = "rabbitmq" ->
             NodeIf(/\ ~a.partition /\ a.alarms = {} /\ D.curl
                    /\ {a.nodes, a.queues} \subseteq {"object", "list"}
                    /\ a.conns # "abnormal", NoNode)
               \cup Thr.quiet \cup {UserMgrVHost}
               \cup {q.vhost : q \in {x \in a.list : x.event \/ x.pub <= Thr.pubMin}}
        [] c = "replication" -> {ip \in DOMAIN a.slaves : a.slaves[ip] \in Failures}
        [] OTHER -> {}

WellComponent(c) ==
  /\ SickNodes(c) = {}
  /\ c = "sentinel" => /\ \A ip \in DOMAIN answers[c].ping : answers[c].names[ip] \in answers[c].up
                       /\ \A ip \in DOMAIN answers[c].ping :
                            IPs(HostLists["redis_master"]) \subseteq {answers[c].names[ip]}
  /\ c = "rabbitmq" => \A q \in answers[c].list :
                         q.msgs < Thr.backlog /\ (q.msgs > 0 => q.ack >= Thr.ackMax)
  /\ c \in {"es", "rabbitmq"} => D.curl

Speaks(rows, node) == \E r \in rows : r.status # OK /\ r.node \in {node, NoNode}

DoneHosts == IF pc = "done" THEN AllHosts ELSE {}
DoneServices == IF pc = "done" /\ D.mode = "all" THEN ServiceTasks ELSE {}
DoneComponents == {c \in Components : pc = "done" /\ answers[c] # NotAsked}

(* Whatever goes wrong, on the way to a host or on it, in a service or in  *)
(* a component, the report has a row about it that is not OK, for the host *)
(* or node it went wrong on - except what PassedOver lists.                *)
UnhealthyIsShown ==
  /\ \A h \in DoneHosts : SickHost(h) => Speaks(HostRows(h), h)
  /\ \A t \in DoneServices : SickService(t) => Speaks(RowsOfService(t), t.host)
  /\ \A c \in DoneComponents :
       \A node \in SickNodes(c) \ PassedOver(c) : Speaks(ComponentRows(c), node)

(* What is well is not reported: no row of a healthy host, service or      *)
(* component is Warn.                                                      *)
HealthyIsQuiet ==
  LET quiet(rows) == \A r \in rows : r.status # Warn
  IN  /\ \A h \in DoneHosts : WellHost(h) => quiet(HostRows(h))
      /\ \A t \in DoneServices : WellService(t) => quiet(RowsOfService(t))
      /\ \A c \in DoneComponents : WellComponent(c) => quiet(ComponentRows(c))

(* A cancelled inspection begins no further phase; only the second pass    *)
(* over the hosts follows the first in any case.                           *)
CancelStops ==
  [][cancelled => pc' \in {pc, "batch", "done", "aborted", "failed"}]_vars

(* The only thing that can keep an inspection from ending is a host that   *)
(* accepts connections and says nothing.                                   *)
OnlySilenceBlocks == <>Ended \/ <>[](\E t \in AllTasks : call[t].at = "handshake")

(* No goroutine is left behind a call that timed out.                      *)
NoGoroutineLeft == <>[](orphans = {})
=============================================================================
