--------------------------- MODULE ComponentRules ---------------------------
(***************************************************************************)
(* The open source components of an inspection, as pure functions: what a  *)
(* component can answer (...Answers), what the collector makes of the      *)
(* answer (Collect...) and which rows the checker makes of that            *)
(* (Check...).  The wire formats are left out; which answer, failure or    *)
(* omission leads to which branch is kept.                                 *)
(*                                                                         *)
(* An Error field is represented by its ErrorClass: the collectors always  *)
(* set both.                                                               *)
(***************************************************************************)
EXTENDS CheckRows

CONSTANTS
  DepItems,     \* the dependencies of bkmonitorv3 that are probed
  VHosts,       \* vhosts of RabbitMQ
  UserMgrVHost  \* "bk_usermgr", which the collector never looks at

ASSUME RulesAssumption ==
  /\ DepItems \subseteq {"redis", "mysql", "rabbitmq", "zookeeper", "es7", "influxdb"}
  /\ UserMgrVHost \in VHosts

-----------------------------------------------------------------------------
(* probe.go and the classify functions: how an attempt can fail, and the   *)
(* class the report gives the failure.  "deadline": the context was        *)
(* cancelled or ran out; "server": the server answered with an error.      *)

Failures == {"refused", "deadline", "denied", "server"}
Classes == {"network", "auth", "protocol", "timeout", "unknown"}
NoError == ""

Classify(f) ==
  [refused |-> "network", deadline |-> "timeout", denied |-> "auth",
   server |-> "unknown"][f]

classifyMySQL(f) == IF f = "server" THEN "protocol" ELSE Classify(f)
classifyMongo(f) == IF f = "server" THEN "protocol" ELSE Classify(f)
classifyRedis(f) == Classify(f)

(* curl is killed when the context ends, which is no exit code of curl's;  *)
(* its own --max-time ("slow") is.  "cancelled": the context had ended     *)
(* before, and curl is not started.  A refused login is an answer to curl, *)
(* without -f, and no failure.                                             *)
CurlFailures == {"refused", "slow", "deadline", "cancelled"}
curlErrClass(f) ==
  [refused |-> "network", slow |-> "timeout", deadline |-> "unknown", cancelled |-> "timeout"][f]

-----------------------------------------------------------------------------
(* Elasticsearch: every node is asked for "/", the first one that answers  *)
(* for the health of the cluster.  troubles are those the two answers of   *)
(* the cluster tell of.                                                    *)

ESTroubles == {"unassigned_shards", "pending_tasks", "heap", "ram"}

ESAnswers(ips) ==
  [up : [IPs(ips) -> BOOLEAN],
   health : CurlFailures \cup {"denied", "green", "yellow"},
   troubles : SUBSET ESTroubles]

NoCluster == [error |-> NoError, status |-> "", troubles |-> {}, down |-> {}]

probeES7Nodes(ips, a) == {ip \in IPs(ips) : ~a.up[ip]}

CollectES(curl, ips, a) ==
  LET seen == [NoCluster EXCEPT !.down = probeES7Nodes(ips, a)]
  IN  IF ~curl THEN [NoCluster EXCEPT !.error = "unknown"]
      ELSE IF seen.down = IPs(ips) THEN [seen EXCEPT !.error = "network"]
      ELSE IF a.health \in CurlFailures
           THEN [seen EXCEPT !.error = curlErrClass(a.health)]
      ELSE IF a.health = "denied" THEN seen
      ELSE [seen EXCEPT !.status = a.health, !.troubles = a.troubles]

CheckES(c) ==
  IF c.error # NoError THEN {Row("es.cluster_error", NoNode, Warn)}
  ELSE RowIf(c.status \notin {"", "green"}, "es.cluster_status", NoNode, Notice)
         \cup {Row("es." \o t, NoNode, Notice) : t \in c.troubles}
         \cup {Row("es.reachability", ip, Warn) : ip \in c.down}

-----------------------------------------------------------------------------
(* MySQL nodes: collected, and shown in the report, but no rule looks at   *)
(* them.  A node whose SHOW SLAVE STATUS cannot be read counts as master.  *)

MySQLAnswers(ips) ==
  [IPs(ips) -> {"refused", "deadline", "denied", "server", "master", "slave", "unreadable"}]

CollectMySQL(ips, a) ==
  [ip \in IPs(ips) |->
     IF a[ip] \in Failures THEN [error |-> classifyMySQL(a[ip]), role |-> ""]
     ELSE [error |-> NoError, role |-> IF a[ip] = "slave" THEN "slave" ELSE "master"]]

-----------------------------------------------------------------------------
(* Redis nodes.  A queue whose length cannot be read counts as empty.      *)

Queues == {"celery_queue", "monitor_queue"}

RedisAnswers(ips) ==
  [IPs(ips) -> [info : Failures \cup {"ok"}, long : SUBSET Queues]]

CollectRedis(ips, a) ==
  [ip \in IPs(ips) |->
     IF a[ip].info = "ok" THEN [error |-> NoError, long |-> a[ip].long]
     ELSE [error |-> classifyRedis(a[ip].info), long |-> {}]]

CheckRedis(nodes) ==
  UNION {RowIf(nodes[ip].error # NoError, "redis.error", ip, Warn)
           \cup {Row("redis." \o q, ip, Notice) : q \in nodes[ip].long} :
         ip \in DOMAIN nodes}

-----------------------------------------------------------------------------
(* Redis Sentinel: all are pinged in turn, then the first one that         *)
(* answered and can name a master decides which master is pinged.  names   *)
(* holds what each would answer by then, NoNode for nothing.               *)

SentinelAnswers(ips, masters) ==
  [ping : [IPs(ips) -> BOOLEAN], names : [IPs(ips) -> masters \cup {NoNode}],
   up : SUBSET masters]

MasterNamed(ips, a) ==
  LET able == {i \in DOMAIN ips : a.ping[ips[i]] /\ a.names[ips[i]] # NoNode}
  IN  IF able = {} THEN NoNode ELSE a.names[ips[Min(able)]]

CollectSentinel(ips, a) ==
  LET reachable == {ip \in IPs(ips) : a.ping[ip]}
      master == MasterNamed(ips, a)
      served == master # NoNode /\ master \in a.up
  IN  [error |-> IF reachable = {} THEN "network" ELSE NoError,
       down |-> IPs(ips) \ reachable, master |-> master, served |-> served,
       status |-> IF ~served THEN "critical"
                  ELSE IF reachable # IPs(ips) THEN "warn" ELSE "ok"]

CrossCheckSentinelMaster(s, masterIPs) ==
  IF masterIPs = {} THEN "N/A" ELSE IF s.master \in masterIPs THEN "ok" ELSE "warn"

CheckRedisSentinel(s, masterIPs) ==
  RowIf(s.error # NoError, "redis_sentinel.error", NoNode, Warn)
    \cup RowIf(~s.served, "redis_sentinel.master_reachable", NoNode, Warn)
    \cup RowIf(CrossCheckSentinelMaster(s, masterIPs) = "warn",
               "redis_sentinel.master_env_match", NoNode, Warn)
    \cup RowIf(s.status # "ok", "redis_sentinel.status", NoNode, Warn)
    \cup {Row("redis_sentinel.reachable", ip, Warn) : ip \in s.down}

-----------------------------------------------------------------------------
(* MongoDB: one connection to the replica set, then its members' health.   *)

MongoAnswers(ips) == [reply : Failures \cup {"ok"}, sick : SUBSET IPs(ips)]

CollectMongo(a) ==
  IF a.reply = "ok" THEN [error |-> NoError, sick |-> a.sick]
  ELSE [error |-> classifyMongo(a.reply), sick |-> {}]

CheckMongo(c) ==
  IF c.error # NoError THEN {Row("mongo.error", NoNode, Warn)}
  ELSE {Row("mongo.health", ip, Notice) : ip \in c.sick}

-----------------------------------------------------------------------------
(* RabbitMQ: four questions to the first node only.  Only a failure of the *)
(* first one is an error; an answer that is no list (an error object of    *)
(* the API, say) is passed over.  thr are the thresholds in force.         *)

RabbitFailures == CurlFailures \cup {"html"}
AlarmKinds == {"mem_alarm", "disk_free_alarm"}
QueueRecords ==
  [vhost : VHosts, event : BOOLEAN, msgs : 0..2, ack : 0..1, pub : 0..1]

RabbitReplies ==
  [nodes : RabbitFailures \cup {"object", "list"}, alarms : SUBSET AlarmKinds,
   partition : BOOLEAN, conns : {"failed", "object", "normal", "abnormal"},
   queues : RabbitFailures \cup {"object", "list"}, list : SUBSET QueueRecords]

NoRabbitReply ==
  [nodes |-> "cancelled", alarms |-> {}, partition |-> FALSE, conns |-> "failed",
   queues |-> "cancelled", list |-> {}]

(* Of an exit of curl rmqAPI keeps the text only, in which no exit code is *)
(* found any more: a refused connection is told by its wording, the end of *)
(* --max-time is not.                                                      *)
rmqErrClass(f) == IF f \in {"slow", "html"} THEN "unknown" ELSE curlErrClass(f)

(* Faulty variant: a queue right at the bound counts as stalled.           *)
isStalledAtBound(q, thr) ==
  /\ q.msgs > 0
  /\ q.ack <= thr.ackMax
  /\ thr.pubMin < 0 \/ q.pub > thr.pubMin
  /\ q.vhost \notin thr.quiet

isStalled(q, thr) ==
  /\ q.msgs > 0
  /\ q.ack < thr.ackMax
  /\ thr.pubMin < 0 \/ q.pub > thr.pubMin
  /\ q.vhost \notin thr.quiet

CollectRabbitMQ(curl, a, thr) ==
  LET none == [error |-> NoError, queuesError |-> FALSE, partition |-> FALSE,
               alarms |-> {}, abnormal |-> FALSE, backlog |-> {}, stalled |-> {}]
      watched == {q \in a.list : q.vhost # UserMgrVHost /\ ~q.event}
      listed == a.nodes = "list"
      counted == a.queues = "list"
  IN  IF ~curl THEN [none EXCEPT !.error = "unknown"]
      ELSE IF a.nodes \in RabbitFailures
           THEN [none EXCEPT !.error = rmqErrClass(a.nodes)]
      ELSE [none EXCEPT
              !.partition = listed /\ a.partition,
              !.alarms = IF listed THEN a.alarms ELSE {},
              !.abnormal = a.conns = "abnormal",
              !.queuesError = a.queues \in RabbitFailures,
              !.backlog = {q \in watched : counted /\ q.msgs >= thr.backlog},
              !.stalled = {q \in watched : counted /\ isStalled(q, thr)}]

CheckRabbitMQ(r) ==
  RowIf(r.error # NoError, "rabbitmq.error", NoNode, Warn)
    \cup RowIf(r.queuesError, "rabbitmq.queues_error", NoNode, Warn)
    \cup RowIf(r.partition, "rabbitmq.cluster_partition", NoNode, Warn)
    \cup RowIf(r.abnormal, "rabbitmq.abnormal_connections", NoNode, Warn)
    \cup {Row("rabbitmq.node." \o k, NoNode, Warn) : k \in r.alarms}
    \cup {Row("rabbitmq.backlog", q.vhost, Warn) : q \in r.backlog}
    \cup {Row("rabbitmq.stalled", q.vhost, Warn) : q \in r.stalled}

-----------------------------------------------------------------------------
(* Replication: the declared masters and slaves, asked one by one.         *)

MasterAnswers(ips) == [IPs(ips) -> Failures \cup {"read_only", "writable"}]
SlaveAnswers(ips) ==
  [IPs(ips) -> Failures \cup {"no_slave", "stopped", "lagging", "replicating"}]
RedisRoleAnswers(ips) ==
  [IPs(ips) -> Failures \cup {"master", "link_down", "link_slow", "link_up"}]

collectMySQLMaster(f) == IF f = "writable" THEN "ok" ELSE "warn"

(* A slave that cannot be asked has an error and no Replication.           *)
NoReplication == "none"
collectMySQLSlave(f) ==
  IF f \in Failures THEN NoReplication
  ELSE [no_slave |-> "not-configured-as-slave", stopped |-> "critical",
        lagging |-> "warn", replicating |-> "ok"][f]

collectRedisReplication(f, declared) ==
  LET role == IF f = "master" THEN "master" ELSE "slave"
  IN  IF f \in Failures THEN [role |-> "", consistency |-> "N/A", link |-> ""]
      ELSE [role |-> role,
            consistency |-> IF role = declared THEN "ok" ELSE "warn",
            link |-> [master |-> "N/A", link_down |-> "critical",
                      link_slow |-> "warn", link_up |-> "ok"][f]]

(* nodes: the Redis answers by declared role.                              *)
CollectReplication(masters, slaves, nodes) ==
  [masters |-> [ip \in DOMAIN masters |-> collectMySQLMaster(masters[ip])],
   slaves |-> [ip \in DOMAIN slaves |-> collectMySQLSlave(slaves[ip])],
   redis |-> [role \in DOMAIN nodes |->
                [ip \in DOMAIN nodes[role] |->
                   collectRedisReplication(nodes[role][ip], role)]]]

CheckReplication(rep) ==
  {Row("mysql_master.read_only", ip, OkElseWarn(rep.masters[ip] = "ok")) :
     ip \in DOMAIN rep.masters}
    \cup {Row("mysql_slave.replication", ip, OkElseWarn(rep.slaves[ip] = "ok")) :
             ip \in {x \in DOMAIN rep.slaves : rep.slaves[x] # NoReplication}}
    \cup UNION {UNION {{Row("redis.role", ip, OkElseWarn(rep.redis[d][ip].consistency = "ok"))}
                        \cup RowIf(rep.redis[d][ip].role = "slave", "redis.link", ip,
                                   OkElseWarn(rep.redis[d][ip].link = "ok")) :
                        ip \in DOMAIN rep.redis[d]} : d \in DOMAIN rep.redis}

-----------------------------------------------------------------------------
(* What bkmonitorv3 depends on, probed from the inspecting host.  None of  *)
(* these probes knows the context.                                         *)

WithTool == {"redis", "mysql", "es7", "influxdb"}

DepAnswers ==
  {a \in [DepItems -> {"unconfigured", "no_tool", "failed", "wrong", "right"}] :
     \A d \in DepItems : /\ a[d] = "no_tool" => d \in WithTool
                         /\ a[d] = "wrong" => d # "zookeeper"}

probeDependency(item, f) ==
  IF f = "unconfigured" THEN "skip"
  ELSE IF f = "right" THEN "ok"
  ELSE IF f = "wrong" \/ (item = "mysql" /\ f = "failed") THEN "fail"
  ELSE "unreachable"

CollectBKMonitorV3Deps(a) == [d \in DepItems |-> probeDependency(d, a[d])]

CheckBKDeps(deps) ==
  {Row("bkdeps." \o d, NoNode, IF deps[d] = "ok" THEN OK ELSE Notice) :
     d \in {x \in DepItems : deps[x] # "skip"}}
=============================================================================
