---------------------------- MODULE InspectConfig ----------------------------
(***************************************************************************)
(* config.go: from the environment of an inspection to what is inspected   *)
(* and by which thresholds.                                                *)
(*                                                                         *)
(* env is a record: lists, the host list of each *_IP_COMMA variable;      *)
(* number, the numeric variables; quiet and legacyQuiet, the two           *)
(* blacklist variables; set, the connection variables of bkmonitorv3's     *)
(* dependencies that are not empty; paths and nfs, the disk variables.     *)
(***************************************************************************)
EXTENDS CheckRows

CONSTANT Hosts

ModuleLists == {"paas", "cmdb", "job", "gse", "appo", "appt", "iam", "usermgr", "nodeman"}
RoleLists == {"monitor", "influxdb_proxy", "transfer", "unify_query"}
ComponentLists == {"es7", "rabbitmq", "mysql", "mongodb", "redis", "sentinel"}
ReplicationLists == {"mysql_master", "mysql_slave", "redis_master", "redis_slave"}
Lists == ModuleLists \cup RoleLists \cup ComponentLists \cup ReplicationLists
           \cup {"monitorv3"}

ModuleKeys == ModuleLists \cup RoleLists

(* A role of bkmonitorv3 without a list of its own uses the common list.   *)
GetModuleHosts(lists, m) ==
  IF m \in RoleLists /\ lists[m] = <<>> THEN lists["monitorv3"] ELSE lists[m]

buildAllHosts(lists) == UNION {IPs(lists[l]) : l \in Lists \ ReplicationLists}

Validate(lists) == buildAllHosts(lists) # {}

MonitorDeployed(lists) == \E l \in RoleLists \cup {"monitorv3"} : lists[l] # <<>>

-----------------------------------------------------------------------------
(* Numbers.  A text that is no number ends the program; so does a bound    *)
(* for the acknowledgement rate that is not positive.  A threshold is      *)
(* otherwise taken as it is, negative ones included.                       *)

EnvNumber(range) == [text : {"unset", "invalid", "number"}, n : range]

parseEnv(v, default) == IF v.text = "number" THEN v.n ELSE default

Defaults == [backlog |-> 2, ackMax |-> 1, pubMin |-> 0]

NumberRejected(number) ==
  \/ \E k \in DOMAIN number : number[k].text = "invalid"
  \/ parseEnv(number["ackMax"], Defaults.ackMax) <= 0

-----------------------------------------------------------------------------
(* The vhosts whose stalled queues are not reported: the variable, even an *)
(* empty one, replaces the default; the legacy variable counts without it. *)

parseStalledVHostBlacklist(env, default) ==
  IF env.quiet.present THEN env.quiet.vhosts
  ELSE IF env.legacyQuiet.present THEN env.legacyQuiet.vhosts
  ELSE default

Thresholds(env, defaultQuiet) ==
  [backlog |-> parseEnv(env.number["backlog"], Defaults.backlog),
   ackMax |-> parseEnv(env.number["ackMax"], Defaults.ackMax),
   pubMin |-> parseEnv(env.number["pubMin"], Defaults.pubMin),
   quiet |-> parseStalledVHostBlacklist(env, defaultQuiet)]

-----------------------------------------------------------------------------
(* The endpoints of bkmonitorv3's dependencies.  Host and port of MySQL    *)
(* have defaults, its user falls back to that of paas.                     *)

DepFields ==
  [redis |-> {"redis_host", "redis_port"},
   rabbitmq |-> {"rabbitmq_host", "rabbitmq_port", "rabbitmq_user"},
   zookeeper |-> {"zk_host", "zk_port"}, es7 |-> {"es7_host", "es7_rest_port"},
   influxdb |-> {"influxdb_ip0", "influxdb_port"}]

DepConfigured(item, set) ==
  IF item = "mysql" THEN set \cap {"monitor_mysql_user", "paas_mysql_user"} # {}
  ELSE DepFields[item] \subseteq set
=============================================================================
