---------------------------- MODULE MCCollection ----------------------------
(* Two hosts.  Each deployment puts one part of an inspection through what *)
(* can happen to it: hosts and services that fail in every way, one wide   *)
(* set of outputs of a healthy connection, and each component.             *)
EXTENDS Collection

CONSTANTS h1, h2

MCHosts == {h1, h2}
MCMounts == {"/data", "/home"}
MCVHosts == {"app", "quiet", "bk_usermgr"}
MCDepItems == {"mysql", "redis"}
MCDefaultQuiet == {"quiet"}

Unset == [text |-> "unset", n |-> 0]
Given(n) == [text |-> "number", n |-> n]
NoVar == [present |-> FALSE, vhosts |-> {}]

Env ==
  [lists |-> [l \in Lists |-> <<>>], set |-> {}, paths |-> {}, nfs |-> FALSE,
   number |-> [k \in {"backlog", "ackMax", "pubMin"} |-> Unset],
   quiet |-> NoVar, legacyQuiet |-> NoVar]

GoodOutput ==
  [seen |-> AllSections, load |-> "flat", bad |-> {}, df |-> {}, dfi |-> {}]
WellPrints(m) ==
  {[probes |-> [i \in 1..Len(ModuleRegistry[m]) |-> [unit |-> "active", hz |-> "good"]],
    exited |-> FALSE]}
Prints0 == [p \in {"batch"} \cup ModuleKeys |-> IF p = "batch" THEN {GoodOutput} ELSE WellPrints(p)]

NoReplies == [nodes |-> "list", alarms |-> {}, partition |-> FALSE,
              conns |-> "normal", queues |-> "list", list |-> {}]
OneQueue == {[NoReplies EXCEPT !.list = {q}] : q \in QueueRecords}
OneTrouble ==
  [nodes : RabbitFailures \cup {"object", "list"}, alarms : {{}, AlarmKinds},
   partition : BOOLEAN, conns : {"failed", "normal", "abnormal"},
   queues : {"html", "object", "list"}, list : {{}}]

Base == [mode |-> "all", env |-> Env, curl |-> TRUE, faulty |-> {},
         prints |-> Prints0, rabbit |-> {NoReplies}]

With(lists) == [Base EXCEPT !.env.lists = [l \in Lists |->
                  IF l \in DOMAIN lists THEN lists[l] ELSE <<>>]]

Partial == [GoodOutput EXCEPT !.seen = 5]
HostPair == [With([paas |-> <<h1, h2>>]) EXCEPT
  !.mode = "hosts", !.faulty = {h1, h2}, !.prints["batch"] = {GoodOutput, Partial}]

Dfs == {{}, {[mount |-> "/data", fs |-> "real", full |-> TRUE]},
        {[mount |-> "/data", fs |-> "nfs", full |-> TRUE]},
        {[mount |-> "/data", fs |-> "real", full |-> FALSE],
         [mount |-> "/home", fs |-> "other", full |-> TRUE]},
        {[mount |-> "/home", fs |-> "pseudo", full |-> TRUE]}}
WideOutputs ==
  [seen : {0, 2, 4, 10, 16, AllSections}, load : {"flat", "rising", "over"},
   bad : {{}} \cup {{s} : s \in Judged}, df : Dfs, dfi : {{}}]
WideInodes == [seen : {2, 4, AllSections}, load : {"flat"}, bad : {{}}, df : Dfs, dfi : Dfs]
OneHost == [With([paas |-> <<h1>>]) EXCEPT
  !.mode = "hosts", !.prints["batch"] = WideOutputs \cup WideInodes]
OnePath == [OneHost EXCEPT !.env.paths = {"/home"}, !.env.nfs = TRUE]

Job == [With([job |-> <<h1>>]) EXCEPT !.prints["job"] = ServiceOutputs("job")]
FaultyService == [With([iam |-> <<h1>>]) EXCEPT
  !.faulty = {h1}, !.prints["iam"] = ServiceOutputs("iam")]
Apps == [With([appo |-> <<h1>>]) EXCEPT !.prints["appo"] = ServiceOutputs("appo")]
Roles == [With([monitorv3 |-> <<h1>>, transfer |-> <<h2>>])
  EXCEPT !.env.set = {"paas_mysql_user"}]

ES == With([es7 |-> <<h1, h2>>])
NoCurl == [With([es7 |-> <<h1>>, rabbitmq |-> <<h1>>]) EXCEPT !.curl = FALSE]
Stores == With([mysql |-> <<h1>>, redis |-> <<h1>>, mongodb |-> <<h1>>])
Sentinel == With([sentinel |-> <<h1, h2>>, redis_master |-> <<h1>>])
Rabbit == [With([rabbitmq |-> <<h1, h2>>]) EXCEPT !.rabbit = OneQueue \cup OneTrouble]
RabbitTuned == [Rabbit EXCEPT
  !.env.number = [backlog |-> Given(1), ackMax |-> Given(2), pubMin |-> Given(-1)],
  !.env.quiet = [present |-> TRUE, vhosts |-> {}], !.rabbit = OneQueue]
Legacy == [RabbitTuned EXCEPT !.env.quiet = NoVar,
  !.env.legacyQuiet = [present |-> TRUE, vhosts |-> {"app"}]]
Replicas == With([gse |-> <<h1>>, mysql_master |-> <<h1>>, mysql_slave |-> <<h2>>,
                  redis_slave |-> <<h1>>])
BadNumber == [HostPair EXCEPT !.env.number["ackMax"] = Given(0)]
NoHosts == With([mysql_master |-> <<h1>>])

MCDeployments ==
  [HostPair |-> HostPair, OneHost |-> OneHost, OnePath |-> OnePath, Job |-> Job,
   FaultyService |-> FaultyService, Apps |-> Apps, Roles |-> Roles, ES |-> ES, NoCurl |-> NoCurl,
   Stores |-> Stores, Sentinel |-> Sentinel, Rabbit |-> Rabbit,
   RabbitTuned |-> RabbitTuned, Legacy |-> Legacy, Replicas |-> Replicas,
   BadNumber |-> BadNumber, NoHosts |-> NoHosts]
=============================================================================
