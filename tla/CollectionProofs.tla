--------------------------- MODULE CollectionProofs ---------------------------
(***************************************************************************)
(* An inspection keeps its promise for any hosts, deployments and answers. *)
(* The inductive invariant says which calls can be under way in which      *)
(* phase, and what the slot of a host holds before its goroutine writes.   *)
(***************************************************************************)
EXTENDS Collection, TLAPS

UnderWay(t) == call[t].at \notin {"idle", "returned"}

(* Every call under way belongs to the phase the run is in; the calls of a *)
(* later phase have not begun.                                             *)
PhaseInv ==
  /\ \A t \in AllTasks : UnderWay(t) =>
       \/ pc = "sampling" /\ t.part = "sample" /\ t.host \in AllHosts
       \/ pc = "batch" /\ t.part = "batch" /\ t.host \in AllHosts
       \/ pc = "services" /\ t \in ServiceTasks
  /\ pc \in {"config", "loaded", "sampling"} =>
       \A t \in AllTasks : t.part # "sample" => call[t].at = "idle"
  /\ pc \in {"config", "loaded"} => \A t \in AllTasks : call[t].at = "idle"
  /\ pc = "batch" => \A t \in AllTasks : t.part \in ModuleKeys => call[t].at = "idle"
  /\ pc \in {"services", "components"} => D.mode = "all"

(* The slot of a host is empty until its first goroutine returned, without *)
(* an error while the second runs, and has one when there was no second.   *)
SlotInv ==
  /\ \A h \in Hosts : call[Task("sample", h)].at # "returned" => results[h] = NoMetrics
  /\ \A h \in Hosts : UnderWay(Task("batch", h)) =>
       results[h].error = "" /\ call[Task("sample", h)].at = "returned"
  /\ pc \in {"batch", "services", "components", "done"} =>
       \A h \in AllHosts : call[Task("batch", h)].at = "idle" => results[h].error # ""

(* A report of everything comes after every service and every component.   *)
AskedInv ==
  /\ pc = "components" \/ (pc = "done" /\ D.mode # "hosts") =>
       \A t \in ServiceTasks : call[t].at = "returned"
  /\ pc = "done" /\ D.mode # "hosts" =>
       \A c \in Components : Deployed(c) => answers[c] # NotAsked

TypeInv ==
  /\ dep \in DOMAIN Deployments
  /\ call \in [AllTasks -> Calls]
  /\ orphans \subseteq AllTasks
  /\ results = [h \in Hosts |-> results[h]]
  /\ services = [t \in AllTasks |-> services[t]]
  /\ answers = [c \in Components |-> answers[c]]

IInv == TypeInv /\ PhaseInv /\ SlotInv /\ AskedInv

-----------------------------------------------------------------------------
LEMMA Parts == /\ ModuleKeys \cap {"sample", "batch"} = {}
               /\ Components \cap (ModuleKeys \cup {"sample", "batch"}) = {}
  BY DEF ModuleKeys, ModuleLists, RoleLists, Components

LEMMA TaskFields ==
  \A p, h : Task(p, h).part = p /\ Task(p, h).host = h
  BY DEF Task

LEMMA TasksAreTasks ==
  ASSUME NEW h \in Hosts
  PROVE  Task("sample", h) \in AllTasks /\ Task("batch", h) \in AllTasks
  BY DEF Task, AllTasks

LEMMA HostsAreHosts == ASSUME dep \in DOMAIN Deployments PROVE AllHosts \subseteq Hosts
<1>1. D.env.lists \in [Lists -> Seq(Hosts)]
  BY DeploymentsAssumption DEF D
<1>2. \A l \in Lists : IPs(HostLists[l]) \subseteq Hosts
  <2> TAKE l \in Lists
  <2>1. HostLists[l] \in Seq(Hosts)
    BY <1>1 DEF HostLists
  <2> QED BY <2>1 DEF IPs
<1> QED BY <1>2 DEF AllHosts, buildAllHosts

(* A call that returns was under way, and no other call changes.           *)
LEMMA ReturnsEffect ==
  ASSUME call \in [AllTasks -> Calls], NEW t \in AllTasks, Returns(t)
  PROVE  /\ UnderWay(t)
         /\ call' \in [AllTasks -> Calls]
         /\ call'[t].at = "returned"
         /\ \A u \in AllTasks \ {t} : call'[u] = call[u]
         /\ orphans \subseteq AllTasks => orphans' \subseteq AllTasks
<1>1. call[t] \in Calls
  OBVIOUS
<1>2. Failed \in Replies /\ call[t].reply \in Replies
  BY <1>1 DEF Failed, Replies, Calls, AllOutputs
<1>3. ASSUME NEW r \in Replies, Return(t, r)
      PROVE /\ call' \in [AllTasks -> Calls] /\ call'[t].at = "returned"
            /\ \A u \in AllTasks \ {t} : call'[u] = call[u]
  BY <1>1, <1>3 DEF Return, Calls, Stages
<1> QED BY <1>1, <1>2, <1>3 DEF Returns, DialFails, TimesOut, Receives, UnderWay

(* So does a call in the middle: it stays under way.                       *)
LEMMA MiddleEffect ==
  ASSUME TypeInv, NEW t \in AllTasks, SshStep(t) \/ ExpireStep(t)
  PROVE  /\ UnderWay(t) /\ UnderWay(t)'
         /\ call' \in [AllTasks -> Calls]
         /\ \A u \in AllTasks \ {t} : call'[u] = call[u]
         /\ orphans' = orphans
         /\ UNCHANGED <<dep, pc, cancelled, results, services, answers, late>>
<1>1. call[t] \in Calls /\ dep \in DOMAIN Deployments /\ call \in [AllTasks -> Calls]
  BY DEF TypeInv
<1>2. ASSUME NEW out, out \in Prints(t.part), t.part \in {"sample", "batch"} \cup ModuleKeys
      PROVE  out \in AllOutputs
  <2>1. CASE t.part = "sample"
    BY <1>2, <2>1 DEF Prints, AllOutputs
  <2>2. CASE t.part # "sample"
    <3>1. D.prints[t.part] \subseteq AllOutputs
      <4>1. D.prints["batch"] \subseteq AllOutputs
        BY <1>1, DeploymentsAssumption DEF D, AllOutputs
      <4>2. \A m \in ModuleKeys : D.prints[m] \subseteq AllOutputs
        BY <1>1, DeploymentsAssumption DEF D, AllOutputs
      <4> QED BY <1>2, <2>2, <4>1, <4>2
    <3> QED BY <1>2, <2>2, <3>1 DEF Prints
  <2> QED BY <2>1, <2>2
<1>3. t.part \in {"sample", "batch"} \cup ModuleKeys
  BY DEF AllTasks
<1>4. ASSUME NEW r \in Replies, Answers(t, r)
      PROVE  /\ UnderWay(t) /\ UnderWay(t)' /\ call' \in [AllTasks -> Calls]
             /\ \A u \in AllTasks \ {t} : call'[u] = call[u]
             /\ orphans' = orphans
  BY <1>1, <1>4 DEF Answers, Calls, Stages, UnderWay
<1>5. Failed \in Replies
  BY DEF Failed, Replies, AllOutputs
<1>6. ASSUME Accepted(t) \/ SessionOpened(t) \/ Expire(t)
      PROVE  /\ UnderWay(t) /\ UnderWay(t)' /\ call' \in [AllTasks -> Calls]
             /\ \A u \in AllTasks \ {t} : call'[u] = call[u]
             /\ orphans' = orphans
  <2>1. CASE Accepted(t)
    BY <1>1, <2>1 DEF Accepted, Calls, Stages, UnderWay
  <2>2. CASE SessionOpened(t)
    BY <1>1, <2>2 DEF SessionOpened, Calls, Stages, UnderWay
  <2>3. CASE Expire(t)
    BY <1>1, <2>3 DEF Expire, Calls, Stages, UnderWay
  <2> QED BY <1>6, <2>1, <2>2, <2>3
<1>7. CASE SshStep(t)
  <2>1. UNCHANGED <<dep, pc, cancelled, results, services, answers, late>>
    BY <1>7 DEF SshStep
  <2>2. \/ Accepted(t) \/ SessionOpened(t) \/ Answers(t, Failed)
        \/ \E out \in Prints(t.part), err \in BOOLEAN : Answers(t, [err |-> err, out |-> out])
    BY <1>7 DEF SshStep
  <2>3. CASE \E out \in Prints(t.part), err \in BOOLEAN : Answers(t, [err |-> err, out |-> out])
    <3>1. PICK out \in Prints(t.part), err \in BOOLEAN : Answers(t, [err |-> err, out |-> out])
      BY <2>3
    <3>2. [err |-> err, out |-> out] \in Replies
      BY <1>2, <1>3 DEF Replies
    <3> QED BY <1>4, <2>1, <3>1, <3>2
  <2> QED BY <1>4, <1>5, <1>6, <2>1, <2>2, <2>3
<1>8. CASE ExpireStep(t)
  BY <1>6, <1>8 DEF ExpireStep
<1> QED BY <1>7, <1>8

(* Calls that are started are the only ones that change.                   *)
LEMMA StartEffect ==
  ASSUME call \in [AllTasks -> Calls], NEW ts, ts \subseteq AllTasks, Start(ts)
  PROVE  /\ call' \in [AllTasks -> Calls]
         /\ \A t \in ts : call'[t].at = "dialing"
         /\ \A t \in AllTasks \ ts : call'[t] = call[t]
<1>1. NotCalled \in Calls /\ [NotCalled EXCEPT !.at = "dialing"] \in Calls
      /\ [NotCalled EXCEPT !.at = "dialing"].at = "dialing"
  BY DEF NotCalled, Failed, Calls, Replies, Stages, AllOutputs
<1> QED BY <1>1 DEF Start

LEMMA StartedSets ==
  ASSUME TypeInv
  PROVE  /\ Samples \subseteq AllTasks
         /\ \A t \in AllTasks : t \in Samples <=> t.part = "sample" /\ t.host \in AllHosts
         /\ \A hs \in SUBSET AllHosts :
              /\ {Task("batch", h) : h \in hs} \subseteq AllTasks
              /\ \A t \in AllTasks : t \in {Task("batch", h) : h \in hs}
                                       <=> t.part = "batch" /\ t.host \in hs
         /\ ServiceTasks \subseteq AllTasks
         /\ \A t \in ServiceTasks : t.part \in ModuleKeys
<1>1. AllHosts \subseteq Hosts
  BY HostsAreHosts DEF TypeInv
<1>2. \A t \in AllTasks : t = Task(t.part, t.host)
  BY DEF AllTasks, Task
<1> QED BY <1>1, <1>2, TasksAreTasks, TaskFields DEF Samples, ServiceTasks

(* The deployment does not change, and with it what it asks for.           *)
LEMMA SameDeployment ==
  ASSUME dep' = dep
  PROVE  /\ D' = D /\ HostLists' = HostLists /\ AllHosts' = AllHosts
         /\ ServiceTasks' = ServiceTasks /\ Samples' = Samples
         /\ \A c \in Components : Deployed(c)' <=> Deployed(c)
<1>1. D' = D
  BY DEF D
<1>2. HostLists' = HostLists
  BY <1>1 DEF HostLists
<1>3. AllHosts' = AllHosts
  BY <1>2 DEF AllHosts
<1>4. ServiceTasks' = ServiceTasks
  BY <1>2 DEF ServiceTasks
<1>5. Samples' = Samples
  BY <1>3 DEF Samples
<1>6. \A c \in Components : Deployed(c)' <=> Deployed(c)
  BY <1>2 DEF Deployed
<1> QED BY <1>1, <1>2, <1>3, <1>4, <1>5, <1>6

-----------------------------------------------------------------------------
LEMMA InitInv == Init => IInv
<1> SUFFICES ASSUME Init PROVE IInv
  OBVIOUS
<1>1. NotCalled \in Calls /\ NotCalled.at = "idle"
  BY DEF NotCalled, Failed, Calls, Replies, Stages, AllOutputs
<1>2. /\ pc = "config" /\ call = [t \in AllTasks |-> NotCalled]
      /\ results = [h \in Hosts |-> NoMetrics]
  BY DEF Init, SshInit
<1>3. TypeInv
  BY <1>1 DEF Init, SshInit, TypeInv
<1>4. \A t \in AllTasks : call[t].at = "idle"
  BY <1>1, <1>2
<1>5. PhaseInv
  BY <1>2, <1>4 DEF PhaseInv, UnderWay
<1>6. SlotInv
  BY <1>2, <1>4, TasksAreTasks DEF SlotInv, UnderWay
<1>7. AskedInv
  BY <1>2 DEF AskedInv
<1> QED BY <1>3, <1>5, <1>6, <1>7 DEF IInv

(* Between two phases no call is under way.                                *)
LEMMA NothingUnderWay ==
  ASSUME IInv,
         \/ pc \notin {"sampling", "batch", "services"}
         \/ pc = "sampling" /\ Returned(Samples)
         \/ pc = "batch" /\ BatchIsOver
         \/ pc = "services" /\ Returned(ServiceTasks)
  PROVE  \A t \in AllTasks : ~UnderWay(t)
<1> SUFFICES ASSUME NEW t \in AllTasks, UnderWay(t) PROVE FALSE
  OBVIOUS
<1>1. t = Task(t.part, t.host)
  BY DEF AllTasks, Task
<1>2. CASE pc = "sampling" /\ t.part = "sample" /\ t.host \in AllHosts
  BY <1>1, <1>2 DEF Samples, Returned, UnderWay
<1>3. CASE pc = "batch" /\ t.part = "batch" /\ t.host \in AllHosts
  BY <1>1, <1>3 DEF BatchIsOver, UnderWay
<1>4. CASE pc = "services" /\ t \in ServiceTasks
  BY <1>4 DEF Returned, UnderWay
<1> QED BY <1>2, <1>3, <1>4 DEF IInv, PhaseInv

(* Steps of the run that start no call.                                    *)
LEMMA PhaseStepsInv ==
  ASSUME IInv,
         \/ Load \/ NoAuthMethod \/ Cancel \/ HostsReported \/ ReportAll
         \/ Abort /\ \A t \in AllTasks : ~UnderWay(t)
  PROVE  IInv'
<1>1. /\ dep' = dep /\ call' = call /\ orphans' = orphans
      /\ results' = results /\ services' = services /\ answers' = answers
  BY DEF Load, NoAuthMethod, Cancel, HostsReported, ReportAll, Abort
<1>2. TypeInv'
  BY <1>1 DEF IInv, TypeInv
<1>3. \/ pc = "config" /\ pc' \in {"failed", "loaded"}
      \/ pc = "loaded" /\ pc' = "failed"
      \/ pc' = pc
      \/ pc = "batch" /\ pc' = "done" /\ D.mode = "hosts" /\ BatchIsOver
      \/ /\ pc = "components" /\ pc' = "done"
         /\ \A c \in Components : Deployed(c) => answers[c] # NotAsked
      \/ pc' = "aborted" /\ \A t \in AllTasks : ~UnderWay(t)
  BY DEF Load, NoAuthMethod, Cancel, HostsReported, ReportAll, Abort
<1>4. PhaseInv'
  <2>1. pc' = pc \/ \A t \in AllTasks : ~UnderWay(t)
    BY <1>3, NothingUnderWay
  <2> QED BY <1>1, <1>3, <2>1, SameDeployment DEF IInv, PhaseInv, UnderWay
<1>5. SlotInv'
  BY <1>1, <1>3, SameDeployment DEF IInv, SlotInv, PhaseInv, UnderWay
<1>6. AskedInv'
  BY <1>1, <1>3, SameDeployment DEF IInv, AskedInv, PhaseInv
<1> QED BY <1>2, <1>4, <1>5, <1>6 DEF IInv

LEMMA StartComponentsInv ==
  ASSUME IInv, pc = "services", Returned(ServiceTasks), pc' = "components",
         UNCHANGED <<dep, call, orphans, results, services, answers>>
  PROVE  IInv'
<1>1. TypeInv'
  BY DEF IInv, TypeInv
<1>2. \A t \in AllTasks : ~UnderWay(t)
  BY NothingUnderWay
<1>3. PhaseInv'
  BY <1>2, SameDeployment DEF IInv, PhaseInv, UnderWay
<1>4. SlotInv'
  BY SameDeployment DEF IInv, SlotInv, UnderWay
<1>5. AskedInv'
  BY SameDeployment DEF AskedInv, Returned
<1> QED BY <1>1, <1>3, <1>4, <1>5 DEF IInv

LEMMA CollectComponentInv ==
  ASSUME IInv, NEW c \in Components, CollectComponent(c)
  PROVE  IInv'
<1>1. PICK a : answers' = [answers EXCEPT ![c] = a]
  BY DEF CollectComponent
<1>2. UNCHANGED <<dep, pc, call, orphans, results, services>> /\ pc = "components"
  BY DEF CollectComponent
<1>3. TypeInv'
  BY <1>1, <1>2 DEF IInv, TypeInv
<1>4. PhaseInv' /\ SlotInv' /\ AskedInv'
  BY <1>2, SameDeployment DEF IInv, PhaseInv, SlotInv, AskedInv, UnderWay
<1> QED BY <1>3, <1>4 DEF IInv

-----------------------------------------------------------------------------
(* Steps that start the calls of a phase.                                  *)
LEMMA StartSamplingInv ==
  ASSUME IInv, StartSampling
  PROVE  IInv'
<1>1. \A t \in AllTasks : ~UnderWay(t)
  BY NothingUnderWay DEF StartSampling
<1>2. CASE Abort
  BY <1>1, <1>2, PhaseStepsInv
<1>3. CASE ~cancelled
  <2>1. /\ pc = "loaded" /\ pc' = "sampling" /\ Start(Samples)
        /\ UNCHANGED <<dep, orphans, results, services, answers>>
    BY <1>3 DEF StartSampling, Abort
  <2>2. TypeInv /\ Samples \subseteq AllTasks
    BY StartedSets DEF IInv
  <2>3. /\ call' \in [AllTasks -> Calls]
        /\ \A t \in Samples : call'[t].at = "dialing"
        /\ \A t \in AllTasks \ Samples : call'[t] = call[t]
    BY <2>1, <2>2, StartEffect DEF TypeInv
  <2>4. TypeInv'
    BY <2>1, <2>2, <2>3 DEF TypeInv
  <2>5. \A t \in AllTasks : t \in Samples <=> t.part = "sample" /\ t.host \in AllHosts
    BY <2>2, StartedSets
  <2>6. PhaseInv'
    BY <1>1, <2>1, <2>3, <2>5, SameDeployment, Parts DEF IInv, PhaseInv, UnderWay
  <2>7. SlotInv'
    <3>1. \A h \in Hosts : call[Task("sample", h)].at = "idle" /\ call'[Task("batch", h)].at = "idle"
      BY <2>1, <2>3, <2>5, TasksAreTasks, TaskFields DEF IInv, PhaseInv
    <3> QED BY <2>1, <3>1 DEF IInv, SlotInv, UnderWay
  <2>8. AskedInv'
    BY <2>1 DEF AskedInv
  <2> QED BY <2>4, <2>6, <2>7, <2>8 DEF IInv
<1> QED BY <1>2, <1>3 DEF StartSampling

LEMMA StartBatchInv ==
  ASSUME IInv, StartBatch
  PROVE  IInv'
<1> DEFINE Batch == {Task("batch", h) : h \in Reachable}
<1>1. /\ pc = "sampling" /\ Returned(Samples) /\ pc' = "batch" /\ Start(Batch)
      /\ UNCHANGED <<dep, orphans, results, services, answers>>
  BY DEF StartBatch
<1>2. \A t \in AllTasks : ~UnderWay(t)
  BY <1>1, NothingUnderWay
<1>3. Reachable \subseteq AllHosts
  BY DEF Reachable
<1>4. /\ TypeInv /\ Batch \subseteq AllTasks
      /\ \A t \in AllTasks : t \in Batch <=> t.part = "batch" /\ t.host \in Reachable
  BY <1>3, StartedSets DEF IInv
<1>5. /\ call' \in [AllTasks -> Calls]
      /\ \A t \in Batch : call'[t].at = "dialing"
      /\ \A t \in AllTasks \ Batch : call'[t] = call[t]
  BY <1>1, <1>4, StartEffect DEF TypeInv
<1> HIDE DEF Batch
<1>6. TypeInv'
  BY <1>1, <1>4, <1>5 DEF TypeInv
<1>7. PhaseInv'
  BY <1>1, <1>2, <1>3, <1>4, <1>5, SameDeployment, Parts DEF IInv, PhaseInv, UnderWay
<1>8. AllHosts \subseteq Hosts
  BY <1>4, HostsAreHosts DEF TypeInv
<1>9. SlotInv'
  <2>1. \A h \in Hosts : call'[Task("sample", h)] = call[Task("sample", h)]
    BY <1>4, <1>5, TasksAreTasks, TaskFields
  <2>2. \A h \in Hosts : call[Task("batch", h)].at = "idle"
    BY <1>1, TasksAreTasks, TaskFields DEF IInv, PhaseInv
  <2>3. \A h \in Hosts \ Reachable : call'[Task("batch", h)].at = "idle"
    BY <1>4, <1>5, <2>2, TasksAreTasks, TaskFields
  <2>4. \A h \in Reachable : /\ call'[Task("batch", h)].at = "dialing"
                             /\ call[Task("sample", h)].at = "returned"
    BY <1>1, <1>3, <1>4, <1>5, <1>8, TasksAreTasks, TaskFields DEF Returned, Samples
  <2> QED BY <1>1, <1>3, <1>8, <2>1, <2>3, <2>4, SameDeployment DEF IInv, SlotInv, UnderWay, Reachable
<1>10. AskedInv'
  BY <1>1 DEF AskedInv
<1> QED BY <1>6, <1>7, <1>9, <1>10 DEF IInv

LEMMA StartServicesInv ==
  ASSUME IInv, StartServices
  PROVE  IInv'
<1>1. \A t \in AllTasks : ~UnderWay(t)
  BY NothingUnderWay DEF StartServices
<1>2. CASE Abort
  BY <1>1, <1>2, PhaseStepsInv
<1>3. CASE ~cancelled
  <2>1. /\ pc = "batch" /\ D.mode = "all" /\ pc' = "services" /\ Start(ServiceTasks)
        /\ UNCHANGED <<dep, orphans, results, services, answers>>
    BY <1>3 DEF StartServices, Abort
  <2>2. /\ TypeInv /\ ServiceTasks \subseteq AllTasks
        /\ \A t \in ServiceTasks : t.part \in ModuleKeys
    BY StartedSets DEF IInv
  <2>3. /\ call' \in [AllTasks -> Calls]
        /\ \A t \in ServiceTasks : call'[t].at = "dialing"
        /\ \A t \in AllTasks \ ServiceTasks : call'[t] = call[t]
    BY <2>1, <2>2, StartEffect DEF TypeInv
  <2>4. TypeInv'
    BY <2>1, <2>2, <2>3 DEF TypeInv
  <2>5. PhaseInv'
    BY <1>1, <2>1, <2>2, <2>3, SameDeployment DEF IInv, PhaseInv, UnderWay
  <2>6. SlotInv'
    <3>1. \A h \in Hosts : /\ call'[Task("sample", h)] = call[Task("sample", h)]
                           /\ call'[Task("batch", h)] = call[Task("batch", h)]
      BY <2>2, <2>3, TasksAreTasks, TaskFields, Parts
    <3>2. AllHosts \subseteq Hosts
      BY <2>2, HostsAreHosts DEF TypeInv
    <3> QED BY <2>1, <3>1, <3>2, SameDeployment DEF IInv, SlotInv, UnderWay
  <2>7. AskedInv'
    BY <2>1 DEF AskedInv
  <2> QED BY <2>4, <2>5, <2>6, <2>7 DEF IInv
<1> QED BY <1>2, <1>3 DEF StartServices

-----------------------------------------------------------------------------
(* Steps of the goroutines.                                                *)
LEMMA MiddleInv ==
  ASSUME IInv, NEW t \in AllTasks, SshStep(t) \/ ExpireStep(t)
  PROVE  IInv'
<1>1. /\ UnderWay(t) /\ UnderWay(t)' /\ call' \in [AllTasks -> Calls]
      /\ \A u \in AllTasks \ {t} : call'[u] = call[u]
      /\ orphans' = orphans
      /\ UNCHANGED <<dep, pc, cancelled, results, services, answers, late>>
  BY MiddleEffect DEF IInv
<1>2. TypeInv'
  BY <1>1 DEF IInv, TypeInv
<1>3. PhaseInv'
  BY <1>1, SameDeployment DEF IInv, PhaseInv, UnderWay
<1>4. SlotInv'
  <2>1. \A u \in AllTasks : /\ call'[u].at = "returned" <=> call[u].at = "returned"
                           /\ call'[u].at = "idle" <=> call[u].at = "idle"
    BY <1>1 DEF UnderWay
  <2>2. AllHosts \subseteq Hosts
    BY HostsAreHosts DEF IInv, TypeInv
  <2> QED BY <1>1, <2>1, <2>2, SameDeployment, TasksAreTasks DEF IInv, SlotInv, UnderWay
<1>5. AskedInv'
  <2>1. \A u \in ServiceTasks : call[u].at = "returned" => call'[u].at = "returned"
    BY <1>1 DEF UnderWay, ServiceTasks
  <2> QED BY <1>1, <2>1, SameDeployment DEF IInv, AskedInv
<1> QED BY <1>2, <1>3, <1>4, <1>5 DEF IInv

LEMMA LateInv ==
  ASSUME IInv, NEW t \in AllTasks, LateStep(t)
  PROVE  IInv'
<1>1. /\ orphans' \subseteq orphans
      /\ UNCHANGED <<call, dep, pc, cancelled, results, services, answers, late>>
  BY DEF LateStep, LateAnswer
<1>2. TypeInv'
  BY <1>1 DEF IInv, TypeInv
<1>3. PhaseInv' /\ SlotInv' /\ AskedInv'
  BY <1>1, SameDeployment DEF IInv, PhaseInv, SlotInv, AskedInv, UnderWay
<1> QED BY <1>2, <1>3 DEF IInv

(* A goroutine ends: its call was under way in its phase, and it writes    *)
(* no slot but its own.                                                    *)
LEMMA ReturnsInv ==
  ASSUME IInv, NEW t \in AllTasks, Returns(t),
         UNCHANGED <<dep, pc, answers>>,
         services' = [u \in AllTasks |-> services'[u]],
         results' = [h \in Hosts |-> results'[h]],
         \A h \in Hosts : results'[h] # results[h] => t.host = h /\ t.part \in {"sample", "batch"}
  PROVE  IInv'
<1>1. /\ UnderWay(t) /\ call' \in [AllTasks -> Calls]
      /\ call'[t].at = "returned"
      /\ \A u \in AllTasks \ {t} : call'[u] = call[u]
      /\ orphans' \subseteq AllTasks
  BY ReturnsEffect DEF IInv, TypeInv
<1>2. TypeInv'
  BY <1>1 DEF IInv, TypeInv
<1>3. PhaseInv'
  BY <1>1, SameDeployment, Parts DEF IInv, PhaseInv, UnderWay
<1>4. AskedInv'
  <2>1. \A u \in ServiceTasks : call[u].at = "returned" => call'[u].at = "returned"
    BY <1>1 DEF ServiceTasks
  <2> QED BY <2>1, SameDeployment DEF IInv, AskedInv
<1>5. SlotInv'
  <2>1. \A h \in Hosts : call'[Task("sample", h)].at # "returned" => results'[h] = NoMetrics
    <3> SUFFICES ASSUME NEW h \in Hosts, call'[Task("sample", h)].at # "returned"
                 PROVE  results'[h] = NoMetrics
      OBVIOUS
    <3>1. Task("sample", h) # t /\ call[Task("sample", h)].at # "returned"
      BY <1>1, TasksAreTasks
    <3>2. results[h] = NoMetrics
      BY <3>1 DEF IInv, SlotInv
    <3>3. ASSUME results'[h] # results[h] PROVE FALSE
      <4>1. t = Task("batch", h)
        BY <3>1, <3>3 DEF AllTasks, Task
      <4> QED BY <1>1, <3>1, <4>1 DEF IInv, SlotInv
    <3> QED BY <3>2, <3>3
  <2>2. ASSUME NEW h \in Hosts, UnderWay(Task("batch", h))'
        PROVE  results'[h].error = "" /\ call'[Task("sample", h)].at = "returned"
    <3>1. Task("batch", h) # t
      BY <1>1, <2>2 DEF UnderWay
    <3>2. UnderWay(Task("batch", h))
      BY <1>1, <2>2, <3>1, TasksAreTasks DEF UnderWay
    <3>3. Task("sample", h) # t
      BY <1>1, <3>2 DEF IInv, SlotInv, UnderWay
    <3>4. t.host # h \/ t.part \notin {"sample", "batch"}
      BY <3>1, <3>3 DEF AllTasks, Task
    <3> QED BY <1>1, <3>2, <3>3, <3>4, TasksAreTasks DEF IInv, SlotInv
  <2>3. ASSUME pc \in {"batch", "services", "components", "done"}, NEW h \in AllHosts,
               call'[Task("batch", h)].at = "idle"
        PROVE  results'[h].error # ""
    <3>1. h \in Hosts
      BY HostsAreHosts DEF IInv, TypeInv
    <3>2. Task("batch", h) # t /\ call[Task("batch", h)].at = "idle"
      BY <1>1, <2>3, <3>1, TasksAreTasks
    <3>3. t.part # "sample"
      BY <1>1, <2>3, Parts DEF IInv, PhaseInv, ServiceTasks
    <3>4. results'[h] = results[h]
      BY <3>1, <3>2, <3>3 DEF AllTasks, Task
    <3> QED BY <2>3, <3>2, <3>4 DEF IInv, SlotInv
  <2> QED BY <2>1, <2>2, <2>3, SameDeployment DEF SlotInv
<1> QED BY <1>2, <1>3, <1>4, <1>5 DEF IInv

LEMMA ReturnsFacts ==
  ASSUME IInv, NEW t \in AllTasks, Returns(t)
  PROVE  /\ t.part = "sample" => pc = "sampling" /\ t.host \in AllHosts /\ t.host \in Hosts
         /\ t.part = "batch" => pc = "batch" /\ t.host \in AllHosts /\ t.host \in Hosts
         /\ t.part \in ModuleKeys => pc = "services" /\ t \in ServiceTasks
<1>1. UnderWay(t)
  BY ReturnsEffect DEF IInv, TypeInv
<1> QED BY <1>1, HostsAreHosts, Parts DEF IInv, PhaseInv, TypeInv, ServiceTasks

LEMMA SampleDoneInv ==
  ASSUME IInv, NEW h \in Hosts, SampleDone(h)
  PROVE  IInv'
<1>1. Returns(Task("sample", h)) /\ UNCHANGED <<dep, pc, answers, services>>
  BY DEF SampleDone
<1>2. results' = results \/ results' = [results EXCEPT ![h].error = "ssh"]
  BY DEF SampleDone
<1>3. services' = [u \in AllTasks |-> services'[u]] /\ results' = [g \in Hosts |-> results'[g]]
  BY <1>1, <1>2 DEF IInv, TypeInv
<1>4. \A g \in Hosts : results'[g] # results[g] => g = h
  BY <1>2 DEF IInv, TypeInv
<1> QED BY <1>1, <1>3, <1>4, ReturnsInv, TasksAreTasks, TaskFields

LEMMA BatchDoneInv ==
  ASSUME IInv, NEW h \in Hosts, BatchDone(h)
  PROVE  IInv'
<1>1. Returns(Task("batch", h)) /\ UNCHANGED <<dep, pc, answers, services>>
  BY DEF BatchDone
<1>2. PICK m : results' = [results EXCEPT ![h] = m]
  BY DEF BatchDone
<1>3. services' = [u \in AllTasks |-> services'[u]] /\ results' = [g \in Hosts |-> results'[g]]
  BY <1>1, <1>2 DEF IInv, TypeInv
<1>4. \A g \in Hosts : results'[g] # results[g] => g = h
  BY <1>2 DEF IInv, TypeInv
<1> QED BY <1>1, <1>3, <1>4, ReturnsInv, TasksAreTasks, TaskFields

LEMMA ServiceDoneInv ==
  ASSUME IInv, NEW t \in AllTasks, ServiceDone(t)
  PROVE  IInv'
<1>1. Returns(t) /\ UNCHANGED <<dep, pc, answers, results>> /\ t.part \in ModuleKeys
  BY DEF ServiceDone
<1>2. PICK m : services' = [services EXCEPT ![t] = m]
  BY DEF ServiceDone
<1>3. services' = [u \in AllTasks |-> services'[u]] /\ results' = [g \in Hosts |-> results'[g]]
  BY <1>1, <1>2 DEF IInv, TypeInv
<1> QED BY <1>1, <1>3, ReturnsInv

LEMMA NextInv == IInv /\ [Next]_vars => IInv'
<1> SUFFICES ASSUME IInv, [Next]_vars PROVE IInv'
  OBVIOUS
<1>1. CASE UNCHANGED vars
  <2>1. TypeInv'
    BY <1>1 DEF IInv, TypeInv, vars
  <2> QED BY <1>1, <2>1, SameDeployment DEF IInv, PhaseInv, SlotInv, AskedInv, UnderWay, vars
<1>2. CASE Load \/ NoAuthMethod \/ HostsReported \/ ReportAll \/ Cancel
  BY <1>2, PhaseStepsInv
<1>3. CASE StartSampling
  BY <1>3, StartSamplingInv
<1>4. CASE StartBatch
  BY <1>4, StartBatchInv
<1>5. CASE StartServices
  BY <1>5, StartServicesInv
<1>6. CASE StartComponents
  <2>1. \A t \in AllTasks : ~UnderWay(t)
    BY <1>6, NothingUnderWay DEF StartComponents
  <2> QED BY <1>6, <2>1, PhaseStepsInv, StartComponentsInv DEF StartComponents
<1>7. ASSUME NEW c \in Components, CollectComponent(c) PROVE IInv'
  BY <1>7, CollectComponentInv
<1>8. ASSUME NEW t \in AllTasks, SshStep(t) \/ ExpireStep(t) PROVE IInv'
  BY <1>8, MiddleInv
<1>9. ASSUME NEW t \in AllTasks, LateStep(t) PROVE IInv'
  BY <1>9, LateInv
<1>10. ASSUME NEW t \in AllTasks, TaskDone(t) PROVE IInv'
  <2>1. t.host \in Hosts
    BY DEF AllTasks
  <2> QED BY <1>10, <2>1, SampleDoneInv, BatchDoneInv, ServiceDoneInv DEF TaskDone
<1> QED BY <1>1, <1>2, <1>3, <1>4, <1>5, <1>6, <1>7, <1>8, <1>9, <1>10 DEF Next, RunStep

LEMMA AlwaysIInv == Spec => []IInv
BY InitInv, NextInv, PTL DEF Spec

-----------------------------------------------------------------------------
(* There is no context to cancel before the configuration is read.         *)
NotCancelledYet == pc = "config" => ~cancelled

LEMMA AlwaysNotCancelledYet == Spec => []NotCancelledYet
<1>1. Init => NotCancelledYet
  BY DEF Init, NotCancelledYet
<1>2. NotCancelledYet /\ [Next]_vars => NotCancelledYet'
  <2> SUFFICES ASSUME NotCancelledYet, [Next]_vars PROVE NotCancelledYet'
    OBVIOUS
  <2>1. CASE UNCHANGED vars
    BY <2>1 DEF vars, NotCancelledYet
  <2>2. CASE RunStep
    BY <2>2 DEF RunStep, Load, NoAuthMethod, StartSampling, StartBatch, HostsReported,
       StartServices, StartComponents, ReportAll, CollectComponent, Abort, NotCancelledYet
  <2>3. CASE Cancel
    BY <2>3 DEF Cancel, NotCancelledYet
  <2>4. ASSUME NEW t \in AllTasks, SshStep(t) \/ ExpireStep(t) \/ LateStep(t) \/ TaskDone(t)
        PROVE  UNCHANGED <<pc, cancelled>>
    BY <2>4 DEF SshStep, ExpireStep, LateStep, TaskDone, SampleDone, BatchDone, ServiceDone
  <2> QED BY <2>1, <2>2, <2>3, <2>4 DEF Next, NotCancelledYet
<1> QED BY <1>1, <1>2, PTL DEF Spec

(* A cancelled inspection begins no further phase: a step after the        *)
(* cancellation leaves the phase, makes the second pass over the hosts,    *)
(* or ends the inspection (Run looks at its context before each phase).    *)
THEOREM CancelStopsPhases == Spec => CancelStops
<1>1. NotCancelledYet /\ [Next]_vars =>
        [cancelled => pc' \in {pc, "batch", "done", "aborted", "failed"}]_vars
  <2> SUFFICES ASSUME NotCancelledYet, Next, cancelled
               PROVE  pc' \in {pc, "batch", "done", "aborted", "failed"}
    OBVIOUS
  <2>1. CASE RunStep
    BY <2>1 DEF RunStep, Load, NoAuthMethod, StartSampling, StartBatch, HostsReported,
       StartServices, StartComponents, ReportAll, CollectComponent, Abort, NotCancelledYet
  <2>2. CASE Cancel
    BY <2>2 DEF Cancel
  <2>3. ASSUME NEW t \in AllTasks, SshStep(t) \/ ExpireStep(t) \/ LateStep(t) \/ TaskDone(t)
        PROVE  pc' = pc
    BY <2>3 DEF SshStep, ExpireStep, LateStep, TaskDone, SampleDone, BatchDone, ServiceDone
  <2> QED BY <2>1, <2>2, <2>3 DEF Next
<1> QED BY <1>1, AlwaysNotCancelledYet, PTL DEF Spec, CancelStops

-----------------------------------------------------------------------------
(* The verdicts.                                                           *)
LEMMA TargetsAreTargets ==
  /\ \A h \in Hosts : Task("batch", h) \in AllTargets
  /\ \A t \in AllTasks : t.part \in ModuleKeys => t \in AllTargets
  /\ \A c \in Components : Task(c, NoNode) \in AllTargets
  BY DEF Task, AllTasks, AllTargets

LEMMA VerdictOf ==
  /\ \A h \in Hosts : Verdict[Task("batch", h)] = HostVerdict(h)
  /\ \A t \in AllTasks : t.part \in ModuleKeys => Verdict[t] = ServiceVerdict(t)
  /\ \A c \in Components :
       Verdict[Task(c, NoNode)] = IF answers[c] = NotAsked THEN "open" ELSE "seen"
  BY TargetsAreTargets, Parts, TaskFields DEF Verdict

LEMMA NextVerdictOf ==
  /\ \A h \in Hosts : Verdict'[Task("batch", h)] = HostVerdict(h)'
  /\ \A t \in AllTasks : t.part \in ModuleKeys => Verdict'[t] = ServiceVerdict(t)'
  /\ \A c \in Components :
       Verdict'[Task(c, NoNode)] = IF answers'[c] = NotAsked THEN "open" ELSE "seen"
  BY TargetsAreTargets, Parts, TaskFields DEF Verdict

LEMMA TargetKinds ==
  ASSUME NEW t \in AllTargets
  PROVE  \/ t.part = "batch" /\ t.host \in Hosts /\ t = Task("batch", t.host)
         \/ t.part \in ModuleKeys /\ t \in AllTasks
         \/ t.part \in Components /\ t = Task(t.part, NoNode)
  BY DEF AllTargets, AllTasks, Task

LEMMA SameVerdict ==
  ASSUME answers' = answers,
         \A h \in Hosts : HostVerdict(h)' = HostVerdict(h),
         \A t \in AllTasks : t.part \in ModuleKeys => ServiceVerdict(t)' = ServiceVerdict(t)
  PROVE  Verdict' = Verdict
<1>1. \A t \in AllTargets : Verdict'[t] = Verdict[t]
  BY VerdictOf, NextVerdictOf, TargetKinds, Parts, TaskFields
<1> QED BY <1>1 DEF Verdict

LEMMA SameWanted == ASSUME dep' = dep PROVE Wanted' = Wanted
  BY SameDeployment DEF Wanted

LEMMA WantedAreTargets == ASSUME dep \in DOMAIN Deployments PROVE Wanted \subseteq AllTargets
  BY HostsAreHosts DEF Wanted, AllTargets, ServiceTasks, AllTasks, Task

LEMMA JudgeStep ==
  ASSUME NEW t \in AllTargets, t \in Wanted, dep' = dep, Outcome = "none", Outcome' = Outcome,
         Verdict[t] = "open", Verdict'[t] \in {"seen", "failed"},
         \A u \in AllTargets \ {t} : Verdict'[u] = Verdict[u]
  PROVE  Promise!Next
<1>1. Verdict' = [Verdict EXCEPT ![t] = Verdict'[t]]
  BY DEF Verdict
<1>2. Promise!Judge(t)
  BY <1>1, SameWanted DEF Promise!Judge
<1> QED BY <1>2 DEF Promise!Next

LEMMA QuietStep ==
  ASSUME dep' = dep, Outcome' = Outcome, answers' = answers, results' = results,
         \A h \in Hosts : call'[Task("batch", h)].at = "returned"
                           <=> call[Task("batch", h)].at = "returned",
         \A t \in AllTasks : t.part \in ModuleKeys =>
           /\ call'[t].at = "returned" <=> call[t].at = "returned"
           /\ services'[t] = services[t]
  PROVE  UNCHANGED Promise!vars
<1>1. Verdict' = Verdict
  BY SameVerdict DEF HostVerdict, ServiceVerdict
<1> QED BY <1>1, SameWanted DEF Promise!vars

LEMMA GiveUpStep ==
  ASSUME dep' = dep, Outcome = "none", Outcome' = "error",
         UNCHANGED <<answers, results, call, services>>
  PROVE  Promise!Next
<1>1. Verdict' = Verdict
  BY SameVerdict DEF HostVerdict, ServiceVerdict
<1> QED BY <1>1, SameWanted DEF Promise!Next, Promise!GiveUp

(* A report leaves no target out.                                          *)
LEMMA ReportStep ==
  ASSUME IInv, HostsReported \/ ReportAll
  PROVE  Promise!Next
<1>1. /\ dep' = dep /\ Outcome = "none" /\ Outcome' = "report"
      /\ UNCHANGED <<answers, results, call, services>>
  BY DEF HostsReported, ReportAll, Outcome
<1>2. Verdict' = Verdict
  BY <1>1, SameVerdict DEF HostVerdict, ServiceVerdict
<1>3. AllHosts \subseteq Hosts
  BY HostsAreHosts DEF IInv, TypeInv
<1>4. \A h \in AllHosts : Verdict[Task("batch", h)] # "open"
  <2> TAKE h \in AllHosts
  <2>1. ~UnderWay(Task("batch", h))
    BY <1>3, NothingUnderWay, TasksAreTasks DEF HostsReported, ReportAll
  <2>2. results[h].error # "" \/ call[Task("batch", h)].at = "returned"
    BY <2>1 DEF UnderWay, IInv, SlotInv, HostsReported, ReportAll
  <2> QED BY <1>3, <2>2, VerdictOf DEF HostVerdict
<1>5. \A t \in Wanted : Verdict[t] # "open"
  <2>1. CASE HostsReported
    BY <1>4, <2>1 DEF Wanted, HostsReported
  <2>2. CASE ReportAll
    <3>1. \A t \in ServiceTasks : Verdict[t] # "open"
      BY <2>2, VerdictOf DEF ServiceTasks, ServiceVerdict, IInv, AskedInv, ReportAll
    <3>2. \A c \in Components : Deployed(c) => Verdict[Task(c, NoNode)] # "open"
      BY <2>2, VerdictOf DEF ReportAll
    <3> QED BY <1>4, <3>1, <3>2 DEF Wanted
  <2> QED BY <2>1, <2>2
<1>6. Promise!Report
  BY <1>1, <1>2, <1>5, SameWanted DEF Promise!Report
<1> QED BY <1>6 DEF Promise!Next

LEMMA ErrorOfNoMetrics ==
  NoMetrics.error = "" /\ [NoMetrics EXCEPT !.error = "ssh"].error = "ssh"
  BY DEF NoMetrics

(* A failed first call is the verdict on its host.                         *)
LEMMA SampleDoneStep ==
  ASSUME IInv, NEW h \in Hosts, SampleDone(h)
  PROVE  [Promise!Next]_Promise!vars
<1> DEFINE t == Task("sample", h)
           b == Task("batch", h)
<1>1. /\ Returns(t) /\ t \in AllTasks /\ b \in AllTasks
      /\ dep' = dep /\ pc' = pc /\ answers' = answers /\ services' = services
  BY TasksAreTasks DEF SampleDone
<1>2. /\ UnderWay(t) /\ \A u \in AllTasks \ {t} : call'[u] = call[u]
      /\ pc = "sampling" /\ h \in AllHosts
  BY <1>1, ReturnsEffect, ReturnsFacts, TaskFields DEF IInv, TypeInv
<1>3. \A u \in AllTasks : u.part # "sample" => call'[u] = call[u]
  BY <1>2, TaskFields
<1>4. Outcome = "none" /\ Outcome' = "none"
  BY <1>1, <1>2 DEF Outcome
<1>5. CASE results' = results
  BY <1>1, <1>3, <1>4, <1>5, QuietStep, TasksAreTasks, TaskFields, Parts
<1>6. CASE results' = [results EXCEPT ![h].error = "ssh"]
  <2>1. results[h] = NoMetrics /\ call[b].at = "idle"
    <3>1. results[h] = NoMetrics
      BY <1>2 DEF IInv, SlotInv, UnderWay
    <3>2. b.part # "sample"
      BY TaskFields
    <3>3. call[b].at = "idle"
      BY <1>1, <1>2, <3>2 DEF IInv, PhaseInv
    <3> QED BY <3>1, <3>3
  <2>2. results'[h].error = "ssh" /\ \A g \in Hosts \ {h} : results'[g] = results[g]
    BY <1>6, <2>1, ErrorOfNoMetrics DEF IInv, TypeInv
  <2>3. Verdict[b] = "open" /\ Verdict'[b] = "failed" /\ b \in AllTargets /\ b \in Wanted
    <3>1. HostVerdict(h) = "open"
      BY <2>1, ErrorOfNoMetrics DEF HostVerdict
    <3>2. HostVerdict(h)' = "failed"
      BY <2>2 DEF HostVerdict
    <3>3. b \in AllTargets /\ b \in Wanted
      BY <1>2, TargetsAreTargets DEF Wanted
    <3> QED BY <3>1, <3>2, <3>3, VerdictOf, NextVerdictOf
  <2>4. \A u \in AllTargets \ {b} : Verdict'[u] = Verdict[u]
    <3> SUFFICES ASSUME NEW u \in AllTargets \ {b} PROVE Verdict'[u] = Verdict[u]
      OBVIOUS
    <3>1. CASE u.part = "batch"
      <4>1. u = Task("batch", u.host) /\ u.host \in Hosts \ {h}
        BY <3>1, TargetKinds, Parts
      <4>2. call'[u] = call[u] /\ results'[u.host] = results[u.host]
        BY <1>3, <2>2, <3>1, <4>1, TasksAreTasks
      <4>3. HostVerdict(u.host)' = HostVerdict(u.host)
        BY <4>1, <4>2 DEF HostVerdict
      <4> QED BY <4>1, <4>3, VerdictOf, NextVerdictOf
    <3>2. CASE u.part \in ModuleKeys
      BY <1>1, <1>3, <3>2, TargetKinds, VerdictOf, NextVerdictOf, Parts DEF ServiceVerdict
    <3>3. CASE u.part \in Components
      BY <1>1, <3>3, TargetKinds, VerdictOf, NextVerdictOf, Parts
    <3> QED BY <3>1, <3>2, <3>3, TargetKinds
  <2> QED BY <1>1, <1>4, <2>3, <2>4, JudgeStep
<1> QED BY <1>5, <1>6 DEF SampleDone

(* The second call is the verdict on a host that passed the first.         *)
LEMMA BatchDoneStep ==
  ASSUME IInv, NEW h \in Hosts, BatchDone(h)
  PROVE  Promise!Next
<1> DEFINE b == Task("batch", h)
<1>1. /\ Returns(b) /\ b \in AllTasks /\ b.part = "batch" /\ b.host = h
      /\ dep' = dep /\ pc' = pc /\ answers' = answers /\ services' = services
  BY TasksAreTasks, TaskFields DEF BatchDone
<1>2. /\ UnderWay(b) /\ \A u \in AllTasks \ {b} : call'[u] = call[u]
      /\ call'[b].at = "returned" /\ pc = "batch" /\ h \in AllHosts
  BY <1>1, ReturnsEffect, ReturnsFacts DEF IInv, TypeInv
<1>3. Outcome = "none" /\ Outcome' = "none"
  BY <1>1, <1>2 DEF Outcome
<1>4. PICK m : results' = [results EXCEPT ![h] = m]
  BY DEF BatchDone
<1>5. \A g \in Hosts \ {h} : results'[g] = results[g]
  BY <1>4 DEF IInv, TypeInv
<1>6. HostVerdict(h) = "open"
  BY <1>2 DEF HostVerdict, UnderWay, IInv, SlotInv
<1>7. HostVerdict(h)' \in {"seen", "failed"}
  BY <1>2 DEF HostVerdict
<1>8. b \in AllTargets /\ b \in Wanted
  BY <1>2, TargetsAreTargets DEF Wanted
<1>9. \A u \in AllTargets \ {b} : Verdict'[u] = Verdict[u]
  <2> SUFFICES ASSUME NEW u \in AllTargets \ {b} PROVE Verdict'[u] = Verdict[u]
    OBVIOUS
  <2>1. CASE u.part = "batch"
    <3>1. u = Task("batch", u.host) /\ u.host \in Hosts \ {h}
      BY <2>1, TargetKinds, Parts
    <3>2. call'[u] = call[u] /\ results'[u.host] = results[u.host]
      BY <1>2, <1>5, <3>1, TasksAreTasks
    <3>3. HostVerdict(u.host)' = HostVerdict(u.host)
      BY <3>1, <3>2 DEF HostVerdict
    <3> QED BY <3>1, <3>3, VerdictOf, NextVerdictOf
  <2>2. CASE u.part \in ModuleKeys
    BY <1>1, <1>2, <2>2, TargetKinds, VerdictOf, NextVerdictOf, Parts DEF ServiceVerdict
  <2>3. CASE u.part \in Components
    BY <1>1, <2>3, TargetKinds, VerdictOf, NextVerdictOf, Parts
  <2> QED BY <2>1, <2>2, <2>3, TargetKinds
<1> QED BY <1>1, <1>3, <1>6, <1>7, <1>8, <1>9, JudgeStep, VerdictOf, NextVerdictOf

LEMMA ServiceDoneStep ==
  ASSUME IInv, NEW t \in AllTasks, ServiceDone(t)
  PROVE  Promise!Next
<1>1. /\ Returns(t) /\ t.part \in ModuleKeys
      /\ dep' = dep /\ pc' = pc /\ answers' = answers /\ results' = results
  BY DEF ServiceDone
<1>2. /\ UnderWay(t) /\ \A u \in AllTasks \ {t} : call'[u] = call[u]
      /\ call'[t].at = "returned" /\ pc = "services" /\ t \in ServiceTasks
  BY <1>1, ReturnsEffect, ReturnsFacts DEF IInv, TypeInv
<1>3. Outcome = "none" /\ Outcome' = "none"
  BY <1>1, <1>2 DEF Outcome
<1>4. PICK m : services' = [services EXCEPT ![t] = m]
  BY DEF ServiceDone
<1>5. \A u \in AllTasks \ {t} : services'[u] = services[u]
  BY <1>4 DEF IInv, TypeInv
<1>6. ServiceVerdict(t) = "open"
  BY <1>2 DEF ServiceVerdict, UnderWay
<1>7. ServiceVerdict(t)' \in {"seen", "failed"}
  BY <1>2 DEF ServiceVerdict
<1>8. t \in AllTargets /\ t \in Wanted
  <2>1. D.mode # "hosts"
    BY <1>2 DEF IInv, PhaseInv
  <2> QED BY <1>1, <1>2, <2>1, TargetsAreTargets DEF Wanted
<1>9. \A u \in AllTargets \ {t} : Verdict'[u] = Verdict[u]
  <2> SUFFICES ASSUME NEW u \in AllTargets \ {t} PROVE Verdict'[u] = Verdict[u]
    OBVIOUS
  <2>1. CASE u.part = "batch"
    <3>1. u = Task("batch", u.host) /\ u.host \in Hosts
      BY <2>1, TargetKinds, Parts
    <3>2. call'[u] = call[u]
      BY <1>2, <3>1, TasksAreTasks
    <3>3. HostVerdict(u.host)' = HostVerdict(u.host)
      BY <1>1, <3>1, <3>2 DEF HostVerdict
    <3> QED BY <3>1, <3>3, VerdictOf, NextVerdictOf
  <2>2. CASE u.part \in ModuleKeys
    BY <1>2, <1>5, <2>2, TargetKinds, VerdictOf, NextVerdictOf, Parts DEF ServiceVerdict
  <2>3. CASE u.part \in Components
    BY <1>1, <2>3, TargetKinds, VerdictOf, NextVerdictOf, Parts
  <2> QED BY <2>1, <2>2, <2>3, TargetKinds
<1> QED BY <1>1, <1>3, <1>6, <1>7, <1>8, <1>9, JudgeStep, VerdictOf, NextVerdictOf

LEMMA CollectComponentStep ==
  ASSUME IInv, NEW c \in Components, CollectComponent(c)
  PROVE  [Promise!Next]_Promise!vars
<1> DEFINE t == Task(c, NoNode)
<1>1. PICK a : answers' = [answers EXCEPT ![c] = a]
  BY DEF CollectComponent
<1>2. /\ UNCHANGED <<dep, pc, call, results, services>> /\ pc = "components"
      /\ Deployed(c) /\ answers[c] = NotAsked
  BY DEF CollectComponent, IsNext
<1>3. Outcome = "none" /\ Outcome' = "none"
  BY <1>2 DEF Outcome
<1>4. answers'[c] = a /\ \A b \in Components \ {c} : answers'[b] = answers[b]
  BY <1>1 DEF IInv, TypeInv
<1>5. \A h \in Hosts : HostVerdict(h)' = HostVerdict(h)
  BY <1>2 DEF HostVerdict
<1>6. \A u \in AllTasks : ServiceVerdict(u)' = ServiceVerdict(u)
  BY <1>2 DEF ServiceVerdict
<1>7. CASE a = NotAsked
  <2>1. answers' = answers
    BY <1>1, <1>2, <1>7 DEF IInv, TypeInv
  <2> QED BY <1>2, <1>3, <2>1, QuietStep
<1>8. CASE a # NotAsked
  <2>1. Verdict[t] = "open" /\ Verdict'[t] = "seen"
    BY <1>2, <1>4, <1>8, VerdictOf, NextVerdictOf
  <2>2. t \in AllTargets /\ t \in Wanted
    <3>1. D.mode # "hosts"
      BY <1>2 DEF IInv, PhaseInv
    <3> QED BY <1>2, <3>1, TargetsAreTargets DEF Wanted
  <2>3. \A u \in AllTargets \ {t} : Verdict'[u] = Verdict[u]
    <3> SUFFICES ASSUME NEW u \in AllTargets \ {t} PROVE Verdict'[u] = Verdict[u]
      OBVIOUS
    <3>1. CASE u.part = "batch"
      BY <1>5, <3>1, TargetKinds, Parts, VerdictOf, NextVerdictOf
    <3>2. CASE u.part \in ModuleKeys
      BY <1>6, <3>2, TargetKinds, Parts, VerdictOf, NextVerdictOf
    <3>3. CASE u.part \in Components
      <4>1. u = Task(u.part, NoNode) /\ u.part # c
        BY <3>3, TargetKinds, Parts
      <4> QED BY <1>4, <3>3, <4>1, VerdictOf, NextVerdictOf
    <3> QED BY <3>1, <3>2, <3>3, TargetKinds
  <2> QED BY <1>2, <1>3, <2>1, <2>2, <2>3, JudgeStep
<1> QED BY <1>7, <1>8

(* The steps at the beginning of a phase and in the middle of a call       *)
(* change no verdict.                                                      *)
LEMMA StartStep ==
  ASSUME IInv, NEW ts, ts \subseteq AllTasks, Start(ts), \A t \in ts : call[t].at = "idle",
         UNCHANGED <<dep, answers, results, services>>, Outcome' = Outcome
  PROVE  UNCHANGED Promise!vars
<1>1. \A t \in AllTasks : call'[t].at = "returned" <=> call[t].at = "returned"
  BY StartEffect DEF IInv, TypeInv
<1> QED BY <1>1, QuietStep, TasksAreTasks

LEMMA StepKeepsPromise == IInv /\ [Next]_vars => [Promise!Next]_Promise!vars
<1> SUFFICES ASSUME IInv, [Next]_vars PROVE [Promise!Next]_Promise!vars
  OBVIOUS
<1>0. TypeInv
  BY DEF IInv
<1>1. CASE UNCHANGED vars
  BY <1>1, QuietStep DEF vars, Outcome
<1>2. CASE Load
  <2>1. UNCHANGED <<dep, answers, results, call, services>> /\ Outcome = "none"
    BY <1>2 DEF Load, Outcome
  <2>2. Outcome' \in {"none", "error"}
    BY <1>2 DEF Load, Outcome
  <2> QED BY <2>1, <2>2, QuietStep, GiveUpStep
<1>3. ASSUME NoAuthMethod \/ (pc \notin {"done", "aborted", "failed"} /\ Abort)
      PROVE  Promise!Next
  BY <1>3, GiveUpStep DEF NoAuthMethod, Abort, Outcome
<1>4. CASE Cancel
  BY <1>4, QuietStep DEF Cancel, Outcome
<1>5. CASE StartSampling /\ ~Abort
  <2>1. Samples \subseteq AllTasks /\ \A t \in Samples : call[t].at = "idle"
    BY <1>0, <1>5, StartedSets DEF StartSampling, IInv, PhaseInv
  <2> QED BY <1>5, <2>1, StartStep DEF StartSampling, Outcome
<1>6. CASE StartBatch
  <2> DEFINE Batch == {Task("batch", h) : h \in Reachable}
  <2>1. Batch \subseteq AllTasks /\ \A t \in Batch : t.part = "batch"
    BY <1>0, StartedSets, TaskFields DEF Reachable
  <2>2. \A t \in Batch : call[t].at = "idle"
    BY <1>6, <2>1 DEF StartBatch, IInv, PhaseInv
  <2>3. Start(Batch) /\ UNCHANGED <<dep, answers, results, services>> /\ Outcome' = Outcome
    BY <1>6 DEF StartBatch, Outcome
  <2> HIDE DEF Batch
  <2> QED BY <2>1, <2>2, <2>3, StartStep
<1>7. CASE StartServices /\ ~Abort
  <2>1. ServiceTasks \subseteq AllTasks /\ \A t \in ServiceTasks : call[t].at = "idle"
    BY <1>0, <1>7, StartedSets DEF StartServices, IInv, PhaseInv
  <2> QED BY <1>7, <2>1, StartStep DEF StartServices, Outcome
<1>8. CASE StartComponents /\ ~Abort
  BY <1>8, QuietStep DEF StartComponents, Outcome
<1>9. CASE HostsReported \/ ReportAll
  BY <1>9, ReportStep
<1>10. ASSUME NEW c \in Components, CollectComponent(c) PROVE [Promise!Next]_Promise!vars
  BY <1>10, CollectComponentStep
<1>11. ASSUME NEW t \in AllTasks, SshStep(t) \/ ExpireStep(t) PROVE UNCHANGED Promise!vars
  <2>1. /\ UnderWay(t) /\ UnderWay(t)'
        /\ \A u \in AllTasks \ {t} : call'[u] = call[u]
        /\ UNCHANGED <<dep, pc, answers, results, services>>
    BY <1>0, <1>11, MiddleEffect
  <2>2. \A u \in AllTasks : call'[u].at = "returned" <=> call[u].at = "returned"
    BY <2>1 DEF UnderWay
  <2> QED BY <2>1, <2>2, QuietStep, TasksAreTasks DEF Outcome
<1>12. ASSUME NEW t \in AllTasks, LateStep(t) PROVE UNCHANGED Promise!vars
  BY <1>12, QuietStep DEF LateStep, LateAnswer, Outcome
<1>13. ASSUME NEW t \in AllTasks, TaskDone(t) PROVE [Promise!Next]_Promise!vars
  <2>1. t.host \in Hosts
    BY DEF AllTasks
  <2> QED BY <1>13, <2>1, SampleDoneStep, BatchDoneStep, ServiceDoneStep DEF TaskDone
<1>14. CASE StartSampling \/ StartServices \/ StartComponents
  <2>1. pc \notin {"done", "aborted", "failed"}
    BY <1>14 DEF StartSampling, StartServices, StartComponents
  <2> QED BY <1>3, <1>5, <1>7, <1>8, <1>14, <2>1
<1> QED BY <1>1, <1>2, <1>3, <1>4, <1>6, <1>9, <1>10, <1>11, <1>12, <1>13, <1>14
        DEF Next, RunStep

(* An inspection keeps its promise: every host, service and component it   *)
(* is to look at gets one verdict that is never taken back, and no report  *)
(* comes out before (the two passes over the hosts, their barriers and the *)
(* phases of Run).                                                         *)
THEOREM InspectionIsKept == Spec => InspectionKept
<1>1. Init => Promise!Init
  <2> SUFFICES ASSUME Init PROVE Promise!Init
    OBVIOUS
  <2>1. /\ dep \in DOMAIN Deployments /\ pc = "config"
        /\ \A t \in AllTasks : call[t].at = "idle"
        /\ \A h \in Hosts : results[h].error = ""
        /\ \A c \in Components : answers[c] = NotAsked
    BY ErrorOfNoMetrics DEF Init, SshInit, NotCalled
  <2>2. Wanted \in SUBSET AllTargets /\ Outcome = "none"
    BY <2>1, WantedAreTargets DEF Outcome
  <2>3. \A h \in Hosts : HostVerdict(h) = "open"
    BY <2>1, TasksAreTasks DEF HostVerdict
  <2>4. \A t \in AllTasks : ServiceVerdict(t) = "open"
    BY <2>1 DEF ServiceVerdict
  <2>5. \A t \in AllTargets : Verdict[t] = "open"
    BY <2>1, <2>3, <2>4, TargetKinds, VerdictOf
  <2>6. Verdict = [t \in AllTargets |-> "open"]
    BY <2>5 DEF Verdict
  <2> QED BY <2>2, <2>6 DEF Promise!Init
<1> QED BY <1>1, StepKeepsPromise, AlwaysIInv, PTL DEF Spec, InspectionKept, Promise!Spec

-----------------------------------------------------------------------------
(* Types: the error of a host is one of the four the code sets, and what   *)
(* was not asked for is never written.                                     *)
Errors == {"", "ssh", "incomplete", "disk"}

RunTypes ==
  /\ pc \in {"config", "loaded", "sampling", "batch", "services", "components",
             "done", "aborted", "failed"}
  /\ cancelled \in BOOLEAN /\ late \in BOOLEAN

SlotTypes ==
  /\ \A h \in Hosts : results[h].error \in Errors
  /\ \A h \in Hosts \ AllHosts : results[h] = NoMetrics
  /\ \A t \in AllTasks \ ServiceTasks : services[t] = NotAsked

LEMMA ErrorOfOutput ==
  ASSUME NEW out, NEW explicit, NEW nfs
  PROVE  parseHostOutput(out, explicit, nfs).error \in Errors
<1>1. [NoMetrics EXCEPT !.error = "incomplete"].error = "incomplete"
  BY DEF NoMetrics
<1>2. CASE out = NoOutput
  BY <1>1, <1>2 DEF parseHostOutput, Errors
<1>3. CASE out # NoOutput
  BY <1>3 DEF parseHostOutput, Errors
<1> QED BY <1>2, <1>3

LEMMA RunTypesStep == RunTypes /\ [Next]_vars => RunTypes'
<1> SUFFICES ASSUME RunTypes, [Next]_vars PROVE RunTypes'
  OBVIOUS
<1>1. CASE UNCHANGED vars
  BY <1>1 DEF RunTypes, vars
<1>2. CASE RunStep
  BY <1>2 DEF RunStep, Load, NoAuthMethod, StartSampling, StartBatch, HostsReported,
     StartServices, StartComponents, ReportAll, CollectComponent, Abort, RunTypes
<1>3. CASE Cancel
  BY <1>3 DEF Cancel, RunTypes
<1>4. ASSUME NEW t \in AllTasks, SshStep(t) \/ ExpireStep(t) \/ LateStep(t) \/ TaskDone(t)
      PROVE  UNCHANGED <<pc, cancelled, late>>
  BY <1>4 DEF SshStep, ExpireStep, LateStep, TaskDone, SampleDone, BatchDone, ServiceDone
<1> QED BY <1>1, <1>2, <1>3, <1>4 DEF Next, RunTypes

LEMMA SlotTypesStep == IInv /\ SlotTypes /\ [Next]_vars => SlotTypes'
<1> SUFFICES ASSUME IInv, SlotTypes, [Next]_vars PROVE SlotTypes'
  OBVIOUS
<1>1. CASE UNCHANGED <<dep, results, services>>
  BY <1>1, SameDeployment DEF SlotTypes
<1>2. ASSUME NEW t \in AllTasks, t.part = "sample", SampleDone(t.host) PROVE SlotTypes'
  <2>1. Returns(t) /\ dep' = dep /\ services' = services
    BY <1>2 DEF SampleDone, AllTasks, Task
  <2>2. t.host \in AllHosts /\ t.host \in Hosts
    BY <1>2, <2>1, ReturnsFacts
  <2>3. results' = results \/ results' = [results EXCEPT ![t.host].error = "ssh"]
    BY <1>2 DEF SampleDone
  <2>4. \A h \in Hosts \ {t.host} : results'[h] = results[h]
    BY <2>3 DEF IInv, TypeInv
  <2>5. results'[t.host].error \in Errors
    <3>1. results[t.host] = NoMetrics
      <4>1. t = Task("sample", t.host)
        BY <1>2 DEF AllTasks, Task
      <4>2. UnderWay(t)
        BY <2>1, ReturnsEffect DEF IInv, TypeInv
      <4>3. call[Task("sample", t.host)].at # "returned"
        BY <4>1, <4>2 DEF UnderWay
      <4> QED BY <2>2, <4>3 DEF IInv, SlotInv
    <3> QED BY <2>2, <2>3, <3>1, ErrorOfNoMetrics DEF IInv, TypeInv, Errors
  <2> QED BY <2>1, <2>2, <2>4, <2>5, SameDeployment DEF SlotTypes
<1>3. ASSUME NEW t \in AllTasks, t.part = "batch", BatchDone(t.host) PROVE SlotTypes'
  <2>1. Returns(t) /\ dep' = dep /\ services' = services
    BY <1>3 DEF BatchDone, AllTasks, Task
  <2>2. t.host \in AllHosts /\ t.host \in Hosts
    BY <1>3, <2>1, ReturnsFacts
  <2>3. PICK out, explicit, nfs :
          results' = [results EXCEPT ![t.host] = parseHostOutput(out, explicit, nfs)]
    BY <1>3 DEF BatchDone
  <2>4. \A h \in Hosts \ {t.host} : results'[h] = results[h]
    BY <2>3 DEF IInv, TypeInv
  <2>5. results'[t.host].error \in Errors
    BY <2>2, <2>3, ErrorOfOutput DEF IInv, TypeInv
  <2> QED BY <2>1, <2>2, <2>4, <2>5, SameDeployment DEF SlotTypes
<1>4. ASSUME NEW t \in AllTasks, ServiceDone(t) PROVE SlotTypes'
  <2>1. Returns(t) /\ dep' = dep /\ results' = results /\ t \in ServiceTasks
    BY <1>4, ReturnsFacts DEF ServiceDone
  <2>2. PICK s : services' = [services EXCEPT ![t] = s]
    BY <1>4 DEF ServiceDone
  <2>3. \A u \in AllTasks \ {t} : services'[u] = services[u]
    BY <2>2 DEF IInv, TypeInv
  <2> QED BY <2>1, <2>3, SameDeployment DEF SlotTypes
<1>5. CASE RunStep
  BY <1>1, <1>5 DEF RunStep, Load, NoAuthMethod, StartSampling, StartBatch, HostsReported,
     StartServices, StartComponents, ReportAll, CollectComponent, Abort
<1>6. CASE Cancel
  BY <1>1, <1>6 DEF Cancel
<1>7. ASSUME NEW t \in AllTasks, SshStep(t) \/ ExpireStep(t) \/ LateStep(t) PROVE SlotTypes'
  BY <1>1, <1>7 DEF SshStep, ExpireStep, LateStep
<1>8. CASE UNCHANGED vars
  BY <1>1, <1>8 DEF vars
<1> QED BY <1>2, <1>3, <1>4, <1>5, <1>6, <1>7, <1>8 DEF Next, TaskDone

(* Every variable keeps its type, for any hosts, deployments and answers.  *)
THEOREM CollectionTypes == Spec => []CTypeOK
<1>1. Init => RunTypes /\ SlotTypes
  BY ErrorOfNoMetrics DEF Init, RunTypes, SlotTypes, Errors
<1>2. IInv /\ RunTypes /\ SlotTypes => CTypeOK
  BY DEF IInv, TypeInv, RunTypes, SlotTypes, Errors, CTypeOK, SshTypeOK
<1> QED BY <1>1, <1>2, RunTypesStep, SlotTypesStep, AlwaysIInv, PTL DEF Spec

(* Every host a service is asked on is inspected itself, whichever lists   *)
(* the configuration fills (buildAllHosts knows every list the modules and *)
(* the roles of bkmonitorv3 are read from).                                *)
THEOREM ServiceHostsAreInspected ==
  ASSUME NEW lists \in [Lists -> Seq(Hosts)], NEW m \in ModuleKeys
  PROVE  IPs(GetModuleHosts(lists, m)) \subseteq buildAllHosts(lists)
<1>1. m \in Lists \ ReplicationLists /\ "monitorv3" \in Lists \ ReplicationLists
  BY DEF ModuleKeys, Lists, ModuleLists, RoleLists, ComponentLists, ReplicationLists
<1> QED BY <1>1 DEF GetModuleHosts, buildAllHosts
=============================================================================
