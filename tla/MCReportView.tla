---------------------------- MODULE MCReportView ----------------------------
(* Two hosts; selinux, which an unreachable host does not have, and one    *)
(* mount; one service that runs on both hosts.                             *)
EXTENDS ReportView

CONSTANTS h1, h2, selinux, disk, svc, svc1, svc2

MCHostOrder == <<h1, h2>>
MCProbeField == [p \in {svc1, svc2} |-> svc]
MCItems == {h1, h2, NoHost} \X {selinux, disk, svc}
MCSigKey == [i \in MCItems |-> i]
=============================================================================
