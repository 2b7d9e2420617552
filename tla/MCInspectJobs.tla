---------------------------- MODULE MCInspectJobs ----------------------------
(* Instances of InspectJobs for TLC: one item, as the jobs differ in what  *)
(* they interleave and not in what they find.                              *)
EXTENDS InspectJobs, TLC

CONSTANTS a, j1, j2, p1

MCItems == {a}
MCSigKey == [i \in MCItems |-> i]

(* Jobs differ in nothing but what they are doing. *)
Symmetric == Permutations({j1, j2})
=============================================================================
