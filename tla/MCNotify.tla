------------------------------ MODULE MCNotify ------------------------------
(* Instances of NotifyHistory for TLC. *)
EXTENDS NotifyHistory

CONSTANTS a, b, c

(* Two items with signatures of their own. *)
MCItems == {a, b}
MCSigKey == [i \in MCItems |-> i]

(* Three items, two of them queues of one vhost that the signature does    *)
(* not tell apart.                                                         *)
MCQueueItems == {a, b, c}
MCQueueKey == [i \in MCQueueItems |-> IF i = c THEN b ELSE i]
=============================================================================
