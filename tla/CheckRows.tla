------------------------------ MODULE CheckRows ------------------------------
(***************************************************************************)
(* The rows of a report: what a checker says of one field of one node.     *)
(* NoNode is the node of a row about a whole component.                    *)
(***************************************************************************)
EXTENDS Integers, Sequences, FiniteSetsExt

CONSTANT NoNode

OK == "ok"
Warn == "warn"
Unknown == "unknown"
Notice == "notice"

Row(field, node, status) == [field |-> field, node |-> node, status |-> status]
RowIf(condition, field, node, status) ==
  IF condition THEN {Row(field, node, status)} ELSE {}

OkElseWarn(good) == IF good THEN OK ELSE Warn

IPs(list) == {list[i] : i \in DOMAIN list}
=============================================================================
