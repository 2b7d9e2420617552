------------------------------ MODULE Inspection ------------------------------
(***************************************************************************)
(* What an inspection promises: every target the configuration asks for    *)
(* gets one verdict, seen or failed, which is never taken back; a report   *)
(* comes out only when none is missing, and nothing after it.              *)
(***************************************************************************)
CONSTANT Targets

VARIABLES
  wanted,    \* the targets this inspection is to look at
  verdict,   \* verdict[t]: "open", "seen" or "failed"
  outcome    \* "none", "report" or "error"

vars == <<wanted, verdict, outcome>>

Init ==
  /\ wanted \in SUBSET Targets
  /\ verdict = [t \in Targets |-> "open"]
  /\ outcome = "none"

Judge(t) ==
  /\ outcome = "none"
  /\ t \in wanted
  /\ verdict[t] = "open"
  /\ \E v \in {"seen", "failed"} : verdict' = [verdict EXCEPT ![t] = v]
  /\ UNCHANGED <<wanted, outcome>>

Report ==
  /\ outcome = "none"
  /\ \A t \in wanted : verdict[t] # "open"
  /\ outcome' = "report"
  /\ UNCHANGED <<wanted, verdict>>

GiveUp ==
  /\ outcome = "none"
  /\ outcome' = "error"
  /\ UNCHANGED <<wanted, verdict>>

Next == Report \/ GiveUp \/ \E t \in Targets : Judge(t)

Spec == Init /\ [][Next]_vars
=============================================================================
