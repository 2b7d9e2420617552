---------------------------- MODULE AlertEpisode ----------------------------
(***************************************************************************)
(* What the notification subsystem promises to the people who read the     *)
(* mails: incidents are announced by alert mails and closed by one         *)
(* recovery mail; the same alert set is not announced twice within the     *)
(* cooldown; a recovery mail only follows an alert mail.                   *)
(***************************************************************************)
EXTENDS Integers

CONSTANTS SigKeys, Cooldown

VARIABLE inbox  \* the last mail: its kind, its alert set, its age

Init == inbox = [kind |-> "none", sig |-> {}, age |-> Cooldown]

(* The first alert of an incident, or a change of the alert set, or a      *)
(* reminder when the cooldown is over.                                     *)
Alert(sig) ==
  /\ sig # {}
  /\ \/ inbox.kind # "send_alert"
     \/ inbox.sig # sig
     \/ inbox.age >= Cooldown
  /\ inbox' = [kind |-> "send_alert", sig |-> sig, age |-> 0]

(* The incident is over. *)
Recovery ==
  /\ inbox.kind = "send_alert"
  /\ inbox' = [kind |-> "send_recovery", sig |-> {}, age |-> 0]

Elapse ==
  /\ inbox.age < Cooldown
  /\ inbox' = [inbox EXCEPT !.age = @ + 1]

Next == (\E sig \in SUBSET SigKeys : Alert(sig)) \/ Recovery \/ Elapse

Spec == Init /\ [][Next]_inbox
=============================================================================
