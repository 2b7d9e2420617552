------------------------------ MODULE SshClient ------------------------------
(***************************************************************************)
(* Remote commands over SSH (Client.Run), one call per task.  A call       *)
(* dials, shakes hands, opens a session and starts a goroutine that runs   *)
(* the command and puts its result into a channel; the caller waits for    *)
(* the channel or for the end of its context.                              *)
(*                                                                         *)
(* The dial timeout covers the TCP connection only: a host that accepts    *)
(* it and then says nothing keeps the caller in the handshake for ever,    *)
(* whatever its context says.                                              *)
(***************************************************************************)
EXTENDS Integers, FiniteSets

CONSTANTS
  Tasks,      \* the remote commands
  Outputs,    \* what a command can print
  NoOutput    \* nothing at all, one of the Outputs

VARIABLES
  call,       \* call[t]: where the call of task t is, its context and its result
  orphans     \* tasks whose caller gave up while the command was running

sshVars == <<call, orphans>>

Replies == [err : BOOLEAN, out : Outputs]
Failed == [err |-> TRUE, out |-> NoOutput]

Stages == {"idle", "dialing", "handshake", "waiting", "sent", "returned"}
Calls == [at : Stages, expired : BOOLEAN, reply : Replies]
NotCalled == [at |-> "idle", expired |-> FALSE, reply |-> Failed]

SshTypeOK ==
  /\ call \in [Tasks -> Calls]
  /\ orphans \subseteq Tasks

SshInit ==
  /\ call = [t \in Tasks |-> NotCalled]
  /\ orphans = {}

(* The result channel has room for one result: the goroutine never waits   *)
(* for its caller.                                                         *)
NoRoom == 0   \* faulty variant: an unbuffered channel
ResultRoom == 1

(* A caller starts the calls of several goroutines.                        *)
Start(started) ==
  call' = [t \in Tasks |-> IF t \in started THEN [NotCalled EXCEPT !.at = "dialing"]
                           ELSE call[t]]

Accepted(t) ==
  /\ call[t].at = "dialing"
  /\ call' = [call EXCEPT ![t].at = "handshake"]
  /\ UNCHANGED orphans

SessionOpened(t) ==
  /\ call[t].at = "handshake"
  /\ call' = [call EXCEPT ![t].at = "waiting"]
  /\ UNCHANGED orphans

(* The command ends, or its connection does.                               *)
Answers(t, reply) ==
  /\ call[t].at = "waiting"
  /\ call' = [call EXCEPT ![t].at = "sent", ![t].reply = reply]
  /\ UNCHANGED orphans

Expire(t) ==
  /\ call[t].at \in {"dialing", "handshake", "waiting", "sent"}
  /\ ~call[t].expired
  /\ call' = [call EXCEPT ![t].expired = TRUE]
  /\ UNCHANGED orphans

Return(t, reply) == call' = [call EXCEPT ![t].at = "returned", ![t].reply = reply]

(* Refused, or no TCP connection in time; or the handshake or the session  *)
(* is refused, or the connection is cut meanwhile.                         *)
DialFails(t) ==
  /\ call[t].at \in {"dialing", "handshake"}
  /\ Return(t, Failed)
  /\ UNCHANGED orphans

(* Faulty variant: the caller waits for the result whatever its context.   *)
TimesOutWithResult(t) ==
  /\ call[t].at = "sent"
  /\ call[t].expired
  /\ Return(t, Failed)
  /\ UNCHANGED orphans

(* The context's end and the result can be there together: select may take *)
(* either.                                                                 *)
TimesOut(t) ==
  /\ call[t].at \in {"waiting", "sent"}
  /\ call[t].expired
  /\ Return(t, Failed)
  /\ orphans' = IF call[t].at = "waiting" THEN orphans \cup {t} ELSE orphans

Receives(t) ==
  /\ call[t].at = "sent"
  /\ Return(t, call[t].reply)
  /\ UNCHANGED orphans

(* The caller's deferred Close ends the command; the result of the         *)
(* goroutine goes into the channel nobody reads, if there is room.         *)
LateAnswer(t) ==
  /\ t \in orphans
  /\ ResultRoom > 0
  /\ orphans' = orphans \ {t}
  /\ UNCHANGED call

Returns(t) == DialFails(t) \/ TimesOut(t) \/ Receives(t)
Returned(ts) == \A t \in ts : call[t].at = "returned"
=============================================================================
