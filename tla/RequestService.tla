---------------------------- MODULE RequestService ----------------------------
(***************************************************************************)
(* What the threads of http_mpm.c promise to the clients of the server:    *)
(* the requests of one connection are answered one at a time, one request  *)
(* of all connections is in the interpreter at any time and none is there  *)
(* twice, a client is given the result of its own request after the        *)
(* interpreter finished it, and the only other answer is an error, which   *)
(* ends the connection.                                                    *)
(***************************************************************************)
EXTENDS Naturals

CONSTANTS Clients, MaxAsks, None, Error

VARIABLES
  phase,    \* client -> stage of its connection and of its current request
  asked,    \* client -> requests made so far
  reply     \* client -> the last answer: None, Error or <<client, number>>

vars == <<phase, asked, reply>>

Init ==
  /\ phase = [c \in Clients |-> "absent"]
  /\ asked = [c \in Clients |-> 0]
  /\ reply = [c \in Clients |-> None]

Move(c, from, to) == phase[c] = from /\ phase' = [phase EXCEPT ![c] = to]

Connect(c) == Move(c, "absent", "open") /\ UNCHANGED <<asked, reply>>

\* The server has no thread for the connection.
Abandon(c) == Move(c, "absent", "closed") /\ UNCHANGED <<asked, reply>>

Ask(c) ==
  /\ Move(c, "open", "pending")
  /\ asked[c] < MaxAsks
  /\ asked' = [asked EXCEPT ![c] = @ + 1]
  /\ UNCHANGED reply

Execute(c) ==
  /\ Move(c, "pending", "executing")
  /\ \A d \in Clients : phase[d] # "executing"
  /\ UNCHANGED <<asked, reply>>

Finish(c) == Move(c, "executing", "executed") /\ UNCHANGED <<asked, reply>>

\* The connection may stay open after a result.
Answer(c) ==
  /\ Move(c, "executed", "open") \/ Move(c, "executed", "closed")
  /\ reply' = [reply EXCEPT ![c] = <<c, asked[c]>>]
  /\ UNCHANGED asked

\* It never does after an error.
Refuse(c) ==
  /\ Move(c, "pending", "closed") \/ Move(c, "executed", "closed")
  /\ reply' = [reply EXCEPT ![c] = Error]
  /\ UNCHANGED asked

Disconnect(c) == Move(c, "open", "closed") /\ UNCHANGED <<asked, reply>>

Next ==
  \E c \in Clients :
    \/ Connect(c) \/ Abandon(c) \/ Ask(c) \/ Execute(c) \/ Finish(c)
    \/ Answer(c) \/ Refuse(c) \/ Disconnect(c)

Spec == Init /\ [][Next]_vars
=============================================================================
