--------------------------- MODULE SerialService ---------------------------
(***************************************************************************)
(* What iwordserver promises its clients, with no thread, queue, mutex or  *)
(* condition variable in it: every connection asks one question at a time, *)
(* the questions of all the connections stand in one line, they are served *)
(* one at a time from its head ("a single worker thread processes all      *)
(* iword calls serially"), and every answer goes to the connection that    *)
(* asked, in the order it asked.                                           *)
(*                                                                         *)
(* IwordServer is shown to implement this specification.                   *)
(***************************************************************************)
EXTENDS Naturals, Sequences

CONSTANT Clients      \* the connections that may ever ask

VARIABLES
  line,               \* the clients whose question is not served yet, oldest first
  phase,              \* [Clients -> {"idle", "asked", "served", "over"}]
  asked,              \* how many questions each client has asked
  log                 \* the answers each client was sent, in order

vars == <<line, phase, asked, log>>

Init ==
  /\ line  = <<>>
  /\ phase = [c \in Clients |-> "idle"]
  /\ asked = [c \in Clients |-> 0]
  /\ log   = [c \in Clients |-> <<>>]

\* A client asks its next question and joins the end of the line.
Ask(c) ==
  /\ phase[c] = "idle"
  /\ phase' = [phase EXCEPT ![c] = "asked"]
  /\ asked' = [asked EXCEPT ![c] = @ + 1]
  /\ line'  = Append(line, c)
  /\ UNCHANGED log

\* The question at the head of the line is answered.
Serve ==
  /\ line # <<>>
  /\ phase' = [phase EXCEPT ![Head(line)] = "served"]
  /\ line'  = Tail(line)
  /\ UNCHANGED <<asked, log>>

\* The answer to the client's latest question is sent to it.
Deliver(c) ==
  /\ phase[c] = "served"
  /\ phase' = [phase EXCEPT ![c] = "idle"]
  /\ log'   = [log EXCEPT ![c] = Append(@, <<c, asked[c]>>)]
  /\ UNCHANGED <<line, asked>>

\* The client ends: it has no question open, or it is gone and the answer is
\* lost.  A question in the line is never withdrawn.
Leave(c) ==
  /\ phase[c] \in {"idle", "served"}
  /\ phase' = [phase EXCEPT ![c] = "over"]
  /\ UNCHANGED <<line, asked, log>>

Next == Serve \/ \E c \in Clients : Ask(c) \/ Deliver(c) \/ Leave(c)

SafeSpec == Init /\ [][Next]_vars

\* While somebody stands in the line, somebody is served.
Spec == SafeSpec /\ WF_vars(Serve)
=============================================================================
