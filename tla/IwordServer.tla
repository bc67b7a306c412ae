---------------------------- MODULE IwordServer ----------------------------
(***************************************************************************)
(* tool/iwordserver.c: the threads of the server.                          *)
(*                                                                         *)
(*   accept_loop   accepts a connection and starts a thread for it;        *)
(*   conn_thread   one per connection: reads lines, puts a work slot that  *)
(*                 lives on its own stack into the worker's queue, waits   *)
(*                 for the answer, writes it back, goes on;                *)
(*   worker_thread takes the slots from the queue one by one and runs      *)
(*                 dispatch on each, so that the iword library is only     *)
(*                 ever called by one thread.                              *)
(*                                                                         *)
(* Request k of connection c is <<c, k>>, and the reply dispatch computes  *)
(* for a request is named by that request: which bytes a reply holds does  *)
(* not matter here, whose answer it is does.  What one read returns, cut   *)
(* into bytes, is ConnBuffer's subject; here a read brings some number of  *)
(* complete lines.  queue_mu protects enqueue and dequeue_blocking, each   *)
(* of which is one critical section and so one step; slot.mu is held by    *)
(* the worker over several steps (LockSlot to UnlockSlot) and by the       *)
(* connection's thread only within CheckSlot.  `running' is never cleared  *)
(* while the process lives (main pauses; no handler returns to it), so the *)
(* loops that test it are endless.                                         *)
(***************************************************************************)
EXTENDS Naturals, Sequences, FiniteSets

CONSTANTS
  Conns,              \* the connections that may be opened
  Patient,            \* those whose client reads its replies and never hangs up
  None,               \* "no connection", and the reply of a cleared slot
  MaxLines,           \* lines a client may send
  SockBuf,            \* replies the socket holds before write blocks
  MaxOpen             \* connections open at once before accept fails (EMFILE)

Requests == Conns \X Nat

ASSUME ServerAssumption ==
  /\ None \notin Conns /\ None \notin Requests
  /\ Patient \subseteq Conns
  /\ MaxLines \in Nat /\ SockBuf \in Nat \ {0} /\ MaxOpen \in Nat

VARIABLES
  pc,                 \* where the thread of each connection is
  client,             \* the client's end: "open", "half" (write side shut), "gone"
  sent,               \* lines the client has sent
  taken,              \* lines conn_thread has read into its buffer
  handled,            \* lines conn_thread has taken out of the buffer
  slot,               \* the work slot on the stack of each connection's thread
  queue,              \* the list from queue_head to queue_tail, oldest first
  wpc,                \* where worker_thread is
  job,                \* the connection whose node the worker dequeued, or None
  replies,            \* the replies written to each socket, in order
  acked,              \* how many of them the client has read
  listening           \* accept_loop still runs

connVars   == <<pc, taken, handled>>
clientVars == <<client, sent, acked>>
workVars   == <<queue, wpc, job>>
vars == <<pc, client, sent, taken, handled, slot, queue, wpc, job, replies,
          acked, listening>>

\* work_slot_t.  `live' says that the block of conn_thread that declares the
\* slot is being executed: outside it, its mutex, its condition variable and
\* the memory itself are gone.
DeadSlot == [live |-> FALSE, req |-> None, resp |-> None, hasResp |-> FALSE]

Init ==
  /\ pc      = [c \in Conns |-> "none"]
  /\ client  = [c \in Conns |-> "open"]
  /\ sent    = [c \in Conns |-> 0]
  /\ taken   = [c \in Conns |-> 0]
  /\ handled = [c \in Conns |-> 0]
  /\ slot    = [c \in Conns |-> DeadSlot]
  /\ queue   = <<>>
  /\ wpc     = "dequeue"
  /\ job     = None
  /\ replies = [c \in Conns |-> <<>>]
  /\ acked   = [c \in Conns |-> 0]
  /\ listening = TRUE

-----------------------------------------------------------------------------
(* The clients, and the sockets between them and the server.               *)

Connected(c) == pc[c] # "none" /\ client[c] # "gone"

Connect(c) ==
  /\ pc[c] = "none"
  /\ pc' = [pc EXCEPT ![c] = "backlog"]
  /\ UNCHANGED <<clientVars, taken, handled, slot, workVars, replies, listening>>

\* The protocol asks a client to wait for each reply; the socket does not
\* make it, and a client may write its next lines before.
Send(c) ==
  /\ pc[c] # "none" /\ client[c] = "open" /\ sent[c] < MaxLines
  /\ sent' = [sent EXCEPT ![c] = @ + 1]
  /\ UNCHANGED <<connVars, client, acked, slot, workVars, replies, listening>>

Receive(c) ==
  /\ Connected(c) /\ acked[c] < Len(replies[c])
  /\ acked' = [acked EXCEPT ![c] = @ + 1]
  /\ UNCHANGED <<connVars, client, sent, slot, workVars, replies, listening>>

\* The client shuts its sending side and goes on reading.
HalfClose(c) ==
  /\ pc[c] # "none" /\ client[c] = "open"
  /\ client' = [client EXCEPT ![c] = "half"]
  /\ UNCHANGED <<connVars, sent, acked, slot, workVars, replies, listening>>

\* The client closes the socket or dies, whatever the server owes it.
Hangup(c) ==
  /\ Connected(c) /\ c \notin Patient
  /\ client' = [client EXCEPT ![c] = "gone"]
  /\ UNCHANGED <<connVars, sent, acked, slot, workVars, replies, listening>>

-----------------------------------------------------------------------------
(* accept_loop                                                             *)

Open == {c \in Conns : pc[c] \notin {"none", "backlog", "closed"}}

Accept(c) ==
  /\ listening /\ pc[c] = "backlog" /\ Cardinality(Open) < MaxOpen
  /\ pc' = [pc EXCEPT ![c] = "read"]
  /\ UNCHANGED <<clientVars, taken, handled, slot, workVars, replies, listening>>

\* pthread_create fails: the new descriptor is closed at once.
AcceptRefused(c) ==
  /\ listening /\ pc[c] = "backlog" /\ Cardinality(Open) < MaxOpen
  /\ pc' = [pc EXCEPT ![c] = "closed"]
  /\ UNCHANGED <<clientVars, taken, handled, slot, workVars, replies, listening>>

\* accept fails with an errno that is neither EINTR nor EWOULDBLOCK: the
\* loop is left and the listener thread returns.
AcceptBreaks ==
  /\ listening /\ Cardinality(Open) >= MaxOpen
  /\ listening' = FALSE
  /\ UNCHANGED <<connVars, clientVars, slot, workVars, replies>>

-----------------------------------------------------------------------------
(* conn_thread                                                             *)

\* Where the thread goes when it has finished with a line: to the next one
\* in its buffer, or back to read.
AfterLine(c) == IF handled[c] < taken[c] THEN "line" ELSE "read"

Read(c) ==
  /\ pc[c] = "read"
  /\ \E n \in 1 .. sent[c] - taken[c] : taken' = [taken EXCEPT ![c] = @ + n]
  /\ pc' = [pc EXCEPT ![c] = "line"]
  /\ UNCHANGED <<clientVars, handled, slot, workVars, replies, listening>>

\* Fault: end of file is taken for an empty read, and the loop goes round.
ReadEndsMissed(c) == pc[c] = "read" /\ client[c] = "gone" /\ UNCHANGED vars

\* read returns 0 or fails.  Lines the client sent before it shut its side
\* come first; those of a client that is gone may be dropped by the socket.
ReadEnds(c) ==
  /\ pc[c] = "read"
  /\ \/ client[c] = "gone"
     \/ client[c] = "half" /\ taken[c] = sent[c]
  /\ pc' = [pc EXCEPT ![c] = "done"]
  /\ UNCHANGED <<clientVars, taken, handled, slot, workVars, replies, listening>>

\* Fault: the node is linked in front of the list.
EnqueueFront(c) ==
  /\ pc[c] = "line"
  /\ handled' = [handled EXCEPT ![c] = @ + 1]
  /\ slot' = [slot EXCEPT ![c] = [live |-> TRUE, req |-> <<c, handled[c] + 1>>,
                                  resp |-> None, hasResp |-> FALSE]]
  /\ queue' = <<c>> \o queue
  /\ wpc' = IF wpc = "wait" THEN "dequeue" ELSE wpc
  /\ pc' = [pc EXCEPT ![c] = "check"]
  /\ UNCHANGED <<clientVars, taken, job, replies, listening>>

\* Fault: queue_cnd is not signalled.
EnqueueSilent(c) ==
  /\ pc[c] = "line"
  /\ handled' = [handled EXCEPT ![c] = @ + 1]
  /\ slot' = [slot EXCEPT ![c] = [live |-> TRUE, req |-> <<c, handled[c] + 1>>,
                                  resp |-> None, hasResp |-> FALSE]]
  /\ queue' = Append(queue, c)
  /\ pc' = [pc EXCEPT ![c] = "check"]
  /\ UNCHANGED <<clientVars, taken, wpc, job, replies, listening>>

\* The next line becomes the request of a fresh slot, and the slot's node is
\* linked at the tail; the signal wakes the worker if it waits.
Enqueue(c) ==
  /\ pc[c] = "line"
  /\ handled' = [handled EXCEPT ![c] = @ + 1]
  /\ slot' = [slot EXCEPT ![c] = [live |-> TRUE, req |-> <<c, handled[c] + 1>>,
                                  resp |-> None, hasResp |-> FALSE]]
  /\ queue' = Append(queue, c)
  /\ wpc' = IF wpc = "wait" THEN "dequeue" ELSE wpc
  /\ pc' = [pc EXCEPT ![c] = "check"]
  /\ UNCHANGED <<clientVars, taken, job, replies, listening>>

\* Fault: has_resp is read without the mutex.
MutexSkipped(c) == c \in Conns

MutexFree(c) == ~(job = c /\ wpc \in {"dispatch", "unlock"})

\* One turn of `while (!slot.has_resp) pthread_cond_wait(...)': the mutex is
\* taken, the flag is read, and the mutex is given back either way.
CheckSlot(c) ==
  /\ pc[c] = "check" /\ MutexFree(c)
  /\ pc' = [pc EXCEPT ![c] = IF slot[c].hasResp THEN "write" ELSE "wait"]
  /\ UNCHANGED <<clientVars, taken, handled, slot, workVars, replies, listening>>

\* Fault: `if' instead of `while': waking is taken for having the answer.
WakeTrusted(c) ==
  /\ pc[c] = "wait"
  /\ pc' = [pc EXCEPT ![c] = "write"]
  /\ UNCHANGED <<clientVars, taken, handled, slot, workVars, replies, listening>>

\* pthread_cond_wait may return although nobody signalled.
SpuriousWake(c) ==
  /\ pc[c] = "wait"
  /\ pc' = [pc EXCEPT ![c] = "check"]
  /\ UNCHANGED <<clientVars, taken, handled, slot, workVars, replies, listening>>

\* write blocks while the socket is full of replies the client did not read.
WriteReply(c) ==
  /\ pc[c] = "write" /\ Len(replies[c]) - acked[c] < SockBuf
  /\ replies' = [replies EXCEPT ![c] = Append(@, slot[c].resp)]
  /\ slot' = [slot EXCEPT ![c] = DeadSlot]
  /\ pc' = [pc EXCEPT ![c] = AfterLine(c)]
  /\ UNCHANGED <<clientVars, taken, handled, workVars, listening>>

\* EPIPE or ECONNRESET, with SIGPIPE ignored: `goto done'.  Lines still in
\* the buffer are never handled.
WriteFails(c) ==
  /\ pc[c] = "write" /\ client[c] = "gone"
  /\ slot' = [slot EXCEPT ![c] = DeadSlot]
  /\ pc' = [pc EXCEPT ![c] = "done"]
  /\ UNCHANGED <<clientVars, taken, handled, workVars, replies, listening>>

CloseConn(c) ==
  /\ pc[c] = "done"
  /\ pc' = [pc EXCEPT ![c] = "closed"]
  /\ UNCHANGED <<clientVars, taken, handled, slot, workVars, replies, listening>>

-----------------------------------------------------------------------------
(* worker_thread and dequeue_blocking                                      *)

WaitForWork ==
  /\ wpc = "dequeue" /\ queue = <<>>
  /\ wpc' = "wait"
  /\ UNCHANGED <<connVars, clientVars, slot, queue, job, replies, listening>>

SpuriousWorkerWake ==
  /\ wpc = "wait"
  /\ wpc' = "dequeue"
  /\ UNCHANGED <<connVars, clientVars, slot, queue, job, replies, listening>>

Dequeue ==
  /\ wpc = "dequeue" /\ queue # <<>>
  /\ job' = Head(queue)
  /\ queue' = Tail(queue)
  /\ wpc' = "lock"
  /\ UNCHANGED <<connVars, clientVars, slot, replies, listening>>

LockSlot ==
  /\ wpc = "lock"
  /\ wpc' = "dispatch"
  /\ UNCHANGED <<connVars, clientVars, slot, queue, job, replies, listening>>

\* Fault: slot->ready is not signalled.
DispatchSilent ==
  /\ wpc = "dispatch"
  /\ slot' = [slot EXCEPT ![job].resp = slot[job].req, ![job].hasResp = TRUE]
  /\ wpc' = "unlock"
  /\ UNCHANGED <<connVars, clientVars, queue, job, replies, listening>>

\* dispatch fills slot->resp from slot->req; has_resp is set and the thread
\* that waits on slot->ready is woken, all under slot->mu.
Dispatch ==
  /\ wpc = "dispatch"
  /\ slot' = [slot EXCEPT ![job].resp = slot[job].req, ![job].hasResp = TRUE]
  /\ pc' = [pc EXCEPT ![job] = IF @ = "wait" THEN "check" ELSE @]
  /\ wpc' = "unlock"
  /\ UNCHANGED <<clientVars, taken, handled, queue, job, replies, listening>>

UnlockSlot ==
  /\ wpc = "unlock"
  /\ wpc' = "dequeue"
  /\ job' = None
  /\ UNCHANGED <<connVars, clientVars, slot, queue, replies, listening>>

-----------------------------------------------------------------------------
ClientStep(c) == Connect(c) \/ Send(c) \/ Receive(c) \/ HalfClose(c) \/ Hangup(c)

ListenerStep == AcceptBreaks \/ \E c \in Conns : Accept(c) \/ AcceptRefused(c)

ConnStep(c) ==
  \/ Read(c) \/ ReadEnds(c) \/ Enqueue(c) \/ CheckSlot(c) \/ SpuriousWake(c)
  \/ WriteReply(c) \/ WriteFails(c) \/ CloseConn(c)

WorkerStep ==
  \/ WaitForWork \/ SpuriousWorkerWake \/ Dequeue \/ LockSlot \/ Dispatch
  \/ UnlockSlot

Next ==
  \/ ListenerStep
  \/ WorkerStep
  \/ \E c \in Conns : ClientStep(c) \/ ConnStep(c)

\* A thread that can run does run; a client owes nothing unless it is patient.
\* A spurious wakeup is never owed.
ConnFairness(c) ==
  /\ WF_vars(Read(c) \/ ReadEnds(c)) /\ WF_vars(Enqueue(c))
  /\ WF_vars(CheckSlot(c))
  /\ WF_vars(WriteReply(c) \/ WriteFails(c)) /\ WF_vars(CloseConn(c))

WorkerFairness ==
  WF_vars(WaitForWork \/ Dequeue \/ LockSlot \/ Dispatch \/ UnlockSlot)

Fairness ==
  /\ WorkerFairness
  /\ \A c \in Conns : ConnFairness(c)
  /\ \A c \in Patient : WF_vars(Receive(c))

Spec == Init /\ [][Next]_vars

FairSpec == Spec /\ Fairness

-----------------------------------------------------------------------------
(* Properties                                                              *)

TypeOK ==
  /\ pc \in [Conns -> {"none", "backlog", "read", "line", "check", "wait",
                       "write", "done", "closed"}]
  /\ client \in [Conns -> {"open", "half", "gone"}]
  /\ sent \in [Conns -> Nat] /\ taken \in [Conns -> Nat]
  /\ handled \in [Conns -> Nat] /\ acked \in [Conns -> Nat]
  /\ slot \in [Conns -> [live : BOOLEAN, req : Requests \union {None},
                         resp : Requests \union {None}, hasResp : BOOLEAN]]
  /\ queue \in Seq(Conns)
  /\ wpc \in {"dequeue", "wait", "lock", "dispatch", "unlock"}
  /\ job \in Conns \union {None}
  /\ replies \in [Conns -> Seq(Requests \union {None})]
  /\ listening \in BOOLEAN

\* The slots are on the stacks of the connections' threads: a slot the worker
\* can still reach, through the queue or as its job, is not destroyed yet,
\* and the thread that owns it is inside the wait loop.
SlotAlive ==
  \A c \in Conns :
    (job = c \/ \E i \in DOMAIN queue : queue[i] = c) =>
      slot[c].live /\ pc[c] \in {"check", "wait"}

\* What a client reads is the answer to its own requests, one for each, in
\* the order it sent them: reply i of connection c answers request i of c.
RepliesInOrder ==
  \A c \in Conns : \A i \in DOMAIN replies[c] : replies[c][i] = <<c, i>>

\* No wakeup is lost: a thread asleep on slot.ready has its node in the queue
\* or in the worker's hands and not answered, and the worker is not asleep on
\* queue_cnd while the queue holds a node.
NoLostWakeup ==
  /\ \A c \in Conns : pc[c] = "wait" =>
       \/ \E i \in DOMAIN queue : queue[i] = c
       \/ job = c /\ wpc \in {"lock", "dispatch"}
  /\ wpc = "wait" => queue = <<>>

\* A patient client whose connection was accepted gets an answer to every
\* line it sends, whatever the other clients do: stop reading, hang up, or
\* send without end.
Answered ==
  \A c \in Patient : \A k \in 1 .. MaxLines :
    (c \in Open /\ sent[c] >= k) ~> (acked[c] >= k)

\* A connection whose client is gone gives its thread and descriptor back.
Reclaimed == \A c \in Conns : (c \in Open /\ client[c] = "gone") ~> (pc[c] = "closed")

-----------------------------------------------------------------------------
(* What every step relies on: the conjunction is inductive.                *)

Occurs(q, c) == \E i \in DOMAIN q : q[i] = c

Distinct(q) == \A i, j \in DOMAIN q : q[i] = q[j] => i = j

Queued(c) == Occurs(queue, c)

\* The worker owes c an answer: c's node is in the queue, or in its hands.
Owed(c) == Queued(c) \/ (job = c /\ wpc \in {"lock", "dispatch"})

\* A connection has at most one node, in one place.
OneNodeEach ==
  /\ Distinct(queue)
  /\ job # None => ~Queued(job)

\* A slot exists exactly while its thread is in the block that declares it,
\* and holds the request of this turn of the loop and its answer if any.
SlotShape ==
  \A c \in Conns :
    /\ slot[c].live <=> pc[c] \in {"check", "wait", "write"}
    /\ slot[c].live => slot[c].req = <<c, handled[c]>>
    /\ slot[c].hasResp => slot[c].live /\ slot[c].resp = slot[c].req
    /\ pc[c] = "wait" => ~slot[c].hasResp
    /\ pc[c] = "write" => slot[c].hasResp

\* The worker owes an answer to exactly the slots that have none.
OwedIffOpen == \A c \in Conns : Owed(c) <=> slot[c].live /\ ~slot[c].hasResp

\* While the worker holds the mutex after answering, the owner of the slot
\* cannot get past the wait loop.
WorkerShape ==
  /\ job = None <=> wpc \in {"dequeue", "wait"}
  /\ wpc = "unlock" => pc[job] = "check" /\ slot[job].hasResp
  /\ wpc = "wait" => queue = <<>>

\* Every line handled has its reply written, the current one excepted.
RepliesCounted ==
  \A c \in Conns :
    /\ pc[c] \in {"none", "backlog", "read", "line"} => Len(replies[c]) = handled[c]
    /\ slot[c].live => Len(replies[c]) + 1 = handled[c]

IndInv ==
  TypeOK /\ OneNodeEach /\ SlotShape /\ OwedIffOpen /\ WorkerShape
         /\ RepliesCounted /\ RepliesInOrder

-----------------------------------------------------------------------------
(* The server implements SerialService.  The worker's job leaves the line  *)
(* when dispatch has answered it.                                          *)

ServiceLine == IF wpc \in {"lock", "dispatch"} THEN <<job>> \o queue ELSE queue

ServicePhase == [c \in Conns |->
  IF pc[c] \in {"done", "closed"} THEN "over"
  ELSE IF ~slot[c].live THEN "idle"
  ELSE IF slot[c].hasResp THEN "served" ELSE "asked"]

Service == INSTANCE SerialService WITH
  Clients <- Conns, line <- ServiceLine, phase <- ServicePhase,
  asked <- handled, log <- replies

\* The server serves as SerialService does, and keeps serving.
ServiceSpec == Service!Spec

\* The safety half of it.
ServiceSafe == Service!SafeSpec
=============================================================================
