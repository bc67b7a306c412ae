------------------------- MODULE IwordServerProofs -------------------------
(***************************************************************************)
(* Theorems about IwordServer, for any set of connections and any bounds.  *)
(***************************************************************************)
EXTENDS IwordServer, SequenceTheorems, TLAPS

-----------------------------------------------------------------------------
(* Sequences as the queue uses them.                                       *)

\* enqueue adds one element and keeps the others.
LEMMA OccursAppend ==
  ASSUME NEW q \in Seq(Conns), NEW c \in Conns
  PROVE  /\ Append(q, c) \in Seq(Conns)
         /\ \A d : Occurs(Append(q, c), d) <=> Occurs(q, d) \/ d = c
         /\ Distinct(q) /\ ~Occurs(q, c) => Distinct(Append(q, c))
<1> DEFINE r == Append(q, c)
<1>1. /\ r \in Seq(Conns) /\ Len(r) = Len(q) + 1
      /\ \A i \in 1 .. Len(q) : r[i] = q[i]
      /\ r[Len(q) + 1] = c
  BY AppendProperties
<1>2. DOMAIN q = 1 .. Len(q) /\ DOMAIN r = 1 .. Len(q) + 1 /\ Len(q) \in Nat
  BY <1>1, LenProperties
<1> HIDE DEF r
<1>3. \A d : Occurs(r, d) <=> Occurs(q, d) \/ d = c
  BY <1>1, <1>2 DEF Occurs
<1>4. Distinct(q) /\ ~Occurs(q, c) => Distinct(r)
  BY <1>1, <1>2 DEF Occurs, Distinct
<1> QED BY <1>1, <1>3, <1>4 DEF r

\* dequeue_blocking takes the first element and keeps the others.
LEMMA OccursTail ==
  ASSUME NEW q \in Seq(Conns), q # <<>>
  PROVE  /\ Tail(q) \in Seq(Conns) /\ Head(q) \in Conns
         /\ \A d : Occurs(q, d) <=> Occurs(Tail(q), d) \/ d = Head(q)
         /\ Distinct(q) => Distinct(Tail(q)) /\ ~Occurs(Tail(q), Head(q))
<1> DEFINE r == Tail(q)  h == Head(q)
<1>1. /\ r \in Seq(Conns) /\ h \in Conns /\ Len(r) = Len(q) - 1
      /\ \A i \in 1 .. Len(r) : r[i] = q[i + 1]
      /\ h = q[1]
  BY HeadTailProperties
<1>2. /\ DOMAIN q = 1 .. Len(q) /\ DOMAIN r = 1 .. Len(r)
      /\ Len(q) \in Nat /\ Len(r) \in Nat /\ Len(q) >= 1
  BY <1>1, LenProperties, EmptySeq
<1> HIDE DEF r, h
<1>3. \A d : Occurs(r, d) => Occurs(q, d)
  BY <1>1, <1>2 DEF Occurs
<1>4. Occurs(q, h)
  BY <1>1, <1>2 DEF Occurs
<1>5. ASSUME NEW d, Occurs(q, d), d # h PROVE Occurs(r, d)
  <2>1. PICK i \in 1 .. Len(q) : q[i] = d
    BY <1>2, <1>5 DEF Occurs
  <2>2. i - 1 \in 1 .. Len(r) /\ r[i - 1] = d
    BY <1>1, <1>2, <1>5, <2>1
  <2> QED BY <1>2, <2>2 DEF Occurs
<1>6. Distinct(q) => Distinct(r) /\ ~Occurs(r, h)
  <2> SUFFICES ASSUME Distinct(q) PROVE Distinct(r) /\ ~Occurs(r, h)
    OBVIOUS
  <2>1. ASSUME NEW i \in 1 .. Len(r), NEW j \in 1 .. Len(r), r[i] = r[j]
        PROVE  i = j
    <3>1. i + 1 \in DOMAIN q /\ j + 1 \in DOMAIN q /\ q[i + 1] = q[j + 1]
      BY <1>1, <1>2, <2>1
    <3> QED BY <3>1, <2>1 DEF Distinct
  <2>2. ASSUME NEW i \in 1 .. Len(r), r[i] = h PROVE FALSE
    <3>1. i + 1 \in DOMAIN q /\ 1 \in DOMAIN q /\ q[i + 1] = q[1]
      BY <1>1, <1>2, <2>2
    <3> QED BY <3>1, <2>2 DEF Distinct
  <2> QED BY <1>2, <2>1, <2>2 DEF Distinct, Occurs
<1> QED BY <1>1, <1>3, <1>4, <1>5, <1>6 DEF r, h

-----------------------------------------------------------------------------
(* The inductive invariant.                                                *)

\* The invariant holds before the first connection.
LEMMA InitIndInv == Init => IndInv
<1> SUFFICES ASSUME Init PROVE IndInv
  OBVIOUS
<1> USE ServerAssumption
<1>1. TypeOK
  BY DEF Init, TypeOK, DeadSlot, Requests
<1>2. OneNodeEach /\ WorkerShape /\ RepliesInOrder
  BY DEF Init, OneNodeEach, Distinct, WorkerShape, RepliesInOrder
<1>3. SlotShape /\ OwedIffOpen /\ RepliesCounted
  BY DEF Init, SlotShape, OwedIffOpen, Owed, Queued, Occurs, DeadSlot, RepliesCounted
<1> QED BY <1>1, <1>2, <1>3 DEF IndInv

\* The steps of clients and listener, and those of a connection's thread that
\* leave its slot alone, touch nothing the invariant is about but pc.
LEMMA QuietStep ==
  ASSUME IndInv, NEW c \in Conns,
         ClientStep(c) \/ Accept(c) \/ AcceptRefused(c) \/ AcceptBreaks
           \/ Read(c) \/ ReadEnds(c) \/ CheckSlot(c) \/ SpuriousWake(c) \/ CloseConn(c)
  PROVE  IndInv'
<1> USE DEF IndInv, clientVars, connVars, workVars
<1>q. UNCHANGED <<slot, queue, wpc, job, replies, handled>>
  BY DEF ClientStep, Connect, Send, Receive, HalfClose, Hangup, Accept,
         AcceptRefused, AcceptBreaks, Read, ReadEnds, CheckSlot, SpuriousWake, CloseConn
<1>p. \A d \in Conns :
        \/ pc'[d] = pc[d]
        \/ /\ pc[d] \in {"none", "backlog", "read"}
           /\ pc'[d] \in {"backlog", "read", "line", "done", "closed"}
        \/ pc[d] = "done" /\ pc'[d] = "closed"
        \/ pc[d] = "check" /\ MutexFree(d)
              /\ pc'[d] = IF slot[d].hasResp THEN "write" ELSE "wait"
        \/ pc[d] = "wait" /\ pc'[d] = "check"
  <2>1. CASE ClientStep(c)
    BY <2>1 DEF TypeOK, ClientStep, Connect, Send, Receive, HalfClose, Hangup
  <2>2. CASE Accept(c) \/ AcceptRefused(c) \/ AcceptBreaks
    BY <2>2 DEF TypeOK, Accept, AcceptRefused, AcceptBreaks
  <2>3. CASE Read(c) \/ ReadEnds(c) \/ SpuriousWake(c) \/ CloseConn(c)
    BY <2>3 DEF TypeOK, Read, ReadEnds, SpuriousWake, CloseConn
  <2>4. CASE CheckSlot(c)
    BY <2>4 DEF TypeOK, CheckSlot
  <2> QED BY <2>1, <2>2, <2>3, <2>4
<1>1. TypeOK'
  <2>1. CASE Connect(c)
    BY <2>1 DEF TypeOK, Connect
  <2>8. CASE Send(c)
    <3>1. sent' \in [Conns -> Nat]
      BY <2>8 DEF TypeOK, Send
    <3>2. UNCHANGED <<pc, client, acked, taken, listening>>
      BY <2>8 DEF Send
    <3> QED BY <1>q, <3>1, <3>2 DEF TypeOK
  <2>2. CASE Receive(c)
    <3>1. acked' \in [Conns -> Nat]
      BY <2>2 DEF TypeOK, Receive
    <3>2. UNCHANGED <<pc, client, sent, taken, listening>>
      BY <2>2 DEF Receive
    <3> QED BY <1>q, <3>1, <3>2 DEF TypeOK
  <2>7. CASE HalfClose(c) \/ Hangup(c)
    <3>1. client' \in [Conns -> {"open", "half", "gone"}]
      BY <2>7 DEF TypeOK, HalfClose, Hangup
    <3>2. UNCHANGED <<pc, acked, sent, taken, listening>>
      BY <2>7 DEF HalfClose, Hangup
    <3> QED BY <1>q, <3>1, <3>2 DEF TypeOK
  <2>3. CASE Accept(c) \/ AcceptRefused(c) \/ AcceptBreaks
    BY <2>3 DEF TypeOK, Accept, AcceptRefused, AcceptBreaks
  <2>4. CASE Read(c)
    <3>1. PICK n \in 1 .. sent[c] - taken[c] : taken' = [taken EXCEPT ![c] = @ + n]
      BY <2>4 DEF Read
    <3>2. sent[c] \in Nat /\ taken[c] \in Nat
      BY DEF TypeOK
    <3>3. taken' \in [Conns -> Nat]
      BY <3>1, <3>2 DEF TypeOK
    <3> QED BY <2>4, <3>3 DEF TypeOK, Read
  <2>5. CASE ReadEnds(c) \/ SpuriousWake(c) \/ CloseConn(c)
    BY <2>5 DEF TypeOK, ReadEnds, SpuriousWake, CloseConn
  <2>6. CASE CheckSlot(c)
    BY <2>6 DEF TypeOK, CheckSlot
  <2> QED BY <2>1, <2>2, <2>3, <2>4, <2>5, <2>6, <2>7, <2>8 DEF ClientStep
<1>2. OneNodeEach' /\ OwedIffOpen' /\ RepliesInOrder'
  BY <1>q DEF OneNodeEach, OwedIffOpen, Owed, Queued, Occurs, Distinct, RepliesInOrder
<1>3. SlotShape'
  BY <1>p, <1>q DEF SlotShape
<1>4. WorkerShape'
  <2>1. job \in Conns \/ job = None
    BY DEF TypeOK
  <2> QED BY <1>p, <1>q, <2>1, ServerAssumption DEF WorkerShape, MutexFree
<1>5. RepliesCounted'
  <2> SUFFICES ASSUME NEW d \in Conns
               PROVE  /\ pc'[d] \in {"none", "backlog", "read", "line"} =>
                            Len(replies[d]) = handled[d]
                      /\ slot[d].live => Len(replies[d]) + 1 = handled[d]
    BY <1>q DEF RepliesCounted
  <2>1. pc'[d] \in {"none", "backlog", "read", "line"}
          => pc[d] \in {"none", "backlog", "read", "line"}
    BY <1>p
  <2> QED BY <2>1 DEF RepliesCounted
<1> QED BY <1>1, <1>2, <1>3, <1>4, <1>5

\* A line taken from the buffer opens a slot and puts its node in the queue.
LEMMA EnqueueStep ==
  ASSUME IndInv, NEW c \in Conns, Enqueue(c)
  PROVE  IndInv'
<1> USE DEF IndInv, clientVars, connVars, workVars
<1>1. /\ pc[c] = "line" /\ ~slot[c].live /\ ~slot[c].hasResp
      /\ ~Owed(c)
      /\ job # c /\ Len(replies[c]) = handled[c]
  <2>1. pc[c] = "line"
    BY DEF Enqueue
  <2>2. ~slot[c].live /\ ~slot[c].hasResp /\ Len(replies[c]) = handled[c]
    BY <2>1 DEF SlotShape, RepliesCounted
  <2>3. ~Owed(c)
    BY <2>2 DEF OwedIffOpen
  <2>4. job # c
    BY <2>1, <2>3, ServerAssumption DEF Owed, WorkerShape, TypeOK
  <2> QED BY <2>1, <2>2, <2>3, <2>4
<1>2. /\ queue' \in Seq(Conns)
      /\ \A d : Occurs(queue', d) <=> Occurs(queue, d) \/ d = c
      /\ Distinct(queue')
  BY <1>1, OccursAppend DEF Enqueue, TypeOK, Owed, Queued, OneNodeEach
<1>3. TypeOK'
  <2>1. handled' \in [Conns -> Nat]
    BY SMTT(20) DEF Enqueue, TypeOK
  <2>2. slot' \in [Conns -> [live : BOOLEAN, req : Requests \union {None},
                            resp : Requests \union {None}, hasResp : BOOLEAN]]
    <3>1. handled[c] \in Nat
      BY DEF TypeOK
    <3>2. <<c, handled[c] + 1>> \in Requests
      BY <3>1 DEF Requests
    <3> QED BY <3>2 DEF Enqueue, TypeOK
  <2>3. pc' \in [Conns -> {"none", "backlog", "read", "line", "check", "wait",
                       "write", "done", "closed"}]
    BY DEF Enqueue, TypeOK
  <2>4. wpc' \in {"dequeue", "wait", "lock", "dispatch", "unlock"}
    BY DEF Enqueue, TypeOK
  <2>5. UNCHANGED <<client, sent, acked, taken, job, replies, listening>>
    BY DEF Enqueue
  <2> QED BY <1>2, <2>1, <2>2, <2>3, <2>4, <2>5 DEF TypeOK
<1>4. OneNodeEach'
  BY <1>1, <1>2 DEF OneNodeEach, Queued, Enqueue
<1>5. \A d \in Conns : d # c => /\ slot'[d] = slot[d] /\ pc'[d] = pc[d]
                               /\ handled'[d] = handled[d]
  BY DEF Enqueue, TypeOK
<1>6. /\ slot'[c] = [live |-> TRUE, req |-> <<c, handled[c] + 1>>,
                     resp |-> None, hasResp |-> FALSE]
      /\ pc'[c] = "check" /\ handled'[c] = handled[c] + 1
  BY DEF Enqueue, TypeOK
<1>7. SlotShape'
  BY <1>5, <1>6 DEF SlotShape
<1>8. /\ \A d \in Conns : Queued(d)' <=> Queued(d) \/ d = c
      /\ job' = job
      /\ wpc' \in {"lock", "dispatch"} <=> wpc \in {"lock", "dispatch"}
  BY <1>2 DEF Queued, Enqueue
<1>9. OwedIffOpen'
  BY <1>1, <1>5, <1>6, <1>8 DEF OwedIffOpen, Owed
<1>10. WorkerShape'
  BY <1>1, <1>5 DEF WorkerShape, Enqueue, TypeOK
<1>11. RepliesCounted' /\ RepliesInOrder'
  <2>1. replies' = replies /\ Len(replies[c]) \in Nat /\ handled[c] \in Nat
    BY LenProperties DEF Enqueue, TypeOK
  <2> QED BY <1>1, <1>5, <1>6, <2>1 DEF RepliesCounted, RepliesInOrder
<1> QED BY <1>3, <1>4, <1>7, <1>9, <1>10, <1>11

\* Both ways out of "write" destroy the slot of a thread the worker owes nothing.
LEMMA WriteStep ==
  ASSUME IndInv, NEW c \in Conns, WriteReply(c) \/ WriteFails(c)
  PROVE  IndInv'
<1> USE DEF IndInv, clientVars, connVars, workVars
<1>1. /\ pc[c] = "write" /\ slot[c].live /\ slot[c].hasResp /\ ~Owed(c)
      /\ slot[c].resp = <<c, handled[c]>> /\ job # c
  <2>1. pc[c] = "write"
    BY DEF WriteReply, WriteFails
  <2>2. slot[c].live /\ slot[c].hasResp /\ slot[c].resp = <<c, handled[c]>>
    BY <2>1 DEF SlotShape
  <2>3. ~Owed(c)
    BY <2>2 DEF OwedIffOpen
  <2>4. job # c
    BY <2>1, <2>3, ServerAssumption DEF Owed, WorkerShape, TypeOK
  <2> QED BY <2>1, <2>2, <2>3, <2>4
<1>2. UNCHANGED <<queue, job, wpc, handled, client, sent, taken, acked, listening>>
  BY DEF WriteReply, WriteFails
<1>3. /\ slot' = [slot EXCEPT ![c] = DeadSlot]
      /\ slot'[c] = DeadSlot
      /\ \A d \in Conns : d # c => slot'[d] = slot[d] /\ pc'[d] = pc[d] /\ replies'[d] = replies[d]
  BY DEF WriteReply, WriteFails, TypeOK
<1>4. pc' \in [Conns -> {"none", "backlog", "read", "line", "check", "wait",
                       "write", "done", "closed"}]
      /\ pc'[c] \in {"line", "read", "done"}
  BY DEF WriteReply, WriteFails, TypeOK, AfterLine
<1>5. ASSUME WriteReply(c)
      PROVE  /\ replies' \in [Conns -> Seq(Requests \union {None})]
             /\ RepliesCounted' /\ RepliesInOrder'
  <2>1. /\ replies[c] \in Seq(Requests \union {None})
        /\ slot[c].resp \in Requests \union {None}
    BY DEF TypeOK
  <2>2. /\ replies' = [replies EXCEPT ![c] = Append(@, slot[c].resp)]
        /\ replies'[c] = Append(replies[c], slot[c].resp)
    BY <1>5 DEF WriteReply, TypeOK
  <2>3. /\ replies'[c] \in Seq(Requests \union {None})
        /\ Len(replies'[c]) = Len(replies[c]) + 1
        /\ DOMAIN replies'[c] = 1 .. Len(replies[c]) + 1
        /\ DOMAIN replies[c] = 1 .. Len(replies[c])
        /\ \A i \in 1 .. Len(replies[c]) : replies'[c][i] = replies[c][i]
        /\ replies'[c][Len(replies[c]) + 1] = slot[c].resp
        /\ Len(replies[c]) \in Nat
    <3> DEFINE T == Requests \union {None}
               q == replies[c]
               e == slot[c].resp
               r == replies'[c]
    <3>1. q \in Seq(T) /\ e \in T /\ r = Append(q, e)
      BY <2>1, <2>2
    <3> HIDE DEF T, q, e, r
    <3>2. /\ r \in Seq(T) /\ Len(r) = Len(q) + 1
          /\ \A i \in 1 .. Len(q) : r[i] = q[i]
          /\ r[Len(q) + 1] = e
      BY <3>1, AppendProperties
    <3>3. DOMAIN r = 1 .. Len(r) /\ DOMAIN q = 1 .. Len(q) /\ Len(q) \in Nat
      BY <3>1, <3>2, LenProperties
    <3> QED BY <3>2, <3>3 DEF T, q, e, r
  <2>4. replies' \in [Conns -> Seq(Requests \union {None})]
    <3> DEFINE S == Seq(Requests \union {None})
    <3>1. replies \in [Conns -> S] /\ replies'[c] \in S
      BY <2>3 DEF TypeOK
    <3> HIDE DEF S
    <3>2. replies' \in [Conns -> S]
      BY <3>1, <2>2
    <3> QED BY <3>2 DEF S
  <2>5. Len(replies[c]) + 1 = handled[c]
    BY <1>1 DEF RepliesCounted
  <2>6. RepliesCounted'
    <3> SUFFICES ASSUME NEW d \in Conns
                 PROVE  /\ pc'[d] \in {"none", "backlog", "read", "line"} =>
                              Len(replies'[d]) = handled[d]
                        /\ slot'[d].live => Len(replies'[d]) + 1 = handled[d]
      BY <1>2 DEF RepliesCounted
    <3>1. CASE d # c
      BY <1>3, <3>1 DEF RepliesCounted
    <3>2. CASE d = c
      BY <1>3, <2>3, <2>5, <3>2 DEF DeadSlot
    <3> QED BY <3>1, <3>2
  <2>7. RepliesInOrder'
    <3> SUFFICES ASSUME NEW d \in Conns, NEW i \in DOMAIN replies'[d]
                 PROVE  replies'[d][i] = <<d, i>>
      BY DEF RepliesInOrder
    <3>1. CASE d # c
      BY <1>3, <3>1 DEF RepliesInOrder
    <3>2. CASE d = c /\ i \in 1 .. Len(replies[c])
      BY <2>3, <3>2 DEF RepliesInOrder
    <3>3. CASE d = c /\ i = Len(replies[c]) + 1
      BY <1>1, <2>3, <2>5, <3>3
    <3> QED BY <2>3, <3>1, <3>2, <3>3
  <2> QED BY <2>4, <2>6, <2>7
<1>6. ASSUME WriteFails(c)
      PROVE  /\ replies' \in [Conns -> Seq(Requests \union {None})]
             /\ RepliesCounted' /\ RepliesInOrder'
  <2>1. replies' = replies /\ pc'[c] = "done"
    BY <1>6 DEF WriteFails, TypeOK
  <2> QED BY <1>2, <1>3, <2>1 DEF RepliesCounted, RepliesInOrder, TypeOK, DeadSlot
<1>7. TypeOK'
  <2>1. slot' \in [Conns -> [live : BOOLEAN, req : Requests \union {None},
                            resp : Requests \union {None}, hasResp : BOOLEAN]]
    BY <1>3 DEF TypeOK, DeadSlot
  <2>2. replies' \in [Conns -> Seq(Requests \union {None})]
    BY <1>5, <1>6
  <2> QED BY <1>2, <1>4, <2>1, <2>2 DEF TypeOK
<1>8. SlotShape'
  BY <1>2, <1>3, <1>4 DEF SlotShape, DeadSlot
<1>9. OneNodeEach' /\ OwedIffOpen' /\ WorkerShape'
  BY <1>1, <1>2, <1>3 DEF OneNodeEach, OwedIffOpen, WorkerShape, Owed, Queued, DeadSlot, TypeOK
<1> QED BY <1>5, <1>6, <1>7, <1>8, <1>9

\* The worker goes to sleep, wakes, or takes the mutex: only wpc changes.
LEMMA IdleWorkerStep ==
  ASSUME IndInv, WaitForWork \/ SpuriousWorkerWake \/ LockSlot
  PROVE  IndInv'
<1> USE DEF IndInv, clientVars, connVars, workVars
<1>1. UNCHANGED <<connVars, clientVars, slot, queue, job, replies, listening>>
  BY DEF WaitForWork, SpuriousWorkerWake, LockSlot
<1>2. /\ wpc' \in {"dequeue", "wait", "dispatch"}
      /\ wpc' \in {"lock", "dispatch"} <=> wpc \in {"lock", "dispatch"}
      /\ wpc' \in {"dequeue", "wait"} <=> wpc \in {"dequeue", "wait"}
      /\ wpc' = "wait" => queue = <<>>
  BY DEF WaitForWork, SpuriousWorkerWake, LockSlot
<1>3. TypeOK'
  BY <1>1, <1>2 DEF TypeOK
<1>4. OneNodeEach' /\ SlotShape' /\ RepliesCounted' /\ RepliesInOrder'
  BY <1>1 DEF OneNodeEach, Queued, Occurs, Distinct, SlotShape, RepliesCounted, RepliesInOrder
<1>5. OwedIffOpen'
  BY <1>1, <1>2 DEF OwedIffOpen, Owed, Queued, Occurs
<1>6. WorkerShape'
  BY <1>1, <1>2 DEF WorkerShape
<1> QED BY <1>3, <1>4, <1>5, <1>6

\* The node at the head moves from the queue to the worker's hands.
LEMMA DequeueStep ==
  ASSUME IndInv, Dequeue
  PROVE  IndInv'
<1> USE DEF IndInv, clientVars, connVars, workVars
<1>1. /\ UNCHANGED <<connVars, clientVars, slot, replies, listening>>
      /\ queue # <<>> /\ queue \in Seq(Conns) /\ wpc = "dequeue" /\ wpc' = "lock"
      /\ job' = Head(queue) /\ queue' = Tail(queue) /\ Distinct(queue)
  BY DEF Dequeue, TypeOK, OneNodeEach
<1>2. /\ queue' \in Seq(Conns) /\ job' \in Conns
      /\ \A d : Occurs(queue, d) <=> Occurs(queue', d) \/ d = job'
      /\ Distinct(queue') /\ ~Occurs(queue', job')
  BY <1>1, OccursTail
<1>3. TypeOK'
  BY <1>1, <1>2 DEF TypeOK
<1>4. OneNodeEach'
  BY <1>2 DEF OneNodeEach, Queued
<1>5. \A d \in Conns : Owed(d)' <=> Owed(d)
  BY <1>1, <1>2 DEF Owed, Queued
<1>6. OwedIffOpen'
  BY <1>1, <1>5 DEF OwedIffOpen
<1>7. SlotShape' /\ RepliesCounted' /\ RepliesInOrder'
  BY <1>1 DEF SlotShape, RepliesCounted, RepliesInOrder
<1>8. WorkerShape'
  BY <1>1, <1>2, ServerAssumption DEF WorkerShape
<1> QED BY <1>3, <1>4, <1>6, <1>7, <1>8

\* The slot in the worker's hands gets its answer, its owner is awake after.
LEMMA DispatchStep ==
  ASSUME IndInv, Dispatch
  PROVE  IndInv'
<1> USE DEF IndInv, clientVars, connVars, workVars
<1>1. /\ UNCHANGED <<clientVars, taken, handled, queue, job, replies, listening>>
      /\ wpc = "dispatch" /\ wpc' = "unlock"
  BY DEF Dispatch
<1>2. job \in Conns /\ Owed(job) /\ ~Queued(job)
  BY <1>1, ServerAssumption DEF TypeOK, WorkerShape, Owed, OneNodeEach
<1>3. /\ slot[job].live /\ ~slot[job].hasResp /\ slot[job].req = <<job, handled[job]>>
      /\ pc[job] \in {"check", "wait"}
  BY <1>2 DEF OwedIffOpen, SlotShape
<1>4. /\ slot'[job] = [slot[job] EXCEPT !.resp = slot[job].req, !.hasResp = TRUE]
      /\ pc'[job] = "check"
      /\ \A d \in Conns : d # job => slot'[d] = slot[d] /\ pc'[d] = pc[d]
  BY <1>2, <1>3 DEF Dispatch, TypeOK
<1>5. /\ slot'[job].live /\ slot'[job].hasResp
      /\ slot'[job].req = slot[job].req /\ slot'[job].resp = slot[job].req
  BY <1>2, <1>3, <1>4 DEF TypeOK
<1>6. TypeOK'
  <2>1. slot' \in [Conns -> [live : BOOLEAN, req : Requests \union {None},
                            resp : Requests \union {None}, hasResp : BOOLEAN]]
    BY ZenonT(30), <1>2 DEF Dispatch, TypeOK
  <2>2. pc' \in [Conns -> {"none", "backlog", "read", "line", "check", "wait",
                       "write", "done", "closed"}]
    BY <1>2 DEF Dispatch, TypeOK
  <2> QED BY <1>1, <2>1, <2>2 DEF TypeOK
<1>7. OneNodeEach' /\ RepliesInOrder'
  BY <1>1 DEF OneNodeEach, Queued, Occurs, Distinct, RepliesInOrder
<1>8. SlotShape'
  <2> SUFFICES ASSUME NEW d \in Conns
               PROVE  /\ slot'[d].live <=> pc'[d] \in {"check", "wait", "write"}
                      /\ slot'[d].live => slot'[d].req = <<d, handled[d]>>
                      /\ slot'[d].hasResp => slot'[d].live /\ slot'[d].resp = slot'[d].req
                      /\ pc'[d] = "wait" => ~slot'[d].hasResp
                      /\ pc'[d] = "write" => slot'[d].hasResp
    BY <1>1 DEF SlotShape
  <2>1. CASE d = job
    BY <1>3, <1>4, <1>5, <2>1
  <2>2. CASE d # job
    BY <1>4, <2>2 DEF SlotShape
  <2> QED BY <2>1, <2>2
<1>9. OwedIffOpen'
  BY <1>1, <1>2, <1>4, <1>5 DEF OwedIffOpen, Owed, Queued, Occurs
<1>10. WorkerShape'
  BY <1>1, <1>2, <1>4, <1>5, ServerAssumption DEF WorkerShape
<1>11. RepliesCounted'
  BY <1>1, <1>3, <1>4, <1>5 DEF RepliesCounted
<1> QED BY <1>6, <1>7, <1>8, <1>9, <1>10, <1>11

\* The worker gives the mutex back and has no slot in its hands any more.
LEMMA UnlockStep ==
  ASSUME IndInv, UnlockSlot
  PROVE  IndInv'
<1> USE DEF IndInv, clientVars, connVars, workVars
<1>1. /\ UNCHANGED <<connVars, clientVars, slot, queue, replies, listening>>
      /\ wpc = "unlock" /\ wpc' = "dequeue" /\ job' = None
  BY DEF UnlockSlot
<1>2. TypeOK' /\ OneNodeEach' /\ WorkerShape'
  BY <1>1 DEF TypeOK, OneNodeEach, Distinct, WorkerShape
<1>3. SlotShape' /\ RepliesCounted' /\ RepliesInOrder'
  BY <1>1 DEF SlotShape, RepliesCounted, RepliesInOrder
<1>4. OwedIffOpen'
  BY <1>1 DEF OwedIffOpen, Owed, Queued, Occurs
<1> QED BY <1>2, <1>3, <1>4

\* A stuttering step keeps the invariant.
LEMMA StutterStep == IndInv /\ UNCHANGED vars => IndInv'
<1> SUFFICES ASSUME IndInv, UNCHANGED vars PROVE IndInv'
  OBVIOUS
<1> USE DEF vars, IndInv
<1>1. TypeOK'
  BY DEF TypeOK
<1>2. OneNodeEach' /\ OwedIffOpen' /\ WorkerShape'
  BY DEF OneNodeEach, Queued, Occurs, Distinct, OwedIffOpen, Owed, WorkerShape
<1>3. SlotShape' /\ RepliesCounted' /\ RepliesInOrder'
  BY DEF SlotShape, RepliesCounted, RepliesInOrder
<1> QED BY <1>1, <1>2, <1>3

\* Every step keeps it: one of the steps above, by cases of Next.
LEMMA NextIndInv == IndInv /\ [Next]_vars => IndInv'
<1> SUFFICES ASSUME IndInv, [Next]_vars PROVE IndInv'
  OBVIOUS
<1>1. CASE AcceptBreaks
  <2>1. CASE Conns = {}
    BY <1>1, <2>1 DEF AcceptBreaks, connVars, clientVars, workVars, IndInv, TypeOK, OneNodeEach,
       Queued, Occurs, Distinct, SlotShape, OwedIffOpen, Owed, WorkerShape, RepliesCounted, RepliesInOrder
  <2>2. CASE Conns # {}
    BY <1>1, <2>2, QuietStep
  <2> QED BY <2>1, <2>2
<1>2. ASSUME NEW c \in Conns, Accept(c) \/ AcceptRefused(c) \/ ClientStep(c) \/ ConnStep(c)
      PROVE  IndInv'
  BY <1>2, QuietStep, EnqueueStep, WriteStep DEF ConnStep
<1>3. CASE WorkerStep
  BY <1>3, IdleWorkerStep, DequeueStep, DispatchStep, UnlockStep DEF WorkerStep
<1>4. CASE UNCHANGED vars
  BY <1>4, StutterStep
<1> QED BY <1>1, <1>2, <1>3, <1>4 DEF Next, ListenerStep

\* Type correctness and the rest of the inductive invariant, for any number of
\* connections, lines, buffered replies and descriptors.
THEOREM Invariance == Spec => []IndInv
<1>1. Init => IndInv
  BY InitIndInv
<1>2. IndInv /\ [Next]_vars => IndInv'
  BY NextIndInv
<1> QED BY <1>1, <1>2, PTL DEF Spec

\* TypeOK holds in every reachable state.
THEOREM TypeCorrect == Spec => []TypeOK
<1>1. IndInv => TypeOK
  BY DEF IndInv
<1> QED BY <1>1, Invariance, PTL

\* The worker never touches the slot of a thread that left the wait loop: the
\* mutex, the condition variable and the stack memory it reaches are alive.
THEOREM SlotsStayAlive == Spec => []SlotAlive
<1>1. IndInv => SlotAlive
  <2> SUFFICES ASSUME IndInv, NEW c \in Conns, job = c \/ Queued(c)
               PROVE  slot[c].live /\ pc[c] \in {"check", "wait"}
    BY DEF SlotAlive, Queued, Occurs
  <2>1. CASE Owed(c)
    BY <2>1 DEF IndInv, OwedIffOpen, SlotShape
  <2>2. CASE ~Owed(c)
    BY <2>2, ServerAssumption DEF IndInv, Owed, WorkerShape, SlotShape, TypeOK
  <2> QED BY <2>1, <2>2
<1> QED BY <1>1, Invariance, PTL

\* No thread sleeps on slot.ready or queue_cnd with nobody left to wake it.
THEOREM WakeupsNotLost == Spec => []NoLostWakeup
<1>1. IndInv => NoLostWakeup
  BY DEF IndInv, NoLostWakeup, OwedIffOpen, Owed, Queued, Occurs, SlotShape, WorkerShape
<1> QED BY <1>1, Invariance, PTL

\* Reply i of a connection answers its request i: no reply is skipped, doubled,
\* swapped, or delivered to another connection.
THEOREM RepliesStayInOrder == Spec => []RepliesInOrder
<1>1. IndInv => RepliesInOrder
  BY DEF IndInv
<1> QED BY <1>1, Invariance, PTL

-----------------------------------------------------------------------------
(* IwordServer implements SerialService.                                   *)

\* The node in the worker's hands still stands at the head of the line.
LEMMA LineWithJob ==
  ASSUME NEW q \in Seq(Conns), NEW j \in Conns, NEW c \in Conns
  PROVE  /\ <<j>> \o q # <<>>
         /\ Head(<<j>> \o q) = j /\ Tail(<<j>> \o q) = q
         /\ <<j>> \o Append(q, c) = Append(<<j>> \o q, c)
BY SMTT(30)

\* A line is its head followed by its tail.
LEMMA LineFromHead ==
  ASSUME NEW q \in Seq(Conns), q # <<>>
  PROVE  <<Head(q)>> \o Tail(q) = q
BY SMTT(30)

\* The server starts as the service does.
LEMMA InitRefines == Init => Service!Init
<1> SUFFICES ASSUME Init PROVE Service!Init
  OBVIOUS
<1> QED BY DEF Init, Service!Init, ServiceLine, ServicePhase, DeadSlot

\* A step that keeps the line, the counters and the replies, and every phase.
LEMMA SamePhases ==
  ASSUME UNCHANGED <<ServiceLine, handled, replies>>,
         \A d \in Conns : ServicePhase'[d] = ServicePhase[d]
  PROVE  UNCHANGED Service!vars
<1>1. ServicePhase' = ServicePhase
  BY DEF ServicePhase
<1> QED BY <1>1 DEF Service!vars

\* A connection that leaves: the other phases stay.
LEMMA LeaveRefines ==
  ASSUME NEW c \in Conns, ServicePhase[c] \in {"idle", "served"},
         UNCHANGED <<ServiceLine, handled, replies>>,
         ServicePhase'[c] = "over",
         \A d \in Conns : d # c => ServicePhase'[d] = ServicePhase[d]
  PROVE  Service!Leave(c)
<1>1. ServicePhase' = [ServicePhase EXCEPT ![c] = "over"]
  BY DEF ServicePhase
<1> QED BY <1>1 DEF Service!Leave

\* These steps are none of the service's.
LEMMA QuietRefines ==
  ASSUME IndInv, NEW c \in Conns,
         ClientStep(c) \/ Accept(c) \/ Read(c) \/ CheckSlot(c) \/ SpuriousWake(c)
           \/ CloseConn(c)
  PROVE  UNCHANGED Service!vars
<1> USE DEF clientVars, connVars, workVars
<1>1. UNCHANGED <<slot, queue, wpc, job, handled, replies>>
  BY DEF ClientStep, Connect, Send, Receive, HalfClose, Hangup, Accept, Read, CheckSlot,
         SpuriousWake, CloseConn
<1>2. \A d \in Conns : pc'[d] \in {"done", "closed"} <=> pc[d] \in {"done", "closed"}
  <2>1. CASE ClientStep(c)
    BY <2>1 DEF IndInv, TypeOK, ClientStep, Connect, Send, Receive, HalfClose, Hangup
  <2>2. CASE Accept(c) \/ Read(c) \/ SpuriousWake(c) \/ CloseConn(c)
    BY <2>2 DEF IndInv, TypeOK, Accept, Read, SpuriousWake, CloseConn
  <2>3. CASE CheckSlot(c)
    BY <2>3 DEF IndInv, TypeOK, CheckSlot
  <2> QED BY <2>1, <2>2, <2>3
<1>3. \A d \in Conns : ServicePhase'[d] = ServicePhase[d]
  BY <1>1, <1>2 DEF ServicePhase
<1>4. ServiceLine' = ServiceLine
  BY <1>1 DEF ServiceLine
<1> QED BY <1>1, <1>3, <1>4, SamePhases

\* A connection that ends leaves the service.
LEMMA LeaveStepRefines ==
  ASSUME IndInv, NEW c \in Conns,
         AcceptRefused(c) \/ ReadEnds(c) \/ WriteFails(c)
  PROVE  Service!Leave(c)
<1> USE DEF clientVars, connVars, workVars
<1>1. /\ UNCHANGED <<queue, wpc, job, handled, replies>>
      /\ pc[c] \in {"backlog", "read", "write"} /\ pc'[c] \in {"done", "closed"}
      /\ \A d \in Conns : d # c => pc'[d] = pc[d] /\ slot'[d] = slot[d]
  BY DEF AcceptRefused, ReadEnds, WriteFails, IndInv, TypeOK
<1>2. ServicePhase[c] \in {"idle", "served"}
  BY <1>1 DEF IndInv, SlotShape, ServicePhase
<1>3. /\ ServicePhase'[c] = "over"
      /\ \A d \in Conns : d # c => ServicePhase'[d] = ServicePhase[d]
  BY <1>1 DEF ServicePhase
<1>4. ServiceLine' = ServiceLine
  BY <1>1 DEF ServiceLine
<1> QED BY <1>1, <1>2, <1>3, <1>4, LeaveRefines

\* A line put into the queue is a question asked.
LEMMA EnqueueRefines ==
  ASSUME IndInv, NEW c \in Conns, Enqueue(c)
  PROVE  Service!Ask(c)
<1> USE DEF clientVars, connVars, workVars
<1>1. /\ pc[c] = "line" /\ pc'[c] = "check" /\ UNCHANGED <<job, replies>>
      /\ slot'[c].live /\ ~slot'[c].hasResp
      /\ \A d \in Conns : d # c => pc'[d] = pc[d] /\ slot'[d] = slot[d]
      /\ handled' = [handled EXCEPT ![c] = @ + 1]
  BY DEF Enqueue, IndInv, TypeOK
<1>2. ServicePhase[c] = "idle"
  BY <1>1 DEF IndInv, SlotShape, ServicePhase
<1>3. ServicePhase' = [ServicePhase EXCEPT ![c] = "asked"]
  BY <1>1 DEF ServicePhase
<1>4. ServiceLine' = Append(ServiceLine, c)
  <2>1. /\ queue' = Append(queue, c) /\ queue \in Seq(Conns)
        /\ wpc' \in {"lock", "dispatch"} <=> wpc \in {"lock", "dispatch"}
    BY DEF Enqueue, IndInv, TypeOK
  <2>2. wpc \in {"lock", "dispatch"} => job \in Conns
    BY ServerAssumption DEF IndInv, WorkerShape, TypeOK
  <2>3. CASE wpc \in {"lock", "dispatch"}
    BY <1>1, <2>1, <2>2, <2>3, LineWithJob DEF ServiceLine
  <2>4. CASE wpc \notin {"lock", "dispatch"}
    BY <2>1, <2>4 DEF ServiceLine
  <2> QED BY <2>3, <2>4
<1> QED BY <1>1, <1>2, <1>3, <1>4 DEF Service!Ask

\* A reply written is an answer delivered.
LEMMA WriteRefines ==
  ASSUME IndInv, NEW c \in Conns, WriteReply(c)
  PROVE  Service!Deliver(c)
<1> USE DEF clientVars, connVars, workVars
<1>1. /\ UNCHANGED <<queue, wpc, job, handled>> /\ pc[c] = "write"
      /\ pc'[c] \notin {"done", "closed"} /\ ~slot'[c].live
      /\ \A d \in Conns : d # c => pc'[d] = pc[d] /\ slot'[d] = slot[d]
      /\ replies' = [replies EXCEPT ![c] = Append(@, slot[c].resp)]
  BY DEF WriteReply, AfterLine, DeadSlot, IndInv, TypeOK
<1>2. slot[c].live /\ slot[c].hasResp /\ slot[c].resp = <<c, handled[c]>>
  BY <1>1 DEF IndInv, SlotShape
<1>3. ServicePhase[c] = "served"
  BY <1>1, <1>2 DEF ServicePhase
<1>4. ServicePhase' = [ServicePhase EXCEPT ![c] = "idle"]
  BY <1>1 DEF ServicePhase
<1>5. ServiceLine' = ServiceLine
  BY <1>1 DEF ServiceLine
<1>6. replies' = [replies EXCEPT ![c] = Append(@, <<c, handled[c]>>)]
  BY <1>1, <1>2
<1> QED BY <1>1, <1>3, <1>4, <1>5, <1>6 DEF Service!Deliver

\* Of the worker's steps only Dispatch is seen: it serves the head of the line.
LEMMA DispatchRefines ==
  ASSUME IndInv, Dispatch
  PROVE  Service!Serve
<1> USE DEF clientVars, connVars, workVars
<1>1. /\ UNCHANGED <<handled, queue, job, replies>>
      /\ wpc = "dispatch" /\ wpc' = "unlock" /\ queue \in Seq(Conns)
  BY DEF Dispatch, IndInv, TypeOK
<1>2. job \in Conns /\ Owed(job)
  BY <1>1, ServerAssumption DEF IndInv, TypeOK, WorkerShape, Owed
<1>3. slot[job].live /\ pc[job] \in {"check", "wait"}
  BY <1>2 DEF IndInv, OwedIffOpen, SlotShape
<1>4. /\ slot'[job].live /\ slot'[job].hasResp /\ pc'[job] = "check"
      /\ \A d \in Conns : d # job => pc'[d] = pc[d] /\ slot'[d] = slot[d]
  BY <1>2, <1>3 DEF Dispatch, IndInv, TypeOK
<1>5. ServicePhase' = [ServicePhase EXCEPT ![job] = "served"]
  BY <1>2, <1>4 DEF ServicePhase
<1>6. /\ ServiceLine = <<job>> \o queue /\ ServiceLine' = queue
      /\ ServiceLine # <<>> /\ Head(ServiceLine) = job /\ Tail(ServiceLine) = queue
  BY <1>1, <1>2, LineWithJob DEF ServiceLine
<1> QED BY <1>1, <1>5, <1>6 DEF Service!Serve

\* The worker's other steps are none of the service's.
LEMMA WorkerRefines ==
  ASSUME IndInv, WaitForWork \/ SpuriousWorkerWake \/ Dequeue \/ LockSlot \/ UnlockSlot
  PROVE  UNCHANGED Service!vars
<1> USE DEF clientVars, connVars, workVars
<1>1. UNCHANGED <<pc, slot, handled, replies>>
  BY DEF WaitForWork, SpuriousWorkerWake, Dequeue, LockSlot, UnlockSlot
<1>2. \A d \in Conns : ServicePhase'[d] = ServicePhase[d]
  BY <1>1 DEF ServicePhase
<1>3. ServiceLine' = ServiceLine
  <2>1. CASE Dequeue
    BY <2>1, LineFromHead DEF Dequeue, ServiceLine, IndInv, TypeOK
  <2>2. CASE WaitForWork \/ SpuriousWorkerWake \/ LockSlot \/ UnlockSlot
    BY <2>2 DEF WaitForWork, SpuriousWorkerWake, LockSlot, UnlockSlot, ServiceLine
  <2> QED BY <2>1, <2>2
<1> QED BY <1>1, <1>2, <1>3, SamePhases

\* Every step of the server is one of the service's, or none.
LEMMA StepRefines == IndInv /\ [Next]_vars => [Service!Next]_(Service!vars)
<1> SUFFICES ASSUME IndInv, [Next]_vars PROVE [Service!Next]_(Service!vars)
  OBVIOUS
<1>1. ASSUME NEW c \in Conns, Accept(c) \/ AcceptRefused(c) \/ ClientStep(c) \/ ConnStep(c)
      PROVE  [Service!Next]_(Service!vars)
  <2>1. Service!Ask(c) \/ Service!Deliver(c) \/ Service!Leave(c) \/ UNCHANGED Service!vars
    BY <1>1, QuietRefines, LeaveStepRefines, EnqueueRefines, WriteRefines DEF ConnStep
  <2> QED BY <2>1 DEF Service!Next
<1>2. CASE WorkerStep
  BY <1>2, DispatchRefines, WorkerRefines DEF WorkerStep, Service!Next
<1>3. CASE AcceptBreaks \/ UNCHANGED vars
  <2>1. UNCHANGED <<pc, slot, queue, wpc, job, handled, replies>>
    BY <1>3 DEF AcceptBreaks, vars, connVars, clientVars, workVars
  <2>2. UNCHANGED <<ServiceLine, ServicePhase>>
    BY <2>1 DEF ServiceLine, ServicePhase
  <2> QED BY <2>1, <2>2 DEF Service!vars
<1> QED BY <1>1, <1>2, <1>3 DEF Next, ListenerStep

\* The threads, the queue, the mutexes and the condition variables together do
\* what one clerk with one line does: nobody is served out of turn, twice, or
\* with somebody else's answer.
THEOREM Implements == Spec => ServiceSafe
<1>1. Init => Service!Init
  BY InitRefines
<1>2. IndInv /\ [Next]_vars => [Service!Next]_(Service!vars)
  BY StepRefines
<1> QED BY <1>1, <1>2, Invariance, PTL DEF Spec, ServiceSafe, Service!SafeSpec
=============================================================================
