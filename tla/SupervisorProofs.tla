------------------------- MODULE SupervisorProofs -------------------------
(***************************************************************************)
(* Theorems about Supervisor, for any set of processes and any number of   *)
(* faults.                                                                 *)
(***************************************************************************)
EXTENDS Supervisor, TLAPS

\* Nothing is up at the start, whatever an earlier server left in the file system.
LEMMA InitIndInv == Init => IndInv
<1> SUFFICES ASSUME Init PROVE IndInv
  OBVIOUS
<1> USE SupervisorAssumption
<1>1. TypeOK
  BY DEF Init, TypeOK
<1>2. Waiting
  BY DEF Init, Waiting
<1>3. Names
  BY DEF Init, Names
<1>4. Undisturbed
  BY DEF Init, Undisturbed
<1> QED BY <1>1, <1>2, <1>3, <1>4 DEF IndInv

\* A fault is counted within the bound, and its server is not clean any more.
LEMMA FaultCounted ==
  ASSUME TypeOK, NEW s \in Servers, FaultOf(s)
  PROVE  /\ faults' \in 0 .. MaxFaults /\ clean' = clean \ {s}
         /\ opts' = opts /\ sup' = sup /\ child' = child
  BY SupervisorAssumption DEF TypeOK, FaultOf, Fault

\* A server that ends gives up its names and takes nobody else's.
LEMMA ExitStep ==
  ASSUME IndInv, NEW s \in Servers, Alive(s), NEW c \in {0, 1}, Exit(s, c),
         opts' = opts, sup' = sup, child' = child,
         faults' \in 0 .. MaxFaults, clean' \subseteq clean
  PROVE  IndInv'
<1> USE SupervisorAssumption DEF IndInv, Exit, Goto
<1>1. TypeOK'
  BY DEF TypeOK
<1>2. Waiting'
  BY DEF TypeOK, Waiting
<1>3. Names'
  BY DEF TypeOK, Names, Alive, Started
<1>4. Undisturbed'
  BY DEF TypeOK, Undisturbed, Alive
<1> QED BY <1>1, <1>2, <1>3, <1>4

\* The worker's thread changes nothing other processes see.
LEMMA StartWorkerStep == ASSUME IndInv, NEW s \in Servers, StartWorker(s) PROVE IndInv'
<1> USE SupervisorAssumption DEF IndInv, StartWorker, Goto
<1> USE DEF NoFault
<1>1. TypeOK'
  BY DEF TypeOK
<1>2. Waiting'
  BY DEF TypeOK, Waiting
<1>3. Names'
  BY DEF TypeOK, Names, Alive, Started
<1>4. Undisturbed'
  BY DEF TypeOK, Names, Undisturbed, Alive
<1> QED BY <1>1, <1>2, <1>3, <1>4

\* A clean server is alone, so the path it removes is nobody's.
LEMMA UnlinkStep == ASSUME IndInv, NEW s \in Servers, Unlink(s) PROVE IndInv'
<1> USE SupervisorAssumption DEF IndInv, Unlink, Goto
<1> USE DEF NoFault
<1>1. TypeOK'
  BY DEF TypeOK
<1>2. Waiting'
  BY DEF TypeOK, Waiting
<1>3. Names'
  BY DEF TypeOK, Names, Alive, Started
<1>4. Undisturbed'
  BY DEF TypeOK, Names, Undisturbed, Alive
<1> QED BY <1>1, <1>2, <1>3, <1>4

\* A clean server finds the path it has removed still gone.
LEMMA BindUnixStep == ASSUME IndInv, NEW s \in Servers, BindUnix(s) PROVE IndInv'
<1> USE SupervisorAssumption DEF IndInv, BindUnix, Goto
<1> USE DEF NoFault
<1>1. TypeOK'
  BY DEF TypeOK
<1>2. Waiting'
  BY DEF TypeOK, Waiting
<1>3. Names'
  BY DEF TypeOK, Names, Alive, Started
<1>4. Undisturbed'
  BY DEF TypeOK, Names, Undisturbed, Alive
<1> QED BY <1>1, <1>2, <1>3, <1>4

\* A server alone finds no other listening on the port.
LEMMA BindTcpStep == ASSUME IndInv, NEW s \in Servers, BindTcp(s) PROVE IndInv'
<1> USE SupervisorAssumption DEF IndInv, BindTcp, Goto
<1> USE DEF NoFault
<1>1. TypeOK'
  BY DEF TypeOK
<1>2. Waiting'
  BY DEF TypeOK, Waiting
<1>3. Names'
  BY DEF TypeOK, Names, Alive, Started
<1>4. Undisturbed'
  BY DEF TypeOK, Names, Undisturbed, Alive
<1> QED BY <1>1, <1>2, <1>3, <1>4

\* No worker, no server.
LEMMA WorkerFailsStep == ASSUME IndInv, NEW s \in Servers, WorkerFails(s) PROVE IndInv'
<1>1. Alive(s)
  BY DEF WorkerFails, Alive
<1>2. Exit(s, 1)
  BY DEF WorkerFails
<1>3. FaultOf(s)
  BY DEF WorkerFails
<1>4. /\ faults' \in 0 .. MaxFaults /\ clean' = clean \ {s}
      /\ opts' = opts /\ sup' = sup /\ child' = child
  BY <1>3, FaultCounted DEF IndInv
<1> QED BY <1>1, <1>2, <1>4, ExitStep

\* A signal ends a server at any step.
LEMMA KillStep == ASSUME IndInv, NEW s \in Servers, Kill(s) PROVE IndInv'
<1>1. Alive(s)
  BY DEF Kill, Alive
<1>2. Exit(s, 1)
  BY DEF Kill
<1>3. FaultOf(s)
  BY DEF Kill
<1>4. /\ faults' \in 0 .. MaxFaults /\ clean' = clean \ {s}
      /\ opts' = opts /\ sup' = sup /\ child' = child
  BY <1>3, FaultCounted DEF IndInv
<1> QED BY <1>1, <1>2, <1>4, ExitStep

\* A call that fails costs a listener and the server its cleanness.
LEMMA SocketFailsStep == ASSUME IndInv, NEW s \in Servers, SocketFails(s) PROVE IndInv'
<1> USE SupervisorAssumption DEF IndInv, SocketFails, Goto
<1>f. /\ faults' \in 0 .. MaxFaults /\ clean' = clean \ {s}
      /\ opts' = opts /\ sup' = sup /\ child' = child
  BY FaultCounted
<1>1. TypeOK'
  BY <1>f DEF TypeOK
<1>2. Waiting'
  BY <1>f DEF TypeOK, Waiting
<1>3. Names'
  BY <1>f DEF TypeOK, Names, Alive, Started
<1>4. Undisturbed'
  BY <1>f DEF TypeOK, Names, Undisturbed, Alive
<1> QED BY <1>1, <1>2, <1>3, <1>4

\* A path that could not be removed is still whose it was.
LEMMA UnlinkFailsStep == ASSUME IndInv, NEW s \in Servers, UnlinkFails(s) PROVE IndInv'
<1> USE SupervisorAssumption DEF IndInv, UnlinkFails, Goto
<1>f. /\ faults' \in 0 .. MaxFaults /\ clean' = clean \ {s}
      /\ opts' = opts /\ sup' = sup /\ child' = child
  BY FaultCounted
<1>1. TypeOK'
  BY <1>f DEF TypeOK
<1>2. Waiting'
  BY <1>f DEF TypeOK, Waiting
<1>3. Names'
  BY <1>f DEF TypeOK, Names, Alive, Started
<1>4. Undisturbed'
  BY <1>f DEF TypeOK, Names, Undisturbed, Alive
<1> QED BY <1>1, <1>2, <1>3, <1>4

\* The path a failed listen leaves is nobody's.
LEMMA ListenFailsStep == ASSUME IndInv, NEW s \in Servers, ListenFails(s) PROVE IndInv'
<1> USE SupervisorAssumption DEF IndInv, ListenFails, Goto
<1>f. /\ faults' \in 0 .. MaxFaults /\ clean' = clean \ {s}
      /\ opts' = opts /\ sup' = sup /\ child' = child
  BY FaultCounted
<1>1. TypeOK'
  BY <1>f DEF TypeOK
<1>2. Waiting'
  BY <1>f DEF TypeOK, Waiting
<1>3. Names'
  BY <1>f DEF TypeOK, Names, Alive, Started
<1>4. Undisturbed'
  BY <1>f DEF TypeOK, Names, Undisturbed, Alive
<1> QED BY <1>1, <1>2, <1>3, <1>4

\* A socket without a thread listens.
LEMMA UnixThreadFailsStep == ASSUME IndInv, NEW s \in Servers, UnixThreadFails(s) PROVE IndInv'
<1> USE SupervisorAssumption DEF IndInv, UnixThreadFails, Goto
<1>f. /\ faults' \in 0 .. MaxFaults /\ clean' = clean \ {s}
      /\ opts' = opts /\ sup' = sup /\ child' = child
  BY FaultCounted
<1>1. TypeOK'
  BY <1>f DEF TypeOK
<1>2. Waiting'
  BY <1>f DEF TypeOK, Waiting
<1>3. Names'
  BY <1>f DEF TypeOK, Names, Alive, Started
<1>4. Undisturbed'
  BY <1>f DEF TypeOK, Names, Undisturbed, Alive
<1> QED BY <1>1, <1>2, <1>3, <1>4

\* The same for the port.
LEMMA TcpFailsStep == ASSUME IndInv, NEW s \in Servers, TcpFails(s) PROVE IndInv'
<1> USE SupervisorAssumption DEF IndInv, TcpFails, Goto
<1>f. /\ faults' \in 0 .. MaxFaults /\ clean' = clean \ {s}
      /\ opts' = opts /\ sup' = sup /\ child' = child
  BY FaultCounted
<1>1. TypeOK'
  BY <1>f DEF TypeOK
<1>2. Waiting'
  BY <1>f DEF TypeOK, Waiting
<1>3. Names'
  BY <1>f DEF TypeOK, Names, Alive, Started
<1>4. Undisturbed'
  BY <1>f DEF TypeOK, Names, Undisturbed, Alive
<1> QED BY <1>1, <1>2, <1>3, <1>4

\* A listener that ends in a server that lives keeps its name.
LEMMA AcceptBreaksStep == ASSUME IndInv, NEW s \in Servers, AcceptBreaks(s) PROVE IndInv'
<1> USE SupervisorAssumption DEF IndInv, AcceptBreaks, Goto
<1>f. /\ faults' \in 0 .. MaxFaults /\ clean' = clean \ {s}
      /\ opts' = opts /\ sup' = sup /\ child' = child
  BY FaultCounted
<1>1. TypeOK'
  BY <1>f DEF TypeOK
<1>2. Waiting'
  BY <1>f DEF TypeOK, Waiting
<1>3. Names'
  BY <1>f DEF TypeOK, Names, Alive, Started
<1>4. Undisturbed'
  BY <1>f DEF TypeOK, Names, Undisturbed, Alive
<1> QED BY <1>1, <1>2, <1>3, <1>4

\* A server with bad arguments ends before it touches a name.
LEMMA ArgsStep == ASSUME IndInv, NEW s \in Servers, Args(s) PROVE IndInv'
<1>1. Alive(s)
  BY DEF Args, Alive
<1>2. CASE opts.args = "ok"
  <2> USE <1>2, SupervisorAssumption DEF IndInv, Args, Goto, NoFault
  <2>1. TypeOK'
    BY DEF TypeOK
  <2>2. Waiting'
    BY DEF TypeOK, Waiting
  <2>3. Names'
    BY DEF TypeOK, Names, Alive, Started
  <2>4. Undisturbed'
    BY DEF TypeOK, Names, Undisturbed, Alive
  <2> QED BY <2>1, <2>2, <2>3, <2>4
<1>3. CASE opts.args # "ok"
  <2>1. PICK c \in {0, 1} : Exit(s, c)
    BY <1>3 DEF Args
  <2>2. /\ opts' = opts /\ sup' = sup /\ child' = child
        /\ faults' \in 0 .. MaxFaults /\ clean' \subseteq clean
    BY DEF Args, NoFault, IndInv, TypeOK
  <2> QED BY <1>1, <2>1, <2>2, ExitStep
<1> QED BY <1>2, <1>3

\* A server parks with a listener or ends.
LEMMA CountStep == ASSUME IndInv, NEW s \in Servers, Count(s) PROVE IndInv'
<1>1. Alive(s)
  BY DEF Count, Alive
<1>2. CASE Started(s)
  <2> USE <1>2, SupervisorAssumption DEF IndInv, Count, Goto, NoFault
  <2>1. TypeOK'
    BY DEF TypeOK
  <2>2. Waiting'
    BY DEF TypeOK, Waiting
  <2>3. Names'
    BY DEF TypeOK, Names, Alive, Started
  <2>4. Undisturbed'
    BY DEF TypeOK, Names, Undisturbed, Alive
  <2> QED BY <2>1, <2>2, <2>3, <2>4
<1>3. CASE ~ Started(s)
  <2>1. Exit(s, 1)
    BY <1>3 DEF Count
  <2>2. /\ opts' = opts /\ sup' = sup /\ child' = child
        /\ faults' \in 0 .. MaxFaults /\ clean' \subseteq clean
    BY DEF Count, NoFault, IndInv, TypeOK
  <2> QED BY <1>1, <2>1, <2>2, ExitStep
<1> QED BY <1>2, <1>3

\* A port without a thread listens, or its server has ended.
LEMMA TcpThreadFailsStep == ASSUME IndInv, NEW s \in Servers, TcpThreadFails(s) PROVE IndInv'
<1>1. Alive(s)
  BY DEF TcpThreadFails, Alive
<1>2. /\ faults' \in 0 .. MaxFaults /\ clean' = clean \ {s}
      /\ opts' = opts /\ sup' = sup /\ child' = child
  BY FaultCounted DEF TcpThreadFails, IndInv
<1>3. CASE Exit(s, 1)
  BY <1>1, <1>2, <1>3, ExitStep
<1>4. CASE /\ Goto(s, "count") /\ port' = s /\ tl' = [tl EXCEPT ![s] = "deaf"]
           /\ UNCHANGED <<code, ul, path>>
  <2> USE <1>2, <1>4, SupervisorAssumption DEF IndInv, TcpThreadFails, Goto
  <2>1. TypeOK'
    BY DEF TypeOK
  <2>2. Waiting'
    BY DEF TypeOK, Waiting
  <2>3. Names'
    BY DEF TypeOK, Names, Alive, Started
  <2>4. Undisturbed'
    BY DEF TypeOK, Names, Undisturbed, Alive
  <2> QED BY <2>1, <2>2, <2>3, <2>4
<1> QED BY <1>3, <1>4 DEF TcpThreadFails

\* iwordd starts a server, clean when no orphan of an earlier one is there.
LEMMA SpawnStep == ASSUME IndInv, NEW s \in Servers, Spawn(s) PROVE IndInv'
<1> USE SupervisorAssumption DEF IndInv, Spawn, Goto
<1>1. TypeOK'
  BY DEF TypeOK
<1>2. Waiting'
  BY DEF TypeOK, Waiting
<1>3. Names'
  BY DEF TypeOK, Names, Alive, Started
<1>4. Undisturbed'
  BY DEF TypeOK, Names, Undisturbed, Alive
<1> QED BY <1>1, <1>2, <1>3, <1>4

\* iwordd looks at what its server returned, and forgets it.
LEMMA ReapStep == IndInv /\ Reap => IndInv'
<1> SUFFICES ASSUME IndInv, Reap PROVE IndInv'
  OBVIOUS
<1> USE SupervisorAssumption DEF IndInv, Reap, Goto
<1>0. child \in Servers
  BY DEF TypeOK, Waiting
<1>1. TypeOK'
  BY <1>0 DEF TypeOK
<1>2. Waiting'
  BY <1>0 DEF TypeOK, Waiting
<1>3. Names'
  BY <1>0 DEF TypeOK, Names, Alive, Started
<1>4. Undisturbed'
  BY <1>0 DEF TypeOK, Names, Undisturbed, Alive
<1> QED BY <1>1, <1>2, <1>3, <1>4

\* Without iwordd its server is an orphan, and init reaps what is dead.
LEMMA KillSupervisorStep == IndInv /\ KillSupervisor => IndInv'
<1> SUFFICES ASSUME IndInv, KillSupervisor PROVE IndInv'
  OBVIOUS
<1> USE SupervisorAssumption DEF IndInv, KillSupervisor, Fault
<1>1. TypeOK'
  BY DEF TypeOK
<1>2. Waiting'
  BY DEF TypeOK, Waiting
<1>3. Names'
  BY DEF TypeOK, Names, Alive, Started
<1>4. Undisturbed'
  BY DEF TypeOK, Names, Undisturbed, Alive
<1> QED BY <1>1, <1>2, <1>3, <1>4

\* Between two servers nothing moves but iwordd.
LEMMA TurnStep ==
  ASSUME IndInv, Wake \/ Restart \/ UNCHANGED vars
  PROVE  IndInv'
<1> USE DEF IndInv, Wake, Restart, vars, serverVars
<1>1. TypeOK'
  BY DEF TypeOK
<1>2. Waiting'
  BY DEF Waiting
<1>3. Names'
  BY DEF Names, Alive, Started
<1>4. Undisturbed'
  BY DEF Undisturbed, Alive
<1> QED BY <1>1, <1>2, <1>3, <1>4

\* Types, who is waited for, who holds a name and what a clean server has reached
\* hold throughout.
THEOREM Invariance == Spec => []IndInv
<1>1. IndInv /\ [Next]_vars => IndInv'
  <2> SUFFICES ASSUME IndInv, [Next]_vars PROVE IndInv'
    OBVIOUS
  <2>1. ASSUME NEW s \in Servers, Main(s) PROVE IndInv'
    BY <2>1, ArgsStep, StartWorkerStep, UnlinkStep, BindUnixStep, BindTcpStep, CountStep
    DEF Main
  <2>2. ASSUME NEW s \in Servers, Fails(s) PROVE IndInv'
    BY <2>2, WorkerFailsStep, SocketFailsStep, UnlinkFailsStep, ListenFailsStep, UnixThreadFailsStep,
       TcpFailsStep, TcpThreadFailsStep, AcceptBreaksStep, KillStep
    DEF Fails
  <2>3. CASE iwordd
    BY <2>3, ReapStep, TurnStep, SpawnStep DEF iwordd
  <2>4. CASE KillSupervisor \/ Restart \/ UNCHANGED vars
    BY <2>4, KillSupervisorStep, TurnStep
  <2> QED BY <2>1, <2>2, <2>3, <2>4 DEF Next
<1> QED BY <1>1, InitIndInv, PTL DEF Spec

\* A server that comes up undisturbed is reached under every name it was asked
\* for, whatever the servers before it left when they died.
THEOREM CleanStartIsReached == Spec => []ReachableOnceUp
<1>1. IndInv => ReachableOnceUp
  BY DEF IndInv, Undisturbed, ReachableOnceUp
<1> QED BY <1>1, Invariance, PTL

=============================================================================
