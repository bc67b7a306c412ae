----------------------------- MODULE Supervisor -----------------------------
(***************************************************************************)
(* tool/iwordd, the loop that starts iwordserver again, and main of        *)
(* tool/iwordserver.c, which opens the sockets one after the other and     *)
(* then sleeps in pause; what the threads do then is IwordServer's         *)
(* subject.  Processes meet in two names: the path of the Unix socket,     *)
(* which stays in the file system when its server is gone, and the TCP     *)
(* port, which the kernel takes back.                                      *)
(*                                                                         *)
(* A server dies of any signal with a code that is not 0: none has a       *)
(* handler, so pause never returns.  iwordd may be killed without its      *)
(* server, which lives on as an orphan; what started iwordd (systemd,      *)
(* daemontools) starts it again.  MaxFaults bounds what goes wrong.        *)
(***************************************************************************)
EXTENDS Naturals, FiniteSets

CONSTANTS
  Servers,            \* the processes there may be, used again and again
  MaxFaults,          \* calls that fail, and processes that are killed
  None                \* no process

ASSUME SupervisorAssumption ==
  /\ MaxFaults \in Nat
  /\ None \notin Servers /\ {"stale", "timewait"} \cap Servers = {}

VARIABLES
  opts,               \* the command line: [args, unix, tcp]
  sup,                \* iwordd: "start", "wait", "sleep", "stopped", "killed"
  child,              \* the server iwordd waits for, or None
  pc,                 \* where main of each server is: "free" and "dead" are no process
  code,               \* what a dead server returned
  ul, tl,             \* its listeners: "none", "accepting", "deaf" (no thread accepts)
  path,               \* the Unix path: None, "stale", or the server bound to it
  port,               \* the TCP port: None, "timewait", or the server bound to it
  faults,             \* how much has gone wrong
  clean               \* servers with no failed call and no other server beside them

serverVars == <<pc, code, ul, tl, path, port>>
vars == <<opts, sup, child, pc, code, ul, tl, path, port, faults, clean>>

\* "bad" is an option getopt does not know, "help" is -h; -n and -p 0 leave a
\* socket out.
Options == [args : {"ok", "help", "bad"}, unix : BOOLEAN, tcp : BOOLEAN]

Init ==
  /\ opts \in Options
  /\ sup = "start" /\ child = None
  /\ pc = [s \in Servers |-> "free"] /\ code = [s \in Servers |-> 0]
  /\ ul = [s \in Servers |-> "none"] /\ tl = [s \in Servers |-> "none"]
  /\ path \in {None, "stale"} /\ port = None
  /\ faults = 0 /\ clean = {}

Alive(s) == pc[s] \notin {"free", "dead"}

Fault == faults < MaxFaults /\ faults' = faults + 1

\* A fault of one server.
FaultOf(s) == Fault /\ clean' = clean \ {s} /\ UNCHANGED <<opts, sup, child>>

NoFault == UNCHANGED <<opts, sup, child, faults, clean>>

Goto(s, l) == pc' = [pc EXCEPT ![s] = l]

\* The kernel closes what the process had open; connections of the port may
\* linger, and the path is not removed.
Exit(s, c) ==
  /\ Goto(s, IF s = child THEN "dead" ELSE "free")
  /\ code' = [code EXCEPT ![s] = c]
  /\ ul' = [ul EXCEPT ![s] = "none"] /\ tl' = [tl EXCEPT ![s] = "none"]
  /\ path' = IF path = s THEN "stale" ELSE path
  /\ IF port = s THEN port' \in {None, "timewait"} ELSE port' = port

-----------------------------------------------------------------------------
(* main                                                                    *)

Args(s) ==
  /\ pc[s] = "args"
  /\ IF opts.args = "ok" THEN Goto(s, "worker") /\ UNCHANGED <<code, ul, tl, path, port>>
     ELSE Exit(s, IF opts.args = "help" THEN 0 ELSE 1)
  /\ NoFault

StartWorker(s) ==
  /\ pc[s] = "worker"
  /\ Goto(s, "unix")
  /\ NoFault /\ UNCHANGED <<code, ul, tl, path, port>>

WorkerFails(s) == pc[s] = "worker" /\ Exit(s, 1) /\ FaultOf(s)

\* Fault: what a dead server left is not removed.
UnlinkSkipped(s) ==
  /\ pc[s] = "unix"
  /\ IF opts.unix THEN Goto(s, "bind") ELSE Goto(s, "tcp")
  /\ NoFault /\ UNCHANGED <<code, ul, tl, path, port>>

\* unlink removes the path whoever is bound to it.
Unlink(s) ==
  /\ pc[s] = "unix"
  /\ IF opts.unix THEN Goto(s, "bind") /\ path' = None
     ELSE Goto(s, "tcp") /\ UNCHANGED path
  /\ NoFault /\ UNCHANGED <<code, ul, tl, port>>

\* unlink fails and nobody looks: what is at the path stays, and bind fails on it.
UnlinkFails(s) ==
  /\ pc[s] = "unix" /\ opts.unix /\ path # None
  /\ Goto(s, "bind")
  /\ FaultOf(s) /\ UNCHANGED <<code, ul, tl, path, port>>

SocketFails(s) ==
  /\ pc[s] = "unix" /\ opts.unix
  /\ Goto(s, "tcp")
  /\ FaultOf(s) /\ UNCHANGED <<code, ul, tl, path, port>>

\* bind, listen and the listener's thread; bind fails when another server was
\* quicker.
BindUnix(s) ==
  /\ pc[s] = "bind"
  /\ Goto(s, "tcp")
  /\ IF path = None THEN path' = s /\ ul' = [ul EXCEPT ![s] = "accepting"]
     ELSE UNCHANGED <<path, ul>>
  /\ NoFault /\ UNCHANGED <<code, tl, port>>

\* listen or malloc fails behind bind: the descriptor is closed, the path stays.
ListenFails(s) ==
  /\ pc[s] = "bind" /\ path = None
  /\ Goto(s, "tcp") /\ path' = "stale"
  /\ FaultOf(s) /\ UNCHANGED <<code, ul, tl, port>>

\* pthread_create fails and nobody looks: the socket counts as started, and
\* pthread_detach is given a thread that was never set.
UnixThreadFails(s) ==
  /\ pc[s] = "bind" /\ path = None
  /\ \/ /\ Goto(s, "tcp") /\ path' = s /\ ul' = [ul EXCEPT ![s] = "deaf"]
        /\ UNCHANGED <<code, tl, port>>
     \/ /\ Goto(s, IF s = child THEN "dead" ELSE "free") /\ path' = "stale"
        /\ code' = [code EXCEPT ![s] = 1]
        /\ UNCHANGED <<ul, tl, port>>
  /\ FaultOf(s)

\* With SO_REUSEADDR only a server that still listens is in the way.
BindTcp(s) ==
  /\ pc[s] = "tcp"
  /\ Goto(s, "count")
  /\ IF opts.tcp /\ port \notin Servers THEN port' = s /\ tl' = [tl EXCEPT ![s] = "accepting"]
     ELSE UNCHANGED <<port, tl>>
  /\ NoFault /\ UNCHANGED <<code, ul, path>>

\* socket, bind, listen or malloc fails; or setsockopt does, at which nobody looks,
\* and bind is refused while old connections linger.
TcpFails(s) ==
  /\ pc[s] = "tcp" /\ opts.tcp
  /\ Goto(s, "count")
  /\ FaultOf(s) /\ UNCHANGED <<code, ul, tl, path, port>>

TcpThreadFails(s) ==
  /\ pc[s] = "tcp" /\ opts.tcp /\ port \notin Servers
  /\ \/ /\ Goto(s, "count") /\ port' = s /\ tl' = [tl EXCEPT ![s] = "deaf"]
        /\ UNCHANGED <<code, ul, path>>
     \/ Exit(s, 1)
  /\ FaultOf(s)

Started(s) == ul[s] # "none" \/ tl[s] # "none"

\* Fault: a server without a listener sleeps like any other.
CountSkipped(s) ==
  /\ pc[s] = "count"
  /\ Goto(s, "parked") /\ UNCHANGED <<code, ul, tl, path, port>>
  /\ NoFault

\* Fault: it ends as if it had been asked to.
CountZero(s) ==
  /\ pc[s] = "count"
  /\ IF Started(s) THEN Goto(s, "parked") /\ UNCHANGED <<code, ul, tl, path, port>>
     ELSE Exit(s, 0)
  /\ NoFault

Count(s) ==
  /\ pc[s] = "count"
  /\ IF Started(s) THEN Goto(s, "parked") /\ UNCHANGED <<code, ul, tl, path, port>>
     ELSE Exit(s, 1)
  /\ NoFault

\* accept_loop is left: the socket goes on listening, and nobody accepts.
AcceptBreaks(s) ==
  /\ \/ ul[s] = "accepting" /\ ul' = [ul EXCEPT ![s] = "deaf"] /\ UNCHANGED tl
     \/ tl[s] = "accepting" /\ tl' = [tl EXCEPT ![s] = "deaf"] /\ UNCHANGED ul
  /\ FaultOf(s) /\ UNCHANGED <<pc, code, path, port>>

Kill(s) == Alive(s) /\ Exit(s, 1) /\ FaultOf(s)

-----------------------------------------------------------------------------
(* iwordd                                                                  *)

Spawn(s) ==
  /\ sup = "start" /\ pc[s] = "free"
  /\ sup' = "wait" /\ child' = s
  /\ Goto(s, "args")
  /\ clean' = IF \A t \in Servers : ~ Alive(t) THEN {s} ELSE {}
  /\ UNCHANGED <<opts, code, ul, tl, path, port, faults>>

Reap ==
  /\ sup = "wait" /\ pc[child] = "dead"
  /\ sup' = IF code[child] = 0 THEN "stopped" ELSE "sleep"
  /\ Goto(child, "free") /\ child' = None
  /\ UNCHANGED <<opts, code, ul, tl, path, port, faults, clean>>

Wake ==
  /\ sup = "sleep" /\ sup' = "start"
  /\ UNCHANGED <<opts, child, serverVars, faults, clean>>

KillSupervisor ==
  /\ Fault /\ sup \in {"start", "wait", "sleep"}
  /\ sup' = "killed" /\ child' = None
  /\ pc' = [s \in Servers |-> IF pc[s] = "dead" THEN "free" ELSE pc[s]]
  /\ UNCHANGED <<opts, code, ul, tl, path, port, clean>>

\* Restart=always, and its like.
Restart ==
  /\ sup = "killed" /\ sup' = "start"
  /\ UNCHANGED <<opts, child, serverVars, faults, clean>>

-----------------------------------------------------------------------------
Main(s) == Args(s) \/ StartWorker(s) \/ Unlink(s) \/ BindUnix(s) \/ BindTcp(s) \/ Count(s)

Fails(s) ==
  \/ WorkerFails(s) \/ SocketFails(s) \/ UnlinkFails(s) \/ ListenFails(s) \/ UnixThreadFails(s)
  \/ TcpFails(s) \/ TcpThreadFails(s) \/ AcceptBreaks(s) \/ Kill(s)

iwordd == Reap \/ Wake \/ \E s \in Servers : Spawn(s)

Next ==
  \/ \E s \in Servers : Main(s) \/ Fails(s)
  \/ iwordd \/ KillSupervisor \/ Restart

\* Processes run; nothing has to fail.
Fairness ==
  /\ \A s \in Servers : WF_vars(Main(s))
  /\ WF_vars(iwordd) /\ WF_vars(Restart)

Spec == Init /\ [][Next]_vars /\ Fairness

-----------------------------------------------------------------------------
(* Properties                                                              *)

TypeOK ==
  /\ opts \in Options
  /\ sup \in {"start", "wait", "sleep", "stopped", "killed"}
  /\ child \in Servers \union {None}
  /\ pc \in [Servers -> {"free", "dead", "args", "worker", "unix", "bind", "tcp", "count", "parked"}]
  /\ code \in [Servers -> {0, 1}]
  /\ ul \in [Servers -> {"none", "accepting", "deaf"}]
  /\ tl \in [Servers -> {"none", "accepting", "deaf"}]
  /\ path \in Servers \union {None, "stale"}
  /\ port \in Servers \union {None, "timewait"}
  /\ faults \in 0 .. MaxFaults /\ clean \subseteq Servers

\* iwordd waits for the server it has, and only that one can be dead and unreaped.
Waiting ==
  /\ child # None <=> sup = "wait"
  /\ \A s \in Servers : pc[s] = "dead" => s = child

\* A name is bound by a process that lives and listens, a process listens only
\* behind its own bind, and sleeps only when it listens.
Names ==
  /\ path \in Servers => Alive(path) /\ ul[path] # "none"
  /\ port \in Servers => Alive(port) /\ tl[port] # "none"
  /\ \A s \in Servers :
       /\ ul[s] # "none" => pc[s] \in {"tcp", "count", "parked"}
       /\ tl[s] # "none" => pc[s] \in {"count", "parked"}
       /\ pc[s] = "parked" => Started(s)

\* Nobody takes a name from a clean server between two of its steps.
Undisturbed ==
  \A s \in clean :
    /\ \A t \in Servers : Alive(t) => t = s
    /\ pc[s] = "bind" => path = None
    /\ pc[s] \in {"tcp", "count", "parked"} /\ opts.unix => path = s /\ ul[s] = "accepting"
    /\ pc[s] \in {"count", "parked"} /\ opts.tcp => port = s /\ tl[s] = "accepting"

\* The inductive invariant: types, who is waited for, who holds a name, and what
\* a server that nothing has gone wrong for has reached at each of its steps.
IndInv == TypeOK /\ Waiting /\ Names /\ Undisturbed

\* A server that has come up with no call failing and no other server beside it
\* is reached under every name it was asked for, whatever the servers before it
\* left behind when they died.
ReachableOnceUp ==
  \A s \in clean : pc[s] = "parked" =>
    /\ opts.unix => path = s /\ ul[s] = "accepting"
    /\ opts.tcp  => port = s /\ tl[s] = "accepting"

NoOrphan == \A s \in Servers : Alive(s) => s = child

NobodyDeaf == \A s \in Servers : ul[s] # "deaf" /\ tl[s] # "deaf"

Up == child # None /\ pc[child] = "parked" /\ child \in {path, port}

\* The service comes back and stays, however often servers die and calls fail
\* before, if it was asked for a socket.  Two things are beyond iwordd: a listener
\* that ends in a server that lives, and a server whose iwordd was killed.
ComesBack ==
  (opts.args = "ok" /\ (opts.unix \/ opts.tcp) /\ []NoOrphan /\ []NobodyDeaf) => <>[]Up
=============================================================================
