--------------------------- MODULE LinkMonitoring ---------------------------
(***************************************************************************)
(* Assignment2 as a whole: networkMonitor, the intfMonitors it forks, and  *)
(* the stream socket between them.  SIGINT may reach the processes of      *)
(* Interruptible (MASTER stands for networkMonitor) at any moment.         *)
(***************************************************************************)
EXTENDS IntfMonitor, NetworkMonitor

CONSTANT Interruptible

ASSUME LinkMonitoringAssumption == Interruptible \subseteq Monitors \cup {MASTER}

vars == <<sockets, imVars, nmVars>>

Init == SocketsInit /\ IMInit /\ NMInit

\* fork() succeeds, or fails and the loop goes on with the next name.
NMFork == NMForkTurn /\ (IMFork(forked + 1) \/ UNCHANGED imVars)

Server     == (NMStep /\ UNCHANGED imVars) \/ NMFork
Monitor(m) == IMStep(m) /\ UNCHANGED nmVars

Sigint ==
  \/ MASTER \in Interruptible /\ NMSigint /\ UNCHANGED imVars
  \/ \E m \in Interruptible \ {MASTER} : IMSigint(m) /\ UNCHANGED nmVars

Next == Server \/ (\E m \in Monitors : Monitor(m)) \/ Sigint

Spec == Init /\ [][Next]_vars

(***************************************************************************)
(* The operating system schedules every process that can run.  Nothing is  *)
(* assumed of signals, of the interfaces, or of which way a failing call   *)
(* goes.                                                                   *)
(***************************************************************************)
FairSpec == Spec /\ WF_vars(Server) /\ \A m \in Monitors : WF_vars(Monitor(m))

-----------------------------------------------------------------------------
(* Invariants.                                                             *)

\* Every variable keeps its type.
TypeOK == SocketsTypeOK /\ IMTypeOK /\ NMTypeOK

\* No interface name is given to two connections at once: the search for a
\* free name (networkMonitor.cpp:345-362) is right however accepts,
\* disconnections and the reuse of freed names alternate.
NamesUnique ==
  \A m, n \in Connected : client_fds[m] = client_fds[n] => m = n

\* While the server works, client_fds lists exactly the accepted connections
\* that are open: none leaks out of the map, none stays in it once closed
\* (networkMonitor.cpp:109-110, 122-123, 136-137, 366).
OpenIffMapped ==
  nm_pc \notin {"cleanup", "exited", "killed"} =>
    \A m \in Monitors : m \in Connected <=> server_end[m] = "open"

\* accept() is called only with a connection in the backlog, so it never
\* blocks the loop (networkMonitor.cpp:314-317), even when SIGINT closed the
\* listening socket in between.
AcceptNeverBlocks ==
  nm_pc = "accept" /\ MASTER \in read_fds /\ listening => backlog # <<>>

\* Who is in a blocking call finds there what makes it return
\* (networkMonitor.cpp:303-385, intfMonitor.cpp:158-253).  The server: in
\* accept(); in recv(), while it runs or once the monitor there has ended, and
\* so never at a monitor that stays silent, unless a failed select() led it
\* there.  A monitor: in recv(), or in connect(), when the server has ended
\* anyhow; and in the handshake, unless the server still has its "Ready".
BlockedCallsReturn ==
  /\ AcceptNeverBlocks
  /\ nm_pc = "recv" /\ (running \/ Dead(fd)) => ServerReadable(fd)
  /\ \A m \in Monitors :
       /\ NMDead /\ At(m, "connect") => ~listening
       /\ NMDead /\ im_pc[m] \in {"waitMonitor", "waitCmd"} => ClientReadable(m)
       /\ At(m, "waitMonitor")
            => ClientReadable(m) \/ (ServerAlive(m) /\ toServer[m] = <<"Ready">>)

\* networkMonitor.cpp:314-385, 109-137: the names are a registry that serves
\* connections in the order of connect(), refuses one only when every name is
\* taken, and frees the name of a monitor that has left.
Phase     == IF nm_pc = "setup" THEN "new" ELSE IF listening THEN "open" ELSE "stopped"
NameOf(m) == IF server_end[m] = "open" THEN client_fds[m] ELSE NoName
Registry  == INSTANCE NameRegistry
               WITH Clients <- Monitors, phase <- Phase, queue <- backlog,
                    name <- [m \in Monitors |-> NameOf(m)]
ImplementsRegistry == Registry!Spec

-----------------------------------------------------------------------------
(* The inductive invariants behind them.                                   *)

\* The backlog holds each waiting connection once.
BacklogMatches ==
  /\ \A i \in DOMAIN backlog : server_end[backlog[i]] = "backlog"
  /\ \A i, j \in DOMAIN backlog : backlog[i] = backlog[j] => i = j

\* A process that has not called connect() has no connection.
Unconnected ==
  \A m \in Monitors :
    im_pc[m] \in {"off", "starting", "connect"} => server_end[m] = "none"

\* The scan of fds_to_check and the loop of cleanup_sockets meet only open
\* descriptors, each once: the test client_fds.count(fd) never fails.
VisitsOpen ==
  /\ nm_pc \in {"scan", "recv", "cleanup"} =>
       \A m \in todo : server_end[m] = "open"
  /\ nm_pc = "recv" => server_end[fd] = "open" /\ fd \notin todo

\* networkMonitor.cpp:344-384: what the server believes of its connections is
\* what they are.
TableInv == /\ NamesUnique /\ OpenIffMapped /\ AcceptNeverBlocks
            /\ BacklogMatches /\ Unconnected /\ VisitsOpen

\* q bytes to the server and c bytes to the monitor may be under way on the
\* connection of m, by the system call m is at.
UnderWay(m, q, c) ==
  \/ q = <<>> /\ c = <<>> /\ ~At(m, "waitMonitor")
  \/ At(m, "waitMonitor") /\ (\/ q = <<"Ready">> /\ c = <<>>
                              \/ q = <<>> /\ c = <<"Monitor">>)
  \/ im_pc[m] \in {"loop", "sleep"} /\ q = <<"Monitoring">> /\ c = <<>>
  \/ At(m, "waitCmd") /\ q = <<>> /\ c = <<"Set Link Up">>
  \/ /\ At(m, "waitCmd") /\ c = <<>>
     /\ q \in {<<"Link Down">>, <<"Monitoring", "Link Down">>}
  \/ /\ At(m, "exited") /\ c = <<>>
     /\ q \in {<<"Done">>, <<"Monitoring", "Done">>}

\* The lock step of the protocol, connection by connection
\* (intfMonitor.cpp:146-253, networkMonitor.cpp:86-115).
LockStepInv ==
  \A m \in Monitors :
    /\ ServerAlive(m) =>
         /\ UnderWay(m, toServer[m], toClient[m])
         /\ client_end[m] = "open" <=> ~Dead(m)
    /\ ~ServerAlive(m) => toServer[m] = <<>>
    /\ server_end[m] = "none" =>
         /\ im_pc[m] \in {"off", "starting", "connect", "exited", "killed"}
         /\ toClient[m] = <<>>

\* What select() reported stays readable until it is visited: only the server
\* reads, and it visits each descriptor once (networkMonitor.cpp:309-384).
ReadyStays ==
  /\ nm_pc \in {"select", "accept"} => read_fds \ {MASTER} \subseteq Connected
  /\ running =>
       /\ nm_pc = "accept" => \A m \in read_fds \ {MASTER} : ServerReadable(m)
       /\ nm_pc \in {"scan", "recv"} => \A m \in todo : ServerReadable(m)
       /\ nm_pc = "recv" => ServerReadable(fd)

\* A server that has not begun, or has ended, holds no end of a connection; and
\* each of its ends has a peer.
EndsInv ==
  /\ nm_pc \in {"setup", "exited", "killed"} =>
       ~listening /\ \A m \in Monitors : ~ServerAlive(m)
  /\ \A m \in Monitors : ServerAlive(m) => client_end[m] # "none"

-----------------------------------------------------------------------------
(* Action properties.                                                      *)

\* SIGPIPE can end the server only while it shuts down, never in the answers
\* of the select loop (networkMonitor.cpp:60, 91, 102).
DiesOnlyInCleanup == [][nm_pc' = "killed" => nm_pc \in {"cleanup", "killed"}]_vars

\* A monitor is disconnected by the running server only after its process
\* ended, or because there was no name for it: the select loop never cuts off
\* a live, named monitor.
LiveMonitorKept ==
  [][\A m \in Monitors :
       client_end[m] = "open" /\ m \in Connected /\ m \notin Connected'
         => nm_pc = "cleanup"]_vars

-----------------------------------------------------------------------------
(* Liveness.                                                               *)

\* "Ready" gets its answer (networkMonitor.cpp:86-91): no monitor stays in the
\* recv() of the handshake of a server that runs.
HandshakeEnds ==
  \A m \in Monitors : At(m, "waitMonitor") ~> (~At(m, "waitMonitor") \/ ~running)

\* A "Link Down" that the running server reads alone is answered
\* (networkMonitor.cpp:99-103).  Read together with the "Monitoring" before
\* it, it is a text the server does not know, and the monitor waits for ever.
LoneLinkDownAnswered ==
  \A m \in Monitors :
    (toServer[m] = <<"Link Down">>) ~> (~At(m, "waitCmd") \/ ~running)

\* Whatever a monitor was waiting for, the end of the server wakes it.
ServerEndWakes ==
  \A m \in Monitors :
    NMDead ~> im_pc[m] \notin {"connect", "waitMonitor", "waitCmd"}

\* After SIGINT the server ends as soon as no monitor is left, even when it
\* sits in a recv() that it entered by a failed select (networkMonitor.cpp:
\* 303-306, 378-385): the end of each connection wakes it.
StopsWithItsMonitors ==
  (~running /\ \A m \in Monitors : Dead(m)) ~> NMDead

-----------------------------------------------------------------------------
(* What a comment of the code says and the program does not do.            *)

\* networkMonitor.cpp:63-65: a send to a monitor that "has already
\* disconnected (e.g., due to its own SIGINT) ... will fail with EPIPE".
SendSurvivesDeadPeer == nm_pc # "killed"
=============================================================================
