--------------------------- MODULE NetworkMonitor ---------------------------
(***************************************************************************)
(* Assignment2/networkMonitor.cpp: the server.  It listens, forks one      *)
(* intfMonitor per interface name, and then runs a select() loop that      *)
(* accepts connections, gives each the first interface name not in use and *)
(* answers the messages of the connected monitors until SIGINT.            *)
(*                                                                         *)
(* nm_pc names the system call the process is about to make:               *)
(*   setup             socket(), bind(), listen()                          *)
(*   fork              the fork loop                                       *)
(*   loop              the test of running                                 *)
(*   prepare           building read_fds                                   *)
(*   select            in select(), or about to be                         *)
(*   accept            the test of the master socket                       *)
(*   scan              the loop over fds_to_check                          *)
(*   recv              in handle_client_message(fd), at recv()             *)
(*   cleanup           the loop of cleanup_sockets()                       *)
(*   exited, killed    the two ends                                        *)
(***************************************************************************)
EXTENDS UnixStream

CONSTANTS interface_names,   \* what the user entered, in the order entered
          NoName             \* an fd that is not a key of client_fds

ASSUME NetworkMonitorAssumption ==
  /\ DOMAIN interface_names = Monitors
  /\ \A i \in Monitors : interface_names[i] # NoName

MASTER == 0                  \* master_socket_fd among the fds of a set
Names  == {interface_names[i] : i \in Monitors}

VARIABLES
  nm_pc, running,
  forked,       \* number of turns of the fork loop
  client_fds,   \* fd -> name; an fd that is no key maps to NoName
  read_fds,     \* the fd_set handed to, and then returned by, select()
  todo,         \* fds of fds_to_check (or of client_fds, in cleanup) to visit
  fd            \* the fd being visited

nmVars == <<nm_pc, running, forked, client_fds, read_fds, todo, fd>>

NMStates == {"setup", "fork", "loop", "prepare", "select", "accept", "scan",
             "recv", "cleanup", "exited", "killed"}

NMTypeOK ==
  /\ nm_pc \in NMStates
  /\ running \in BOOLEAN
  /\ forked \in 0..N
  /\ client_fds \in [Monitors -> Names \cup {NoName}]
  /\ read_fds \subseteq Monitors \cup {MASTER}
  /\ todo \subseteq Monitors
  /\ fd \in Monitors

NMInit ==
  /\ nm_pc = "setup" /\ running = TRUE /\ forked = 0
  /\ client_fds = [m \in Monitors |-> NoName]
  /\ read_fds = {} /\ todo = {} /\ fd = 1

Connected == {m \in Monitors : client_fds[m] # NoName}
NMDead    == nm_pc \in {"exited", "killed"}

-----------------------------------------------------------------------------
NMListen ==
  /\ nm_pc = "setup" /\ nm_pc' = "fork"
  /\ listening' = TRUE
  /\ UNCHANGED <<running, forked, client_fds, read_fds, todo, fd, backlog,
                 client_end, server_end, toServer, toClient, reset>>

\* socket(), bind() or listen() fails: main returns 1.
NMSetupFails ==
  /\ nm_pc = "setup" /\ nm_pc' = "exited"
  /\ UNCHANGED <<running, forked, client_fds, read_fds, todo, fd, sockets>>

\* One turn of the fork loop; the child, if there is one, is an IntfMonitor.
NMForkTurn ==
  /\ nm_pc = "fork" /\ forked < N
  /\ forked' = forked + 1
  /\ UNCHANGED <<nm_pc, running, client_fds, read_fds, todo, fd, sockets>>

NMForkDone ==
  /\ nm_pc = "fork" /\ forked = N /\ nm_pc' = "loop"
  /\ UNCHANGED <<running, forked, client_fds, read_fds, todo, fd, sockets>>

NMLoop ==
  /\ nm_pc = "loop"
  /\ IF running THEN nm_pc' = "prepare" /\ todo' = {}
                ELSE nm_pc' = "cleanup" /\ todo' = Connected
  /\ UNCHANGED <<running, forked, client_fds, read_fds, fd, sockets>>

\* FD_SET of master_socket_fd is void once the signal handler made it -1.
NMPrepare ==
  /\ nm_pc = "prepare" /\ nm_pc' = "select"
  /\ read_fds' = Connected \cup (IF listening THEN {MASTER} ELSE {})
  /\ UNCHANGED <<running, forked, client_fds, todo, fd, sockets>>

\* A fault: the master socket is taken for ready without a test.
FaultyReady == {m \in read_fds \ {MASTER} : ServerReadable(m)}
                 \cup (read_fds \cap {MASTER})

Ready == {m \in read_fds \ {MASTER} : ServerReadable(m)}
           \cup (IF MASTER \in read_fds /\ backlog # <<>> THEN {MASTER} ELSE {})

\* The signal handler closed a descriptor of read_fds before the call.
BadDescriptor == MASTER \in read_fds /\ ~listening

\* select() returns the ready descriptors, none after the 1 s timeout.
NMSelect ==
  /\ nm_pc = "select" /\ ~BadDescriptor
  /\ nm_pc' = "accept" /\ read_fds' = Ready
  /\ UNCHANGED <<running, forked, client_fds, todo, fd, sockets>>

\* select() fails with EBADF.  The loop body goes on, with read_fds as it
\* was handed to select().
NMSelectFails ==
  /\ nm_pc = "select" /\ BadDescriptor
  /\ nm_pc' = "accept" /\ running' = FALSE
  /\ UNCHANGED <<forked, client_fds, read_fds, todo, fd, sockets>>

-----------------------------------------------------------------------------
\* No connection to accept: accept() is not called, or fails with EBADF.
NMNoAccept ==
  /\ nm_pc = "accept" /\ (MASTER \notin read_fds \/ ~listening)
  /\ nm_pc' = "scan" /\ todo' = Connected \cap read_fds
  /\ UNCHANGED <<running, forked, client_fds, read_fds, fd, sockets>>

InUse(name) == \E m \in Monitors : client_fds[m] = name

\* A fault: the name found is not tested for being in use.
FaultyFirstFree(i) == \A j \in 1..(i-1) : InUse(interface_names[j])

\* interface_names[i] is the first name not yet associated.
FirstFree(i) == /\ ~InUse(interface_names[i])
                /\ \A j \in 1..(i-1) : InUse(interface_names[j])

\* accept(): the oldest connection gets the first free name, and is closed
\* at once when every name is in use.
NMAccept ==
  /\ nm_pc = "accept" /\ MASTER \in read_fds /\ listening
  /\ backlog # <<>>
  /\ backlog' = Tail(backlog)
  /\ LET m == Head(backlog) IN
     \/ \E i \in Monitors :
          /\ FirstFree(i)
          /\ client_fds' = [client_fds EXCEPT ![m] = interface_names[i]]
          /\ server_end' = [server_end EXCEPT ![m] = "open"]
          /\ UNCHANGED <<toServer, reset>>
     \/ /\ \A i \in Monitors : InUse(interface_names[i])
        /\ UNCHANGED client_fds
        /\ server_end' = [server_end EXCEPT ![m] = "closed"]
        /\ toServer' = [toServer EXCEPT ![m] = <<>>]
        /\ reset' = [reset EXCEPT ![m] = toServer[m] # <<>>]
  /\ todo' = {k \in Monitors : client_fds'[k] # NoName} \cap read_fds
  /\ nm_pc' = "scan"
  /\ UNCHANGED <<running, forked, read_fds, fd, listening, client_end, toClient>>

\* The next fd of fds_to_check that FD_ISSET holds for and client_fds has.
NMVisit ==
  /\ nm_pc = "scan"
  /\ \E m \in todo : fd' = m /\ todo' = todo \ {m}
  /\ nm_pc' = "recv"
  /\ UNCHANGED <<running, forked, client_fds, read_fds, sockets>>

\* A fault: the loop is left after any client, not after the last.
FaultyScanDone ==
  /\ nm_pc = "scan" /\ nm_pc' = "loop"
  /\ UNCHANGED <<running, forked, client_fds, read_fds, todo, fd, sockets>>

NMScanDone ==
  /\ nm_pc = "scan" /\ todo = {} /\ nm_pc' = "loop"
  /\ UNCHANGED <<running, forked, client_fds, read_fds, todo, fd, sockets>>

-----------------------------------------------------------------------------
\* A fault: client_fds.erase(fd) is forgotten.
FaultyDisconnect ==
  /\ server_end' = [server_end EXCEPT ![fd] = "closed"]
  /\ toServer' = [toServer EXCEPT ![fd] = <<>>]
  /\ nm_pc' = "scan"
  /\ UNCHANGED <<client_fds, listening, backlog, client_end, toClient, reset>>

\* handle_client_message: close(fd) and client_fds.erase(fd).
Disconnect ==
  /\ client_fds' = [client_fds EXCEPT ![fd] = NoName]
  /\ server_end' = [server_end EXCEPT ![fd] = "closed"]
  /\ toServer' = [toServer EXCEPT ![fd] = <<>>]
  /\ nm_pc' = "scan"
  /\ UNCHANGED <<listening, backlog, client_end, toClient, reset>>

\* A fault: an end of file is not taken for the end of the client.
FaultyEndOfClient ==
  /\ nm_pc = "recv" /\ toServer[fd] = <<"Done">>
  /\ Disconnect
  /\ UNCHANGED <<running, forked, read_fds, todo, fd>>

\* "Done", end of file or ECONNRESET.
NMEndOfClient ==
  /\ nm_pc = "recv" /\ ServerReadable(fd)
  /\ toServer[fd] \in {<<>>, <<"Done">>}
  /\ Disconnect
  /\ UNCHANGED <<running, forked, read_fds, todo, fd>>

Reply(msg) == IF msg = <<"Ready">> THEN <<"Monitor">> ELSE <<"Set Link Up">>

\* send_message to a monitor that has closed its end: SIGPIPE.
Killed == nm_pc' = "killed" /\ ServerExit

\* A fault: every message is answered, "Done" too.
FaultyReplyToAll ==
  /\ nm_pc = "recv" /\ toServer[fd] # <<>>
  /\ IF client_end[fd] = "open"
       THEN /\ toClient' = [toClient EXCEPT ![fd] = @ \o Reply(toServer[fd])]
            /\ toServer' = [toServer EXCEPT ![fd] = <<>>]
            /\ nm_pc' = "scan"
            /\ UNCHANGED <<listening, backlog, client_end, server_end, reset>>
       ELSE Killed
  /\ UNCHANGED <<running, forked, client_fds, read_fds, todo, fd>>

\* A fault: "Ready" is answered, "Link Down" only prints its alert.
FaultyReplyAlertOnly ==
  /\ nm_pc = "recv" /\ toServer[fd] \in {<<"Ready">>, <<"Link Down">>}
  /\ toClient' = IF toServer[fd] = <<"Ready">>
                   THEN [toClient EXCEPT ![fd] = <<"Monitor">>] ELSE toClient
  /\ toServer' = [toServer EXCEPT ![fd] = <<>>]
  /\ nm_pc' = "scan"
  /\ UNCHANGED <<listening, backlog, client_end, server_end, reset, running, forked,
                 client_fds, read_fds, todo, fd>>

\* "Ready" and "Link Down" are answered.
NMReply ==
  /\ nm_pc = "recv"
  /\ toServer[fd] \in {<<"Ready">>, <<"Link Down">>}
  /\ IF client_end[fd] = "open"
       THEN /\ toClient' = [toClient EXCEPT ![fd] = @ \o Reply(toServer[fd])]
            /\ toServer' = [toServer EXCEPT ![fd] = <<>>]
            /\ nm_pc' = "scan"
            /\ UNCHANGED <<listening, backlog, client_end, server_end, reset>>
       ELSE Killed
  /\ UNCHANGED <<running, forked, client_fds, read_fds, todo, fd>>

\* A fault: an unknown message ends the connection.
FaultyIgnore ==
  /\ nm_pc = "recv"
  /\ toServer[fd] \notin {<<>>, <<"Done">>, <<"Ready">>, <<"Link Down">>}
  /\ Disconnect
  /\ UNCHANGED <<running, forked, read_fds, todo, fd>>

\* "Monitoring" needs no answer; any other text, two messages read as one
\* included, only prints a warning.
NMIgnore ==
  /\ nm_pc = "recv"
  /\ toServer[fd] \notin {<<>>, <<"Done">>, <<"Ready">>, <<"Link Down">>}
  /\ toServer' = [toServer EXCEPT ![fd] = <<>>]
  /\ nm_pc' = "scan"
  /\ UNCHANGED <<running, forked, client_fds, read_fds, todo, fd, listening,
                 backlog, client_end, server_end, toClient, reset>>

-----------------------------------------------------------------------------
\* cleanup_sockets: "Shut Down" to one more client, and close.
NMShutDownClient ==
  /\ nm_pc = "cleanup"
  /\ \E m \in todo :
       /\ todo' = todo \ {m}
       /\ IF client_end[m] = "open"
            THEN /\ toClient' = [toClient EXCEPT ![m] = Append(@, "Shut Down")]
                 /\ CloseServerEnds({m})
                 /\ UNCHANGED <<nm_pc, listening, backlog, client_end>>
            ELSE Killed
  /\ UNCHANGED <<running, forked, client_fds, read_fds, fd>>

\* client_fds.clear(), close of the master socket, and the end of main.
NMExit ==
  /\ nm_pc = "cleanup" /\ todo = {}
  /\ nm_pc' = "exited"
  /\ client_fds' = [m \in Monitors |-> NoName]
  /\ ServerExit
  /\ UNCHANGED <<running, forked, read_fds, todo, fd>>

\* SIGINT.  recv() and accept() are restarted; select() is interrupted if it
\* waits, while a signal just before it finds the call still to be made.
NMSigint ==
  /\ ~NMDead
  /\ running' = FALSE
  /\ CloseListener
  /\ \/ UNCHANGED nm_pc
     \/ nm_pc = "select" /\ ~BadDescriptor /\ Ready = {} /\ nm_pc' = "loop"
  /\ UNCHANGED <<forked, client_fds, read_fds, todo, fd>>

\* Every step but the turns of the fork loop.
NMStep ==
  \/ NMListen \/ NMSetupFails \/ NMForkDone \/ NMLoop \/ NMPrepare
  \/ NMSelect \/ NMSelectFails \/ NMNoAccept \/ NMAccept
  \/ NMVisit \/ NMScanDone \/ NMEndOfClient \/ NMReply \/ NMIgnore
  \/ NMShutDownClient \/ NMExit
=============================================================================
