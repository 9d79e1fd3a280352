------------------------ MODULE LinkMonitoringProofs ------------------------
(***************************************************************************)
(* Theorems about LinkMonitoring, for every number of monitors, every list *)
(* of interface names, every backlog and every set of interruptible        *)
(* processes.                                                              *)
(***************************************************************************)
EXTENDS LinkMonitoring, SequenceTheorems, TLAPS

-----------------------------------------------------------------------------
(* Type correctness.                                                       *)

\* Every step of a monitor process moves its program counter and may clear
\* its running flag, nothing else of its own state (intfMonitor.cpp).
LEMMA MonitorStateType ==
  ASSUME IMTypeOK, NEW m \in Monitors, IMStep(m) \/ IMSigint(m)
  PROVE  IMTypeOK'
<1>1. \/ UNCHANGED im_pc
      \/ \E pc \in IMStates : Goto(m, pc)
  BY DEF IMStep, IMSigint, IMStartFails, IMInstallHandler, IMConnect,
         IMConnectFails, IMSendReady, IMRecvMonitor, IMSendMonitoring, IMPollUp,
         IMPollDown, IMRecvCommand, IMSleep, IMLeave, IMSend, IMStates
<1>2. Stop(m) \/ UNCHANGED im_running
  BY DEF IMStep, IMSigint, IMStartFails, IMInstallHandler, IMConnect,
         IMConnectFails, IMSendReady, IMRecvMonitor, IMSendMonitoring, IMPollUp,
         IMPollDown, IMRecvCommand, IMSleep, IMLeave, IMSend
<1>3. im_pc' \in [Monitors -> IMStates]
  BY <1>1 DEF IMTypeOK, Goto
<1>4. im_running' \in [Monitors -> BOOLEAN]
  BY <1>2 DEF IMTypeOK, Stop
<1>5. QED
  BY <1>3, <1>4 DEF IMTypeOK

\* Connecting, sending, receiving and closing on the monitor's side keep the
\* types of the sockets.
LEMMA MonitorSocketsType ==
  ASSUME SocketsTypeOK, NEW m \in Monitors, IMStep(m) \/ IMSigint(m)
  PROVE  SocketsTypeOK'
<1>1. ASSUME Connect(m) PROVE SocketsTypeOK'
  BY <1>1 DEF SocketsTypeOK, Connect
<1>2. ASSUME NEW msg \in Reports, ClientSend(m, msg) PROVE SocketsTypeOK'
  BY <1>2 DEF SocketsTypeOK, ClientSend
<1>3. ASSUME NEW last \in Seq(Reports), ClientClose(m, last) PROVE SocketsTypeOK'
  BY <1>3 DEF SocketsTypeOK, ClientClose
<1>4. ASSUME Consume(m), reset' = [reset EXCEPT ![m] = @ /\ toClient[m] # <<>>],
             UNCHANGED <<listening, backlog, client_end, server_end, toServer>>
      PROVE  SocketsTypeOK'
  BY <1>4 DEF SocketsTypeOK, Consume
<1>5. ASSUME UNCHANGED sockets PROVE SocketsTypeOK'
  BY <1>5 DEF SocketsTypeOK, sockets
<1>6. <<>> \in Seq(Reports) /\ <<"Done">> \in Seq(Reports)
  BY DEF Reports
<1>7. ASSUME NEW msg \in Reports, NEW next, IMSend(m, msg, next)
      PROVE  SocketsTypeOK'
  BY <1>2, <1>3, <1>6, <1>7 DEF IMSend
<1>8. CASE IMSendReady(m) \/ IMSendMonitoring(m) \/ IMPollDown(m)
  BY <1>7, <1>8 DEF IMSendReady, IMSendMonitoring, IMPollDown, Reports
<1>9. CASE IMLeave(m)
  BY <1>3, <1>6, <1>9 DEF IMLeave
<1>10. QED
  BY <1>1, <1>4, <1>5, <1>8, <1>9
  DEF IMStep, IMSigint, IMStartFails, IMInstallHandler, IMConnect,
      IMConnectFails, IMRecvMonitor, IMPollUp, IMRecvCommand, IMSleep

\* The empty queue, and the queues of one message that are sent or answered.
LEMMA Queues ==
  /\ <<>> \in Seq(Reports) /\ <<>> \in Seq(Commands) /\ <<>> \in Seq(Monitors)
  /\ <<"Monitor">> \in Seq(Commands) /\ <<"Set Link Up">> \in Seq(Commands)
BY DEF Reports, Commands

\* close() of some of the server's connections, of its listening socket, or of
\* everything it holds, keeps the types of the sockets.
LEMMA CloseType ==
  ASSUME SocketsTypeOK, NEW S, CloseServerEnds(S), client_end' = client_end,
         toClient' \in [Monitors -> Seq(Commands)],
         UNCHANGED <<listening, backlog>> \/ (listening' = FALSE /\ backlog' = <<>>)
  PROVE  SocketsTypeOK'
<1>1. backlog' \in Seq(Monitors) /\ listening' \in BOOLEAN
  BY Queues DEF SocketsTypeOK
<1>2. server_end' \in [Monitors -> {"none", "backlog", "open", "closed"}]
  BY DEF SocketsTypeOK, CloseServerEnds
<1>3. toServer' \in [Monitors -> Seq(Reports)]
  BY Queues DEF SocketsTypeOK, CloseServerEnds
<1>4. reset' \in [Monitors -> BOOLEAN]
  BY Zenon DEF SocketsTypeOK, CloseServerEnds
<1>5. QED
  BY <1>1, <1>2, <1>3, <1>4 DEF SocketsTypeOK

LEMMA ExitType ==
  ASSUME SocketsTypeOK, CloseListener \/ ServerExit
  PROVE  SocketsTypeOK'
BY CloseType DEF CloseListener, ServerExit, SocketsTypeOK

\* The steps of the server, and its SIGINT, keep the types of the sockets
\* (networkMonitor.cpp).
LEMMA ServerSocketsType ==
  ASSUME SocketsTypeOK, NMTypeOK, NMStep \/ NMSigint \/ NMForkTurn
  PROVE  SocketsTypeOK'
<1>1. CASE \/ NMSetupFails \/ NMForkTurn \/ NMForkDone \/ NMLoop \/ NMPrepare
           \/ NMSelect \/ NMSelectFails \/ NMNoAccept \/ NMVisit \/ NMScanDone
  <2>1. UNCHANGED sockets
    BY <1>1 DEF NMSetupFails, NMForkTurn, NMForkDone, NMLoop, NMPrepare, NMSelect,
                NMSelectFails, NMNoAccept, NMVisit, NMScanDone
  <2>2. QED
    BY <2>1 DEF sockets, SocketsTypeOK
<1>2. CASE NMListen
  BY <1>2 DEF NMListen, SocketsTypeOK
<1>3. CASE NMAccept
  <2>1. backlog' \in Seq(Monitors) /\ Head(backlog) \in Monitors
    BY <1>3 DEF NMAccept, SocketsTypeOK
  <2>2. server_end' \in [Monitors -> {"none", "backlog", "open", "closed"}]
    BY <1>3, <2>1 DEF NMAccept, SocketsTypeOK
  <2>3. toServer' \in [Monitors -> Seq(Reports)]
    BY <1>3, <2>1, Queues DEF NMAccept, SocketsTypeOK
  <2>4. reset' \in [Monitors -> BOOLEAN]
    BY <1>3, <2>1 DEF NMAccept, SocketsTypeOK
  <2>5. QED
    BY <1>3, <2>1, <2>2, <2>3, <2>4 DEF NMAccept, SocketsTypeOK
<1>4. CASE NMEndOfClient
  BY <1>4, Queues DEF NMEndOfClient, Disconnect, SocketsTypeOK, NMTypeOK
<1>5. CASE NMReply
  <2>1. CASE client_end[fd] = "open"
    <3>1. Reply(toServer[fd]) \in Seq(Commands)
      BY <1>5, Queues DEF NMReply, Reply
    <3>2. toClient' = [toClient EXCEPT ![fd] = @ \o Reply(toServer[fd])]
      BY <1>5, <2>1 DEF NMReply
    <3>3. toClient[fd] \o Reply(toServer[fd]) \in Seq(Commands)
      BY <3>1 DEF SocketsTypeOK, NMTypeOK
    <3>4. toClient' \in [Monitors -> Seq(Commands)]
      BY <3>2, <3>3 DEF SocketsTypeOK
    <3>5. QED
      BY <1>5, <2>1, <3>4, Queues DEF NMReply, SocketsTypeOK
  <2>2. CASE client_end[fd] # "open"
    BY <1>5, <2>2, ExitType DEF NMReply, Killed
  <2>3. QED
    BY <2>1, <2>2
<1>6. CASE NMIgnore
  BY <1>6, Queues DEF NMIgnore, SocketsTypeOK
<1>7. CASE NMShutDownClient
  <2>1. PICK m \in todo :
          IF client_end[m] = "open"
            THEN /\ toClient' = [toClient EXCEPT ![m] = Append(@, "Shut Down")]
                 /\ CloseServerEnds({m})
                 /\ UNCHANGED <<nm_pc, listening, backlog, client_end>>
            ELSE Killed
    BY <1>7 DEF NMShutDownClient
  <2>2. CASE client_end[m] = "open"
    <3> DEFINE msg == "Shut Down"
    <3>0. m \in Monitors /\ msg \in Commands
      BY DEF NMTypeOK, Commands
    <3> HIDE DEF msg
    <3>1. Append(toClient[m], msg) \in Seq(Commands)
      BY <3>0 DEF SocketsTypeOK
    <3>2. toClient' \in [Monitors -> Seq(Commands)]
      BY <2>1, <2>2, <3>1 DEF SocketsTypeOK, msg
    <3>3. QED
      BY <2>1, <2>2, <3>2, CloseType
  <2>3. CASE client_end[m] # "open"
    BY <2>1, <2>3, ExitType DEF Killed
  <2>4. QED
    BY <2>2, <2>3
<1>8. CASE NMExit \/ NMSigint
  BY <1>8, ExitType DEF NMExit, NMSigint
<1>9. QED
  BY <1>1, <1>2, <1>3, <1>4, <1>5, <1>6, <1>7, <1>8 DEF NMStep

\* The steps of the server keep the types of its own state.
LEMMA ServerStateType ==
  ASSUME SocketsTypeOK, NMTypeOK, NMStep \/ NMSigint \/ NMForkTurn
  PROVE  NMTypeOK'
<1> USE DEF NMTypeOK
<1>1. CASE \/ NMListen \/ NMSetupFails \/ NMForkDone \/ NMSelectFails
           \/ NMNoAccept \/ NMScanDone \/ NMLoop
  BY <1>1 DEF NMListen, NMSetupFails, NMForkDone, NMSelectFails, NMNoAccept,
              NMScanDone, NMLoop, NMStates, Connected
<1>2. CASE NMForkTurn
  BY <1>2, UnixStreamAssumption DEF NMForkTurn
<1>3. CASE NMPrepare \/ NMSelect
  BY <1>3 DEF NMPrepare, NMSelect, Ready, Connected, NMStates
<1>4. CASE NMAccept
  <2>1. client_fds' \in [Monitors -> Names \cup {NoName}]
    BY <1>4 DEF NMAccept, Names
  <2>2. QED
    BY <1>4, <2>1 DEF NMAccept, NMStates
<1>5. CASE NMVisit
  BY <1>5 DEF NMVisit, NMStates
<1>6. CASE NMEndOfClient \/ NMIgnore
  BY <1>6 DEF NMEndOfClient, NMIgnore, Disconnect, NMStates
<1>7. CASE NMReply
  BY <1>7 DEF NMReply, Killed, NMStates
<1>8. CASE NMShutDownClient
  BY <1>8 DEF NMShutDownClient, Killed, NMStates
<1>9. CASE NMExit \/ NMSigint
  BY <1>9 DEF NMExit, NMSigint, NMStates
<1>10. QED
  BY <1>1, <1>2, <1>3, <1>4, <1>5, <1>6, <1>7, <1>8, <1>9 DEF NMStep

\* One turn of the fork loop starts a process or leaves all as they are.
LEMMA ForkType ==
  ASSUME IMTypeOK, forked \in 0..N, NMFork
  PROVE  IMTypeOK'
<1>1. CASE IMFork(forked + 1)
  <2>1. im_pc' \in [Monitors -> IMStates]
    BY <1>1 DEF IMFork, Goto, IMTypeOK, IMStates
  <2>2. QED
    BY <1>1, <2>1 DEF IMFork, IMTypeOK
<1>2. CASE UNCHANGED imVars
  BY <1>2 DEF imVars, IMTypeOK
<1>3. QED
  BY <1>1, <1>2 DEF NMFork

\* The initial state has the types of every variable.
LEMMA InitType == Init => TypeOK
<1> SUFFICES ASSUME Init PROVE TypeOK
  OBVIOUS
<1>1. SocketsTypeOK
  BY Queues DEF Init, SocketsInit, SocketsTypeOK
<1>2. IMTypeOK
  BY DEF Init, IMInit, IMTypeOK, IMStates
<1>3. NMTypeOK
  BY UnixStreamAssumption DEF Init, NMInit, NMTypeOK, NMStates, Monitors
<1>4. QED
  BY <1>1, <1>2, <1>3 DEF TypeOK

LEMMA NextType == TypeOK /\ [Next]_vars => TypeOK'
<1> SUFFICES ASSUME TypeOK, [Next]_vars PROVE TypeOK'
  OBVIOUS
<1> USE DEF TypeOK
<1>1. CASE NMStep /\ UNCHANGED imVars
  BY <1>1, ServerSocketsType, ServerStateType DEF imVars, IMTypeOK
<1>2. CASE NMFork
  BY <1>2, ServerSocketsType, ServerStateType, ForkType DEF NMFork, NMTypeOK
<1>3. ASSUME NEW m \in Monitors, Monitor(m) PROVE TypeOK'
  BY <1>3, MonitorSocketsType, MonitorStateType DEF Monitor, nmVars, NMTypeOK
<1>4. CASE Sigint
  <2>1. CASE NMSigint /\ UNCHANGED imVars
    BY <2>1, ServerSocketsType, ServerStateType DEF imVars, IMTypeOK
  <2>2. ASSUME NEW m \in Interruptible \ {MASTER}, IMSigint(m), UNCHANGED nmVars
        PROVE  TypeOK'
    BY <2>2, LinkMonitoringAssumption, MonitorSocketsType, MonitorStateType
    DEF nmVars, NMTypeOK
  <2>3. QED
    BY <1>4, <2>1, <2>2 DEF Sigint
<1>5. CASE UNCHANGED vars
  BY <1>5 DEF vars, sockets, imVars, nmVars, SocketsTypeOK, IMTypeOK, NMTypeOK
<1>6. QED
  BY <1>1, <1>2, <1>3, <1>4, <1>5 DEF Next, Server

\* Every variable of networkMonitor, of the intfMonitors and of the socket
\* keeps its type in every behaviour of Assignment2.
THEOREM TypeCorrect == Spec => []TypeOK
<1>1. QED
  BY InitType, NextType, PTL DEF Spec

-----------------------------------------------------------------------------
(* The table of connections.                                               *)

\* A monitor that does not connect leaves the server's ends, the backlog and
\* the listening socket alone, and never returns to a state before connect().
LEMMA MonitorFrame ==
  ASSUME TypeOK, NEW m \in Monitors, IMStep(m) \/ IMSigint(m)
  PROVE  \/ IMConnect(m)
         \/ /\ UNCHANGED <<server_end, backlog, listening>>
            /\ \A k \in Monitors :
                 im_pc'[k] \in {"off", "starting", "connect"} =>
                   im_pc[k] \in {"off", "starting", "connect"}
<1> USE DEF Goto, At, TypeOK, IMTypeOK, sockets, Consume
<1>1. CASE \/ IMStartFails(m) \/ IMInstallHandler(m) \/ IMConnectFails(m)
           \/ IMPollUp(m) \/ IMSleep(m) \/ IMSigint(m)
  BY <1>1 DEF IMStartFails, IMInstallHandler, IMConnectFails, IMPollUp, IMSleep,
              IMSigint
<1>2. CASE IMSendReady(m) \/ IMSendMonitoring(m) \/ IMPollDown(m) \/ IMLeave(m)
  BY <1>2 DEF IMSendReady, IMSendMonitoring, IMPollDown, IMLeave, IMSend,
              ClientSend, ClientClose
<1>3. CASE IMRecvMonitor(m) \/ IMRecvCommand(m)
  BY <1>3 DEF IMRecvMonitor, IMRecvCommand
<1>4. QED
  BY <1>1, <1>2, <1>3 DEF IMStep

\* connect() puts a connection that did not exist in the backlog.
LEMMA ConnectTable ==
  ASSUME TypeOK, TableInv, NEW m \in Monitors, IMConnect(m), UNCHANGED nmVars
  PROVE  TableInv'
<1> USE DEF TypeOK, SocketsTypeOK
<1>1. /\ server_end[m] = "none"
      /\ server_end' = [server_end EXCEPT ![m] = "backlog"]
      /\ backlog' = Append(backlog, m)
      /\ UNCHANGED <<nm_pc, client_fds, read_fds, todo, fd, listening>>
  BY DEF IMConnect, Connect, At, TableInv, Unconnected, nmVars
<1>2. NamesUnique' /\ OpenIffMapped'
  BY <1>1 DEF TableInv, NamesUnique, OpenIffMapped, Connected
<1>3. AcceptNeverBlocks'
  <2>1. Len(backlog') = Len(backlog) + 1 /\ Len(backlog) \in Nat
    BY <1>1
  <2>2. Len(<<>>) = 0
    OBVIOUS
  <2>3. backlog' # <<>>
    BY <2>1, <2>2
  <2>4. QED
    BY <2>3 DEF AcceptNeverBlocks
<1>4. BacklogMatches'
  <2>1. \A i \in DOMAIN backlog : backlog[i] # m
    BY <1>1 DEF TableInv, BacklogMatches
  <2>2. /\ DOMAIN backlog' = 1..(Len(backlog) + 1) /\ DOMAIN backlog = 1..Len(backlog)
        /\ Len(backlog) \in Nat
        /\ backlog'[Len(backlog) + 1] = m
        /\ \A i \in DOMAIN backlog : backlog'[i] = backlog[i] /\ backlog[i] \in Monitors
    BY <1>1
  <2>3. \A i \in DOMAIN backlog' : i \in DOMAIN backlog \/ i = Len(backlog) + 1
    BY <2>2
  <2>4. \A i \in DOMAIN backlog' : server_end'[backlog'[i]] = "backlog"
    BY <1>1, <2>2, <2>3 DEF TableInv, BacklogMatches
  <2>5. \A i, j \in DOMAIN backlog' : backlog'[i] = backlog'[j] => i = j
    BY <2>1, <2>2, <2>3 DEF TableInv, BacklogMatches
  <2>6. QED
    BY <2>4, <2>5 DEF BacklogMatches
<1>5. Unconnected'
  BY <1>1 DEF TableInv, Unconnected, IMConnect, Goto, IMTypeOK
<1>6. VisitsOpen'
  BY <1>1 DEF TableInv, VisitsOpen, NMTypeOK
<1>7. QED
  BY <1>2, <1>3, <1>4, <1>5, <1>6 DEF TableInv

\* Any other step of a monitor leaves the table as it is.
LEMMA MonitorTable ==
  ASSUME TypeOK, TableInv, NEW m \in Monitors, IMStep(m) \/ IMSigint(m),
         UNCHANGED nmVars
  PROVE  TableInv'
<1>1. CASE IMConnect(m)
  BY <1>1, ConnectTable
<1>2. CASE /\ UNCHANGED <<server_end, backlog, listening>>
           /\ \A k \in Monitors :
                im_pc'[k] \in {"off", "starting", "connect"} =>
                  im_pc[k] \in {"off", "starting", "connect"}
  BY <1>2 DEF TableInv, NamesUnique, OpenIffMapped, AcceptNeverBlocks, BacklogMatches,
              Unconnected, VisitsOpen, Connected, nmVars
<1>3. QED
  BY <1>1, <1>2, MonitorFrame

\* The server closes connections it has: `none` stays `none`, and no closed
\* connection stays in the backlog.
LEMMA ExitTable ==
  ASSUME TypeOK, TableInv, ServerExit \/ CloseListener, UNCHANGED imVars
  PROVE  /\ backlog' = <<>> /\ BacklogMatches' /\ Unconnected' /\ listening' = FALSE
         /\ CloseListener => \A m \in Monitors :
              (server_end[m] = "open") <=> (server_end'[m] = "open")
<1>1. backlog' = <<>> /\ BacklogMatches' /\ listening' = FALSE
  BY DEF ServerExit, CloseListener, BacklogMatches
<1>2. Unconnected'
  BY DEF ServerExit, CloseListener, CloseServerEnds, ServerAlive, TableInv,
         Unconnected, imVars
<1>3. QED
  BY <1>1, <1>2 DEF CloseListener, CloseServerEnds, TypeOK, SocketsTypeOK

\* accept() moves the oldest connection from the backlog into client_fds under
\* a name nobody has, or closes it (networkMonitor.cpp:314-369).
LEMMA AcceptTable ==
  ASSUME TypeOK, TableInv, NMAccept, UNCHANGED imVars
  PROVE  TableInv'
<1> DEFINE m == Head(backlog)
<1> USE DEF TypeOK, SocketsTypeOK, NMTypeOK
<1>1. /\ m \in Monitors /\ server_end[m] = "backlog" /\ m \notin Connected
      /\ 1 \in DOMAIN backlog /\ m = backlog[1] /\ Len(backlog) \in Nat \ {0}
  BY DEF NMAccept, TableInv, BacklogMatches, OpenIffMapped
<1>2. /\ DOMAIN backlog' = 1..(Len(backlog) - 1) /\ DOMAIN backlog = 1..Len(backlog)
      /\ \A i \in DOMAIN backlog' :
           backlog'[i] = backlog[i + 1] /\ i + 1 \in DOMAIN backlog
  <2>1. backlog' = Tail(backlog) /\ backlog # <<>> /\ backlog \in Seq(Monitors)
    BY DEF NMAccept
  <2>2. /\ Len(Tail(backlog)) = Len(backlog) - 1
        /\ \A i \in 1..Len(Tail(backlog)) : Tail(backlog)[i] = backlog[i + 1]
    BY <1>1, <2>1
  <2>3. Tail(backlog) \in Seq(Monitors)
    BY <2>1
  <2>4. QED
    BY <1>1, <2>1, <2>2, <2>3
<1>3. \A i \in DOMAIN backlog' : backlog'[i] # m
  <2>1. SUFFICES ASSUME NEW i \in DOMAIN backlog', backlog[i + 1] = backlog[1]
                 PROVE  FALSE
    BY <1>1, <1>2
  <2>2. i + 1 = 1
    BY <1>1, <1>2, <2>1 DEF TableInv, BacklogMatches
  <2>3. QED
    BY <1>1, <1>2, <2>2
<1>4. nm_pc = "accept" /\ nm_pc' = "scan"
  BY DEF NMAccept
<1>5. todo' = {k \in Monitors : client_fds'[k] # NoName} \cap read_fds
  BY DEF NMAccept
<1>6. \E status \in {"open", "closed"} :
        server_end' = [server_end EXCEPT ![m] = status]
  BY DEF NMAccept
<1>7. BacklogMatches'
  <2>1. \A i \in DOMAIN backlog' : server_end'[backlog'[i]] = "backlog"
    BY <1>1, <1>2, <1>3, <1>6 DEF TableInv, BacklogMatches
  <2>2. ASSUME NEW i \in DOMAIN backlog', NEW j \in DOMAIN backlog',
               backlog'[i] = backlog'[j]
        PROVE  i = j
    <3>1. i + 1 = j + 1
      BY <1>2, <2>2 DEF TableInv, BacklogMatches
    <3>2. QED
      BY <1>1, <1>2, <3>1
  <2>3. QED
    BY <2>1, <2>2 DEF BacklogMatches
<1>8. Unconnected'
  BY <1>1, <1>6 DEF TableInv, Unconnected, imVars
<1>9. AcceptNeverBlocks'
  BY <1>4 DEF AcceptNeverBlocks
<1>10. NamesUnique' /\ OpenIffMapped'
  <2>1. ASSUME NEW i \in Monitors, FirstFree(i),
               client_fds' = [client_fds EXCEPT ![m] = interface_names[i]],
               server_end' = [server_end EXCEPT ![m] = "open"]
        PROVE  NamesUnique' /\ OpenIffMapped'
    <3>1. /\ \A k \in Monitors : client_fds[k] # interface_names[i]
          /\ interface_names[i] # NoName
      BY <2>1, NetworkMonitorAssumption DEF FirstFree, InUse
    <3>2. Connected' = Connected \cup {m}
      BY <1>1, <2>1, <3>1 DEF Connected
    <3>3. NamesUnique'
      BY <1>1, <2>1, <3>1, <3>2 DEF TableInv, NamesUnique, Connected
    <3>4. OpenIffMapped'
      BY <1>1, <1>4, <2>1, <3>2 DEF TableInv, OpenIffMapped
    <3>5. QED
      BY <3>3, <3>4
  <2>2. ASSUME UNCHANGED client_fds,
               server_end' = [server_end EXCEPT ![m] = "closed"]
        PROVE  NamesUnique' /\ OpenIffMapped'
    BY <1>1, <1>4, <2>2 DEF TableInv, NamesUnique, OpenIffMapped, Connected
  <2>3. QED
    BY <2>1, <2>2 DEF NMAccept
<1>11. VisitsOpen'
  BY <1>4, <1>5, <1>10 DEF VisitsOpen, OpenIffMapped, Connected
<1>12. QED
  BY <1>7, <1>8, <1>9, <1>10, <1>11 DEF TableInv

\* The other steps of the server, one case per step.
LEMMA ServerTable ==
  ASSUME TypeOK, TableInv, NMStep \/ NMSigint \/ NMForkTurn, UNCHANGED imVars
  PROVE  TableInv'
<1> USE DEF TypeOK, SocketsTypeOK, NMTypeOK, TableInv
<1>1. CASE \/ NMSetupFails \/ NMForkTurn \/ NMForkDone \/ NMPrepare \/ NMSelect
           \/ NMSelectFails \/ NMScanDone \/ NMVisit \/ NMLoop \/ NMNoAccept
  <2>1. UNCHANGED <<sockets, client_fds, imVars>>
    BY <1>1 DEF NMSetupFails, NMForkTurn, NMForkDone, NMPrepare, NMSelect,
                NMSelectFails, NMScanDone, NMVisit, NMLoop, NMNoAccept
  <2>2. NamesUnique' /\ BacklogMatches' /\ Unconnected'
    BY <2>1 DEF sockets, imVars, NamesUnique, BacklogMatches, Unconnected, Connected
  <2>3. OpenIffMapped'
    BY <1>1, <2>1 DEF NMSetupFails, NMForkTurn, NMForkDone, NMPrepare, NMSelect,
                NMSelectFails, NMScanDone, NMVisit, NMLoop, NMNoAccept, sockets,
                OpenIffMapped, Connected
  <2>4. AcceptNeverBlocks'
    BY <1>1, <2>1 DEF NMSetupFails, NMForkTurn, NMForkDone, NMPrepare, NMSelect,
                NMSelectFails, NMScanDone, NMVisit, NMLoop, NMNoAccept, sockets,
                AcceptNeverBlocks, Ready, BadDescriptor, MASTER, Monitors
  <2>5. VisitsOpen'
    BY <1>1, <2>1 DEF NMSetupFails, NMForkTurn, NMForkDone, NMPrepare, NMSelect,
                NMSelectFails, NMScanDone, NMVisit, NMLoop, NMNoAccept, sockets,
                VisitsOpen, OpenIffMapped, Connected
  <2>6. QED
    BY <2>2, <2>3, <2>4, <2>5
<1>2. CASE NMListen
  BY <1>2 DEF NMListen, NamesUnique, BacklogMatches, Unconnected, OpenIffMapped,
              AcceptNeverBlocks, VisitsOpen, Connected, imVars
<1>3. CASE NMAccept
  BY <1>3, AcceptTable
<1>4. CASE NMEndOfClient
  <2>1. /\ server_end[fd] = "open" /\ fd \in Monitors /\ fd \notin todo
        /\ nm_pc = "recv" /\ nm_pc' = "scan"
        /\ client_fds' = [client_fds EXCEPT ![fd] = NoName]
        /\ server_end' = [server_end EXCEPT ![fd] = "closed"]
        /\ UNCHANGED <<todo, backlog, im_pc>>
    BY <1>4 DEF NMEndOfClient, Disconnect, VisitsOpen, imVars
  <2>2. Connected' = Connected \ {fd}
    BY <2>1 DEF Connected
  <2>3. NamesUnique' /\ OpenIffMapped'
    BY <2>1, <2>2 DEF NamesUnique, OpenIffMapped
  <2>4. BacklogMatches'
    BY <2>1 DEF BacklogMatches
  <2>5. AcceptNeverBlocks' /\ Unconnected' /\ VisitsOpen'
    BY <2>1 DEF AcceptNeverBlocks, Unconnected, VisitsOpen
  <2>6. QED
    BY <2>3, <2>4, <2>5
<1>5. CASE (NMReply /\ client_end[fd] = "open") \/ NMIgnore
  <2>1. /\ nm_pc = "recv" /\ nm_pc' = "scan"
        /\ UNCHANGED <<client_fds, server_end, backlog, listening, todo, im_pc>>
    BY <1>5 DEF NMReply, NMIgnore, imVars
  <2>2. QED
    BY <2>1 DEF NamesUnique, BacklogMatches, Unconnected, OpenIffMapped,
                AcceptNeverBlocks, VisitsOpen, Connected
<1>6. CASE Killed /\ UNCHANGED client_fds
  BY <1>6, ExitTable DEF Killed, NamesUnique, OpenIffMapped, AcceptNeverBlocks,
              VisitsOpen, Connected
<1>7. CASE NMShutDownClient /\ ~Killed
  <2>1. PICK m \in todo :
          /\ todo' = todo \ {m}
          /\ CloseServerEnds({m})
          /\ UNCHANGED <<nm_pc, listening, backlog, client_end>>
    BY <1>7 DEF NMShutDownClient
  <2>2. /\ server_end[m] = "open" /\ nm_pc = "cleanup" /\ m \in Monitors
        /\ UNCHANGED <<client_fds, im_pc>>
        /\ server_end' = [k \in Monitors |->
                             IF k \in {m} THEN "closed" ELSE server_end[k]]
    BY <1>7, <2>1 DEF NMShutDownClient, VisitsOpen, CloseServerEnds, imVars
  <2>3. BacklogMatches'
    BY <2>1, <2>2 DEF BacklogMatches
  <2>4. NamesUnique' /\ OpenIffMapped' /\ AcceptNeverBlocks' /\ Unconnected'
    BY <2>1, <2>2 DEF NamesUnique, OpenIffMapped, AcceptNeverBlocks, Unconnected,
              Connected
  <2>5. VisitsOpen'
    BY <2>1, <2>2 DEF VisitsOpen
  <2>6. QED
    BY <2>3, <2>4, <2>5
<1>8. CASE NMExit
  BY <1>8, ExitTable DEF NMExit, NamesUnique, OpenIffMapped, AcceptNeverBlocks,
              VisitsOpen, Connected
<1>9. CASE NMSigint
  <2>1. /\ \A m \in Monitors : server_end[m] = "open" <=> server_end'[m] = "open"
        /\ UNCHANGED <<client_fds, todo, fd>>
        /\ UNCHANGED nm_pc \/ (nm_pc = "select" /\ nm_pc' = "loop")
    BY <1>9, ExitTable DEF NMSigint
  <2>2. NamesUnique' /\ OpenIffMapped' /\ VisitsOpen'
    BY <2>1 DEF NamesUnique, OpenIffMapped, VisitsOpen, Connected
  <2>3. QED
    BY <1>9, <2>2, ExitTable DEF NMSigint, AcceptNeverBlocks
<1>10. QED
  BY <1>1, <1>2, <1>3, <1>4, <1>5, <1>6, <1>7, <1>8, <1>9
  DEF NMStep, NMReply, NMShutDownClient

LEMMA TableInit == Init => TableInv
<1> SUFFICES ASSUME Init PROVE TableInv
  OBVIOUS
<1>1. NamesUnique /\ OpenIffMapped
  BY DEF Init, NMInit, SocketsInit, NamesUnique, OpenIffMapped, Connected
<1>2. BacklogMatches
  BY DEF Init, SocketsInit, BacklogMatches
<1>3. AcceptNeverBlocks /\ Unconnected /\ VisitsOpen
  BY DEF Init, NMInit, SocketsInit, AcceptNeverBlocks, Unconnected, VisitsOpen
<1>4. QED
  BY <1>1, <1>2, <1>3 DEF TableInv

\* fork() only moves a process from `off` to `starting`.
LEMMA ForkTable ==
  ASSUME TypeOK, TableInv, NMFork
  PROVE  TableInv'
<1>1. \A m \in Monitors : im_pc'[m] \in {"off", "starting", "connect"} =>
                            im_pc[m] \in {"off", "starting", "connect"}
  BY DEF NMFork, IMFork, Goto, At, TypeOK, IMTypeOK, imVars
<1>2. UNCHANGED <<sockets, nm_pc, client_fds, read_fds, todo, fd>>
  BY DEF NMFork, NMForkTurn
<1>3. QED
  BY <1>1, <1>2 DEF sockets, TableInv, NamesUnique, OpenIffMapped, AcceptNeverBlocks,
     BacklogMatches, Unconnected, VisitsOpen, Connected

LEMMA TableNext == TypeOK /\ TableInv /\ [Next]_vars => TableInv'
<1> SUFFICES ASSUME TypeOK, TableInv, [Next]_vars PROVE TableInv'
  OBVIOUS
<1>1. CASE (NMStep \/ NMSigint) /\ UNCHANGED imVars
  BY <1>1, ServerTable
<1>2. CASE NMFork
  BY <1>2, ForkTable
<1>3. ASSUME NEW m \in Monitors, Monitor(m) PROVE TableInv'
  BY <1>3, MonitorTable DEF Monitor
<1>4. ASSUME NEW m \in Interruptible \ {MASTER}, IMSigint(m), UNCHANGED nmVars
      PROVE  TableInv'
  BY <1>4, MonitorTable, LinkMonitoringAssumption
<1>5. CASE UNCHANGED vars
  BY <1>5 DEF vars, sockets, imVars, nmVars, TableInv, NamesUnique, OpenIffMapped,
     AcceptNeverBlocks, BacklogMatches, Unconnected, VisitsOpen, Connected
<1>6. QED
  BY <1>1, <1>2, <1>3, <1>4, <1>5 DEF Next, Server, Sigint

\* client_fds is the table of the open connections under distinct names,
\* accept() never blocks, and the loops over descriptors meet open ones only
\* (networkMonitor.cpp:109-137, 148-157, 314-385), whatever the interleaving
\* of the server, the monitors and SIGINT.
THEOREM ConnectionTable == Spec => []TableInv
<1>1. QED
  BY TypeCorrect, TableInit, TableNext, PTL DEF Spec

\* No two connections carry the same interface name.
THEOREM NamesAreUnique == Spec => []NamesUnique
<1>1. TableInv => NamesUnique
  BY DEF TableInv
<1>2. QED
  BY <1>1, ConnectionTable, PTL

\* No descriptor leaks out of client_fds and no closed one stays in it.
THEOREM TableIsExact == Spec => []OpenIffMapped
<1>1. TableInv => OpenIffMapped
  BY DEF TableInv
<1>2. QED
  BY <1>1, ConnectionTable, PTL

-----------------------------------------------------------------------------
(* The registry of names.                                                  *)

\* Connections wait only at a listening socket, which main() opens once.
Listens == (nm_pc = "setup" => ~listening) /\ (~listening => backlog = <<>>)

NamesGiven == [m \in Monitors |-> NameOf(m)]

\* No step of the registry.
LEMMA RegistryFrame ==
  ASSUME UNCHANGED <<listening, backlog, server_end, client_fds>>,
         nm_pc = "setup" <=> nm_pc' = "setup"
  PROVE  UNCHANGED <<Phase, backlog, NamesGiven>>
BY DEF Phase, NamesGiven, NameOf

\* The steps of a monitor: connect() arrives, no other step counts.
LEMMA MonitorRegistry ==
  ASSUME TypeOK, TableInv, Listens, NEW m \in Monitors, IMStep(m) \/ IMSigint(m),
         UNCHANGED nmVars
  PROVE  Listens' /\ [Registry!Next]_<<Phase, backlog, NamesGiven>>
<1>1. CASE IMConnect(m)
  <2>1. /\ listening /\ listening' = listening /\ server_end[m] = "none"
        /\ backlog' = Append(backlog, m)
        /\ server_end' = [server_end EXCEPT ![m] = "backlog"]
        /\ UNCHANGED <<nm_pc, client_fds>>
    BY <1>1 DEF IMConnect, Connect, At, TableInv, Unconnected, nmVars
  <2>2. Phase = "open" /\ UNCHANGED Phase
    BY <2>1 DEF Listens, Phase
  <2>3. NamesGiven' = NamesGiven /\ NamesGiven[m] = NoName
    BY <2>1 DEF NamesGiven, NameOf, TypeOK, SocketsTypeOK
  <2>4. Registry!Arrive(m)
    BY <2>1, <2>2, <2>3 DEF Registry!Arrive, NamesGiven, TableInv, BacklogMatches
  <2>5. QED
    BY <2>1, <2>4 DEF Registry!Next, Listens
<1>2. CASE UNCHANGED <<server_end, backlog, listening>>
  BY <1>2, RegistryFrame DEF Listens, nmVars
<1>3. QED
  BY <1>1, <1>2, MonitorFrame

\* accept() gives the oldest connection a free name, or none if none is free.
LEMMA AcceptRegistry ==
  ASSUME TypeOK, TableInv, NMAccept
  PROVE  /\ UNCHANGED Phase
         /\ (\E n \in Names : Registry!Give(Head(backlog), n)) \/ Registry!Refuse
<1> DEFINE m == Head(backlog)
<1>1. /\ backlog # <<>> /\ m \in Monitors /\ backlog' = Tail(backlog)
      /\ server_end[m] = "backlog" /\ UNCHANGED listening
      /\ nm_pc = "accept" /\ nm_pc' = "scan"
  BY DEF NMAccept, TypeOK, SocketsTypeOK, TableInv, BacklogMatches
<1>2. UNCHANGED Phase
  BY <1>1 DEF Phase
<1>3. \A n \in Names : InUse(n) <=> ~Registry!Free(n)
  BY <1>1, NetworkMonitorAssumption
  DEF TableInv, OpenIffMapped, Connected, InUse, Registry!Free, NameOf, Names
<1>4. ASSUME NEW i \in Monitors, FirstFree(i),
             client_fds' = [client_fds EXCEPT ![m] = interface_names[i]],
             server_end' = [server_end EXCEPT ![m] = "open"]
      PROVE  \E n \in Names : Registry!Give(m, n)
  <2>1. interface_names[i] \in Names /\ Registry!Free(interface_names[i])
    BY <1>3, <1>4 DEF Names, FirstFree
  <2>2. NamesGiven' = [NamesGiven EXCEPT ![m] = interface_names[i]]
    BY <1>1, <1>4 DEF NamesGiven, NameOf, TypeOK, SocketsTypeOK, NMTypeOK
  <2>3. Registry!Give(m, interface_names[i])
    BY <1>1, <1>2, <2>1, <2>2 DEF Registry!Give, NamesGiven
  <2>4. QED
    BY <2>1, <2>3
<1>5. ASSUME \A i \in Monitors : InUse(interface_names[i]), UNCHANGED client_fds,
             server_end' = [server_end EXCEPT ![m] = "closed"]
      PROVE  Registry!Refuse
  <2>1. \A n \in Names : ~Registry!Free(n)
    BY <1>3, <1>5 DEF Names
  <2>2. NamesGiven' = NamesGiven
    BY <1>1, <1>5 DEF NamesGiven, NameOf, TypeOK, SocketsTypeOK
  <2>3. QED
    BY <1>1, <1>2, <2>1, <2>2 DEF Registry!Refuse, NamesGiven
<1>6. QED
  BY <1>2, <1>4, <1>5 DEF NMAccept

\* The end of the process, by exit or by SIGPIPE, frees all names.
LEMMA ExitRegistry ==
  ASSUME TypeOK, ServerExit, nm_pc # "setup", nm_pc' # "setup"
  PROVE  Registry!End
<1>1. /\ listening' = FALSE /\ backlog' = <<>>
      /\ \A m \in Monitors : server_end'[m] # "open"
  BY DEF ServerExit, CloseServerEnds, ServerAlive
<1>2. Phase # "new" /\ Phase' = "stopped"
  BY <1>1 DEF Phase
<1>3. NamesGiven' = [m \in Monitors |-> NoName]
  BY <1>1 DEF NamesGiven, NameOf
<1>4. QED
  BY <1>1, <1>2, <1>3 DEF Registry!End, NamesGiven

\* A connection that the server closes alone loses its name alone.
LEMMA LeaveRegistry ==
  ASSUME TypeOK, NEW m \in Monitors, UNCHANGED <<listening, backlog>>,
         nm_pc # "setup", nm_pc' # "setup", server_end'[m] = "closed",
         \A k \in Monitors \ {m} : server_end'[k] = server_end[k]
                                    /\ client_fds'[k] = client_fds[k]
  PROVE  Registry!Leave(m)
<1>1. UNCHANGED Phase
  BY DEF Phase
<1>2. NamesGiven' = [NamesGiven EXCEPT ![m] = NoName]
  BY DEF NamesGiven, NameOf
<1>3. QED
  BY <1>1, <1>2 DEF Registry!Leave, NamesGiven

\* The handler closes the listening socket and nothing that was accepted.
LEMMA SigintRegistry ==
  ASSUME TypeOK, Listens, NMSigint
  PROVE  Listens' /\ (Registry!Stop \/ UNCHANGED <<Phase, backlog, NamesGiven>>)
<1>1. /\ ~listening' /\ backlog' = <<>> /\ UNCHANGED client_fds
      /\ nm_pc = "setup" <=> nm_pc' = "setup"
      /\ \A m \in Monitors : server_end[m] = "open" <=> server_end'[m] = "open"
  BY DEF NMSigint, CloseListener, CloseServerEnds
<1>2. NamesGiven' = NamesGiven
  BY <1>1 DEF NamesGiven, NameOf
<1>3. CASE listening
  <2>1. Phase = "open" /\ Phase' = "stopped"
    BY <1>1, <1>3 DEF Phase, Listens
  <2>2. QED
    BY <1>1, <1>2, <2>1 DEF Registry!Stop, NamesGiven, Listens
<1>4. CASE ~listening
  BY <1>1, <1>2, <1>4 DEF Phase, Listens
<1>5. QED
  BY <1>3, <1>4

LEMMA ServerRegistry ==
  ASSUME TypeOK, TableInv, Listens, NMStep \/ NMForkTurn
  PROVE  Listens' /\ [Registry!Next]_<<Phase, backlog, NamesGiven>>
<1>1. CASE \/ NMForkTurn \/ NMForkDone \/ NMPrepare \/ NMSelect \/ NMSelectFails
           \/ NMScanDone \/ NMVisit \/ NMLoop \/ NMNoAccept
  <2>1. /\ UNCHANGED <<sockets, client_fds>>
        /\ nm_pc # "setup" /\ nm_pc' # "setup"
    BY <1>1 DEF NMForkTurn, NMForkDone, NMPrepare, NMSelect, NMSelectFails,
                NMScanDone, NMVisit, NMLoop, NMNoAccept
  <2>2. QED
    BY <2>1, RegistryFrame DEF sockets, Listens
<1>2. CASE NMListen \/ NMSetupFails
  <2>1. /\ nm_pc = "setup" /\ nm_pc' # "setup" /\ backlog = <<>> /\ backlog' = <<>>
        /\ UNCHANGED <<server_end, client_fds>>
    BY <1>2 DEF NMListen, NMSetupFails, sockets, Listens
  <2>2. Phase = "new" /\ Phase' \in {"open", "stopped"} /\ UNCHANGED NamesGiven
    BY <2>1 DEF Phase, NamesGiven, NameOf
  <2>3. Registry!Start
    BY <2>1, <2>2 DEF Registry!Start, NamesGiven
  <2>4. QED
    BY <2>1, <2>3 DEF Registry!Next, Listens
<1>3. CASE NMAccept
  <2>1. Listens'
    BY <1>3 DEF NMAccept, Listens
  <2>2. Head(backlog) \in Monitors
    BY <1>3 DEF NMAccept, TypeOK, SocketsTypeOK
  <2>3. QED
    BY <1>3, <2>1, <2>2, AcceptRegistry DEF Registry!Next
<1>4. CASE NMEndOfClient
  <2>1. /\ fd \in Monitors /\ nm_pc # "setup" /\ nm_pc' # "setup"
        /\ client_fds' = [client_fds EXCEPT ![fd] = NoName]
        /\ server_end' = [server_end EXCEPT ![fd] = "closed"]
        /\ UNCHANGED <<listening, backlog>>
    BY <1>4 DEF NMEndOfClient, Disconnect, TypeOK, NMTypeOK
  <2>2. Registry!Leave(fd)
    <3>1. /\ server_end'[fd] = "closed"
          /\ \A k \in Monitors \ {fd} : server_end'[k] = server_end[k]
                                         /\ client_fds'[k] = client_fds[k]
      BY <2>1 DEF TypeOK, SocketsTypeOK, NMTypeOK
    <3>2. QED
      BY <2>1, <3>1, LeaveRegistry
  <2>3. QED
    BY <2>1, <2>2 DEF Registry!Next, Listens
<1>5. CASE (NMReply /\ client_end[fd] = "open") \/ NMIgnore
  <2>1. /\ UNCHANGED <<listening, backlog, server_end, client_fds>>
        /\ nm_pc # "setup" /\ nm_pc' # "setup"
    BY <1>5 DEF NMReply, NMIgnore
  <2>2. QED
    BY <2>1, RegistryFrame DEF Listens
<1>6. CASE nm_pc \in {"recv", "cleanup"} /\ nm_pc' \in {"killed", "exited"} /\ ServerExit
  <2>1. Listens' /\ Registry!End
    BY <1>6, ExitRegistry DEF Listens, ServerExit
  <2>2. QED
    BY <2>1 DEF Registry!Next
<1>7. CASE NMShutDownClient /\ ~Killed
  <2>1. PICK m \in todo : CloseServerEnds({m}) /\ UNCHANGED <<nm_pc, listening, backlog>>
    BY <1>7 DEF NMShutDownClient
  <2>2. /\ m \in Monitors /\ nm_pc # "setup" /\ nm_pc' # "setup" /\ UNCHANGED client_fds
        /\ server_end'[m] = "closed"
        /\ \A k \in Monitors \ {m} : server_end'[k] = server_end[k]
                                       /\ client_fds'[k] = client_fds[k]
    BY <1>7, <2>1 DEF NMShutDownClient, CloseServerEnds, TypeOK, NMTypeOK
  <2>3. Registry!Leave(m)
    BY <2>1, <2>2, LeaveRegistry
  <2>4. QED
    BY <2>1, <2>2, <2>3 DEF Registry!Next, Listens
<1>8. NMExit \/ (NMReply /\ client_end[fd] # "open") \/ (NMShutDownClient /\ Killed)
        => nm_pc \in {"recv", "cleanup"} /\ nm_pc' \in {"killed", "exited"} /\ ServerExit
  BY DEF NMExit, NMReply, NMShutDownClient, Killed
<1>9. QED
  BY <1>1, <1>2, <1>3, <1>4, <1>5, <1>6, <1>7, <1>8 DEF NMStep

LEMMA RegistryStep ==
  TypeOK /\ TableInv /\ Listens /\ [Next]_vars
    => Listens' /\ [Registry!Next]_<<Phase, backlog, NamesGiven>>
<1> SUFFICES ASSUME TypeOK, TableInv, Listens, [Next]_vars
             PROVE  Listens' /\ [Registry!Next]_<<Phase, backlog, NamesGiven>>
  OBVIOUS
<1>1. CASE NMStep \/ NMFork
  BY <1>1, ServerRegistry DEF NMFork
<1>2. CASE NMSigint
  BY <1>2, SigintRegistry DEF Registry!Next
<1>3. ASSUME NEW m \in Monitors, Monitor(m)
      PROVE  Listens' /\ [Registry!Next]_<<Phase, backlog, NamesGiven>>
  BY <1>3, MonitorRegistry DEF Monitor
<1>4. ASSUME NEW m \in Interruptible \ {MASTER}, IMSigint(m), UNCHANGED nmVars
      PROVE  Listens' /\ [Registry!Next]_<<Phase, backlog, NamesGiven>>
  BY <1>4, MonitorRegistry, LinkMonitoringAssumption
<1>5. CASE UNCHANGED vars
  BY <1>5, RegistryFrame DEF vars, sockets, nmVars, Listens
<1>6. QED
  BY <1>1, <1>2, <1>3, <1>4, <1>5 DEF Next, Server, Sigint

\* networkMonitor implements the registry of names: every step of the server,
\* of a monitor and of SIGINT is one of NameRegistry or leaves it as it is
\* (networkMonitor.cpp:109-137, 148-157, 314-385).
THEOREM LinkImplementsRegistry == Spec => ImplementsRegistry
<1>1. Init => Listens /\ Registry!Init
  <2>1. SUFFICES ASSUME Init PROVE Listens /\ Registry!Init
    OBVIOUS
  <2>2. QED
    BY <2>1 DEF Init, NMInit, SocketsInit, Listens, Registry!Init, Phase, NameOf
<1>2. TypeOK /\ TableInv /\ Listens /\ [Next]_vars
        => Listens' /\ [Registry!Next]_<<Phase, backlog, [m \in Monitors |-> NameOf(m)]>>
  BY RegistryStep DEF NamesGiven
<1>3. QED
  BY <1>1, <1>2, TypeCorrect, ConnectionTable, PTL DEF Spec, ImplementsRegistry, Registry!Spec

-----------------------------------------------------------------------------
(* The lock step of the protocol.                                          *)

\* The part of LockStepInv about one connection.
LockStep(m) ==
  /\ ServerAlive(m) =>
       /\ UnderWay(m, toServer[m], toClient[m])
       /\ client_end[m] = "open" <=> ~Dead(m)
  /\ ~ServerAlive(m) => toServer[m] = <<>>
  /\ server_end[m] = "none" =>
       /\ im_pc[m] \in {"off", "starting", "connect", "exited", "killed"}
       /\ toClient[m] = <<>>

LEMMA LockStepSplit == LockStepInv <=> \A m \in Monitors : LockStep(m)
BY DEF LockStepInv, LockStep

\* Two messages in a row, as the one recv() that reads both gets them.
LEMMA PairOfMessages ==
  ASSUME NEW x, NEW y
  PROVE  <<x>> \o <<y>> = <<x, y>> /\ Append(<<x>>, y) = <<x, y>>
<1> DEFINE s == <<x>>  t == <<y>>  st == <<x, y>>
<1>1. /\ s \in Seq({x, y}) /\ t \in Seq({x, y}) /\ st \in Seq({x, y})
      /\ Len(s) = 1 /\ Len(t) = 1 /\ Len(st) = 2
      /\ s[1] = x /\ t[1] = y /\ st[1] = x /\ st[2] = y
  OBVIOUS
<1>2. y \in {x, y} /\ Append(s, y) = s \o t
  BY <1>1, AppendIsConcat
<1> HIDE DEF s, t, st
<1>3. s \o t \in Seq({x, y}) /\ Len(s \o t) = 2 /\ (s \o t)[1] = x /\ (s \o t)[2] = y
  BY <1>1, ConcatProperties
<1>4. \A i \in 1..2 : (s \o t)[i] = st[i]
  BY <1>1, <1>3
<1>5. s \o t = st
  BY <1>1, <1>3, <1>4, SeqEqual
<1>6. QED
  BY <1>2, <1>5 DEF s, t, st

LEMMA Coalesce ==
  /\ \A x : Append(<<>>, x) = <<x>>
  /\ <<>> \o <<"Done">> = <<"Done">>
  /\ Append(<<"Monitoring">>, "Link Down") = <<"Monitoring", "Link Down">>
  /\ <<"Monitoring">> \o <<"Done">> = <<"Monitoring", "Done">>
<1>1. \A x : Append(<<>>, x) = <<x>>
  OBVIOUS
<1>2. <<>> \o <<"Done">> = <<"Done">>
  OBVIOUS
<1>3. QED
  BY <1>1, <1>2, PairOfMessages

\* A connection is in lock step after a step that leaves it alone.
LEMMA OthersKeepStep ==
  ASSUME NEW k \in Monitors, LockStep(k),
         im_pc'[k] = im_pc[k], server_end'[k] = server_end[k],
         client_end'[k] = client_end[k], toServer'[k] = toServer[k],
         toClient'[k] = toClient[k]
  PROVE  LockStep(k)'
BY DEF LockStep, ServerAlive, UnderWay, At, Dead

\* Each step of a monitor keeps its own connection in lock step
\* (intfMonitor.cpp:137-263).
LEMMA MonitorOwnStep ==
  ASSUME TypeOK, TableInv, NEW m \in Monitors, LockStep(m),
         IMStep(m) \/ IMSigint(m)
  PROVE  LockStep(m)'
<1> USE DEF TypeOK, SocketsTypeOK, IMTypeOK, At, Goto
<1>1. CASE \/ IMStartFails(m) \/ IMInstallHandler(m) \/ IMConnectFails(m)
           \/ IMPollUp(m) \/ IMSleep(m) \/ IMSigint(m)
  BY <1>1 DEF IMStartFails, IMInstallHandler, IMConnectFails, IMPollUp, IMSleep,
     IMSigint, sockets, LockStep, ServerAlive, UnderWay, Dead, TableInv, Unconnected
<1>2. CASE IMConnect(m)
  BY <1>2 DEF IMConnect, Connect, LockStep, ServerAlive, UnderWay, Dead, TableInv,
     Unconnected
<1>3. CASE ~ServerAlive(m) /\ (IMSendReady(m) \/ IMSendMonitoring(m) \/ IMPollDown(m))
  <2>1. Goto(m, "killed") /\ ClientClose(m, <<>>) /\ server_end[m] # "none"
    BY <1>3 DEF IMSendReady, IMSendMonitoring, IMPollDown, IMSend, ClientSend, LockStep
  <2>2. toServer[m] \o <<>> = <<>>
    BY <1>3 DEF LockStep
  <2>3. QED
    BY <1>3, <2>1, <2>2 DEF ClientClose, LockStep, ServerAlive
<1>4. CASE IMRecvMonitor(m) \/ IMRecvCommand(m)
  BY <1>4 DEF IMRecvMonitor, IMRecvCommand, Consume, ClientReadable, LockStep,
     ServerAlive, UnderWay, Dead
<1>5. CASE ServerAlive(m) /\ (IMSendReady(m) \/ IMSendMonitoring(m))
  <2>1. toServer[m] = <<>> /\ toClient[m] = <<>> /\ client_end[m] = "open"
    BY <1>5 DEF IMSendReady, IMSendMonitoring, LockStep, UnderWay, Dead
  <2>2. PICK msg \in {"Ready", "Monitoring"} :
          /\ ClientSend(m, msg)
          /\ \/ msg = "Ready" /\ Goto(m, "waitMonitor")
             \/ msg = "Monitoring" /\ Goto(m, "loop")
    BY <1>5 DEF IMSendReady, IMSendMonitoring, IMSend
  <2>3. toServer'[m] = <<msg>> /\ UNCHANGED <<toClient, client_end, server_end>>
    BY <2>1, <2>2, Coalesce DEF ClientSend
  <2>4. QED
    BY <1>5, <2>1, <2>2, <2>3 DEF LockStep, UnderWay, ServerAlive, Dead
<1>6. CASE ServerAlive(m) /\ IMPollDown(m)
  <2>1. /\ toServer[m] \in {<<>>, <<"Monitoring">>} /\ toClient[m] = <<>>
        /\ client_end[m] = "open"
    BY <1>6 DEF IMPollDown, LockStep, UnderWay, Dead
  <2>2. ClientSend(m, "Link Down") /\ Goto(m, "waitCmd")
    BY <1>6 DEF IMPollDown, IMSend
  <2>3. /\ toServer'[m] = Append(toServer[m], "Link Down")
        /\ UNCHANGED <<toClient, client_end, server_end>>
    BY <2>2 DEF ClientSend
  <2>4. toServer'[m] \in {<<"Link Down">>, <<"Monitoring", "Link Down">>}
    BY <2>1, <2>3, Coalesce
  <2>5. QED
    BY <1>6, <2>1, <2>2, <2>3, <2>4 DEF LockStep, UnderWay, ServerAlive, Dead
<1>7. CASE IMLeave(m)
  <2>1. CASE ServerAlive(m)
    <3>1. /\ toServer[m] \in {<<>>, <<"Monitoring">>} /\ toClient[m] = <<>>
      BY <1>7, <2>1 DEF IMLeave, LockStep, UnderWay
    <3>2. /\ toServer'[m] = toServer[m] \o <<"Done">> /\ toClient'[m] = <<>>
          /\ client_end'[m] = "closed" /\ im_pc'[m] = "exited"
          /\ server_end' = server_end
      BY <1>7, <2>1 DEF IMLeave, ClientClose
    <3>3. toServer'[m] \in {<<"Done">>, <<"Monitoring", "Done">>}
      BY <3>1, <3>2, Coalesce
    <3>4. QED
      BY <2>1, <3>2, <3>3 DEF LockStep, UnderWay, ServerAlive, Dead
  <2>2. CASE ~ServerAlive(m)
    <3>1. /\ Goto(m, "killed") /\ ClientClose(m, <<>>) /\ server_end[m] # "none"
      BY <1>7, <2>2 DEF IMLeave, LockStep
    <3>2. toServer[m] \o <<>> = <<>>
      BY <2>2 DEF LockStep
    <3>3. QED
      BY <2>2, <3>1, <3>2 DEF ClientClose, LockStep, ServerAlive
  <2>3. QED
    BY <2>1, <2>2
<1>8. QED
  BY <1>1, <1>2, <1>3, <1>4, <1>5, <1>6, <1>7 DEF IMStep

LEMMA MonitorLock ==
  ASSUME TypeOK, TableInv, LockStepInv, NEW m \in Monitors, IMStep(m) \/ IMSigint(m)
  PROVE  LockStepInv'
<1>1. ASSUME NEW k \in Monitors, k # m
      PROVE  /\ im_pc'[k] = im_pc[k] /\ server_end'[k] = server_end[k]
             /\ client_end'[k] = client_end[k] /\ toServer'[k] = toServer[k]
             /\ toClient'[k] = toClient[k]
  BY <1>1 DEF TypeOK, SocketsTypeOK, IMTypeOK, IMStep, IMSigint, IMStartFails,
     IMInstallHandler, IMConnect, IMConnectFails, IMSendReady, IMRecvMonitor,
     IMSendMonitoring, IMPollUp, IMPollDown, IMRecvCommand, IMSleep, IMLeave, IMSend,
     Goto, Consume, Connect, ClientSend, ClientClose, sockets
<1>2. \A k \in Monitors : LockStep(k)'
  BY <1>1, MonitorOwnStep, OthersKeepStep, LockStepSplit
<1>3. QED
  BY <1>2 DEF LockStepInv, LockStep

\* A connection that the server closes keeps no message for it.
LEMMA CloseKeepsStep ==
  ASSUME TypeOK, NEW S, \A k \in S \cap Monitors : server_end[k] # "none",
         CloseServerEnds(S), UNCHANGED <<client_end, im_pc>>,
         \A k \in Monitors \ S : toClient'[k] = toClient[k],
         NEW m \in Monitors, LockStep(m)
  PROVE  LockStep(m)'
<1>1. CASE m \in S
  BY <1>1 DEF CloseServerEnds, LockStep, ServerAlive
<1>2. CASE m \notin S
  BY <1>2, OthersKeepStep DEF CloseServerEnds, TypeOK, SocketsTypeOK
<1>3. QED
  BY <1>1, <1>2

LEMMA ExitKeepsStep ==
  ASSUME TypeOK, CloseListener \/ ServerExit, UNCHANGED im_pc,
         NEW m \in Monitors, LockStep(m)
  PROVE  LockStep(m)'
BY CloseKeepsStep DEF CloseListener, ServerExit, ServerAlive

\* What the server reads as one of the two requests is no other message.
LEMMA RequestsDiffer ==
  /\ <<"Ready">> # <<>> /\ <<"Ready">> # <<"Monitoring">>
  /\ <<"Ready">> # <<"Link Down">> /\ <<"Ready">> # <<"Done">>
  /\ <<"Ready">> # <<"Monitoring", "Link Down">> /\ <<"Ready">> # <<"Monitoring", "Done">>
  /\ <<"Link Down">> # <<>> /\ <<"Link Down">> # <<"Monitoring">>
  /\ <<"Link Down">> # <<"Done">> /\ <<"Link Down">> # <<"Monitoring", "Done">>
<1>1. \A x, y : <<x>> = <<y>> => x = y
  OBVIOUS
<1>2. \A x, y, z : <<x>> # <<>> /\ <<x>> # <<y, z>>
  OBVIOUS
<1>3. QED
  BY <1>1, <1>2

\* The answer of handle_client_message goes to a monitor that waits for it.
LEMMA ReplyStep ==
  ASSUME TypeOK, TableInv, LockStepInv, NMReply, UNCHANGED imVars
  PROVE  /\ client_end[fd] = "open" /\ im_pc[fd] \in {"waitMonitor", "waitCmd"}
         /\ LockStepInv'
<1> USE DEF TypeOK, SocketsTypeOK, NMTypeOK
<1>1. /\ fd \in Monitors /\ ServerAlive(fd) /\ LockStep(fd)
      /\ toServer[fd] \in {<<"Ready">>, <<"Link Down">>}
  BY LockStepSplit DEF NMReply, TableInv, VisitsOpen, ServerAlive
<1>2. /\ client_end[fd] = "open" /\ toClient[fd] = <<>>
      /\ \/ toServer[fd] = <<"Ready">> /\ At(fd, "waitMonitor")
         \/ toServer[fd] = <<"Link Down">> /\ At(fd, "waitCmd")
  BY <1>1, RequestsDiffer DEF LockStep, UnderWay, Dead, At
<1>3. /\ toClient' = [toClient EXCEPT ![fd] = @ \o Reply(toServer[fd])]
      /\ toServer' = [toServer EXCEPT ![fd] = <<>>]
      /\ UNCHANGED <<client_end, server_end, im_pc, fd>>
  BY <1>2 DEF NMReply, imVars
<1>4. \/ At(fd, "waitMonitor") /\ Reply(toServer[fd]) = <<"Monitor">>
      \/ At(fd, "waitCmd") /\ Reply(toServer[fd]) = <<"Set Link Up">>
  BY <1>2, RequestsDiffer DEF Reply
<1>5. Reply(toServer[fd]) \in Seq(Commands)
  BY <1>4, Queues
<1>6. toClient'[fd] = Reply(toServer[fd]) /\ toServer'[fd] = <<>>
  <2>1. toClient[fd] \o Reply(toServer[fd]) = Reply(toServer[fd])
    BY <1>2, <1>5, ConcatEmptySeq
  <2>2. toClient'[fd] = toClient[fd] \o Reply(toServer[fd])
    BY <1>1, <1>3
  <2>3. QED
    BY <1>1, <1>3, <2>1, <2>2
<1>7. LockStep(fd)'
  <2>1. UnderWay(fd, <<>>, Reply(toServer[fd]))
    BY <1>4 DEF UnderWay
  <2>2. UnderWay(fd, toServer[fd], toClient[fd])' <=> UnderWay(fd, toServer'[fd], toClient'[fd])
    BY <1>3 DEF UnderWay, At
  <2>3. UnderWay(fd, toServer[fd], toClient[fd])'
    BY <1>6, <2>1, <2>2
  <2>4. QED
    BY <1>1, <1>2, <1>3, <1>6, <2>3 DEF LockStep, ServerAlive, Dead, At
<1>8. ASSUME NEW m \in Monitors, m # fd PROVE LockStep(m)'
  BY <1>3, <1>8, OthersKeepStep, LockStepSplit
<1>9. ASSUME NEW m \in Monitors PROVE LockStep(m)'
  <2>1. CASE m = fd
    BY <1>3, <1>7, <2>1
  <2>2. CASE m # fd
    BY <1>8, <2>2
  <2>3. QED
    BY <2>1, <2>2
<1>10. LockStepInv'
  BY <1>9 DEF LockStepInv, LockStep
<1>11. QED
  BY <1>2, <1>10 DEF At

LEMMA ServerLock ==
  ASSUME TypeOK, TableInv, LockStepInv, NMStep \/ NMSigint \/ NMForkTurn,
         UNCHANGED imVars
  PROVE  LockStepInv'
<1> USE DEF TypeOK, SocketsTypeOK, NMTypeOK
<1> SUFFICES ASSUME NEW m \in Monitors PROVE LockStep(m)'
  BY DEF LockStepInv, LockStep
<1>0. LockStep(m) /\ UNCHANGED im_pc
  BY LockStepSplit DEF imVars
<1>1. CASE \/ NMListen \/ NMSetupFails \/ NMForkTurn \/ NMForkDone \/ NMPrepare
           \/ NMSelect \/ NMSelectFails \/ NMScanDone \/ NMVisit \/ NMLoop
           \/ NMNoAccept
  <2>1. UNCHANGED <<server_end, client_end, toServer, toClient>>
    BY <1>1 DEF NMListen, NMSetupFails, NMForkTurn, NMForkDone, NMPrepare, NMSelect,
                NMSelectFails, NMScanDone, NMVisit, NMLoop, NMNoAccept, sockets
  <2>2. QED
    BY <1>0, <2>1, OthersKeepStep
<1>2. CASE NMAccept
  <2>1. Head(backlog) \in Monitors /\ server_end[Head(backlog)] = "backlog"
    BY <1>2 DEF NMAccept, TableInv, BacklogMatches
  <2>2. CASE m # Head(backlog)
    BY <1>0, <1>2, <2>1, <2>2, OthersKeepStep DEF NMAccept
  <2>3. CASE m = Head(backlog)
    BY <1>0, <1>2, <2>1, <2>3 DEF NMAccept, LockStep, ServerAlive, UnderWay, Dead, At
  <2>4. QED
    BY <2>2, <2>3
<1>3. CASE NMEndOfClient
  <2>1. server_end[fd] = "open"
    BY <1>3 DEF NMEndOfClient, TableInv, VisitsOpen
  <2>2. /\ server_end' = [server_end EXCEPT ![fd] = "closed"]
        /\ toServer' = [toServer EXCEPT ![fd] = <<>>]
        /\ UNCHANGED <<client_end, toClient>>
    BY <1>3 DEF NMEndOfClient, Disconnect
  <2>3. CASE m = fd
    BY <2>1, <2>2, <2>3 DEF LockStep, ServerAlive
  <2>4. CASE m # fd
    BY <1>0, <2>2, <2>4, OthersKeepStep
  <2>5. QED
    BY <2>3, <2>4
<1>4. CASE NMReply
  BY <1>4, ReplyStep DEF LockStepInv, LockStep
<1>5. CASE NMIgnore
  <2>1. /\ nm_pc = "recv" /\ server_end[fd] = "open" /\ toServer[fd] # <<>>
        /\ toServer[fd] \notin {<<"Ready">>, <<"Link Down">>}
        /\ toServer' = [toServer EXCEPT ![fd] = <<>>]
        /\ UNCHANGED <<client_end, server_end, toClient>>
    BY <1>5 DEF NMIgnore, TableInv, VisitsOpen
  <2>2. CASE m = fd
    BY <1>0, <2>1, <2>2 DEF LockStep, ServerAlive, UnderWay, Dead, At
  <2>3. CASE m # fd
    BY <1>0, <2>1, <2>3, OthersKeepStep
  <2>4. QED
    BY <2>2, <2>3
<1>6. CASE NMShutDownClient
  <2>1. PICK k \in todo :
          \/ Killed
          \/ /\ toClient' = [toClient EXCEPT ![k] = Append(@, "Shut Down")]
             /\ CloseServerEnds({k})
             /\ UNCHANGED client_end
    BY <1>6 DEF NMShutDownClient
  <2>2. server_end[k] = "open"
    BY <1>6 DEF NMShutDownClient, TableInv, VisitsOpen
  <2>3. CASE Killed
    BY <1>0, <2>3, ExitKeepsStep DEF Killed
  <2>4. CASE ~Killed
    BY <1>0, <2>1, <2>2, <2>4, CloseKeepsStep
  <2>5. QED
    BY <2>3, <2>4
<1>7. CASE NMExit \/ NMSigint
  BY <1>0, <1>7, ExitKeepsStep DEF NMExit, NMSigint
<1>8. QED
  BY <1>1, <1>2, <1>3, <1>4, <1>5, <1>6, <1>7 DEF NMStep

\* A process that fork() starts has no connection yet.
LEMMA ForkLock ==
  ASSUME TypeOK, TableInv, LockStepInv, NMFork
  PROVE  LockStepInv'
<1> SUFFICES ASSUME NEW m \in Monitors PROVE LockStep(m)'
  BY DEF LockStepInv, LockStep
<1>1. LockStep(m) /\ UNCHANGED <<server_end, client_end, toServer, toClient>>
  BY LockStepSplit DEF NMFork, NMForkTurn, sockets
<1>2. CASE UNCHANGED im_pc
  BY <1>1, <1>2, OthersKeepStep
<1>3. CASE IMFork(forked + 1) /\ m # forked + 1
  BY <1>1, <1>3, OthersKeepStep DEF IMFork, Goto, TypeOK, IMTypeOK
<1>4. CASE IMFork(forked + 1) /\ m = forked + 1
  <2>1. server_end[m] = "none" /\ im_pc'[m] = "starting"
    BY <1>4 DEF TableInv, Unconnected, IMFork, At, Goto, TypeOK, IMTypeOK
  <2>2. QED
    BY <1>1, <2>1 DEF LockStep, ServerAlive
<1>5. QED
  BY <1>2, <1>3, <1>4 DEF NMFork, imVars

LEMMA LockInit == Init => LockStepInv
BY DEF Init, SocketsInit, IMInit, LockStepInv, ServerAlive

LEMMA LockNext == TypeOK /\ TableInv /\ LockStepInv /\ [Next]_vars => LockStepInv'
<1> SUFFICES ASSUME TypeOK, TableInv, LockStepInv, [Next]_vars PROVE LockStepInv'
  OBVIOUS
<1>1. CASE (NMStep \/ NMSigint) /\ UNCHANGED imVars
  BY <1>1, ServerLock
<1>2. CASE NMFork
  BY <1>2, ForkLock
<1>3. ASSUME NEW m \in Monitors, Monitor(m) PROVE LockStepInv'
  BY <1>3, MonitorLock DEF Monitor
<1>4. ASSUME NEW m \in Interruptible \ {MASTER}, IMSigint(m) PROVE LockStepInv'
  BY <1>4, MonitorLock, LinkMonitoringAssumption
<1>5. CASE UNCHANGED vars
  BY <1>5, OthersKeepStep, LockStepSplit
  DEF vars, sockets, imVars, LockStepInv, LockStep
<1>6. QED
  BY <1>1, <1>2, <1>3, <1>4, <1>5 DEF Next, Server, Sigint

\* Every connection stays in lock step: what is under way on it is determined
\* by the system call its monitor is at.
THEOREM LockStepHolds == Spec => []LockStepInv
<1>1. QED
  BY TypeCorrect, ConnectionTable, LockInit, LockNext, PTL DEF Spec

\* The select loop is never ended by SIGPIPE: only the "Shut Down" of
\* cleanup_sockets can meet a monitor that has gone.
THEOREM SigpipeOnlyInCleanup == Spec => DiesOnlyInCleanup
<1>1. TypeOK /\ TableInv /\ LockStepInv /\ [Next]_vars
        => [nm_pc' = "killed" => nm_pc \in {"cleanup", "killed"}]_vars
  <2> SUFFICES ASSUME TypeOK, TableInv, LockStepInv, Next, nm_pc' = "killed"
               PROVE  nm_pc \in {"cleanup", "killed"}
    OBVIOUS
  <2>1. CASE NMReply /\ UNCHANGED imVars
    BY <2>1, ReplyStep DEF NMReply
  <2>2. CASE NMSigint \/ NMFork \/ UNCHANGED nmVars
    BY <2>2 DEF NMSigint, NMFork, NMForkTurn, nmVars
  <2>3. CASE NMStep /\ ~NMReply
    BY <2>3 DEF NMStep, NMListen, NMSetupFails, NMForkDone, NMPrepare, NMSelect,
       NMSelectFails, NMScanDone, NMVisit, NMLoop, NMNoAccept, NMAccept,
       NMEndOfClient, Disconnect, NMIgnore, NMShutDownClient, NMExit
  <2>4. QED
    BY <2>1, <2>2, <2>3 DEF Next, Server, Monitor, Sigint
<1>2. QED
  BY <1>1, TypeCorrect, ConnectionTable, LockStepHolds, PTL DEF Spec, DiesOnlyInCleanup

\* The server that runs disconnects a monitor only when it has read "Done" or
\* met the end of the connection, and then the monitor's process has ended
\* (networkMonitor.cpp:106-138).
THEOREM LiveMonitorsAreKept == Spec => LiveMonitorKept
<1> DEFINE Kept == \A m \in Monitors :
                     client_end[m] = "open" /\ m \in Connected /\ m \notin Connected'
                       => nm_pc = "cleanup"
<1>1. TypeOK /\ TableInv /\ LockStepInv /\ [Next]_vars => [Kept]_vars
  <2> SUFFICES ASSUME TypeOK, TableInv, LockStepInv, Next,
                      NEW m \in Monitors, client_end[m] = "open",
                      m \in Connected, m \notin Connected'
               PROVE  nm_pc = "cleanup"
    OBVIOUS
  <2>1. CASE NMEndOfClient
    <3>1. m = fd
      BY <2>1 DEF NMEndOfClient, Disconnect, Connected, TypeOK, NMTypeOK
    <3>2. server_end[m] = "open" /\ toServer[m] \in {<<>>, <<"Done">>} /\ toServer[m] # <<>>
      BY <2>1, <3>1 DEF NMEndOfClient, ServerReadable, TableInv, VisitsOpen
    <3>3. UnderWay(m, <<"Done">>, toClient[m]) /\ ~Dead(m)
      BY <3>2 DEF LockStepInv, ServerAlive
    <3>4. At(m, "exited")
      BY <3>3 DEF UnderWay
    <3>5. QED
      BY <3>3, <3>4 DEF At, Dead
  <2>2. CASE NMExit
    BY <2>2 DEF NMExit
  <2>3. CASE NMAccept
    <3>1. Head(backlog) # m
      BY <2>3, HeadTailProperties
         DEF NMAccept, TableInv, BacklogMatches, OpenIffMapped, TypeOK, SocketsTypeOK
    <3>2. client_fds'[m] = client_fds[m]
      BY <2>3, <3>1 DEF NMAccept, TypeOK, NMTypeOK
    <3>3. QED
      BY <3>2 DEF Connected
  <2>4. CASE client_fds' = client_fds
    BY <2>4 DEF Connected
  <2>5. QED
    BY <2>1, <2>2, <2>3, <2>4
       DEF Next, Server, Monitor, Sigint, NMFork, NMForkTurn, NMSigint, nmVars, NMStep,
       NMListen, NMSetupFails, NMForkDone, NMPrepare, NMSelect, NMSelectFails, NMScanDone,
       NMVisit, NMLoop, NMNoAccept, NMReply, NMIgnore, NMShutDownClient
<1>2. QED
  BY <1>1, TypeCorrect, ConnectionTable, LockStepHolds, PTL DEF Spec, LiveMonitorKept

-----------------------------------------------------------------------------
(* Blocking calls.                                                         *)

LEMMA AppendNotEmpty ==
  ASSUME NEW S, NEW s \in Seq(S), NEW x \in S
  PROVE  Append(s, x) # <<>>
<1>1. Len(Append(s, x)) = Len(s) + 1 /\ Len(s) \in Nat /\ Len(<<>>) = 0
  OBVIOUS
<1>2. QED
  BY <1>1

\* Nothing that a monitor does leaves the server without what it could read of
\* an accepted connection: messages are only added, and an end stays closed.
LEMMA ReadableStays ==
  ASSUME TypeOK, TableInv, NEW m \in Monitors, IMStep(m) \/ IMSigint(m),
         NEW k \in Monitors, server_end[k] = "open", ServerReadable(k)
  PROVE  ServerReadable(k)'
<1>0. /\ <<>> \in Seq(Reports) /\ <<"Done">> \in Seq(Reports)
      /\ "Ready" \in Reports /\ "Monitoring" \in Reports /\ "Link Down" \in Reports
  BY DEF Reports
<1> USE DEF ServerReadable, TypeOK, SocketsTypeOK
<1>1. CASE IMConnect(m)
  <2>1. k # m
    BY <1>1 DEF IMConnect, At, TableInv, Unconnected
  <2>2. QED
    BY <1>1, <2>1 DEF IMConnect, Connect
<1>2. ASSUME NEW last \in Seq(Reports), ClientClose(m, last)
      PROVE  ServerReadable(k)'
  <2>1. k # m => toServer'[k] = toServer[k] /\ client_end'[k] = client_end[k]
    BY <1>2 DEF ClientClose
  <2>2. client_end'[m] = "closed"
    BY <1>2 DEF ClientClose
  <2>3. QED
    BY <2>1, <2>2
<1>3. ASSUME NEW msg \in Reports, ClientSend(m, msg)
      PROVE  ServerReadable(k)'
  <2>1. Append(toServer[m], msg) # <<>>
    BY AppendNotEmpty
  <2>2. client_end' = client_end
    BY <1>3 DEF ClientSend
  <2>3. toServer'[k] = IF k = m THEN Append(toServer[m], msg) ELSE toServer[k]
    BY <1>3 DEF ClientSend
  <2>4. QED
    BY <2>1, <2>2, <2>3
<1>4. CASE IMSendReady(m) \/ IMSendMonitoring(m) \/ IMPollDown(m) \/ IMLeave(m)
  BY <1>0, <1>2, <1>3, <1>4
  DEF IMSendReady, IMSendMonitoring, IMPollDown, IMLeave, IMSend
<1>5. CASE UNCHANGED <<toServer, client_end>>
  BY <1>5
<1>6. QED
  BY <1>1, <1>4, <1>5
  DEF IMStep, IMSigint, IMStartFails, IMInstallHandler, IMConnectFails, IMPollUp,
      IMSleep, IMRecvMonitor, IMRecvCommand, sockets

\* No step of a monitor takes anything from what select() reported.
LEMMA MonitorReady ==
  ASSUME TypeOK, TableInv, ReadyStays, NEW m \in Monitors, IMStep(m) \/ IMSigint(m),
         UNCHANGED nmVars
  PROVE  ReadyStays'
<1>1. UNCHANGED <<nm_pc, running, client_fds, read_fds, todo, fd>>
  BY DEF nmVars
<1>2. Connected' = Connected
  BY <1>1 DEF Connected
<1>3. ASSUME NEW k \in Monitors, server_end[k] = "open", ServerReadable(k)
      PROVE  ServerReadable(k)'
  BY <1>3, ReadableStays
<1>4. nm_pc' = "accept" /\ running' => \A k \in (read_fds \ {MASTER})' : ServerReadable(k)'
  BY <1>1, <1>3 DEF ReadyStays, TableInv, OpenIffMapped, Connected
<1>5. nm_pc' \in {"scan", "recv"} /\ running' => \A k \in todo' : ServerReadable(k)'
  BY <1>1, <1>3 DEF ReadyStays, TableInv, VisitsOpen, TypeOK, NMTypeOK
<1>6. nm_pc' = "recv" /\ running' => ServerReadable(fd)'
  <2>1. ASSUME nm_pc = "recv", running PROVE ServerReadable(fd)'
    <3>1. fd \in Monitors /\ server_end[fd] = "open" /\ ServerReadable(fd)
      BY <2>1 DEF ReadyStays, TableInv, VisitsOpen, TypeOK, NMTypeOK
    <3>2. toServer'[fd] # <<>> \/ client_end'[fd] = "closed"
      BY <1>3, <3>1 DEF ServerReadable
    <3>3. QED
      BY <1>1, <3>2 DEF ServerReadable
  <2>2. QED
    BY <1>1, <2>1
<1>7. QED
  BY <1>1, <1>2, <1>4, <1>5, <1>6 DEF ReadyStays

\* The server visits each descriptor that select() reported once, and reads
\* nowhere else; a connection it accepts meanwhile is none of them.
LEMMA ServerReady ==
  ASSUME TypeOK, TableInv, ReadyStays, NMStep \/ NMSigint
  PROVE  ReadyStays'
<1> USE DEF ReadyStays
<1>1. CASE \/ NMListen \/ NMSetupFails \/ NMForkDone \/ NMLoop \/ NMScanDone
           \/ NMShutDownClient \/ NMExit
  BY <1>1 DEF NMListen, NMSetupFails, NMForkDone, NMLoop, NMScanDone,
              NMShutDownClient, NMExit, Killed
<1>2. CASE NMPrepare \/ NMSelectFails \/ NMSigint
  BY <1>2 DEF NMPrepare, NMSelectFails, NMSigint, Connected
<1>3. CASE NMSelect
  BY <1>3 DEF NMSelect, Ready, Connected, ServerReadable, sockets, TypeOK, NMTypeOK
<1>4. CASE NMNoAccept
  <2>1. MASTER \notin Connected
    BY DEF Connected, Monitors, MASTER
  <2>2. QED
    BY <1>4, <2>1 DEF NMNoAccept, ServerReadable, sockets
<1>5. CASE NMAccept
  <2>1. Head(backlog) \in Monitors /\ server_end[Head(backlog)] = "backlog"
    BY <1>5, HeadTailProperties DEF NMAccept, TableInv, BacklogMatches, TypeOK, SocketsTypeOK
  <2>2. ASSUME running', NEW k \in todo' PROVE ServerReadable(k)'
    <3>1. k \in Monitors /\ k \in read_fds \ {MASTER}
      BY <1>5, <2>2 DEF NMAccept, Monitors, MASTER
    <3>2. server_end[k] = "open" /\ ServerReadable(k)
      BY <1>5, <2>2, <3>1 DEF NMAccept, TableInv, OpenIffMapped, Connected
    <3>3. toServer'[k] = toServer[k] /\ client_end' = client_end
      BY <1>5, <2>1, <3>1, <3>2 DEF NMAccept, TypeOK, SocketsTypeOK
    <3>4. QED
      BY <3>2, <3>3 DEF ServerReadable
  <2>3. QED
    BY <1>5, <2>2 DEF NMAccept
<1>6. CASE NMVisit
  BY <1>6 DEF NMVisit, ServerReadable, sockets
<1>7. CASE NMEndOfClient \/ NMReply \/ NMIgnore
  <2>1. CASE nm_pc' = "killed"
    BY <2>1
  <2>2. CASE nm_pc' # "killed"
    <3>1. /\ nm_pc = "recv" /\ nm_pc' = "scan" /\ UNCHANGED <<running, todo, client_end>>
          /\ toServer' = [toServer EXCEPT ![fd] = <<>>]
      BY <1>7, <2>2 DEF NMEndOfClient, Disconnect, NMReply, Killed, NMIgnore
    <3>2. \A k \in todo : k \in Monitors /\ k # fd
      BY <3>1 DEF TableInv, VisitsOpen, TypeOK, NMTypeOK
    <3>3. \A k \in todo : toServer'[k] = toServer[k]
      BY <3>1, <3>2 DEF TypeOK, SocketsTypeOK
    <3>4. QED
      BY <3>1, <3>3 DEF ServerReadable
  <2>3. QED
    BY <2>1, <2>2
<1>8. QED
  BY <1>1, <1>2, <1>3, <1>4, <1>5, <1>6, <1>7 DEF NMStep

\* A connection comes into being at connect() only, with both its ends, while
\* the server listens; close() is the only way back.
LEMMA MonitorEnds ==
  ASSUME TypeOK, EndsInv, NEW m \in Monitors, IMStep(m) \/ IMSigint(m), UNCHANGED nmVars
  PROVE  EndsInv'
<1> USE DEF EndsInv, ServerAlive, TypeOK, SocketsTypeOK, nmVars
<1>1. CASE IMConnect(m)
  BY <1>1 DEF IMConnect, Connect
<1>2. CASE ~IMConnect(m)
  <2>1. UNCHANGED <<server_end, listening>>
    BY <1>2, MonitorFrame
  <2>2. \A k \in Monitors : client_end'[k] \in {client_end[k], "closed"}
    BY <1>2
    DEF IMStep, IMSigint, IMStartFails, IMInstallHandler, IMConnectFails, IMPollUp,
        IMSleep, IMRecvMonitor, IMRecvCommand, IMSendReady, IMSendMonitoring,
        IMPollDown, IMLeave, IMSend, ClientSend, ClientClose, sockets
  <2>3. QED
    BY <2>1, <2>2
<1>3. QED
  BY <1>1, <1>2

LEMMA ServerEnds ==
  ASSUME TypeOK, TableInv, EndsInv, NMStep \/ NMSigint
  PROVE  EndsInv'
<1> USE DEF ServerAlive, TypeOK, SocketsTypeOK
<1>1. client_end' = client_end
  BY DEF NMStep, NMListen, NMSetupFails, NMForkDone, NMLoop, NMPrepare, NMSelect,
     NMSelectFails, NMNoAccept, NMAccept, NMVisit, NMScanDone, NMEndOfClient,
     Disconnect, NMReply, Killed, NMIgnore, NMShutDownClient, NMExit, NMSigint,
     ServerExit, CloseListener, sockets
<1>2. CASE \/ NMListen \/ NMSetupFails \/ NMForkDone \/ NMLoop \/ NMPrepare \/ NMSelect
           \/ NMSelectFails \/ NMNoAccept \/ NMVisit \/ NMScanDone \/ NMIgnore
  <2>1. /\ server_end' = server_end
        /\ nm_pc' \in {"setup", "exited", "killed"} =>
             nm_pc = "setup" /\ listening' = listening
    BY <1>2
    DEF NMListen, NMSetupFails, NMForkDone, NMLoop, NMPrepare, NMSelect,
        NMSelectFails, NMNoAccept, NMVisit, NMScanDone, NMIgnore, sockets
  <2>2. QED
    BY <1>1, <2>1 DEF EndsInv
<1>3. CASE NMAccept
  <2>1. Head(backlog) \in Monitors /\ server_end[Head(backlog)] = "backlog"
    BY <1>3, HeadTailProperties DEF NMAccept, TableInv, BacklogMatches
  <2>2. \A m \in Monitors : ServerAlive(m)' => ServerAlive(m)
    BY <1>3, <2>1 DEF NMAccept
  <2>3. nm_pc' = "scan"
    BY <1>3 DEF NMAccept
  <2>4. QED
    BY <1>1, <2>2, <2>3 DEF EndsInv
<1>4. CASE NMEndOfClient
  BY <1>4 DEF EndsInv, NMEndOfClient, Disconnect, NMTypeOK
<1>5. ASSUME ServerExit PROVE EndsInv'
  BY <1>1, <1>5 DEF EndsInv, ServerExit, CloseServerEnds
<1>6. CASE NMReply
  BY <1>1, <1>5, <1>6 DEF NMReply, Killed, EndsInv
<1>7. CASE NMShutDownClient
  BY <1>1, <1>5, <1>7 DEF NMShutDownClient, Killed, EndsInv, CloseServerEnds
<1>8. CASE NMExit
  BY <1>5, <1>8 DEF NMExit
<1>9. CASE NMSigint
  BY <1>1, <1>9 DEF NMSigint, CloseListener, CloseServerEnds, EndsInv, NMDead
<1>10. QED
  BY <1>2, <1>3, <1>4, <1>6, <1>7, <1>8, <1>9 DEF NMStep

LEMMA BlockedInit == Init => ReadyStays /\ EndsInv
BY DEF Init, SocketsInit, NMInit, ReadyStays, EndsInv, ServerAlive

LEMMA BlockedNext ==
  TypeOK /\ TableInv /\ ReadyStays /\ EndsInv /\ [Next]_vars => ReadyStays' /\ EndsInv'
<1> SUFFICES ASSUME TypeOK, TableInv, ReadyStays, EndsInv, [Next]_vars
             PROVE  ReadyStays' /\ EndsInv'
  OBVIOUS
<1>1. CASE (NMStep \/ NMSigint) /\ UNCHANGED imVars
  BY <1>1, ServerReady, ServerEnds
<1>2. CASE NMFork
  <2>1. /\ nm_pc = "fork" /\ UNCHANGED <<nm_pc, listening, client_end, server_end>>
    BY <1>2 DEF NMFork, NMForkTurn, sockets
  <2>2. QED
    BY <2>1 DEF ReadyStays, EndsInv, ServerAlive
<1>3. ASSUME NEW m \in Monitors, Monitor(m) PROVE ReadyStays' /\ EndsInv'
  BY <1>3, MonitorReady, MonitorEnds DEF Monitor
<1>4. ASSUME NEW m \in Interruptible \ {MASTER}, IMSigint(m), UNCHANGED nmVars
      PROVE  ReadyStays' /\ EndsInv'
  BY <1>4, MonitorReady, MonitorEnds, LinkMonitoringAssumption
<1>5. CASE UNCHANGED vars
  BY <1>5 DEF vars, sockets, nmVars, ReadyStays, EndsInv, ServerReadable, ServerAlive,
              Connected
<1>6. QED
  BY <1>1, <1>2, <1>3, <1>4, <1>5 DEF Next, Server, Sigint

\* What is known of the connections at each call is what makes the call return.
LEMMA CallsReturn ==
  TypeOK /\ TableInv /\ LockStepInv /\ ReadyStays /\ EndsInv => BlockedCallsReturn
<1> SUFFICES ASSUME TypeOK, TableInv, LockStepInv, ReadyStays, EndsInv
             PROVE  BlockedCallsReturn
  OBVIOUS
<1>1. ASSUME nm_pc = "recv", running \/ Dead(fd) PROVE ServerReadable(fd)
  <2>1. fd \in Monitors /\ server_end[fd] = "open"
    BY <1>1 DEF TypeOK, NMTypeOK, TableInv, VisitsOpen
  <2>2. client_end[fd] # "none" /\ client_end[fd] \in {"none", "open", "closed"}
    BY <2>1 DEF EndsInv, ServerAlive, TypeOK, SocketsTypeOK
  <2>3. Dead(fd) => client_end[fd] # "open"
    BY <2>1 DEF LockStepInv, ServerAlive
  <2>4. QED
    BY <1>1, <2>2, <2>3 DEF ReadyStays, ServerReadable
<1>2. ASSUME NEW m \in Monitors, im_pc[m] \in {"waitMonitor", "waitCmd"}
      PROVE  ServerAlive(m) \/ ClientReadable(m)
  BY <1>2 DEF LockStepInv, ServerAlive, ClientReadable, TypeOK, SocketsTypeOK
<1>3. ASSUME NEW m \in Monitors, At(m, "waitMonitor"), ServerAlive(m)
      PROVE  ClientReadable(m) \/ toServer[m] = <<"Ready">>
  <2>1. UnderWay(m, toServer[m], toClient[m])
    BY <1>3 DEF LockStepInv
  <2>2. QED
    BY <1>3, <2>1 DEF UnderWay, At, ClientReadable
<1>4. NMDead => ~listening /\ \A m \in Monitors : ~ServerAlive(m)
  BY DEF EndsInv, NMDead
<1>5. AcceptNeverBlocks
  BY DEF TableInv
<1>6. QED
  BY <1>1, <1>2, <1>3, <1>4, <1>5 DEF BlockedCallsReturn, At

\* No call of Assignment2 blocks for want of what only a process that has
\* ended, or one that is not asked to, could send.
THEOREM BlockedCallsDoReturn == Spec => []BlockedCallsReturn
<1>1. QED
  BY TypeCorrect, ConnectionTable, LockStepHolds, BlockedInit, BlockedNext, CallsReturn,
     PTL DEF Spec
=============================================================================
