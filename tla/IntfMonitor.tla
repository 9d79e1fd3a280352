---------------------------- MODULE IntfMonitor ----------------------------
(***************************************************************************)
(* Assignment2/intfMonitor.cpp: one process per network interface.  It     *)
(* connects to networkMonitor, says "Ready", waits for "Monitor", then     *)
(* polls its interface every second; when the interface is down it reports *)
(* "Link Down" and blocks until it is told what to do.                     *)
(*                                                                         *)
(* im_pc[m] names the system call the process is about to make:            *)
(*   off            not forked yet                                         *)
(*   starting       forked, SIGINT handler not installed yet               *)
(*   connect, sendReady, waitMonitor, sendMonitoring   the handshake       *)
(*   loop, waitCmd, sleep                              the polling loop    *)
(*   exited, killed                                    the two ends        *)
(* What the interface's operstate file says at a poll is the environment's *)
(* choice.  signal() installs its handlers with SA_RESTART, so SIGINT      *)
(* never makes connect() or recv() return; it only interrupts sleep().     *)
(***************************************************************************)
EXTENDS UnixStream

VARIABLES im_pc, im_running

imVars == <<im_pc, im_running>>

IMStates == {"off", "starting", "connect", "sendReady", "waitMonitor",
             "sendMonitoring", "loop", "waitCmd", "sleep", "exited", "killed"}

IMTypeOK == /\ im_pc \in [Monitors -> IMStates]
            /\ im_running \in [Monitors -> BOOLEAN]

IMInit == /\ im_pc = [m \in Monitors |-> "off"]
          /\ im_running = [m \in Monitors |-> TRUE]

At(m, pc)   == im_pc[m] = pc
Goto(m, pc) == im_pc' = [im_pc EXCEPT ![m] = pc]
Stop(m)     == im_running' = [im_running EXCEPT ![m] = FALSE]
Consume(m)  == toClient' = [toClient EXCEPT ![m] = <<>>]

Dead(m) == im_pc[m] \in {"exited", "killed"}

-----------------------------------------------------------------------------
\* fork() in networkMonitor created the process.
IMFork(m) == At(m, "off") /\ Goto(m, "starting") /\ UNCHANGED im_running

\* execve(), or socket() in the new program, fails: the process ends.
IMStartFails(m) ==
  At(m, "starting") /\ Goto(m, "exited") /\ UNCHANGED <<im_running, sockets>>

IMInstallHandler(m) ==
  At(m, "starting") /\ Goto(m, "connect") /\ UNCHANGED <<im_running, sockets>>

IMConnect(m) ==
  At(m, "connect") /\ Connect(m) /\ Goto(m, "sendReady") /\ UNCHANGED im_running

IMConnectFails(m) ==
  /\ At(m, "connect") /\ ~listening
  /\ Goto(m, "exited") /\ UNCHANGED <<im_running, sockets>>

\* send_message: writing to a connection the server closed raises SIGPIPE,
\* whose default action ends the process.
IMSend(m, msg, next) ==
  /\ UNCHANGED im_running
  /\ \/ ClientSend(m, msg) /\ Goto(m, next)
     \/ ~ServerAlive(m) /\ ClientClose(m, <<>>) /\ Goto(m, "killed")

IMSendReady(m)      == At(m, "sendReady") /\ IMSend(m, "Ready", "waitMonitor")
IMSendMonitoring(m) == At(m, "sendMonitoring") /\ IMSend(m, "Monitoring", "loop")

\* receive_message: the whole queue is one string.  Everything but "Monitor"
\* alone, the empty string of an ended connection included, ends the monitor.
IMRecvMonitor(m) ==
  /\ At(m, "waitMonitor") /\ ClientReadable(m)
  /\ Consume(m)
  /\ reset' = [reset EXCEPT ![m] = @ /\ toClient[m] # <<>>]
  /\ \/ /\ toClient[m] = <<"Monitor">>
        /\ Goto(m, "sendMonitoring") /\ UNCHANGED im_running
     \/ /\ toClient[m] # <<"Monitor">>
        /\ Goto(m, "loop") /\ Stop(m)
  /\ UNCHANGED <<listening, backlog, client_end, server_end, toServer>>

\* One turn of the loop with the interface not "down": only print.
IMPollUp(m) ==
  /\ At(m, "loop") /\ im_running[m]
  /\ Goto(m, "sleep") /\ UNCHANGED <<im_running, sockets>>

\* A fault: the monitor does not wait for the answer to "Link Down".
FaultyPollDown(m) ==
  At(m, "loop") /\ im_running[m] /\ IMSend(m, "Link Down", "sleep")

IMPollDown(m) ==
  At(m, "loop") /\ im_running[m] /\ IMSend(m, "Link Down", "waitCmd")

\* A fault: an end of file is not noticed, the monitor asks again.
FaultyRecvCommand(m) ==
  /\ At(m, "waitCmd") /\ toClient[m] # <<>>
  /\ Consume(m)
  /\ Goto(m, "sleep")
  /\ IF toClient[m] = <<"Shut Down">> THEN Stop(m) ELSE UNCHANGED im_running
  /\ UNCHANGED <<listening, backlog, client_end, server_end, toServer, reset>>

\* The answer to "Link Down".  "Set Link Up" runs the ioctl, whose effect the
\* next poll reads; "Shut Down" and an end of file stop the loop; any other
\* text, and ECONNRESET (an empty string), change nothing.
IMRecvCommand(m) ==
  /\ At(m, "waitCmd") /\ ClientReadable(m)
  /\ Consume(m)
  /\ Goto(m, "sleep")
  /\ reset' = [reset EXCEPT ![m] = @ /\ toClient[m] # <<>>]
  /\ IF \/ toClient[m] = <<"Shut Down">>
        \/ toClient[m] = <<>> /\ ~reset[m]
       THEN Stop(m) ELSE UNCHANGED im_running
  /\ UNCHANGED <<listening, backlog, client_end, server_end, toServer>>

IMSleep(m) ==
  At(m, "sleep") /\ Goto(m, "loop") /\ UNCHANGED <<im_running, sockets>>

\* The loop is left: send "Done" and close, or die of SIGPIPE.
IMLeave(m) ==
  /\ At(m, "loop") /\ ~im_running[m] /\ UNCHANGED im_running
  /\ \/ ServerAlive(m) /\ ClientClose(m, <<"Done">>) /\ Goto(m, "exited")
     \/ ~ServerAlive(m) /\ ClientClose(m, <<>>) /\ Goto(m, "killed")

\* SIGINT: before the handler is installed it kills the process, later it
\* clears running.
IMSigint(m) ==
  \/ At(m, "starting") /\ Goto(m, "killed") /\ UNCHANGED <<im_running, sockets>>
  \/ /\ im_pc[m] \notin {"off", "starting", "exited", "killed"}
     /\ Stop(m) /\ UNCHANGED <<im_pc, sockets>>

IMStep(m) ==
  \/ IMStartFails(m) \/ IMInstallHandler(m)
  \/ IMConnect(m) \/ IMConnectFails(m)
  \/ IMSendReady(m) \/ IMRecvMonitor(m) \/ IMSendMonitoring(m)
  \/ IMPollUp(m) \/ IMPollDown(m) \/ IMRecvCommand(m) \/ IMSleep(m)
  \/ IMLeave(m)
=============================================================================
