------------------------------ MODULE ChatClient ------------------------------
(***************************************************************************)
(* Lab9/client.cpp: the main thread connects, starts the receive thread,   *)
(* sets is_running and writes a text every second; the receive thread      *)
(* clears is_running when it reads "Quit".  is_running is false before.    *)
(*                                                                         *)
(* cl_main[c]: connect, create, flag, loop, write, exited, killed          *)
(* cl_thread[c]: none, test, read, exited                                  *)
(***************************************************************************)
EXTENDS TcpStream

CONSTANTS Creating,    \* clients whose pthread_create may succeed
          MAX_WRITES   \* MAX_WRITES[c]: bound on the texts of c that reach the server

VARIABLES cl_main, cl_running, cl_thread, written

clVars == <<cl_main, cl_running, cl_thread, written>>

CLTypeOK ==
  /\ cl_main \in [Clients -> {"connect", "create", "flag", "loop", "write", "exited",
                              "killed"}]
  /\ cl_running \in [Clients -> BOOLEAN]
  /\ cl_thread \in [Clients -> {"none", "test", "read", "exited"}]
  /\ written \in [Clients -> Nat]

CLInit ==
  /\ cl_main = [c \in Clients |-> "connect"]
  /\ cl_running = [c \in Clients |-> FALSE]
  /\ cl_thread = [c \in Clients |-> "none"] /\ written = [c \in Clients |-> 0]

CLEnded(c) == cl_main[c] \in {"exited", "killed"}

CLGoto(c, from, to) == cl_main[c] = from /\ cl_main' = [cl_main EXCEPT ![c] = to]

\* The process ends, its receive thread and its end of the connection with it.
EndClient(c, how) ==
  /\ cl_main' = [cl_main EXCEPT ![c] = how]
  /\ cl_thread' = [cl_thread EXCEPT ![c] = "exited"]
  /\ TcpClientClose(c)
  /\ UNCHANGED <<cl_running, written>>

-----------------------------------------------------------------------------
CLConnect(c) ==
  /\ cl_main[c] = "connect"
  /\ IF listening
       THEN /\ CLGoto(c, "connect", "create") /\ TcpConnect(c)
            /\ UNCHANGED <<cl_running, cl_thread, written>>
       ELSE EndClient(c, "exited")

\* pthread_create, which may fail.
CLCreate(c) ==
  /\ cl_main[c] = "create"
  /\ \/ /\ c \in Creating /\ CLGoto(c, "create", "flag")
        /\ cl_thread' = [cl_thread EXCEPT ![c] = "test"]
        /\ UNCHANGED <<tcp, cl_running, written>>
     \/ EndClient(c, "exited")

\* is_running=true, after the thread was created.
CLSetRunning(c) ==
  /\ CLGoto(c, "flag", "loop")
  /\ cl_running' = [cl_running EXCEPT ![c] = TRUE]
  /\ UNCHANGED <<tcp, cl_thread, written>>

CLLoop(c) ==
  /\ cl_main[c] = "loop"
  /\ IF cl_running[c]
       THEN CLGoto(c, "loop", "write") /\ UNCHANGED <<tcp, cl_running, cl_thread, written>>
       ELSE EndClient(c, "exited")

\* A fault: SIGPIPE is ignored, write() only reports the error.
FaultyCLWrite(c) ==
  /\ CLGoto(c, "write", "loop")
  /\ IF ServerHolds(c) /\ written[c] = MAX_WRITES[c] THEN UNCHANGED <<tcp, written>>
     ELSE /\ TcpClientWrite(c, written[c] + 1)
          /\ written' = IF ServerHolds(c) THEN [written EXCEPT ![c] = @ + 1] ELSE written
  /\ UNCHANGED <<cl_running, cl_thread>>

\* write(fd, buf, len): an error is printed, SIGPIPE ends the process.
CLWrite(c) ==
  /\ cl_main[c] = "write"
  /\ IF client_reset[c] = "pipe" THEN EndClient(c, "killed")
     ELSE /\ CLGoto(c, "write", "loop")
          /\ IF ServerHolds(c) /\ written[c] = MAX_WRITES[c] THEN UNCHANGED <<tcp, written>>
             ELSE /\ TcpClientWrite(c, written[c] + 1)
                  /\ written' = IF ServerHolds(c) THEN [written EXCEPT ![c] = @ + 1]
                                ELSE written
          /\ UNCHANGED <<cl_running, cl_thread>>

\* recv_func tests is_running, which may still be false.
CLTest(c) ==
  /\ cl_thread[c] = "test"
  /\ cl_thread' = [cl_thread EXCEPT ![c] = IF cl_running[c] THEN "read" ELSE "exited"]
  /\ UNCHANGED <<tcp, cl_main, cl_running, written>>

\* read() returns "Quit", which strcmp may not recognise: no byte after the four
\* is set, and buf is not initialised.  Or it returns 0 or an error once the
\* server has gone, after which the thread reads on.
CLRead(c) ==
  /\ cl_thread[c] = "read" /\ cl_thread' = [cl_thread EXCEPT ![c] = "test"]
  /\ \/ /\ toClient[c]
        /\ \E quit \in BOOLEAN : cl_running' = [cl_running EXCEPT ![c] = @ /\ ~quit]
        /\ toClient' = [toClient EXCEPT ![c] = FALSE]
        /\ UNCHANGED <<listening, backlog, client_end, server_end, toServer,
                       client_reset, server_reset>>
     \/ ~toClient[c] /\ ~ServerHolds(c) /\ UNCHANGED <<tcp, cl_running>>
  /\ UNCHANGED <<cl_main, written>>

\* stopClient.sh: pkill -9.
CLKill(c) == cl_main[c] \notin {"connect", "exited", "killed"} /\ EndClient(c, "killed")

-----------------------------------------------------------------------------
CLMain(c)   == CLConnect(c) \/ CLCreate(c) \/ CLSetRunning(c) \/ CLLoop(c) \/ CLWrite(c)
CLThread(c) == CLTest(c) \/ CLRead(c)
=============================================================================
