----------------------------- MODULE LogServer ------------------------------
(***************************************************************************)
(* Assignment3/LogServer.cpp.  The main thread offers a menu: set the log  *)
(* level, which is sent to the client and, five seconds later, followed by *)
(* a dump of the log file; dump the file; shut down.  A second thread      *)
(* appends every datagram to the file.                                     *)
(*                                                                         *)
(* menu  : start, menu, send, sleep, enter, join, close, done              *)
(* taker : none, test, receive, write, exit                                *)
(* A log message is [level, number], and the file is kept as the sequence  *)
(* of the messages written.  A dump only prints, so that of the dumps the  *)
(* pauses remain that they impose on the menu.                             *)
(***************************************************************************)
EXTENDS UdpSockets

CONSTANTS MAX_COMMANDS,  \* bound: levels the user sets
          MAX_NUMBER     \* bound: messages that are logged

ASSUME LogServerAssumption == MAX_COMMANDS \in Nat /\ MAX_NUMBER \in Nat

DEBUG == 0
WARNING == 1
ERROR == 2
CRITICAL == 3
Levels == DEBUG..CRITICAL
LogMessages == [level : Levels, number : 1..MAX_NUMBER]

\* The empty buffer.
Blank == [level |-> DEBUG, number |-> 0]

VARIABLES
  menu, taker,
  current_server_log_level, shutdown_flag,
  commands,    \* levels set so far
  buffer,      \* the datagram the receive thread is about to write
  server_log   \* the messages in server_log.txt

server == <<menu, taker, current_server_log_level, shutdown_flag, commands, buffer,
            server_log>>

ServerInit ==
  /\ menu = "start" /\ taker = "none"
  /\ current_server_log_level = DEBUG /\ shutdown_flag = FALSE /\ commands = 0
  /\ buffer = Blank
  /\ server_log = <<>>

-----------------------------------------------------------------------------
(* The main thread.                                                        *)

\* The file is truncated, the port bound, the receive thread started.
StartServer ==
  /\ menu = "start" /\ menu' = "menu"
  /\ Bind("server")
  /\ taker' = "test" /\ server_log' = <<>>
  /\ UNCHANGED <<current_server_log_level, shutdown_flag, commands, buffer>>

\* Choice 1: the server's own filter changes before the client is told.
SetLevel ==
  /\ menu = "menu" /\ menu' = "send"
  /\ commands < MAX_COMMANDS /\ commands' = commands + 1
  /\ \E l \in Levels : current_server_log_level' = l
  /\ UNCHANGED <<sockets, taker, shutdown_flag, buffer, server_log>>

SendCommand ==
  /\ menu = "send" /\ menu' = "sleep"
  /\ SendTo("client", current_server_log_level)
  /\ UNCHANGED <<taker, current_server_log_level, shutdown_flag, commands, buffer,
                 server_log>>

\* The dump after five seconds, of one level.
DumpExact ==
  /\ menu = "sleep" /\ menu' = "enter"
  /\ UNCHANGED <<sockets, taker, current_server_log_level, shutdown_flag, commands,
                 buffer, server_log>>

\* Choice 2, the dump of that level and the higher ones.  Choice 1 without a
\* valid level leads to the same pause.
DumpAll ==
  /\ menu = "menu" /\ menu' = "enter"
  /\ UNCHANGED <<sockets, taker, current_server_log_level, shutdown_flag, commands,
                 buffer, server_log>>

\* "Press ENTER to continue..."
Enter ==
  /\ menu = "enter" /\ menu' = "menu"
  /\ UNCHANGED <<sockets, taker, current_server_log_level, shutdown_flag, commands,
                 buffer, server_log>>

\* Choice 0.
ShutDown ==
  /\ menu = "menu" /\ menu' = "join" /\ shutdown_flag' = TRUE
  /\ UNCHANGED <<sockets, taker, current_server_log_level, commands, buffer,
                 server_log>>

JoinTaker ==
  /\ menu = "join" /\ taker = "exit" /\ menu' = "close"
  /\ UNCHANGED <<sockets, taker, current_server_log_level, shutdown_flag, commands,
                 buffer, server_log>>

CloseServer ==
  /\ menu = "close" /\ menu' = "done" /\ Close("server")
  /\ UNCHANGED <<taker, current_server_log_level, shutdown_flag, commands, buffer,
                 server_log>>

\* std::stoi of a level that is no number: nobody catches the exception.
AbortServer ==
  /\ menu = "menu" /\ menu' = "done" /\ taker' = "exit" /\ Close("server")
  /\ UNCHANGED <<current_server_log_level, shutdown_flag, commands, buffer,
                 server_log>>

-----------------------------------------------------------------------------
(* The receive thread.                                                     *)

\* A fault: the loop does not look at the flag.
FaultyTakerTest ==
  /\ taker = "test" /\ taker' = "receive"
  /\ UNCHANGED <<sockets, menu, current_server_log_level, shutdown_flag, commands,
                 buffer, server_log>>

TakerTest ==
  /\ taker = "test" /\ taker' = IF shutdown_flag THEN "exit" ELSE "receive"
  /\ UNCHANGED <<sockets, menu, current_server_log_level, shutdown_flag, commands,
                 buffer, server_log>>

\* A fault: MSG_PEEK.
FaultyTakerReceive ==
  /\ taker = "receive"
  /\ IF Waiting("server")
     THEN taker' = "write" /\ buffer' = Oldest("server") /\ UNCHANGED sockets
     ELSE taker' = "test" /\ UNCHANGED <<buffer, sockets>>
  /\ UNCHANGED <<menu, current_server_log_level, shutdown_flag, commands, server_log>>

\* recvfrom returns a datagram or, after a second, nothing.
TakerReceive ==
  /\ taker = "receive"
  /\ IF Waiting("server")
     THEN taker' = "write" /\ buffer' = Oldest("server") /\ ReceiveFrom("server")
     ELSE taker' = "test" /\ UNCHANGED <<buffer, sockets>>
  /\ UNCHANGED <<menu, current_server_log_level, shutdown_flag, commands, server_log>>

TakerWrite ==
  /\ taker = "write" /\ taker' = "test"
  /\ server_log' = Append(server_log, buffer) /\ buffer' = Blank
  /\ UNCHANGED <<sockets, menu, current_server_log_level, shutdown_flag, commands>>

-----------------------------------------------------------------------------
TakerStep == TakerTest \/ TakerReceive \/ TakerWrite
\* What the main thread does without waiting for the user.
MenuStep  == StartServer \/ SendCommand \/ DumpExact \/ JoinTaker \/ CloseServer
UserStep  == SetLevel \/ DumpAll \/ Enter \/ ShutDown \/ AbortServer

ServerNext == MenuStep \/ UserStep \/ TakerStep
=============================================================================
